----------------------------- MODULE HeapProofs -----------------------------
(* Theorems about the brk tier of the heap, for every value of the           *)
(* constants of Heap: up to the first fault, what remains true when the tags *)
(* have been damaged, and what the search of brk_alloc visits.               *)
EXTENDS Tier, TLAPS, NaturalsInduction, WellFoundedInduction

-----------------------------------------------------------------------------
(* Lemmas on the operators.                                                 *)

(* ALIGN_UP rounds up to a multiple of the unit.                            *)
LEMMA AlignUpFacts ==
  ASSUME NEW n \in Nat, NEW a \in Nat, a > 0
  PROVE  /\ AlignUp(n, a) \in Nat
         /\ AlignUp(n, a) >= n
         /\ \E q \in Nat : AlignUp(n, a) = q * a
<1> DEFINE x == n + a - 1
           q == x \div a
<1>1. x \in Nat
  OBVIOUS
<1>2. q \in Nat /\ q * a <= x /\ x < q * a + a
  BY <1>1
<1>3. q * a \in Nat
  BY <1>2
<1> QED BY <1>2, <1>3 DEF AlignUp

(* ALIGN_UP(n, ALIGN), the payload part of a block, is even and holds n.    *)
LEMMA AlignUpTwo ==
  ASSUME NEW n \in Nat
  PROVE  /\ AlignUp(n, ALIGN) \in Nat
         /\ AlignUp(n, ALIGN) >= n
         /\ AlignUp(n, ALIGN) % 2 = 0
BY DEF AlignUp, ALIGN

(* ALIGN_UP(n, PAGE), the growth of the heap, is even and holds n.          *)
LEMMA AlignUpPage ==
  ASSUME NEW n \in Nat
  PROVE  /\ AlignUp(n, PAGE) \in Nat
         /\ AlignUp(n, PAGE) >= n
         /\ AlignUp(n, PAGE) % 2 = 0
<1>1. PAGE \in Nat /\ PAGE > 0 /\ PAGE % 2 = 0
  BY HeapAssumption DEF ALIGN
<1>2. AlignUp(n, PAGE) \in Nat /\ AlignUp(n, PAGE) >= n
  BY <1>1, AlignUpFacts
<1>3. PICK q \in Nat : AlignUp(n, PAGE) = q * PAGE
  BY <1>1, AlignUpFacts
<1>4. PICK k \in Nat : PAGE = 2 * k
  <2>1. PAGE = 2 * (PAGE \div 2) /\ PAGE \div 2 \in Nat
    BY <1>1
  <2> QED BY <2>1
<1>5. q * k \in Nat /\ q * PAGE = 2 * (q * k)
  BY <1>4
<1>6. \A m \in Nat : (2 * m) % 2 = 0
  OBVIOUS
<1> QED BY <1>2, <1>3, <1>5, <1>6

(* merge leaves memory alone when both neighbours are in use.               *)
LEMMA MergeNothing ==
  ASSUME NEW m, NEW hi, NEW b, ~m[b].pfree, ~(b + m[b].sz < hi)
  PROVE  Merge(m, hi, b) = m
BY DEF Merge

-----------------------------------------------------------------------------
(* The inductive invariant.                                                 *)

(* The blocks of an undamaged heap.                                         *)
Linked(S) ==
  \A b \in S \cup {heap_hi} : b # heap_lo => \E c \in S : c + mem[c].sz = b

(* A PREV_FREE flag is either off or, on the remainder of a split, wrong.   *)
FlagsAreWrong(S) == \A b \in S : mem[b].pfree => heap_lo < b /\ mem[b - HDR_SZ].alloc

(* The only block of S that may be free is the last of the heap.             *)
OnlyLastFree(S) == \A b \in S : ~mem[b].alloc => b + mem[b].sz = heap_hi

(* a is a whole number of pages above lo.                                    *)
OnPage(lo, a) == \E q \in Nat : a = lo + q * PAGE

(* A block without the flag is one that the heap grew by: it starts a page.  *)
PagesMarked(S) == \A b \in S : ~mem[b].pfree => OnPage(heap_lo, b)

(* The blocks that begin at the members of S are the heap, and they agree    *)
(* with the ledger.                                                          *)
Sound(S) ==
  /\ Tiles(S) /\ TagsAgree(S) /\ LedgerAgrees(S)
  /\ Linked(S) /\ FlagsAreWrong(S) /\ OnlyLastFree(S) /\ PagesMarked(S)

(* The ends of the heap.                                                     *)
HeapBase ==
  /\ heap_lo <= heap_hi /\ heap_lo % 2 = 0 /\ heap_hi % 2 = 0
  /\ HeapBacked /\ OnPage(heap_lo, heap_hi)
  /\ ~heap_ok => heap_lo = heap_hi

(* A running malloc.                                                        *)
CallOK ==
  pc = "walk" => /\ heap_ok /\ dst \in Slots /\ slot[dst] = NULL
                 /\ len \in Sizes /\ need = OVERHEAD + AlignUp(len, ALIGN)

(* The lower end is on a page of its own.                                    *)
LEMMA PageZero == ASSUME NEW lo \in Nat PROVE OnPage(lo, lo)
<1>1. lo = lo + 0 * PAGE
  BY HeapAssumption
<1> QED BY <1>1 DEF OnPage

(* There are such blocks, and the search is at one of them or at the end.    *)
Intact ==
  \E S \in SUBSET Addr : Sound(S) /\ (pc = "walk" => cur \in S \cup {heap_hi})

(* There are such blocks and none of them is free.                           *)
AllHeld == \E S \in SUBSET Addr : Sound(S) /\ \A b \in S : mem[b].alloc

(* The inductive invariant.                                                  *)
IInv == TypeOK /\ HeapBase /\ CallOK /\ LiveDisjoint /\ (faults = {} => Intact)

(* Before the first call the heap is empty and sound.                       *)
LEMMA InitIInv == Init => IInv
<1> SUFFICES ASSUME Init PROVE IInv
  OBVIOUS
<1>1. TypeOK
  <2>1. mem \in [Addr -> Word]
    BY DEF Init, Word, Zero, Tag
  <2>2. slot \in [Slots -> [ptr : Nat, len : Nat]]
    BY DEF Init, NULL
  <2>3. brk \in Nat
    BY DEF Init, ALIGN
  <2>4. faults \subseteq FaultKinds
    BY DEF Init
  <2> QED BY <2>1, <2>2, <2>3, <2>4 DEF Init, TypeOK
<1>2. HeapBase /\ CallOK
  BY PageZero DEF Init, HeapBase, HeapBacked, CallOK
<1>3. Live = {}
  BY DEF Init, Live, NULL
<1>4. LiveDisjoint
  BY <1>3 DEF LiveDisjoint
<1>5. Sound({})
  BY <1>3 DEF Init, Sound, Tiles, TagsAgree, LedgerAgrees, Linked, FlagsAreWrong,
                   OnlyLastFree, PagesMarked
<1> QED BY <1>1, <1>2, <1>4, <1>5 DEF IInv, Intact, Init

(* What the tags of a block of an undamaged heap say: brk_alloc, merge and  *)
(* brk_release read its size from them and stay inside the heap.            *)
LEMMA BlockFacts ==
  ASSUME TypeOK, HeapBase, NEW S \in SUBSET Addr, Sound(S), NEW b \in S
  PROVE  /\ b \in Addr /\ b \in Nat /\ mem[b] \in Word /\ mem[b].sz \in Nat
         /\ heap_lo <= b /\ b % 2 = 0
         /\ mem[b].sz >= 4 /\ mem[b].sz % 2 = 0
         /\ b + mem[b].sz <= heap_hi /\ b + mem[b].sz \in S \cup {heap_hi}
         /\ Ftr(b, mem[b].sz) \in Addr
         /\ heap_lo < heap_hi /\ heap_hi <= LIMIT /\ heap_hi \in Nat /\ heap_hi = brk
         /\ \A c \in S : b < c => b + mem[b].sz <= c
<1>1. b \in Addr /\ b \in Nat /\ mem[b] \in Word
  BY HeapAssumption DEF Addr, TypeOK
<1>2. mem[b].sz \in Nat
  BY <1>1 DEF Word
<1>3. /\ heap_lo <= b /\ b % 2 = 0
      /\ mem[b].sz >= 4 /\ mem[b].sz % 2 = 0
      /\ b + mem[b].sz <= heap_hi /\ b + mem[b].sz \in S \cup {heap_hi}
      /\ \A c \in S : b < c => b + mem[b].sz <= c
  BY DEF Sound, Tiles, OVERHEAD, ALIGN
<1>4. heap_lo < heap_hi /\ heap_lo \in Nat /\ heap_hi \in Nat
  BY <1>1, <1>2, <1>3 DEF TypeOK
<1>5. heap_hi <= LIMIT /\ heap_hi = brk
  BY <1>4 DEF HeapBase, HeapBacked
<1>6. Ftr(b, mem[b].sz) \in Addr
  BY HeapAssumption, <1>1, <1>2, <1>3, <1>4, <1>5 DEF Addr, Ftr, HDR_SZ
<1> QED BY <1>1, <1>2, <1>3, <1>4, <1>5, <1>6

-----------------------------------------------------------------------------
(* What the running call needs, and what its result means for the ledger.    *)

(* The size brk_alloc looks for is that of a block holding the request.     *)
LEMMA NeedFacts ==
  ASSUME TypeOK, CallOK, pc = "walk"
  PROVE  /\ len \in Nat /\ len > 0
         /\ need \in Nat /\ need >= len + OVERHEAD /\ need >= 4 /\ need % 2 = 0
         /\ dst \in Slots /\ slot[dst] = NULL /\ dst \notin Live
<1>0. len \in Sizes /\ need = OVERHEAD + AlignUp(len, ALIGN)
  BY DEF CallOK
<1>1. len \in Nat /\ len > 0 /\ need = OVERHEAD + AlignUp(len, ALIGN)
  BY <1>0, HeapAssumption, SMT
<1>2. AlignUp(len, ALIGN) \in Nat /\ AlignUp(len, ALIGN) >= len /\ AlignUp(len, ALIGN) % 2 = 0
  BY <1>1, AlignUpTwo
<1>3. need >= 4 /\ need % 2 = 0
  BY <1>1, <1>2 DEF OVERHEAD
<1>4. dst \in Slots /\ slot[dst] = NULL /\ dst \notin Live
  BY DEF CallOK, Live, NULL
<1> QED BY <1>1, <1>2, <1>3, <1>4 DEF TypeOK, OVERHEAD

(* The pointer a client holds leads to the header of an allocated block.    *)
LEMMA LiveFacts ==
  ASSUME TypeOK, HeapBase, NEW S \in SUBSET Addr, Sound(S), NEW s \in Live
  PROVE  /\ slot[s].ptr \in Nat /\ slot[s].len \in Nat
         /\ HdrOf(slot[s].ptr) \in S /\ slot[s].ptr = UserPtr(HdrOf(slot[s].ptr))
         /\ mem[HdrOf(slot[s].ptr)].alloc
         /\ slot[s].len + OVERHEAD <= mem[HdrOf(slot[s].ptr)].sz
BY DEF TypeOK, Live, Sound, LedgerAgrees, HdrOf, UserPtr, HDR_SZ

(* The call hands out ptr: the types, the call and the disjointness of the   *)
(* client's payloads after it.                                              *)
LEMMA ReturnStep ==
  ASSUME TypeOK, CallOK, LiveDisjoint, pc = "walk", NEW ptr \in Nat, ptr > 0, Return(ptr),
         \A t \in Live : Payload(t) \cap (ptr .. ptr + len - 1) = {}
  PROVE  /\ slot' \in [Slots -> [ptr : Nat, len : Nat]]
         /\ Live' = Live \cup {dst}
         /\ slot'[dst] = [ptr |-> ptr, len |-> len]
         /\ \A t \in Live : slot'[t] = slot[t]
         /\ LiveDisjoint'
         /\ pc' = "idle" /\ dst' = NoSlot /\ cur' = 0 /\ need' = 0 /\ len' = 0
<1> USE NeedFacts
<1>1. /\ pc' = "idle" /\ dst' = NoSlot /\ cur' = 0 /\ need' = 0 /\ len' = 0
  BY DEF Return, EndCall
<1>2. [ptr |-> ptr, len |-> len] \in [ptr : Nat, len : Nat]
  BY DEF TypeOK
<1>3. slot' \in [Slots -> [ptr : Nat, len : Nat]]
  BY <1>2 DEF Return, TypeOK
<1>4. slot'[dst] = [ptr |-> ptr, len |-> len]
  BY DEF Return, TypeOK
<1>5. \A t \in Slots : t # dst => slot'[t] = slot[t]
  BY DEF Return, TypeOK
<1>6. Live' = Live \cup {dst}
  BY <1>4, <1>5 DEF Live
<1>7. LiveDisjoint'
  <2> SUFFICES ASSUME NEW s \in Live', NEW t \in Live', s # t
               PROVE  Payload(s)' \cap Payload(t)' = {}
    BY DEF LiveDisjoint
  <2>0. PICK d \in Slots : d = dst
    OBVIOUS
  <2>1. Payload(d)' = ptr .. ptr + len - 1
    <3>1. slot'[d].ptr = ptr /\ slot'[d].len = len
      BY <1>4, <2>0
    <3> QED BY <3>1 DEF Payload
  <2>2. \A u \in Live : Payload(u)' = Payload(u)
    BY <1>5 DEF Payload, Live
  <2>3. CASE s = d
    <3>1. t \in Live
      BY <2>0, <2>3, <1>6
    <3> QED BY <2>1, <2>2, <2>3, <3>1
  <2>4. CASE t = d
    <3>1. s \in Live
      BY <2>0, <2>4, <1>6
    <3>2. Payload(s)' \cap Payload(t)' = Payload(s) \cap (ptr .. ptr + len - 1)
      BY <2>1, <2>2, <2>4, <3>1
    <3> QED BY <3>1, <3>2
  <2>5. CASE s # d /\ t # d
    <3>1. s \in Live /\ t \in Live
      BY <2>0, <2>5, <1>6
    <3> QED BY <2>2, <3>1 DEF LiveDisjoint
  <2> QED BY <2>3, <2>4, <2>5
<1> QED BY <1>1, <1>3, <1>4, <1>5, <1>6, <1>7 DEF Live

-----------------------------------------------------------------------------
(* One lemma per action: IInv is kept.                                      *)

(* A step that leaves memory, heap and slots alone keeps the blocks.        *)
LEMMA SoundUnchanged ==
  ASSUME NEW S, Sound(S), UNCHANGED <<mem, heap_lo, heap_hi, slot>>
  PROVE  Sound(S)'
<1>1. Live' = Live
  BY DEF Live
<1>2. Tiles(S)' /\ TagsAgree(S)'
  BY DEF Sound, Tiles, TagsAgree
<1>3. LedgerAgrees(S)'
  BY <1>1 DEF Sound, LedgerAgrees
<1>4. Linked(S)' /\ FlagsAreWrong(S)' /\ OnlyLastFree(S)' /\ PagesMarked(S)'
  BY DEF Sound, Linked, FlagsAreWrong, OnlyLastFree, PagesMarked
<1> QED BY <1>2, <1>3, <1>4 DEF Sound

(* Such a step frees no block either.                                       *)
LEMMA HeldUnchanged ==
  ASSUME AllHeld, UNCHANGED <<mem, heap_lo, heap_hi, slot>>
  PROVE  AllHeld'
<1>1. PICK S \in SUBSET Addr : Sound(S) /\ \A b \in S : mem[b].alloc
  BY DEF AllHeld
<1>2. Sound(S)'
  BY <1>1, SoundUnchanged
<1> QED BY <1>1, <1>2 DEF AllHeld

(* A step that leaves the client's variables alone keeps them disjoint.     *)
LEMMA DisjointUnchanged ==
  ASSUME LiveDisjoint, UNCHANGED slot
  PROVE  LiveDisjoint'
BY DEF LiveDisjoint, Live, Payload

(* malloc up to the search, heap_init included, keeps the invariant.        *)
LEMMA MallocStep ==
  ASSUME IInv, faults = {}, NEW s \in Slots, NEW n \in Sizes, Malloc(s, n)
  PROVE  IInv' /\ (AllHeld => AllHeld')
<1>1. n \in Nat
  BY HeapAssumption, SMT
<1>2. OVERHEAD + AlignUp(n, ALIGN) \in Nat
  BY <1>1, AlignUpTwo DEF OVERHEAD
<1>3. LiveDisjoint'
  BY DisjointUnchanged DEF IInv, Malloc
<1>4. CASE heap_ok
  <2>1. UNCHANGED <<mem, heap_lo, heap_hi, heap_ok, brk, slot, faults>> /\ cur' = heap_lo
    BY <1>4 DEF Malloc
  <2>2. TypeOK'
    BY <1>1, <1>2, <2>1 DEF IInv, TypeOK, Malloc
  <2>3. HeapBase'
    BY <2>1 DEF IInv, HeapBase, HeapBacked
  <2>4. CallOK'
    BY <1>4, <2>1 DEF Malloc, CallOK
  <2>5. PICK S \in SUBSET Addr : Sound(S)
    BY DEF IInv, Intact
  <2>6. Sound(S)'
    BY <2>1, <2>5, SoundUnchanged
  <2>7. cur' \in S \cup {heap_hi'}
    BY <2>1, <2>5 DEF Sound, Tiles
  <2> QED BY <1>3, <2>1, <2>2, <2>3, <2>4, <2>6, <2>7, HeldUnchanged DEF IInv, Intact
<1>5. CASE ~heap_ok
  <2> DEFINE al == AlignUp(brk, ALIGN)
  <2>1. HeapInit /\ UNCHANGED <<mem, slot, faults>>
    BY <1>5 DEF Malloc
  <2>2. al \in Nat /\ al % 2 = 0
    BY AlignUpTwo DEF IInv, TypeOK
  <2>3. heap_lo' = al /\ heap_hi' = al /\ heap_ok' = TRUE /\ brk' \in {al, brk}
    BY <2>1 DEF HeapInit, SetBrk
  <2>4. TypeOK'
    BY <1>1, <1>2, <2>1, <2>2, <2>3 DEF IInv, TypeOK, Malloc
  <2>5. HeapBase'
    BY <2>2, <2>3, PageZero DEF HeapBase, HeapBacked
  <2>6. CallOK'
    BY <2>1, <2>3 DEF Malloc, CallOK
  <2>7. PICK S \in SUBSET Addr : Sound(S)
    BY DEF IInv, Intact
  <2>8. S = {} /\ Live = {}
    <3>1. heap_lo = heap_hi
      BY <1>5 DEF IInv, HeapBase
    <3>2. \A b \in S : heap_lo < heap_hi
      BY <2>7, BlockFacts DEF IInv
    <3>3. S = {}
      BY <3>1, <3>2 DEF IInv, TypeOK
    <3> QED BY <2>7, <3>3, LiveFacts DEF IInv
  <2>9. Sound({})'
    BY <2>1, <2>3, <2>8 DEF Live, Sound, Tiles, TagsAgree, LedgerAgrees, Linked,
                            FlagsAreWrong, OnlyLastFree, PagesMarked
  <2>10. cur' = heap_hi'
    BY <2>3 DEF Malloc
  <2>11. AllHeld'
    BY <2>9 DEF AllHeld
  <2> QED BY <1>3, <2>4, <2>5, <2>6, <2>9, <2>10, <2>11 DEF IInv, Intact
<1> QED BY <1>4, <1>5

(* A step of the search loop keeps the invariant.                           *)
LEMMA WalkOnStep ==
  ASSUME IInv, faults = {}, WalkOn
  PROVE  IInv'
<1>1. UNCHANGED <<mem, heap_lo, heap_hi, heap_ok, brk, slot, pc, need, dst, len, faults>>
  BY DEF WalkOn, heapvars
<1>2. pc = "walk" /\ cur < heap_hi /\ cur' = cur + mem[cur].sz
  BY DEF WalkOn, AtBlock, InWalk
<1>3. PICK S \in SUBSET Addr : Sound(S) /\ cur \in S \cup {heap_hi}
  BY <1>2 DEF IInv, Intact
<1>4. cur \in S
  BY <1>2, <1>3 DEF IInv, TypeOK
<1>5. cur' \in Nat /\ cur' \in S \cup {heap_hi}
  BY <1>2, <1>3, <1>4, BlockFacts DEF IInv
<1>6. TypeOK'
  BY <1>1, <1>5 DEF IInv, TypeOK
<1>7. HeapBase' /\ CallOK'
  BY <1>1 DEF IInv, HeapBase, HeapBacked, CallOK
<1>8. Sound(S)' /\ LiveDisjoint'
  BY <1>1, <1>3, SoundUnchanged, DisjointUnchanged DEF IInv
<1> QED BY <1>1, <1>5, <1>6, <1>7, <1>8 DEF IInv, Intact

(* Answering NULL when the kernel refuses keeps the invariant.              *)
LEMMA AllocFailStep ==
  ASSUME IInv, faults = {}, AllocFail
  PROVE  IInv'
<1>1. UNCHANGED <<mem, heap_lo, heap_hi, heap_ok, brk, slot, faults>>
  BY DEF AllocFail, SetBrk
<1>2. pc' = "idle" /\ cur' = 0 /\ need' = 0 /\ len' = 0 /\ dst' = NoSlot
  BY DEF AllocFail, EndCall
<1>3. TypeOK'
  BY <1>1, <1>2 DEF IInv, TypeOK
<1>4. HeapBase' /\ CallOK'
  BY <1>1, <1>2 DEF IInv, HeapBase, HeapBacked, CallOK
<1>5. PICK S \in SUBSET Addr : Sound(S)
  BY DEF IInv, Intact
<1>6. Sound(S)' /\ LiveDisjoint'
  BY <1>1, <1>5, SoundUnchanged, DisjointUnchanged DEF IInv
<1> QED BY <1>1, <1>2, <1>3, <1>4, <1>6 DEF IInv, Intact

(* In an undamaged heap a free block is the last one, and every other block  *)
(* lies before it.                                                          *)
LEMMA FreeBlockIsLast ==
  ASSUME TypeOK, HeapBase, NEW S \in SUBSET Addr, Sound(S), NEW b \in S, b + mem[b].sz = heap_hi,
         NEW c \in S, c # b
  PROVE  c < b /\ c + mem[c].sz <= b /\ c + mem[c].sz \in S /\ mem[c].alloc
<1>1. /\ c \in Nat /\ mem[c].sz \in Nat /\ c + mem[c].sz <= heap_hi /\ mem[c].sz >= 4
      /\ c + mem[c].sz \in S \cup {heap_hi}
      /\ \A d \in S : c < d => c + mem[c].sz <= d
  BY BlockFacts
<1>2. /\ b \in Nat /\ mem[b].sz \in Nat /\ heap_hi \in Nat
      /\ \A d \in S : b < d => b + mem[b].sz <= d
  BY BlockFacts
<1>3. c < b
  BY <1>1, <1>2
<1>4. c + mem[c].sz <= b
  BY <1>1, <1>3
<1>5. c + mem[c].sz # heap_hi
  BY <1>1, <1>2, <1>4, BlockFacts
<1>6. mem[c].alloc
  BY <1>5 DEF Sound, OnlyLastFree
<1> QED BY <1>1, <1>3, <1>4, <1>5, <1>6

(* The words a client may use in the block it holds.                        *)
LEMMA PayloadInBlock ==
  ASSUME TypeOK, HeapBase, NEW S \in SUBSET Addr, Sound(S), NEW s \in Live,
         NEW a \in Payload(s)
  PROVE  LET b == HdrOf(slot[s].ptr) IN a \in Addr /\ b < a /\ a < b + mem[b].sz - HDR_SZ
<1> DEFINE b == HdrOf(slot[s].ptr)
<1>1. /\ slot[s].ptr \in Nat /\ slot[s].len \in Nat /\ b \in S
      /\ slot[s].len + OVERHEAD <= mem[b].sz
  BY LiveFacts
<1>2. /\ b \in Nat /\ mem[b].sz \in Nat /\ b + mem[b].sz <= heap_hi
      /\ heap_hi \in Nat /\ heap_hi <= LIMIT
  BY <1>1, BlockFacts
<1>3. a \in Int /\ slot[s].ptr <= a /\ a <= slot[s].ptr + slot[s].len - 1
  BY <1>1 DEF Payload
<1> QED BY <1>1, <1>2, <1>3, HeapAssumption DEF HdrOf, HDR_SZ, OVERHEAD, Addr

(* The payload of a block that was free is nobody's yet.                    *)
LEMMA FreshPayload ==
  ASSUME TypeOK, HeapBase, NEW S \in SUBSET Addr, Sound(S), NEW b \in Nat, NEW n \in Nat,
         \/ b \in S /\ ~mem[b].alloc /\ n + OVERHEAD <= mem[b].sz
         \/ b = heap_hi
  PROVE  \A t \in Live : Payload(t) \cap (UserPtr(b) .. UserPtr(b) + n - 1) = {}
<1> SUFFICES ASSUME NEW t \in Live, NEW a \in Payload(t), a \in UserPtr(b) .. UserPtr(b) + n - 1
             PROVE  FALSE
  OBVIOUS
<1> DEFINE c == HdrOf(slot[t].ptr)
<1>1. a \in Addr /\ c < a /\ a < c + mem[c].sz - HDR_SZ
  BY PayloadInBlock
<1>2. c \in S /\ mem[c].alloc
  BY LiveFacts
<1>3. c \in Nat /\ mem[c].sz \in Nat /\ c + mem[c].sz <= heap_hi /\ heap_hi \in Nat
      /\ \A d \in S : c < d => c + mem[c].sz <= d
  BY <1>2, BlockFacts
<1>4. a \in Nat /\ b < a /\ a <= b + n
  BY <1>1 DEF UserPtr, HDR_SZ, Addr
<1>5. CASE b = heap_hi
  BY <1>1, <1>3, <1>4, <1>5 DEF Ftr, HDR_SZ
<1>6. CASE b \in S /\ ~mem[b].alloc /\ n + OVERHEAD <= mem[b].sz
  <2>1. b # c
    BY <1>2, <1>6
  <2>2. mem[b].sz \in Nat /\ \A d \in S : b < d => b + mem[b].sz <= d
    BY <1>6, BlockFacts
  <2>3. b < c => FALSE
    BY <1>1, <1>2, <1>3, <1>4, <1>6, <2>2 DEF OVERHEAD
  <2>4. c < b => FALSE
    BY <1>1, <1>3, <1>4, <1>6 DEF Ftr, HDR_SZ
  <2> QED BY <1>3, <2>1, <2>3, <2>4
<1> QED BY <1>5, <1>6

-----------------------------------------------------------------------------
(* Every operation of an undamaged heap changes its tail only: the blocks    *)
(* from b on become the blocks at R, those before b stay.                    *)
LEMMA TailChange ==
  ASSUME TypeOK, HeapBase, NEW S \in SUBSET Addr, Sound(S), NEW b \in S \cup {heap_hi},
         NEW R \in SUBSET Addr, b \in R,
         heap_lo' = heap_lo, heap_hi' \in Nat, mem' \in [Addr -> Word],
         \E c \in R : c + mem'[c].sz = heap_hi',
         \A a \in Addr : a < b => mem'[a] = mem[a],
         \A c \in S : c < b => mem[c].alloc,
         \A c \in R :
           /\ b <= c /\ c % ALIGN = 0
           /\ mem'[c].sz >= OVERHEAD + ALIGN /\ mem'[c].sz % ALIGN = 0
           /\ c + mem'[c].sz \in R \cup {heap_hi'} /\ c + mem'[c].sz <= heap_hi'
           /\ \A d \in R : c < d => c + mem'[c].sz <= d,
         \A c \in R :
           /\ mem'[Ftr(c, mem'[c].sz)].sz = mem'[c].sz
           /\ mem'[Ftr(c, mem'[c].sz)].alloc = mem'[c].alloc
           /\ ~mem'[c].alloc => c + mem'[c].sz = heap_hi'
           /\ mem'[c].pfree => heap_lo < c /\ mem'[c - HDR_SZ].alloc
           /\ c # b => \E d \in R : d + mem'[d].sz = c
           /\ mem'[c].alloc => \E s \in Live' : slot'[s].ptr = UserPtr(c),
         \A c \in R : ~mem'[c].pfree => OnPage(heap_lo, c),
         \A s \in Live : HdrOf(slot[s].ptr) < b => s \in Live' /\ slot'[s] = slot[s],
         \A s \in Live' :
           \/ s \in Live /\ slot'[s] = slot[s] /\ HdrOf(slot[s].ptr) < b
           \/ /\ HdrOf(slot'[s].ptr) \in R /\ mem'[HdrOf(slot'[s].ptr)].alloc
              /\ slot'[s].len + OVERHEAD <= mem'[HdrOf(slot'[s].ptr)].sz,
         \A s, t \in Live' : slot'[s].ptr = slot'[t].ptr => s = t
  PROVE  Sound({c \in S : c < b} \cup R)'
<1> DEFINE K == {c \in S : c < b}
           T == K \cup R
<1>1. b \in Nat /\ heap_lo \in Nat /\ heap_hi \in Nat /\ b <= heap_hi /\ b \in Addr
  BY BlockFacts DEF TypeOK
<1>2. ASSUME NEW c \in K
      PROVE  /\ c \in Nat /\ mem[c].sz \in Nat /\ mem[c].sz >= 4
             /\ heap_lo <= c /\ c + mem[c].sz <= b /\ c + mem[c].sz \in K \cup {b}
             /\ mem[c].alloc /\ mem'[c] = mem[c]
             /\ Ftr(c, mem[c].sz) \in Addr
             /\ mem'[Ftr(c, mem[c].sz)] = mem[Ftr(c, mem[c].sz)]
  <2>1. /\ c \in Addr /\ c \in Nat /\ mem[c].sz \in Nat /\ mem[c].sz >= 4 /\ heap_lo <= c
        /\ c + mem[c].sz <= heap_hi /\ c + mem[c].sz \in S \cup {heap_hi}
        /\ Ftr(c, mem[c].sz) \in Addr
        /\ \A d \in S : c < d => c + mem[c].sz <= d
    BY BlockFacts
  <2>2. c + mem[c].sz <= b
    BY <2>1
  <2>3. c + mem[c].sz \in K \cup {b}
    BY <1>1, <2>1, <2>2, SMTT(30)
  <2>4. Ftr(c, mem[c].sz) < b
    BY <1>1, <2>1, <2>2 DEF Ftr, HDR_SZ
  <2> QED BY <2>1, <2>2, <2>3, <2>4
<1>3. \A c \in R : c \in Nat /\ mem'[c].sz \in Int
  <2> SUFFICES ASSUME NEW c \in R PROVE c \in Nat /\ mem'[c].sz \in Int
    OBVIOUS
  <2>1. c \in Addr /\ mem'[c] \in Word
    OBVIOUS
  <2> QED BY <2>1, HeapAssumption DEF Addr, Word
<1>4. heap_lo <= b
  BY <1>1, BlockFacts DEF HeapBase
<1>5. Tiles(T)'
  <2>1. heap_lo' \in T \cup {heap_hi'}
    <3>1. CASE heap_lo = b
      BY <3>1
    <3>2. CASE heap_lo # b
      BY <3>2, <1>1, <1>4 DEF Sound, Tiles
    <3> QED BY <3>1, <3>2
  <2>2. ASSUME NEW c \in T
        PROVE  /\ heap_lo' <= c /\ c % ALIGN = 0
               /\ mem'[c].sz >= OVERHEAD + ALIGN /\ mem'[c].sz % ALIGN = 0
               /\ c + mem'[c].sz \in T \cup {heap_hi'} /\ c + mem'[c].sz <= heap_hi'
               /\ \A d \in T : c < d => c + mem'[c].sz <= d
    <3>1. CASE c \in R
      <4>1. \A d \in K : ~(c < d)
        BY <3>1, <1>1, <1>2, <1>3
      <4>2. heap_lo <= c
        BY <3>1, <1>1, <1>3, <1>4
      <4> QED BY <3>1, <4>1, <4>2
    <3>2. CASE c \in K
      <4>1. \A d \in S : c < d => c + mem[c].sz <= d
        BY <3>2, BlockFacts
      <4>2. \A d \in R : c + mem[c].sz <= d
        BY <3>2, <1>1, <1>2, <1>3
      <4>3. c + mem[c].sz <= heap_hi'
        <5>1. b + mem'[b].sz <= heap_hi' /\ mem'[b].sz >= 4
          BY DEF OVERHEAD, ALIGN
        <5> QED BY <5>1, <1>1, <1>2, <1>3, <3>2
      <4>4. c % ALIGN = 0 /\ mem[c].sz >= OVERHEAD + ALIGN /\ mem[c].sz % ALIGN = 0
        BY <3>2 DEF Sound, Tiles
      <4> QED BY <3>2, <4>1, <4>2, <4>3, <4>4, <1>2
    <3> QED BY <3>1, <3>2
  <2> QED BY <2>1, <2>2 DEF Tiles
<1>6. TagsAgree(T)'
  <2>1. ASSUME NEW c \in T
        PROVE  /\ mem'[Ftr(c, mem'[c].sz)].sz = mem'[c].sz
               /\ mem'[Ftr(c, mem'[c].sz)].alloc = mem'[c].alloc
               /\ ~mem'[c].alloc => ~(c + mem'[c].sz < heap_hi')
    <3>1. CASE c \in R
      BY <3>1
    <3>2. CASE c \in K
      <4>1. c \in S
        BY <3>2
      <4>2. TagsAgree(S)
        BY DEF Sound
      <4>3. /\ mem[Ftr(c, mem[c].sz)].sz = mem[c].sz
            /\ mem[Ftr(c, mem[c].sz)].alloc = mem[c].alloc
        BY <4>1, <4>2, Zenon DEF TagsAgree
      <4> QED BY <3>2, <4>3, <1>2
    <3> QED BY <3>1, <3>2
  <2> QED BY <2>1, Zenon DEF TagsAgree
<1>7. LedgerAgrees(T)'
  <2>1. ASSUME NEW c \in T, mem'[c].alloc
        PROVE  \E s \in Live' : slot'[s].ptr = UserPtr(c)
    <3>1. CASE c \in R
      BY <2>1, <3>1
    <3>2. CASE c \in K
      <4>1. PICK s \in Live : slot[s].ptr = UserPtr(c)
        BY <3>2, <1>2 DEF Sound, LedgerAgrees
      <4>2. HdrOf(slot[s].ptr) < b
        BY <4>1, <3>2, <1>2 DEF HdrOf, UserPtr, HDR_SZ
      <4> QED BY <4>1, <4>2
    <3> QED BY <3>1, <3>2
  <2>2. ASSUME NEW s \in Live'
        PROVE  /\ HdrOf(slot'[s].ptr) \in T /\ mem'[HdrOf(slot'[s].ptr)].alloc
               /\ slot'[s].len + OVERHEAD <= mem'[HdrOf(slot'[s].ptr)].sz
    <3>1. CASE s \in Live /\ slot'[s] = slot[s] /\ HdrOf(slot[s].ptr) < b
      <4>1. /\ HdrOf(slot[s].ptr) \in K /\ mem[HdrOf(slot[s].ptr)].alloc
            /\ slot[s].len + OVERHEAD <= mem[HdrOf(slot[s].ptr)].sz
        BY <3>1, LiveFacts
      <4> QED BY <3>1, <4>1, <1>2
    <3> QED BY <3>1
  <2> QED BY <2>1, <2>2 DEF LedgerAgrees, HdrOf, UserPtr
<1>8. Linked(T)'
  <2> SUFFICES ASSUME NEW c \in T \cup {heap_hi'}, c # heap_lo
               PROVE  \E d \in T : d + mem'[d].sz = c
    BY DEF Linked
  <2>1. CASE c \in R /\ c # b
    BY <2>1
  <2>2. CASE c \in K
    <3>1. PICK d \in S : d + mem[d].sz = c
      BY <2>2 DEF Sound, Linked
    <3>2. d \in Nat /\ mem[d].sz \in Nat /\ mem[d].sz >= 4
      BY <3>1, BlockFacts
    <3>3. d < b
      BY <2>2, <3>1, <3>2, <1>1, <1>2
    <3>4. d \in K
      BY <3>1, <3>3
    <3> QED BY <3>1, <3>4, <1>2
  <2>3. CASE c = b
    <3>1. PICK d \in S : d + mem[d].sz = b
      BY <2>3 DEF Sound, Linked
    <3>2. d \in K
      BY <3>1, <1>1, BlockFacts
    <3> QED BY <2>3, <3>1, <3>2, <1>2
  <2> QED BY <2>1, <2>2, <2>3
<1>9. FlagsAreWrong(T)'
  <2> SUFFICES ASSUME NEW c \in T, mem'[c].pfree
               PROVE  heap_lo < c /\ mem'[c - HDR_SZ].alloc
    BY DEF FlagsAreWrong
  <2>1. CASE c \in K
    <3>1. heap_lo < c /\ mem[c - HDR_SZ].alloc
      BY <2>1, <1>2 DEF Sound, FlagsAreWrong
    <3>2. c - HDR_SZ \in Addr /\ c - HDR_SZ < b
      BY <2>1, <3>1, <1>1, <1>2, HeapAssumption DEF Ftr, HDR_SZ, Addr
    <3> QED BY <3>1, <3>2
  <2> QED BY <2>1
<1>10. OnlyLastFree(T)'
  BY <1>2 DEF OnlyLastFree
<1>11. PagesMarked(T)'
  <2>1. \A c \in K : ~mem'[c].pfree => OnPage(heap_lo, c)
    BY <1>2 DEF Sound, PagesMarked
  <2> QED BY <2>1 DEF PagesMarked
<1> QED BY <1>5, <1>6, <1>7, <1>8, <1>9, <1>10, <1>11 DEF Sound

-----------------------------------------------------------------------------
(* Splitting a free block keeps the invariant.                              *)
LEMMA AllocSplitStep ==
  ASSUME IInv, faults = {}, AllocSplit, NEW b, b = cur, NEW n, n = need
  PROVE  IInv'
<1> USE DEF IInv
<1>1. pc = "walk" /\ b < heap_hi /\ ~mem[b].alloc /\ mem[b].sz >= n
  BY DEF AllocSplit, AtBlock, InWalk, Fits
<1>2. PICK S \in SUBSET Addr : Sound(S) /\ b \in S \cup {heap_hi}
  BY <1>1 DEF Intact
<1>3. b \in S
  BY <1>1, <1>2 DEF TypeOK
<1> DEFINE sz == mem[b].sz
<1>4. /\ b \in Addr /\ b \in Nat /\ mem[b] \in Word /\ sz \in Nat
      /\ heap_lo <= b /\ b % 2 = 0 /\ sz % 2 = 0
      /\ heap_lo < heap_hi /\ heap_hi <= LIMIT /\ heap_hi \in Nat /\ heap_lo \in Nat
      /\ heap_hi = brk
  BY <1>2, <1>3, BlockFacts DEF TypeOK
<1>5. b + sz = heap_hi
  BY <1>1, <1>2, <1>3 DEF Sound, OnlyLastFree
<1>6. n \in Nat /\ n >= 4 /\ n % 2 = 0 /\ n >= len + OVERHEAD /\ len \in Nat
  BY <1>1, NeedFacts
<1>7. PICK nb \in Nat, rem \in Nat :
        /\ nb = b + n /\ rem = sz - n /\ rem >= 4
        /\ rem % 2 = 0 /\ nb % 2 = 0 /\ nb + rem = heap_hi
  <2>1. sz - n >= 4
    BY DEF AllocSplit, Splits, OVERHEAD, ALIGN
  <2> QED BY <2>1, <1>4, <1>5, <1>6
<1>8. /\ nb \in Addr /\ Ftr(nb, rem) \in Addr /\ Ftr(b, n) \in Addr
      /\ Ftr(nb, rem) \in Nat /\ Ftr(b, n) \in Nat
      /\ b < Ftr(b, n) /\ Ftr(b, n) < nb /\ nb < Ftr(nb, rem) /\ Ftr(nb, rem) < heap_hi
      /\ nb - HDR_SZ = Ftr(b, n)
  BY HeapAssumption, <1>4, <1>6, <1>7 DEF Addr, Ftr, HDR_SZ
<1>9. /\ mem' \in [Addr -> Word]
      /\ mem'[b] = Tag(n, TRUE, mem[b].pfree)
      /\ mem'[Ftr(b, n)] = Tag(n, TRUE, FALSE)
      /\ mem'[nb] = Tag(rem, FALSE, TRUE)
      /\ mem'[Ftr(nb, rem)] = Tag(rem, FALSE, FALSE)
      /\ \A a \in Addr : a < b => mem'[a] = mem[a]
  <2> DEFINE front == PutBlock(mem, b, n, TRUE, mem[b].pfree)
             both  == PutBlock(front, nb, rem, FALSE, TRUE)
  <2>1. mem \in [Addr -> Word] /\ mem[b].pfree \in BOOLEAN
    BY <1>4 DEF TypeOK, Word
  <2>2. /\ front \in [Addr -> Word]
        /\ front[b] = Tag(n, TRUE, mem[b].pfree)
        /\ front[Ftr(b, n)] = Tag(n, TRUE, FALSE)
        /\ \A a \in Addr : a # b /\ a # Ftr(b, n) => front[a] = mem[a]
    <3>1. b # Ftr(b, n)
      BY <1>4, <1>8
    <3>2. Tag(n, TRUE, mem[b].pfree) \in Word /\ Tag(n, TRUE, FALSE) \in Word
      BY <2>1, <1>6 DEF Tag, Word
    <3> QED BY <2>1, <3>1, <3>2, <1>4, <1>8 DEF PutBlock
  <2>3. /\ both \in [Addr -> Word]
        /\ both[nb] = Tag(rem, FALSE, TRUE)
        /\ both[Ftr(nb, rem)] = Tag(rem, FALSE, FALSE)
        /\ \A a \in Addr : a # nb /\ a # Ftr(nb, rem) => both[a] = front[a]
    <3>1. nb # Ftr(nb, rem)
      BY <1>8
    <3>2. Tag(rem, FALSE, TRUE) \in Word /\ Tag(rem, FALSE, FALSE) \in Word
      BY <1>7 DEF Tag, Word
    <3> HIDE DEF front
    <3> QED BY <2>2, <3>1, <3>2, <1>8 DEF PutBlock
  <2>4. mem' = both
    <3>1. mem' = MarkPrevFree(PutBlock(front, b + n, sz - n, FALSE, TRUE), heap_hi, b + n + (sz - n))
      BY Zenon DEF AllocSplit, Split
    <3>2. b + n = nb /\ sz - n = rem /\ b + n + (sz - n) = heap_hi
      BY <1>4, <1>6, <1>7
    <3>3. mem' = MarkPrevFree(both, heap_hi, heap_hi)
      BY <3>1, <3>2, Zenon
    <3>4. ~(heap_hi < heap_hi)
      BY <1>4
    <3> QED BY <3>3, <3>4, Zenon DEF MarkPrevFree
  <2>5. /\ b # nb /\ b # Ftr(nb, rem)
        /\ Ftr(b, n) # nb /\ Ftr(b, n) # Ftr(nb, rem)
    BY <1>4, <1>8
  <2>6. both[b] = front[b] /\ both[Ftr(b, n)] = front[Ftr(b, n)]
    BY <2>3, <2>5, <1>4, <1>8
  <2>7. \A a \in Addr : a < b => both[a] = mem[a]
    <3> SUFFICES ASSUME NEW a \in Addr, a < b PROVE both[a] = mem[a]
      OBVIOUS
    <3>1. a \in Int /\ a # nb /\ a # Ftr(nb, rem) /\ a # b /\ a # Ftr(b, n)
      BY <1>4, <1>8 DEF Addr
    <3> HIDE DEF front, both
    <3> QED BY <3>1, <2>2, <2>3
  <2> QED BY <2>2, <2>3, <2>4, <2>6, <2>7
<1>10. UNCHANGED <<heap_lo, heap_hi, heap_ok, brk>> /\ Return(UserPtr(b)) /\ faults' = {}
  <2>1. faults' = SplitFaults(b)
    BY DEF AllocSplit
  <2>2. SplitFaults(b) = {}
    BY <1>4, <1>5 DEF SplitFaults, TaggedAlloc
  <2> QED BY <2>1, <2>2 DEF AllocSplit
<1>11. UserPtr(b) \in Nat /\ UserPtr(b) > 0 /\ len + OVERHEAD <= sz
  BY <1>1, <1>4, <1>6 DEF UserPtr, HDR_SZ, OVERHEAD
<1>12. \A t \in Live : Payload(t) \cap (UserPtr(b) .. UserPtr(b) + len - 1) = {}
  BY <1>1, <1>2, <1>3, <1>4, <1>6, <1>11, FreshPayload
<1>13. /\ slot' \in [Slots -> [ptr : Nat, len : Nat]]
       /\ Live' = Live \cup {dst}
       /\ slot'[dst] = [ptr |-> UserPtr(b), len |-> len]
       /\ \A t \in Live : slot'[t] = slot[t]
       /\ LiveDisjoint'
       /\ pc' = "idle" /\ dst' = NoSlot /\ cur' = 0 /\ need' = 0 /\ len' = 0
  BY <1>1, <1>10, <1>11, <1>12, ReturnStep
<1>14. TypeOK'
  BY <1>9, <1>10, <1>13 DEF TypeOK
<1>15. HeapBase' /\ CallOK'
  BY <1>10, <1>13 DEF HeapBase, HeapBacked, CallOK
<1>16. mem'[b].sz = n /\ mem'[b].alloc /\ mem'[nb].sz = rem /\ ~mem'[nb].alloc
  BY <1>9 DEF Tag
<1> DEFINE R == {b, nb}
<1>17. \A c \in S : c < b => mem[c].alloc
  <2> SUFFICES ASSUME NEW c \in S, c < b PROVE mem[c].alloc
    OBVIOUS
  <2>1. c # b
    BY <1>4
  <2> QED BY <2>1, <1>2, <1>3, <1>5, FreeBlockIsLast
<1>18. \A c \in R :
         /\ b <= c /\ c % ALIGN = 0
         /\ mem'[c].sz >= OVERHEAD + ALIGN /\ mem'[c].sz % ALIGN = 0
         /\ c + mem'[c].sz \in R \cup {heap_hi'} /\ c + mem'[c].sz <= heap_hi'
         /\ \A d \in R : c < d => c + mem'[c].sz <= d
  BY <1>4, <1>6, <1>7, <1>10, <1>16 DEF OVERHEAD, ALIGN
<1>19. \A c \in R :
         /\ mem'[Ftr(c, mem'[c].sz)].sz = mem'[c].sz
         /\ mem'[Ftr(c, mem'[c].sz)].alloc = mem'[c].alloc
         /\ ~mem'[c].alloc => c + mem'[c].sz = heap_hi'
         /\ mem'[c].pfree => heap_lo < c /\ mem'[c - HDR_SZ].alloc
         /\ c # b => \E d \in R : d + mem'[d].sz = c
         /\ mem'[c].alloc => \E s \in Live' : slot'[s].ptr = UserPtr(c)
  <2>1. /\ mem'[Ftr(b, n)].sz = n /\ mem'[Ftr(b, n)].alloc
        /\ mem'[Ftr(nb, rem)].sz = rem /\ ~mem'[Ftr(nb, rem)].alloc
    BY <1>9 DEF Tag
  <2>2. /\ mem'[Ftr(b, mem'[b].sz)].sz = mem'[b].sz
        /\ mem'[Ftr(b, mem'[b].sz)].alloc = mem'[b].alloc
    BY <2>1, <1>9, <1>16 DEF Tag
  <2>3. mem'[b].pfree => heap_lo < b /\ mem'[b - HDR_SZ].alloc
    <3> SUFFICES ASSUME mem'[b].pfree PROVE heap_lo < b /\ mem'[b - HDR_SZ].alloc
      OBVIOUS
    <3>1. mem[b].pfree
      BY <1>9 DEF Tag
    <3>2. heap_lo < b /\ mem[b - HDR_SZ].alloc
      BY <3>1, <1>2, <1>3 DEF Sound, FlagsAreWrong
    <3>3. b - HDR_SZ \in Addr /\ b - HDR_SZ < b
      BY <3>2, <1>4, HeapAssumption DEF Ftr, HDR_SZ, Addr
    <3> QED BY <3>2, <3>3, <1>9
  <2>4. \E s \in Live' : slot'[s].ptr = UserPtr(b)
    BY <1>13
  <2>5. /\ mem'[Ftr(nb, mem'[nb].sz)].sz = mem'[nb].sz
        /\ mem'[Ftr(nb, mem'[nb].sz)].alloc = mem'[nb].alloc
        /\ nb + mem'[nb].sz = heap_hi'
    <3>1. mem'[nb].alloc = FALSE /\ mem'[Ftr(nb, rem)].alloc = FALSE
      BY <1>9 DEF Tag
    <3>2. nb + mem'[nb].sz = heap_hi'
      BY <1>7, <1>10, <1>16
    <3> QED BY <3>1, <3>2, <2>1, <1>16
  <2>6. heap_lo < nb /\ mem'[nb - HDR_SZ].alloc
    BY <2>1, <1>4, <1>6, <1>7, <1>8
  <2>7. b # nb
    BY <1>4, <1>6, <1>7
  <2>8. b + mem'[b].sz = nb
    BY <1>7, <1>16
  <2> SUFFICES ASSUME NEW c \in R
               PROVE  /\ mem'[Ftr(c, mem'[c].sz)].sz = mem'[c].sz
                      /\ mem'[Ftr(c, mem'[c].sz)].alloc = mem'[c].alloc
                      /\ ~mem'[c].alloc => c + mem'[c].sz = heap_hi'
                      /\ mem'[c].pfree => heap_lo < c /\ mem'[c - HDR_SZ].alloc
                      /\ c # b => \E d \in R : d + mem'[d].sz = c
                      /\ mem'[c].alloc => \E s \in Live' : slot'[s].ptr = UserPtr(c)
    OBVIOUS
  <2>9. CASE c = b
    BY <2>2, <2>3, <2>4, <2>9, <1>16
  <2>10. CASE c = nb
    BY <2>5, <2>6, <2>8, <2>10, <1>16
  <2> QED BY <2>9, <2>10
<1>20. \A s \in Live : slot[s].ptr # UserPtr(b) /\ HdrOf(slot[s].ptr) < b
  <2> SUFFICES ASSUME NEW s \in Live PROVE slot[s].ptr # UserPtr(b) /\ HdrOf(slot[s].ptr) < b
    OBVIOUS
  <2>1. /\ HdrOf(slot[s].ptr) \in S /\ slot[s].ptr = UserPtr(HdrOf(slot[s].ptr))
        /\ mem[HdrOf(slot[s].ptr)].alloc
    BY <1>2, LiveFacts
  <2>2. HdrOf(slot[s].ptr) # b
    BY <2>1, <1>1
  <2>3. HdrOf(slot[s].ptr) < b
    BY <2>1, <2>2, <1>2, <1>3, <1>5, FreeBlockIsLast
  <2>4. slot[s].ptr \in Nat
    BY <1>2, LiveFacts
  <2> QED BY <2>2, <2>3, <2>4, <1>4 DEF HdrOf, UserPtr, HDR_SZ
<1>21. HdrOf(slot'[dst].ptr) = b /\ slot'[dst].len = len
  BY <1>4, <1>13 DEF HdrOf, UserPtr, HDR_SZ
<1>22. \A s \in Live' :
         \/ s \in Live /\ slot'[s] = slot[s] /\ HdrOf(slot[s].ptr) < b
         \/ /\ HdrOf(slot'[s].ptr) \in R /\ mem'[HdrOf(slot'[s].ptr)].alloc
            /\ slot'[s].len + OVERHEAD <= mem'[HdrOf(slot'[s].ptr)].sz
  BY <1>6, <1>13, <1>16, <1>20, <1>21
<1>23. \A s, t \in Live' : slot'[s].ptr = slot'[t].ptr => s = t
  BY <1>2, <1>13, <1>20 DEF Sound, LedgerAgrees
<1>24. Sound({c \in S : c < b} \cup R)'
  <2>1. R \in SUBSET Addr /\ b \in R
    BY <1>4, <1>8
  <2>2. \E c \in R : c + mem'[c].sz = heap_hi'
    BY <1>7, <1>10, <1>16
  <2>3. heap_lo' = heap_lo /\ heap_hi' \in Nat /\ mem' \in [Addr -> Word]
    BY <1>4, <1>9, <1>10
  <2>4. \A s \in Live : HdrOf(slot[s].ptr) < b => s \in Live' /\ slot'[s] = slot[s]
    BY <1>13
  <2>5. \A c \in R : ~mem'[c].pfree => OnPage(heap_lo, c)
    <3>1. mem'[nb].pfree = TRUE /\ mem'[b].pfree = mem[b].pfree
      BY <1>9 DEF Tag
    <3>2. ~mem[b].pfree => OnPage(heap_lo, b)
      BY <1>2, <1>3 DEF Sound, PagesMarked
    <3> QED BY <3>1, <3>2
  <2> HIDE DEF R
  <2> QED BY <2>1, <2>2, <2>3, <2>4, <2>5, <1>2, <1>3, <1>9, <1>17, <1>18, <1>19, <1>22, <1>23,
             TailChange
<1>25. {c \in S : c < b} \cup R \in SUBSET Addr
  BY <1>4, <1>8
<1> QED BY <1>10, <1>13, <1>14, <1>15, <1>24, <1>25 DEF Intact

-----------------------------------------------------------------------------
(* The tail is one block.                                                   *)
LEMMA TailBlock ==
  ASSUME TypeOK, HeapBase, NEW S \in SUBSET Addr, Sound(S), NEW b \in S \cup {heap_hi},
         b \in Addr, b % 2 = 0, NEW n \in Nat, n >= 4, n % 2 = 0,
         heap_lo' = heap_lo, heap_hi' = b + n, mem' \in [Addr -> Word],
         \A a \in Addr : a < b => mem'[a] = mem[a],
         \A c \in S : c < b => mem[c].alloc,
         mem'[b].sz = n, mem'[Ftr(b, n)].sz = n, mem'[Ftr(b, n)].alloc = mem'[b].alloc,
         mem'[b].pfree => heap_lo < b /\ mem[b - HDR_SZ].alloc,
         ~mem'[b].pfree => OnPage(heap_lo, b),
         mem'[b].alloc => \E s \in Live' : slot'[s].ptr = UserPtr(b),
         \A s \in Live : HdrOf(slot[s].ptr) < b => s \in Live' /\ slot'[s] = slot[s],
         \A s \in Live' :
           \/ s \in Live /\ slot'[s] = slot[s] /\ HdrOf(slot[s].ptr) < b
           \/ HdrOf(slot'[s].ptr) = b /\ mem'[b].alloc /\ slot'[s].len + OVERHEAD <= n,
         \A s, t \in Live' : slot'[s].ptr = slot'[t].ptr => s = t
  PROVE  /\ Sound({c \in S : c < b} \cup {b})'
         /\ {c \in S : c < b} \cup {b} \in SUBSET Addr
<1>1. b \in Nat /\ heap_lo \in Nat
  BY HeapAssumption DEF Addr, TypeOK
<1>2. \A c \in {b} :
        /\ b <= c /\ c % ALIGN = 0
        /\ mem'[c].sz >= OVERHEAD + ALIGN /\ mem'[c].sz % ALIGN = 0
        /\ c + mem'[c].sz \in {b} \cup {heap_hi'} /\ c + mem'[c].sz <= heap_hi'
        /\ \A d \in {b} : c < d => c + mem'[c].sz <= d
  BY <1>1 DEF ALIGN, OVERHEAD
<1>3. mem'[b].pfree => heap_lo < b /\ mem'[b - HDR_SZ].alloc
  <2> SUFFICES ASSUME mem'[b].pfree PROVE heap_lo < b /\ mem'[b - HDR_SZ].alloc
    OBVIOUS
  <2>1. heap_lo < b /\ mem[b - HDR_SZ].alloc
    OBVIOUS
  <2>2. b - HDR_SZ \in Addr /\ b - HDR_SZ < b
    BY <2>1, <1>1, HeapAssumption DEF HDR_SZ, Addr
  <2> QED BY <2>1, <2>2
<1>4. mem'[Ftr(b, mem'[b].sz)].sz = mem'[b].sz
      /\ mem'[Ftr(b, mem'[b].sz)].alloc = mem'[b].alloc
  OBVIOUS
<1>5. \A c \in {b} :
        /\ mem'[Ftr(c, mem'[c].sz)].sz = mem'[c].sz
        /\ mem'[Ftr(c, mem'[c].sz)].alloc = mem'[c].alloc
        /\ ~mem'[c].alloc => c + mem'[c].sz = heap_hi'
        /\ mem'[c].pfree => heap_lo < c /\ mem'[c - HDR_SZ].alloc
        /\ c # b => \E d \in {b} : d + mem'[d].sz = c
        /\ mem'[c].alloc => \E s \in Live' : slot'[s].ptr = UserPtr(c)
  BY <1>3, <1>4
<1>6. \A s \in Live' :
        \/ s \in Live /\ slot'[s] = slot[s] /\ HdrOf(slot[s].ptr) < b
        \/ /\ HdrOf(slot'[s].ptr) \in {b} /\ mem'[HdrOf(slot'[s].ptr)].alloc
           /\ slot'[s].len + OVERHEAD <= mem'[HdrOf(slot'[s].ptr)].sz
  OBVIOUS
<1>7. {b} \in SUBSET Addr /\ b \in {b} /\ heap_hi' \in Nat
      /\ \E c \in {b} : c + mem'[c].sz = heap_hi'
  BY <1>1
<1>8. PICK R \in SUBSET Addr : R = {b}
  BY <1>7
<1>9. Sound({c \in S : c < b} \cup R)'
  <2>1. \A c \in R : ~mem'[c].pfree => OnPage(heap_lo, c)
    BY <1>8
  <2> QED BY <2>1, <1>2, <1>5, <1>6, <1>7, <1>8, TailChange
<1>10. Sound({c \in S : c < b} \cup {b})'
  BY <1>8, <1>9
<1> QED BY <1>10

(* The ledger after a call has handed out the last block.                   *)
LEMMA ReturnLedger ==
  ASSUME TypeOK, HeapBase, NEW S \in SUBSET Addr, Sound(S), NEW b \in S \cup {heap_hi},
         b \in S => ~mem[b].alloc /\ b + mem[b].sz = heap_hi,
         dst \notin Live, NEW l, Live' = Live \cup {dst},
         slot'[dst] = [ptr |-> UserPtr(b), len |-> l], \A t \in Live : slot'[t] = slot[t]
  PROVE  /\ \A s \in Live : HdrOf(slot[s].ptr) < b
         /\ HdrOf(slot'[dst].ptr) = b /\ slot'[dst].len = l
         /\ \E s \in Live' : slot'[s].ptr = UserPtr(b)
         /\ \A s, t \in Live' : slot'[s].ptr = slot'[t].ptr => s = t
<1>1. b \in Nat
  BY BlockFacts DEF TypeOK
<1>2. ASSUME NEW s \in Live PROVE HdrOf(slot[s].ptr) < b /\ slot[s].ptr # UserPtr(b)
  <2>1. /\ HdrOf(slot[s].ptr) \in S /\ slot[s].ptr = UserPtr(HdrOf(slot[s].ptr))
        /\ mem[HdrOf(slot[s].ptr)].alloc /\ slot[s].ptr \in Nat
    BY LiveFacts
  <2>2. HdrOf(slot[s].ptr) < b
    <3>1. CASE b \in S
      BY <2>1, <3>1, FreeBlockIsLast
    <3>2. CASE b = heap_hi
      BY <2>1, <3>2, BlockFacts
    <3> QED BY <3>1, <3>2
  <2> QED BY <2>1, <2>2, <1>1 DEF HdrOf, UserPtr, HDR_SZ
<1>3. HdrOf(slot'[dst].ptr) = b /\ slot'[dst].len = l /\ slot'[dst].ptr = UserPtr(b)
  BY <1>1 DEF HdrOf, UserPtr, HDR_SZ
<1>4. \A s, t \in Live : slot[s].ptr = slot[t].ptr => s = t
  BY DEF Sound, LedgerAgrees
<1> QED BY <1>2, <1>3, <1>4

(* Using a free block as a whole keeps the invariant.                       *)
LEMMA AllocWholeStep ==
  ASSUME IInv, faults = {}, AllocWhole, NEW b, b = cur
  PROVE  IInv'
<1> USE DEF IInv
<1>1. pc = "walk" /\ b < heap_hi /\ ~mem[b].alloc /\ mem[b].sz >= need
  BY DEF AllocWhole, AtBlock, InWalk, Fits
<1>2. PICK S \in SUBSET Addr : Sound(S) /\ b \in S \cup {heap_hi}
  BY <1>1 DEF Intact
<1>3. b \in S
  BY <1>1, <1>2 DEF TypeOK
<1>4. PICK n \in Nat : n = mem[b].sz
  BY <1>2, <1>3, BlockFacts
<1>5. /\ b \in Addr /\ b \in Nat /\ mem[b] \in Word /\ n >= 4
      /\ b % 2 = 0 /\ n % 2 = 0 /\ b + n = heap_hi
      /\ Ftr(b, n) \in Addr /\ heap_hi \in Nat
  BY <1>2, <1>3, <1>4, <1>1, BlockFacts DEF Sound, OnlyLastFree
<1>6. /\ need \in Nat /\ need >= len + OVERHEAD /\ len \in Nat /\ len + OVERHEAD <= n
      /\ dst \notin Live
  BY <1>1, <1>4, NeedFacts DEF OVERHEAD
<1>7. b < Ftr(b, n) /\ Ftr(b, n) \in Nat
  BY <1>5 DEF Ftr, HDR_SZ
<1>8. /\ mem' \in [Addr -> Word]
      /\ mem'[b] = Tag(n, TRUE, mem[b].pfree)
      /\ mem'[Ftr(b, n)] = Tag(n, TRUE, FALSE)
      /\ \A a \in Addr : a < b => mem'[a] = mem[a]
  <2>1. mem' = ClearPrevFree(PutBlock(mem, b, n, TRUE, mem[b].pfree), heap_hi, heap_hi)
    <3>1. mem' = ClearPrevFree(PutBlock(mem, b, mem[b].sz, TRUE, mem[b].pfree), heap_hi, b + mem[b].sz)
      BY Zenon DEF AllocWhole, TakeWhole
    <3> QED BY <3>1, <1>4, <1>5, Zenon
  <2>2. mem' = PutBlock(mem, b, n, TRUE, mem[b].pfree)
    <3>1. ~(heap_hi < heap_hi)
      BY <1>5
    <3> QED BY <2>1, <3>1, Zenon DEF ClearPrevFree
  <2>3. Tag(n, TRUE, mem[b].pfree) \in Word /\ Tag(n, TRUE, FALSE) \in Word
    BY <1>5 DEF Tag, Word
  <2>4. mem \in [Addr -> Word] /\ b # Ftr(b, n)
    BY <1>5, <1>7 DEF TypeOK
  <2>5. \A a \in Int : a < b => a # b /\ a # Ftr(b, n)
    BY <1>5, <1>7
  <2>6. \A a \in Addr : a \in Int
    BY HeapAssumption DEF Addr
  <2> QED BY <2>2, <2>3, <2>4, <2>5, <2>6, <1>5 DEF PutBlock
<1>9. UNCHANGED <<heap_lo, heap_hi, heap_ok, brk, faults>> /\ Return(UserPtr(b))
  BY DEF AllocWhole
<1>10. UserPtr(b) \in Nat /\ UserPtr(b) > 0
  BY <1>5 DEF UserPtr, HDR_SZ
<1>11. \A t \in Live : Payload(t) \cap (UserPtr(b) .. UserPtr(b) + len - 1) = {}
  BY <1>1, <1>2, <1>3, <1>4, <1>5, <1>6, FreshPayload
<1>12. PICK l : l = len
  OBVIOUS
<1>13. /\ slot' \in [Slots -> [ptr : Nat, len : Nat]]
       /\ Live' = Live \cup {dst}
       /\ slot'[dst] = [ptr |-> UserPtr(b), len |-> l]
       /\ \A t \in Live : slot'[t] = slot[t]
       /\ LiveDisjoint'
       /\ pc' = "idle" /\ dst' = NoSlot /\ cur' = 0 /\ need' = 0 /\ len' = 0
  BY <1>1, <1>9, <1>10, <1>11, <1>12, ReturnStep
<1>14. TypeOK'
  BY <1>8, <1>9, <1>13 DEF TypeOK
<1>15. HeapBase' /\ CallOK'
  BY <1>9, <1>13 DEF HeapBase, HeapBacked, CallOK
<1>16. /\ \A s \in Live : HdrOf(slot[s].ptr) < b
       /\ HdrOf(slot'[dst].ptr) = b /\ slot'[dst].len = l
       /\ \E s \in Live' : slot'[s].ptr = UserPtr(b)
       /\ \A s, t \in Live' : slot'[s].ptr = slot'[t].ptr => s = t
  BY <1>1, <1>2, <1>3, <1>4, <1>5, <1>6, <1>13, ReturnLedger
<1>17. /\ mem'[b].sz = n /\ mem'[b].alloc = TRUE /\ mem'[b].pfree = mem[b].pfree
       /\ mem'[Ftr(b, n)].sz = n /\ mem'[Ftr(b, n)].alloc = TRUE
  BY <1>8 DEF Tag
<1>18. \A c \in S : c < b => mem[c].alloc
  <2> SUFFICES ASSUME NEW c \in S, c < b PROVE mem[c].alloc
    OBVIOUS
  <2>1. c # b
    BY <1>5
  <2> QED BY <2>1, <1>2, <1>3, <1>4, <1>5, FreeBlockIsLast
<1>19. /\ mem[b].pfree => heap_lo < b /\ mem[b - HDR_SZ].alloc
       /\ ~mem[b].pfree => OnPage(heap_lo, b)
  BY <1>2, <1>3 DEF Sound, FlagsAreWrong, PagesMarked
<1>20. \A s \in Live' :
         \/ s \in Live /\ slot'[s] = slot[s] /\ HdrOf(slot[s].ptr) < b
         \/ HdrOf(slot'[s].ptr) = b /\ mem'[b].alloc /\ slot'[s].len + OVERHEAD <= n
  BY <1>6, <1>12, <1>13, <1>16, <1>17
<1>21. \A s \in Live : HdrOf(slot[s].ptr) < b => s \in Live' /\ slot'[s] = slot[s]
  BY <1>13
<1>22. heap_lo' = heap_lo /\ heap_hi' = b + n
  BY <1>5, <1>9
<1>23. /\ Sound({c \in S : c < b} \cup {b})'
       /\ {c \in S : c < b} \cup {b} \in SUBSET Addr
  BY <1>2, <1>3, <1>5, <1>8, <1>16, <1>17, <1>18, <1>19, <1>20, <1>21, <1>22, TailBlock
<1> QED BY <1>9, <1>13, <1>14, <1>15, <1>23 DEF Intact

-----------------------------------------------------------------------------
(* The memory stays a memory, also in the steps that damage the tags.        *)

(* The mask of lines 262, 330 and 383 leaves a tag a tag.                   *)
LEMMA MarkPrevFreeType ==
  ASSUME NEW m \in [Addr -> Word], NEW hi \in Nat, hi <= LIMIT, NEW a \in Nat
  PROVE  MarkPrevFree(m, hi, a) \in [Addr -> Word]
<1>1. CASE a < hi
  <2>1. a \in Addr
    BY <1>1, HeapAssumption DEF Addr
  <2>2. Tag(m[a].sz, FALSE, TRUE) \in Word
    BY <2>1 DEF Tag, Word
  <2> QED BY <1>1, <2>2 DEF MarkPrevFree
<1>2. CASE ~(a < hi)
  BY <1>2 DEF MarkPrevFree
<1> QED BY <1>1, <1>2

(* The mask of lines 274 and 302 leaves a tag a tag.                        *)
LEMMA ClearPrevFreeType ==
  ASSUME NEW m \in [Addr -> Word], NEW hi \in Nat, hi <= LIMIT, NEW a \in Nat
  PROVE  ClearPrevFree(m, hi, a) \in [Addr -> Word]
<1>1. CASE a < hi
  <2>1. a \in Addr
    BY <1>1, HeapAssumption DEF Addr
  <2>2. Tag(m[a].sz, m[a].alloc, FALSE) \in Word
    BY <2>1 DEF Tag, Word
  <2> QED BY <1>1, <2>2 DEF ClearPrevFree
<1>2. CASE ~(a < hi)
  BY <1>2 DEF ClearPrevFree
<1> QED BY <1>1, <1>2

(* Lines 267-278 and 295-306 leave tags tags.                               *)
LEMMA TakeWholeType ==
  ASSUME NEW m \in [Addr -> Word], NEW hi \in Nat, hi <= LIMIT, NEW b \in Addr
  PROVE  TakeWhole(m, hi, b) \in [Addr -> Word]
<1> DEFINE m2 == PutBlock(m, b, m[b].sz, TRUE, m[b].pfree)
<1>1. b + m[b].sz \in Nat
  BY HeapAssumption DEF Addr, Word
<1>2. Tag(m[b].sz, TRUE, m[b].pfree) \in Word /\ Tag(m[b].sz, TRUE, FALSE) \in Word
  BY DEF Tag, Word
<1>3. m2 \in [Addr -> Word]
  BY <1>2 DEF PutBlock
<1>4. TakeWhole(m, hi, b) = ClearPrevFree(m2, hi, b + m[b].sz)
  BY DEF TakeWhole
<1> HIDE DEF m2
<1> QED BY <1>1, <1>3, <1>4, ClearPrevFreeType

(* merge leaves tags tags when the sizes it adds up stay inside the heap.   *)
LEMMA MergeType ==
  ASSUME NEW m \in [Addr -> Word], NEW hi \in Nat, hi <= LIMIT, NEW b \in Addr,
         m[b].pfree => b - 1 \in Addr /\ m[b - 1].sz <= b
  PROVE  Merge(m, hi, b) \in [Addr -> Word]
<1> DEFINE next    == b + m[b].sz
           prev_sz == IF m[b].pfree THEN m[b - 1].sz ELSE 0
           next_sz == IF next < hi /\ ~m[next].alloc THEN m[next].sz ELSE 0
           start   == b - prev_sz
           total   == prev_sz + m[b].sz + next_sz
           m2      == PutBlock(m, start, total, FALSE, m[start].pfree)
<1>1. b \in Nat /\ b < LIMIT /\ m[b].sz \in Nat /\ next \in Nat
  BY HeapAssumption DEF Addr, Word
<1>2. prev_sz \in Nat /\ prev_sz <= b
  <2>1. CASE m[b].pfree
    BY <2>1, <1>1 DEF Word
  <2>2. CASE ~m[b].pfree
    BY <2>2, <1>1
  <2> QED BY <2>1, <2>2
<1>3. next_sz \in Nat
  <2>1. next < hi => next \in Addr
    BY <1>1, HeapAssumption DEF Addr
  <2> QED BY <2>1 DEF Word
<1>4. start \in Addr
  BY <1>1, <1>2, HeapAssumption DEF Addr
<1>5. total \in Nat /\ start + total \in Nat
  <2> HIDE DEF next_sz, prev_sz
  <2> QED BY <1>1, <1>2, <1>3
<1>6. Tag(total, FALSE, m[start].pfree) \in Word /\ Tag(total, FALSE, FALSE) \in Word
  <2> HIDE DEF total, start
  <2> QED BY <1>4, <1>5 DEF Tag, Word
<1>7. m2 \in [Addr -> Word]
  <2> HIDE DEF total, start
  <2> QED BY <1>6 DEF PutBlock
<1>8. Merge(m, hi, b) = IF prev_sz + next_sz = 0 THEN m ELSE MarkPrevFree(m2, hi, start + total)
  BY DEF Merge
<1> HIDE DEF m2, total, start, next_sz, prev_sz
<1> QED BY <1>5, <1>7, <1>8, MarkPrevFreeType

(* The last word of the heap is the footer of its last block.               *)
LEMMA LastFooter ==
  ASSUME TypeOK, HeapBase, NEW S \in SUBSET Addr, Sound(S),
         NEW b \in S \cup {heap_hi}, b # heap_lo
  PROVE  \E c \in S : /\ c + mem[c].sz = b /\ c \in Nat /\ mem[c].sz \in Nat /\ mem[c].sz <= b
                      /\ b - HDR_SZ = Ftr(c, mem[c].sz) /\ b - HDR_SZ \in Addr
                      /\ mem[b - HDR_SZ].sz = mem[c].sz /\ mem[b - HDR_SZ].alloc = mem[c].alloc
<1>1. PICK c \in S : c + mem[c].sz = b
  BY DEF Sound, Linked
<1>2. c \in Nat /\ mem[c].sz \in Nat /\ mem[c].sz >= 4 /\ Ftr(c, mem[c].sz) \in Addr
  BY BlockFacts
<1>3. b - HDR_SZ = Ftr(c, mem[c].sz)
  BY <1>1, <1>2 DEF Ftr, HDR_SZ
<1>4. TagsAgree(S)
  BY DEF Sound
<1>5. /\ mem[Ftr(c, mem[c].sz)].sz = mem[c].sz
      /\ mem[Ftr(c, mem[c].sz)].alloc = mem[c].alloc
  BY <1>1, <1>4 DEF TagsAgree
<1> QED BY <1>1, <1>2, <1>3, <1>5

(* The heap grows by whole pages.                                           *)
LEMMA GrowsByPages ==
  ASSUME NEW lo \in Nat, NEW hi \in Nat, OnPage(lo, hi), NEW n \in Nat
  PROVE  OnPage(lo, hi + AlignUp(n, PAGE))
<1>1. PICK q \in Nat : hi = lo + q * PAGE
  BY DEF OnPage
<1>2. PAGE \in Nat /\ PAGE > 0
  BY HeapAssumption
<1>3. PICK k \in Nat : AlignUp(n, PAGE) = k * PAGE
  BY <1>2, AlignUpFacts
<1>4. q + k \in Nat /\ hi + AlignUp(n, PAGE) = lo + (q + k) * PAGE
  BY <1>1, <1>2, <1>3
<1> QED BY <1>4 DEF OnPage

(* What OnPage says in numbers.                                             *)
LEMMA PageStarts ==
  ASSUME NEW lo \in Nat, NEW a \in Nat, OnPage(lo, a)
  PROVE  (a - lo) % PAGE = 0
<1>1. PICK q \in Nat : a = lo + q * PAGE
  BY DEF OnPage
<1>2. PAGE \in Nat /\ PAGE > 0
  BY HeapAssumption
<1>3. PICK x \in Int : x = a - lo
  OBVIOUS
<1>4. x = q * PAGE
  BY <1>1, <1>2, <1>3
<1>5. PICK d \in Int, e \in Int : d = x \div PAGE /\ e = x % PAGE
  BY <1>2
<1>6. x = d * PAGE + e /\ 0 <= e /\ e < PAGE
  BY <1>2, <1>5
<1>7. PICK k \in Int : k = q - d
  OBVIOUS
<1>8. k * PAGE = e
  BY <1>2, <1>4, <1>6, <1>7
<1>9. k > 0 => k * PAGE >= PAGE
  BY <1>2
<1>10. k < 0 => k * PAGE <= -PAGE
  BY <1>2
<1>11. k = 0
  BY <1>2, <1>6, <1>8, <1>9, <1>10
<1>12. e = 0
  BY <1>2, <1>8, <1>11
<1> QED BY <1>3, <1>5, <1>12

(* Growing the heap by brk_grow keeps the invariant; where brk_grow merges  *)
(* the new block with a free one the step is a fault.                       *)
LEMMA AllocGrowStep ==
  ASSUME IInv, faults = {}, AllocGrow, NEW b, b = heap_hi
  PROVE  IInv' /\ (GrowFaults = {} => AllHeld')
<1> USE DEF IInv
<1>1. pc = "walk" /\ faults' = GrowFaults /\ Return(UserPtr(b))
  BY DEF AllocGrow, AtEnd
<1>2. PICK g \in Nat : g = AlignUp(need, PAGE) /\ g >= 4 /\ g >= need /\ g % 2 = 0
  BY <1>1, NeedFacts, AlignUpPage
<1>3. /\ heap_hi' = b + g /\ b + g <= LIMIT /\ brk' = b + g
      /\ UNCHANGED <<heap_lo, heap_ok>>
      /\ mem' = TakeWhole(Grown(mem, heap_lo, b, g), b + g, b)
  BY <1>2 DEF AllocGrow, SetBrk
<1>4. PICK S \in SUBSET Addr : Sound(S)
  BY DEF Intact
<1>5. /\ b \in Nat /\ b \in Addr /\ b % 2 = 0 /\ heap_lo \in Nat /\ heap_lo <= b
      /\ b + g \in Nat /\ Ftr(b, g) \in Addr /\ b < Ftr(b, g)
  <2>1. b \in Nat /\ heap_lo \in Nat
    BY DEF TypeOK
  <2>2. b % 2 = 0 /\ heap_lo <= b
    BY DEF HeapBase
  <2> QED BY <2>1, <2>2, <1>2, <1>3, HeapAssumption DEF Addr, Ftr, HDR_SZ
<1>6. /\ len \in Nat /\ len + OVERHEAD <= g /\ dst \notin Live
  BY <1>1, <1>2, NeedFacts DEF OVERHEAD
<1>7. UserPtr(b) \in Nat /\ UserPtr(b) > 0
  BY <1>5 DEF UserPtr, HDR_SZ
<1>8. \A t \in Live : Payload(t) \cap (UserPtr(b) .. UserPtr(b) + len - 1) = {}
  BY <1>4, <1>5, <1>6, FreshPayload
<1>9. PICK l : l = len
  OBVIOUS
<1>10. /\ slot' \in [Slots -> [ptr : Nat, len : Nat]]
       /\ Live' = Live \cup {dst}
       /\ slot'[dst] = [ptr |-> UserPtr(b), len |-> l]
       /\ \A t \in Live : slot'[t] = slot[t]
       /\ LiveDisjoint'
       /\ pc' = "idle" /\ dst' = NoSlot /\ cur' = 0 /\ need' = 0 /\ len' = 0
  BY <1>1, <1>7, <1>8, <1>9, ReturnStep
<1> DEFINE pf == b > heap_lo /\ ~mem[b - HDR_SZ].alloc
           m1 == PutBlock(mem, b, g, FALSE, pf)
<1>11. mem \in [Addr -> Word] /\ b # Ftr(b, g)
  BY <1>5 DEF TypeOK
<1>12. /\ m1 \in [Addr -> Word]
       /\ m1[b] = Tag(g, FALSE, pf)
       /\ \A a \in Addr : a # b /\ a # Ftr(b, g) => m1[a] = mem[a]
  <2>1. pf \in BOOLEAN
    OBVIOUS
  <2>2. Tag(g, FALSE, pf) \in Word /\ Tag(g, FALSE, FALSE) \in Word
    <3> HIDE DEF pf
    <3> QED BY <2>1 DEF Tag, Word
  <2> HIDE DEF pf
  <2> QED BY <2>2, <1>5, <1>11 DEF PutBlock
<1>13. Grown(mem, heap_lo, b, g) = Merge(m1, b + g, b)
  BY DEF Grown
<1>14. mem' \in [Addr -> Word]
  <2>1. m1[b].pfree => b - 1 \in Addr /\ m1[b - 1].sz <= b
    <3> SUFFICES ASSUME m1[b].pfree PROVE b - 1 \in Addr /\ m1[b - 1].sz <= b
      OBVIOUS
    <3>1. b > heap_lo
      <4>1. pf
        <5> HIDE DEF m1, pf
        <5> QED BY <1>12 DEF Tag
      <4> QED BY <4>1
    <3>2. b # heap_lo /\ b - 1 = b - HDR_SZ
      BY <3>1, <1>5 DEF HDR_SZ
    <3>3. b - 1 \in Addr /\ mem[b - 1].sz <= b
      BY <3>2, <1>4, LastFooter
    <3>4. b - 1 # b /\ b - 1 # Ftr(b, g)
      BY <1>5 DEF Ftr, HDR_SZ
    <3> HIDE DEF m1
    <3> QED BY <3>3, <3>4, <1>12
  <2>2. Merge(m1, b + g, b) \in [Addr -> Word]
    <3> HIDE DEF m1
    <3> QED BY <2>1, <1>3, <1>5, <1>12, MergeType
  <2> HIDE DEF m1
  <2> QED BY <2>2, <1>3, <1>5, <1>13, TakeWholeType
<1>15. TypeOK'
  <2>1. GrowFaults \subseteq FaultKinds
    BY DEF GrowFaults, FaultKinds
  <2> QED BY <2>1, <1>1, <1>3, <1>5, <1>10, <1>14 DEF TypeOK
<1>16. HeapBase' /\ CallOK'
  <2>1. CallOK'
    BY <1>10 DEF CallOK
  <2>0. OnPage(heap_lo, b + g)
    BY <1>1, <1>2, <1>5, NeedFacts, GrowsByPages DEF HeapBase
  <2>2. heap_ok
    BY <1>1 DEF CallOK
  <2>3. (b + g) % 2 = 0 /\ heap_lo <= b + g
    BY <1>2, <1>5
  <2>4. heap_lo % 2 = 0
    BY DEF HeapBase
  <2> QED BY <2>0, <2>1, <2>2, <2>3, <2>4, <1>3 DEF HeapBase, HeapBacked
<1>17. ASSUME GrowFaults = {} PROVE Intact' /\ AllHeld'
  <2>1. \A c \in S : mem[c].alloc
    <3> SUFFICES ASSUME NEW c \in S, ~mem[c].alloc PROVE FALSE
      OBVIOUS
    <3>1. c + mem[c].sz = b /\ heap_lo < heap_hi
      BY <1>4, BlockFacts DEF Sound, OnlyLastFree
    <3>2. mem[b - HDR_SZ].alloc
      BY <1>17, <3>1 DEF GrowFaults
    <3>3. c \in Nat /\ mem[c].sz \in Nat
      BY <1>4, BlockFacts
    <3>4. b - HDR_SZ = Ftr(c, mem[c].sz)
      BY <3>1, <3>3 DEF Ftr, HDR_SZ
    <3>5. TagsAgree(S)
      BY <1>4 DEF Sound
    <3>6. mem[Ftr(c, mem[c].sz)].alloc = mem[c].alloc
      BY <3>5 DEF TagsAgree
    <3> QED BY <3>2, <3>4, <3>6
  <2>2. pf = FALSE
    BY <1>17, <1>5 DEF GrowFaults
  <2>3. m1 = PutBlock(mem, b, g, FALSE, FALSE)
    BY <2>2, Zenon
  <2>4. m1[b].sz = g /\ m1[b].pfree = FALSE
    <3> HIDE DEF m1, pf
    <3> QED BY <2>2, <1>12 DEF Tag
  <2>5. Merge(m1, b + g, b) = m1
    <3> HIDE DEF m1
    <3>1. ~(b + m1[b].sz < b + g)
      BY <2>4, <1>5
    <3> QED BY <2>4, <3>1, MergeNothing
  <2>6. mem' = PutBlock(m1, b, g, TRUE, FALSE)
    <3>1. mem' = ClearPrevFree(PutBlock(m1, b, m1[b].sz, TRUE, m1[b].pfree), b + g, b + m1[b].sz)
      <4> HIDE DEF m1
      <4> QED BY <2>5, <1>3, <1>13, Zenon DEF TakeWhole
    <3>2. mem' = ClearPrevFree(PutBlock(m1, b, g, TRUE, FALSE), b + g, b + g)
      <4> HIDE DEF m1
      <4> QED BY <3>1, <2>4, Zenon
    <3>3. ~(b + g < b + g)
      BY <1>5
    <3> QED BY <3>2, <3>3, Zenon DEF ClearPrevFree
  <2>7. /\ mem'[b] = Tag(g, TRUE, FALSE)
        /\ mem'[Ftr(b, g)] = Tag(g, TRUE, FALSE)
        /\ \A a \in Addr : a # b /\ a # Ftr(b, g) => mem'[a] = m1[a]
    <3> HIDE DEF m1
    <3> QED BY <2>6, <1>5, <1>11, <1>12 DEF PutBlock
  <2>8. \A a \in Addr : a < b => mem'[a] = mem[a]
    <3> SUFFICES ASSUME NEW a \in Addr, a < b PROVE mem'[a] = mem[a]
      OBVIOUS
    <3>1. a \in Int
      BY HeapAssumption DEF Addr
    <3>2. a # b /\ a # Ftr(b, g)
      BY <3>1, <1>5
    <3> HIDE DEF m1
    <3> QED BY <3>2, <2>7, <1>12
  <2>9. /\ mem'[b].sz = g /\ mem'[b].alloc = TRUE /\ mem'[b].pfree = FALSE
        /\ mem'[Ftr(b, g)].sz = g /\ mem'[Ftr(b, g)].alloc = TRUE
    BY <2>7 DEF Tag
  <2>10. b \notin S
    BY <1>4, BlockFacts
  <2>11. /\ \A s \in Live : HdrOf(slot[s].ptr) < b
         /\ HdrOf(slot'[dst].ptr) = b /\ slot'[dst].len = l
         /\ \E s \in Live' : slot'[s].ptr = UserPtr(b)
         /\ \A s, t \in Live' : slot'[s].ptr = slot'[t].ptr => s = t
    BY <2>10, <1>4, <1>6, <1>10, ReturnLedger
  <2>12. \A s \in Live' :
           \/ s \in Live /\ slot'[s] = slot[s] /\ HdrOf(slot[s].ptr) < b
           \/ HdrOf(slot'[s].ptr) = b /\ mem'[b].alloc /\ slot'[s].len + OVERHEAD <= g
    BY <2>9, <2>11, <1>6, <1>9, <1>10
  <2>13. \A s \in Live : HdrOf(slot[s].ptr) < b => s \in Live' /\ slot'[s] = slot[s]
    BY <1>10
  <2>14. /\ mem'[b].pfree => heap_lo < b /\ mem[b - HDR_SZ].alloc
         /\ ~mem'[b].pfree => OnPage(heap_lo, b)
    BY <2>9 DEF HeapBase
  <2>15. /\ Sound({c \in S : c < b} \cup {b})'
         /\ {c \in S : c < b} \cup {b} \in SUBSET Addr
    BY <1>2, <1>3, <1>4, <1>5, <1>14, <2>1, <2>8, <2>9, <2>11, <2>12, <2>13, <2>14, TailBlock
  <2>16. \A c \in {c \in S : c < b} \cup {b} : mem'[c].alloc
    BY <2>1, <2>8, <2>9
  <2> QED BY <2>15, <2>16, <1>10 DEF Intact, AllHeld
<1> QED BY <1>1, <1>10, <1>15, <1>16, <1>17

-----------------------------------------------------------------------------
(* free keeps the invariant: only the last block, or the one before a free  *)
(* last block, is freed without a fault.                                    *)
LEMMA FreeStep ==
  ASSUME IInv, faults = {}, NEW s \in Slots, Free(s), NEW b, b = HdrOf(slot[s].ptr)
  PROVE  IInv'
<1> USE DEF IInv
<1>1. /\ pc = "idle" /\ s \in Live /\ mem' = Release(mem, heap_hi, b)
      /\ slot' = [slot EXCEPT ![s] = NULL] /\ faults' = FreeFaults(b)
      /\ UNCHANGED <<heap_lo, heap_hi, heap_ok, brk, pc, cur, need, dst, len>>
  BY DEF Free, callvars
<1>2. PICK S \in SUBSET Addr : Sound(S)
  BY DEF Intact
<1>3. b \in S /\ mem[b].alloc
  BY <1>1, <1>2, LiveFacts
<1>4. PICK n \in Nat : n = mem[b].sz
  BY <1>2, <1>3, BlockFacts
<1>5. PICK hi \in Nat : hi = heap_hi
  BY DEF TypeOK
<1>6. /\ b \in Addr /\ b \in Nat /\ mem[b] \in Word /\ n >= 4 /\ b % 2 = 0 /\ n % 2 = 0
      /\ b + n <= hi /\ b + n \in S \cup {hi} /\ Ftr(b, n) \in Addr /\ hi <= LIMIT
      /\ \A c \in S : b < c => b + n <= c
  BY <1>2, <1>3, <1>4, <1>5, BlockFacts
<1>7. b < Ftr(b, n) /\ Ftr(b, n) < b + n /\ Ftr(b, n) \in Nat
  BY <1>6 DEF Ftr, HDR_SZ
<1>8. \A c \in S : c < b => mem[c].alloc
  <2> SUFFICES ASSUME NEW c \in S, c < b, ~mem[c].alloc PROVE FALSE
    OBVIOUS
  <2>1. c + mem[c].sz = hi
    BY <1>2, <1>5 DEF Sound, OnlyLastFree
  <2>2. c + mem[c].sz <= b
    BY <1>2, <1>3, BlockFacts
  <2> QED BY <2>1, <2>2, <1>6
(* The ledger.                                                              *)
<1>9. /\ slot' \in [Slots -> [ptr : Nat, len : Nat]]
      /\ Live' = Live \ {s}
      /\ \A t \in Live' : slot'[t] = slot[t]
  <2>1. NULL \in [ptr : Nat, len : Nat] /\ NULL.ptr = 0
    BY DEF NULL
  <2>2. slot \in [Slots -> [ptr : Nat, len : Nat]]
    BY DEF TypeOK
  <2>3. slot'[s] = NULL /\ \A t \in Slots : t # s => slot'[t] = slot[t]
    BY <1>1, <2>2
  <2> QED BY <1>1, <2>1, <2>2, <2>3 DEF Live
<1>10. LiveDisjoint'
  BY <1>9 DEF LiveDisjoint, Payload
<1>11. CallOK'
  BY <1>1 DEF CallOK
<1>12. HeapBase'
  BY <1>1 DEF HeapBase, HeapBacked
(* The memory.                                                              *)
<1> DEFINE m1 == PutBlock(mem, b, n, FALSE, mem[b].pfree)
           m2 == MarkPrevFree(m1, hi, b + n)
<1>13. mem' = Merge(m2, hi, b)
  BY <1>1, <1>4, <1>5, Zenon DEF Release
<1>14. /\ m1 \in [Addr -> Word]
       /\ m1[b] = Tag(n, FALSE, mem[b].pfree)
       /\ m1[Ftr(b, n)] = Tag(n, FALSE, FALSE)
       /\ \A a \in Addr : a # b /\ a # Ftr(b, n) => m1[a] = mem[a]
  <2>1. Tag(n, FALSE, mem[b].pfree) \in Word /\ Tag(n, FALSE, FALSE) \in Word
    BY <1>6 DEF Tag, Word
  <2>2. b # Ftr(b, n) /\ mem \in [Addr -> Word]
    BY <1>6, <1>7 DEF TypeOK
  <2> QED BY <2>1, <2>2, <1>6 DEF PutBlock
<1>15. /\ m2 \in [Addr -> Word]
       /\ \A a \in Addr : a # b + n => m2[a] = m1[a]
  <2> HIDE DEF m1
  <2>1. m2 \in [Addr -> Word]
    BY <1>6, <1>14, MarkPrevFreeType
  <2>2. \A a \in Addr : a # b + n => m2[a] = m1[a]
    BY <1>14 DEF MarkPrevFree
  <2> QED BY <2>1, <2>2
<1>16. m2[b] = Tag(n, FALSE, mem[b].pfree) /\ m2[Ftr(b, n)] = Tag(n, FALSE, FALSE)
  <2>1. b # b + n /\ Ftr(b, n) # b + n
    BY <1>6, <1>7
  <2> HIDE DEF m1, m2
  <2> QED BY <2>1, <1>6, <1>14, <1>15
<1>17. \A a \in Addr : a < b => m2[a] = mem[a]
  <2> SUFFICES ASSUME NEW a \in Addr, a < b PROVE m2[a] = mem[a]
    OBVIOUS
  <2>1. a \in Int
    BY HeapAssumption DEF Addr
  <2>2. a # b /\ a # Ftr(b, n) /\ a # b + n
    BY <2>1, <1>6, <1>7
  <2> HIDE DEF m1, m2
  <2> QED BY <2>2, <1>14, <1>15
<1>18. mem' \in [Addr -> Word]
  <2>1. m2[b].pfree => b - 1 \in Addr /\ m2[b - 1].sz <= b
    <3> SUFFICES ASSUME m2[b].pfree PROVE b - 1 \in Addr /\ m2[b - 1].sz <= b
      OBVIOUS
    <3>1. mem[b].pfree
      <4> HIDE DEF m2
      <4> QED BY <1>16 DEF Tag
    <3>2. heap_lo < b
      BY <3>1, <1>2, <1>3 DEF Sound, FlagsAreWrong
    <3>3. b # heap_lo /\ b - 1 = b - HDR_SZ /\ b - 1 < b
      BY <3>2, <1>6 DEF TypeOK, HDR_SZ
    <3>4. b - 1 \in Addr /\ mem[b - 1].sz <= b
      BY <3>3, <1>2, <1>3, LastFooter
    <3> HIDE DEF m2
    <3> QED BY <3>3, <3>4, <1>17
  <2> HIDE DEF m2
  <2> QED BY <2>1, <1>6, <1>13, <1>15, MergeType
<1>19. TypeOK'
  <2>1. FreeFaults(b) \subseteq FaultKinds
    BY DEF FreeFaults
  <2> QED BY <2>1, <1>1, <1>9, <1>18 DEF TypeOK
<1>20. ASSUME FreeFaults(b) = {} PROVE Intact'
  <2>1. b + n < hi => ~mem[b + n].alloc
    <3>1. "swallow" \in FaultKinds
      BY DEF FaultKinds
    <3>2. ~TaggedAlloc(b + n)
      BY <3>1, <1>4, <1>20 DEF FreeFaults
    <3> QED BY <3>2, <1>5 DEF TaggedAlloc
  <2>2. mem[b].pfree = FALSE
    <3>1. "false_prev" \in FaultKinds
      BY DEF FaultKinds
    <3>2. ~(mem[b].pfree /\ mem[b - HDR_SZ].alloc)
      BY <3>1, <1>20 DEF FreeFaults
    <3>3. mem[b].pfree => mem[b - HDR_SZ].alloc
      BY <1>2, <1>3 DEF Sound, FlagsAreWrong
    <3>4. mem[b].pfree \in BOOLEAN
      BY <1>6 DEF Word
    <3> QED BY <3>2, <3>3, <3>4
  <2>3. PICK total \in Nat :
          /\ total >= 4 /\ total % 2 = 0 /\ b + total = hi
          /\ mem'[b] = Tag(total, FALSE, FALSE)
          /\ mem'[Ftr(b, total)] = Tag(total, FALSE, FALSE)
          /\ \A a \in Addr : a < b => mem'[a] = mem[a]
          /\ \A c \in S : b < c => ~mem[c].alloc
    <3>1. CASE b + n = hi
      <4>1. m2 = m1
        <5>1. ~(b + n < hi)
          BY <3>1, <1>6
        <5> QED BY <5>1, Zenon DEF MarkPrevFree
      <4>2. mem' = m2
        <5> HIDE DEF m2
        <5>1. m2[b].sz = n /\ ~m2[b].pfree
          BY <1>16, <2>2 DEF Tag
        <5>2. ~(b + m2[b].sz < hi)
          BY <5>1, <3>1, <1>6
        <5> QED BY <5>1, <5>2, <1>13, MergeNothing
      <4>3. \A c \in S : ~(b < c)
        <5> SUFFICES ASSUME NEW c \in S, b < c PROVE FALSE
          OBVIOUS
        <5>1. b + n <= c /\ c \in Nat /\ c < heap_hi
          BY <1>2, <1>6, BlockFacts
        <5> QED BY <5>1, <3>1, <1>5, <1>6
      <4>4. mem'[b] = Tag(n, FALSE, FALSE)
        <5> HIDE DEF m2
        <5> QED BY <4>2, <1>16, <2>2, Zenon
      <4> HIDE DEF m2
      <4> QED BY <4>2, <4>3, <4>4, <3>1, <1>6, <1>16, <1>17
    <3>2. CASE b + n # hi
      <4>1. b + n \in S /\ b + n < hi
        BY <3>2, <1>6
      <4>2. PICK nx \in S : nx = b + n
        BY <4>1
      <4>3. ~mem[nx].alloc
        BY <2>1, <4>1, <4>2
      <4>4. PICK k \in Nat : k = mem[nx].sz /\ k >= 4 /\ k % 2 = 0 /\ nx \in Addr /\ nx \in Nat
        BY <1>2, BlockFacts
      <4>5. nx + k = hi
        BY <4>3, <4>4, <1>2, <1>5 DEF Sound, OnlyLastFree
      <4>6. m2[nx].sz = k /\ ~m2[nx].alloc
        <5>1. m1[nx] = mem[nx]
          <6>1. nx # b /\ nx # Ftr(b, n)
            BY <4>2, <1>6, <1>7
          <6> HIDE DEF m1
          <6> QED BY <6>1, <4>4, <1>14
        <5>2. m2[nx] = Tag(mem[nx].sz, FALSE, TRUE)
          <6> HIDE DEF m1
          <6>1. m2 = [m1 EXCEPT ![nx] = Tag(m1[nx].sz, FALSE, TRUE)]
            BY <4>1, <4>2 DEF MarkPrevFree
          <6> QED BY <6>1, <5>1, <4>4, <1>14
        <5> HIDE DEF m2
        <5> QED BY <5>2, <4>4 DEF Tag
      <4>7. mem' = PutBlock(m2, b, n + k, FALSE, FALSE)
        <5> HIDE DEF m2
        <5>1. m2[b].sz = n /\ m2[b].pfree = FALSE
          BY <1>16, <2>2 DEF Tag
        <5>2. n > 0 /\ k > 0 /\ b + n + k = hi
          BY <4>2, <4>4, <4>5, <1>6
        <5>3. m2[b + n].sz = k /\ ~m2[b + n].alloc
          BY <4>2, <4>6
        <5>4. b + n < hi /\ 0 + n + k = n + k /\ 0 + k # 0 /\ b - 0 = b /\ b + (n + k) = hi
          BY <5>2, <1>6
        <5>5. Merge(m2, hi, b) = MarkPrevFree(PutBlock(m2, b, n + k, FALSE, m2[b].pfree), hi, hi)
          BY <5>1, <5>3, <5>4 DEF Merge
        <5>6. Merge(m2, hi, b) = MarkPrevFree(PutBlock(m2, b, n + k, FALSE, FALSE), hi, hi)
          BY <5>1, <5>5, Zenon
        <5>7. ~(hi < hi)
          OBVIOUS
        <5> QED BY <5>6, <5>7, <1>13, Zenon DEF MarkPrevFree
      <4>8. PICK f \in Addr : f = Ftr(b, n + k) /\ b < f
        BY <4>2, <4>4, <4>5, <1>6, HeapAssumption DEF Ftr, HDR_SZ, Addr
      <4>9. /\ mem'[b] = Tag(n + k, FALSE, FALSE)
            /\ mem'[f] = Tag(n + k, FALSE, FALSE)
            /\ \A a \in Addr : a # b /\ a # f => mem'[a] = m2[a]
        <5>1. b # f
          BY <4>8, <1>6
        <5> HIDE DEF m2
        <5> QED BY <5>1, <4>7, <4>8, <1>6, <1>15 DEF PutBlock
      <4>10. \A a \in Addr : a < b => mem'[a] = mem[a]
        <5> SUFFICES ASSUME NEW a \in Addr, a < b PROVE mem'[a] = mem[a]
          OBVIOUS
        <5>1. a # b /\ a # f
          BY <4>8, <1>6, HeapAssumption DEF Addr
        <5> HIDE DEF m2
        <5> QED BY <5>1, <4>9, <1>17
      <4>11. \A c \in S : b < c => ~mem[c].alloc
        <5> SUFFICES ASSUME NEW c \in S, b < c PROVE ~mem[c].alloc
          OBVIOUS
        <5>1. c \in Nat /\ c < hi /\ nx <= c
          BY <4>2, <1>2, <1>5, <1>6, BlockFacts
        <5>2. nx < c => nx + k <= c
          BY <4>4, <1>2, BlockFacts
        <5>3. nx = c
          BY <5>1, <5>2, <4>4, <4>5
        <5> QED BY <5>3, <4>3
      <4>12. (n + k) \in Nat /\ n + k >= 4 /\ (n + k) % 2 = 0 /\ b + (n + k) = hi
        BY <4>2, <4>4, <4>5, <1>6
      <4> QED BY <4>8, <4>9, <4>10, <4>11, <4>12
    <3> QED BY <3>1, <3>2
  <2>4. \A t \in Live' : HdrOf(slot[t].ptr) < b
    <3> SUFFICES ASSUME NEW t \in Live' PROVE HdrOf(slot[t].ptr) < b
      OBVIOUS
    <3>1. t \in Live /\ t # s
      BY <1>9
    <3>2. /\ HdrOf(slot[t].ptr) \in S /\ mem[HdrOf(slot[t].ptr)].alloc
          /\ slot[t].ptr = UserPtr(HdrOf(slot[t].ptr))
      BY <3>1, <1>2, LiveFacts
    <3>3. slot[s].ptr = UserPtr(b)
      BY <1>1, <1>2, LiveFacts
    <3>4. HdrOf(slot[t].ptr) # b
      BY <3>1, <3>2, <3>3, <1>1, <1>2 DEF Sound, LedgerAgrees
    <3>5. HdrOf(slot[t].ptr) \in Nat
      BY <3>2, <1>2, BlockFacts
    <3> QED BY <2>3, <3>2, <3>4, <3>5, <1>6
  <2>5. /\ mem'[b].sz = total /\ mem'[b].alloc = FALSE /\ mem'[b].pfree = FALSE
        /\ mem'[Ftr(b, total)].sz = total /\ mem'[Ftr(b, total)].alloc = FALSE
    BY <2>3 DEF Tag
  <2>6. \A t \in Live : HdrOf(slot[t].ptr) < b => t \in Live' /\ slot'[t] = slot[t]
    <3>1. ~(HdrOf(slot[s].ptr) < b)
      BY <1>6
    <3> QED BY <3>1, <1>9
  <2>7. \A t \in Live' :
          \/ t \in Live /\ slot'[t] = slot[t] /\ HdrOf(slot[t].ptr) < b
          \/ HdrOf(slot'[t].ptr) = b /\ mem'[b].alloc /\ slot'[t].len + OVERHEAD <= total
    BY <2>4, <1>9
  <2>8. \A t, u \in Live' : slot'[t].ptr = slot'[u].ptr => t = u
    BY <1>2, <1>9 DEF Sound, LedgerAgrees
  <2>9. heap_lo' = heap_lo /\ heap_hi' = b + total
    BY <2>3, <1>1, <1>5
  <2>10. /\ mem'[Ftr(b, total)].alloc = mem'[b].alloc
         /\ mem'[b].pfree => heap_lo < b /\ mem[b - HDR_SZ].alloc
         /\ ~mem'[b].pfree => OnPage(heap_lo, b)
         /\ mem'[b].alloc => \E t \in Live' : slot'[t].ptr = UserPtr(b)
    BY <2>2, <2>5, <1>2, <1>3 DEF Sound, PagesMarked
  <2>11. /\ Sound({c \in S : c < b} \cup {b})'
         /\ {c \in S : c < b} \cup {b} \in SUBSET Addr
    <3>1. b \in S \cup {heap_hi} /\ b \in Addr /\ b % 2 = 0
      BY <1>3, <1>6
    <3>2. total \in Nat /\ total >= 4 /\ total % 2 = 0 /\ \A a \in Addr : a < b => mem'[a] = mem[a]
      BY <2>3
    <3> HIDE DEF m2
    <3> QED BY <3>1, <3>2, <1>2, <1>8, <1>18, <2>5, <2>10, <2>6, <2>7, <2>8, <2>9, TailBlock
  <2> QED BY <2>11, <1>1 DEF Intact
<1> QED BY <1>1, <1>10, <1>11, <1>12, <1>19, <1>20

-----------------------------------------------------------------------------
(* No tag lies in the words of a client.                                    *)
LEMMA TagsNotInPayload ==
  ASSUME TypeOK, HeapBase, NEW S \in SUBSET Addr, Sound(S), NEW s \in Live, NEW c \in S
  PROVE  c \notin Payload(s) /\ Ftr(c, mem[c].sz) \notin Payload(s) /\ c - HDR_SZ \notin Payload(s)
<1> SUFFICES ASSUME NEW a \in Payload(s), a = c \/ a = Ftr(c, mem[c].sz) \/ a = c - HDR_SZ
             PROVE  FALSE
  OBVIOUS
<1>1. PICK b \in S : b = HdrOf(slot[s].ptr) /\ b < a /\ a < b + mem[b].sz - HDR_SZ /\ a \in Addr
  BY LiveFacts, PayloadInBlock
<1>2. PICK n \in Nat : n = mem[b].sz
  BY BlockFacts
<1>3. PICK k \in Nat : k = mem[c].sz
  BY BlockFacts
<1>4. /\ b \in Nat /\ c \in Nat /\ a \in Int /\ b < a /\ a < b + n - 1
      /\ (b < c => b + n <= c) /\ (c < b => c + k <= b)
  BY <1>1, <1>2, <1>3, BlockFacts, HeapAssumption DEF HDR_SZ, Addr
<1>5. a = c \/ a = c + k - 1 \/ a = c - 1
  BY <1>3 DEF Ftr, HDR_SZ
<1>6. c = b => k = n
  BY <1>2, <1>3
<1> QED BY <1>4, <1>5, <1>6

(* A client that fills its own words keeps the invariant: no tag lies there.*)
LEMMA ClientWriteStep ==
  ASSUME IInv, faults = {}, NEW s \in Slots, NEW w \in UserWords, ClientWrite(s, w)
  PROVE  IInv' /\ (AllHeld => AllHeld')
<1> USE DEF IInv
<1>1. /\ pc = "idle" /\ s \in Live
      /\ mem' = [a \in Addr |-> IF a \in Payload(s) THEN w ELSE mem[a]]
      /\ UNCHANGED <<heap_lo, heap_hi, heap_ok, brk, slot, pc, cur, need, dst, len, faults>>
  BY DEF ClientWrite, callvars
<1>2. PICK S \in SUBSET Addr : Sound(S) /\ (AllHeld => \A c \in S : mem[c].alloc)
  BY DEF Intact, AllHeld
<1>3. w \in Word
  BY HeapAssumption
<1>4. mem' \in [Addr -> Word]
  BY <1>1, <1>3 DEF TypeOK
<1>5. TypeOK'
  BY <1>1, <1>4 DEF TypeOK
<1>6. HeapBase' /\ CallOK' /\ LiveDisjoint'
  BY <1>1, DisjointUnchanged DEF HeapBase, HeapBacked, CallOK
<1>7. \A c \in S : mem'[c] = mem[c] /\ mem'[Ftr(c, mem[c].sz)] = mem[Ftr(c, mem[c].sz)]
  <2> SUFFICES ASSUME NEW c \in S
               PROVE  mem'[c] = mem[c] /\ mem'[Ftr(c, mem[c].sz)] = mem[Ftr(c, mem[c].sz)]
    OBVIOUS
  <2>1. c \notin Payload(s) /\ Ftr(c, mem[c].sz) \notin Payload(s)
    BY <1>1, <1>2, TagsNotInPayload
  <2>2. c \in Addr /\ Ftr(c, mem[c].sz) \in Addr
    BY <1>2, BlockFacts
  <2> QED BY <2>1, <2>2, <1>1
<1>8. Live' = Live
  BY <1>1 DEF Live
<1>9. Tiles(S)'
  BY <1>1, <1>2, <1>7 DEF Sound, Tiles
<1>10. TagsAgree(S)'
  <2> SUFFICES ASSUME NEW b \in S
               PROVE  /\ mem'[Ftr(b, mem'[b].sz)].sz = mem'[b].sz
                      /\ mem'[Ftr(b, mem'[b].sz)].alloc = mem'[b].alloc
                      /\ ~mem'[b].alloc /\ b + mem'[b].sz < heap_hi' =>
                           mem'[b + mem'[b].sz].alloc /\ mem'[b + mem'[b].sz].pfree
    BY Zenon DEF TagsAgree
  <2>1. TagsAgree(S)
    BY <1>2 DEF Sound
  <2>2. mem[Ftr(b, mem[b].sz)].sz = mem[b].sz /\ mem[Ftr(b, mem[b].sz)].alloc = mem[b].alloc
    BY <2>1 DEF TagsAgree
  <2>3. ~mem[b].alloc => ~(b + mem[b].sz < heap_hi)
    BY <1>2, BlockFacts DEF Sound, OnlyLastFree
  <2> QED BY <2>2, <2>3, <1>1, <1>7
<1>11. LedgerAgrees(S)'
  BY <1>1, <1>2, <1>7, <1>8 DEF Sound, LedgerAgrees
<1>12. Linked(S)' /\ OnlyLastFree(S)' /\ PagesMarked(S)'
  <2>1. Linked(S) /\ OnlyLastFree(S) /\ PagesMarked(S)
    BY <1>2 DEF Sound
  <2>2. Linked(S)'
    BY <2>1, <1>1, <1>7 DEF Linked
  <2>3. OnlyLastFree(S)' /\ PagesMarked(S)'
    BY <2>1, <1>1, <1>7 DEF OnlyLastFree, PagesMarked
  <2> QED BY <2>2, <2>3
<1>13. FlagsAreWrong(S)'
  <2> SUFFICES ASSUME NEW c \in S, mem'[c].pfree
               PROVE  heap_lo' < c /\ mem'[c - HDR_SZ].alloc
    BY DEF FlagsAreWrong
  <2>1. heap_lo < c /\ mem[c - HDR_SZ].alloc
    BY <1>2, <1>7 DEF Sound, FlagsAreWrong
  <2>2. c - HDR_SZ \notin Payload(s)
    BY <1>1, <1>2, TagsNotInPayload
  <2>3. c - HDR_SZ \in Addr
    BY <2>1, <1>2, BlockFacts, HeapAssumption DEF TypeOK, HDR_SZ, Addr
  <2> QED BY <2>1, <2>2, <2>3, <1>1
<1>14. Sound(S)'
  BY <1>9, <1>10, <1>11, <1>12, <1>13 DEF Sound
<1>15. AllHeld => AllHeld'
  BY <1>2, <1>7, <1>14 DEF AllHeld
<1> QED BY <1>1, <1>2, <1>5, <1>6, <1>14, <1>15 DEF Intact

-----------------------------------------------------------------------------
(* A step of another part of the program keeps the invariant.               *)
LEMMA StutterStep == IInv /\ UNCHANGED vars => IInv'
<1> SUFFICES ASSUME IInv, UNCHANGED vars PROVE IInv'
  OBVIOUS
<1>1. UNCHANGED <<mem, heap_lo, heap_hi, heap_ok, brk, slot, pc, cur, need, dst, len, faults>>
  BY DEF vars, heapvars, callvars
<1>2. TypeOK' /\ HeapBase' /\ CallOK' /\ LiveDisjoint'
  BY <1>1, DisjointUnchanged DEF IInv, TypeOK, HeapBase, HeapBacked, CallOK
<1>3. Intact => Intact'
  <2> SUFFICES ASSUME Intact PROVE Intact'
    OBVIOUS
  <2>1. PICK S \in SUBSET Addr : Sound(S) /\ (pc = "walk" => cur \in S \cup {heap_hi})
    BY DEF Intact
  <2>2. Sound(S)'
    BY <1>1, <2>1, SoundUnchanged
  <2> QED BY <1>1, <2>1, <2>2 DEF Intact
<1> QED BY <1>1, <1>2, <1>3 DEF IInv

(* Every step of an undamaged heap keeps the invariant.                     *)
LEMMA NextIInv == IInv /\ NextWhileIntact => IInv'
<1> SUFFICES ASSUME IInv, faults = {}, Next PROVE IInv'
  BY DEF NextWhileIntact
<1>1. ASSUME NEW s \in Slots, NEW n \in Sizes, Malloc(s, n) PROVE IInv'
  BY <1>1, MallocStep
<1>2. CASE WalkOn
  BY <1>2, WalkOnStep
<1>3. CASE AllocSplit
  <2>1. PICK b, n : b = cur /\ n = need
    OBVIOUS
  <2> QED BY <1>3, <2>1, AllocSplitStep
<1>4. CASE AllocWhole
  <2>1. PICK b : b = cur
    OBVIOUS
  <2> QED BY <1>4, <2>1, AllocWholeStep
<1>5. CASE AllocGrow
  <2>1. PICK b : b = heap_hi
    OBVIOUS
  <2> QED BY <1>5, <2>1, AllocGrowStep
<1>6. CASE AllocFail
  BY <1>6, AllocFailStep
<1>7. ASSUME NEW s \in Slots, Free(s) PROVE IInv'
  <2>1. PICK b : b = HdrOf(slot[s].ptr)
    OBVIOUS
  <2> QED BY <1>7, <2>1, FreeStep
<1>8. ASSUME NEW s \in Slots, NEW w \in UserWords, ClientWrite(s, w) PROVE IInv'
  BY <1>8, ClientWriteStep
<1> QED BY <1>1, <1>2, <1>3, <1>4, <1>5, <1>6, <1>7, <1>8 DEF Next, AllocStep

(* The inductive invariant holds until the client stops.                    *)
THEOREM Inductive == IntactSpec => []IInv
<1>1. IInv /\ [NextWhileIntact]_vars => IInv'
  BY NextIInv, StutterStep
<1> QED BY InitIInv, <1>1, PTL DEF IntactSpec

(* Every tag, pointer and local of brk_alloc keeps its type: every address   *)
(* that brk_alloc, brk_release and merge read holds a tag.                   *)
THEOREM TypeCorrect == IntactSpec => []TypeOK
<1>1. IInv => TypeOK
  BY DEF IInv
<1> QED BY Inductive, <1>1, PTL

(* malloc never gives two callers the same word, whatever they store in      *)
(* theirs.                                                                  *)
THEOREM NoOverlap == IntactSpec => []LiveDisjoint
<1>1. IInv => LiveDisjoint
  BY DEF IInv
<1> QED BY Inductive, <1>1, PTL

(* The heap never reaches beyond the break the kernel granted, although      *)
(* heap_init does not look at the kernel's answer.                           *)
THEOREM Backed == IntactSpec => []HeapBacked
<1>1. IInv => HeapBacked
  BY DEF IInv, HeapBase
<1> QED BY Inductive, <1>1, PTL

(* No step repairs the tags: the code does not notice that they are damaged. *)
LEMMA FaultsGrow == [Next]_vars => faults \subseteq faults'
<1>1. ASSUME NEW s \in Slots, NEW n \in Sizes, Malloc(s, n) PROVE faults' = faults
  BY <1>1 DEF Malloc
<1>2. AllocStep => faults \subseteq faults'
  BY DEF AllocStep, WalkOn, AllocSplit, AllocWhole, AllocGrow, AllocFail
<1>3. ASSUME NEW s \in Slots, Free(s) PROVE faults \subseteq faults'
  BY <1>3 DEF Free
<1>4. ASSUME NEW s \in Slots, NEW w \in UserWords, ClientWrite(s, w) PROVE faults' = faults
  BY <1>4 DEF ClientWrite
<1>5. UNCHANGED vars => faults' = faults
  BY DEF vars
<1> QED BY <1>1, <1>2, <1>3, <1>4, <1>5 DEF Next

(* For a client that goes on after a fault: in every state of every run in   *)
(* which none of the four faults has happened yet, the blocks are sound, no  *)
(* word has two owners and the heap lies below the kernel's break.           *)
THEOREM SoundUntilFault == Spec => [](faults = {} => IInv)
<1>1. (faults = {} => IInv) /\ [Next]_vars => (faults = {} => IInv)'
  BY FaultsGrow, NextIInv, StutterStep DEF NextWhileIntact
<1>2. Init => (faults = {} => IInv)
  BY InitIInv
<1> QED BY <1>1, <1>2, PTL DEF Spec

-----------------------------------------------------------------------------
(* The heap implements Allocator.                                            *)

(* An answer of malloc that is a pointer is a grant of fresh words.          *)
LEMMA GrantStep ==
  ASSUME TypeOK, CallOK, pc = "walk", NEW ptr \in Nat, ptr > 0, Return(ptr), LiveDisjoint',
         ptr + len <= LIMIT
  PROVE  Promise!Next
<1>1. PICK d \in Slots, n \in Sizes : d = dst /\ n = len
  BY DEF CallOK
<1> DEFINE new == [ptr |-> ptr, len |-> n]
<1>2. n \in Nat /\ LIMIT \in Nat
  BY HeapAssumption
<1>3. slot[d] = Promise!NULL
  BY <1>1 DEF CallOK, NULL, Promise!NULL
<1>4. slot' = [slot EXCEPT ![d] = new]
  BY <1>1 DEF Return
<1>5. ptr \in 1 .. LIMIT - n
  BY <1>1, <1>2
<1>6. ASSUME NEW t \in Promise!Live PROVE Promise!Extent(slot[t]) \cap Promise!Extent(new) = {}
  <2>1. t \in Slots /\ t # d /\ slot[t].ptr # 0
    BY <1>3 DEF Promise!Live, Promise!NULL
  <2>2. slot'[t] = slot[t] /\ slot'[d] = new
    BY <2>1, <1>4 DEF TypeOK
  <2>3. t \in Live' /\ d \in Live'
    BY <2>1, <2>2 DEF Live
  <2>4. Payload(t)' \cap Payload(d)' = {}
    BY <2>1, <2>3 DEF LiveDisjoint
  <2>5. Payload(t)' = Promise!Extent(slot[t]) /\ Payload(d)' = Promise!Extent(new)
    BY <2>2 DEF Payload, Promise!Extent
  <2> QED BY <2>4, <2>5
<1>7. Promise!Grant(d, n)
  <2> HIDE DEF new
  <2>1. new = [ptr |-> ptr, len |-> n]
    BY DEF new
  <2> QED BY <2>1, <1>3, <1>4, <1>5, <1>6 DEF Promise!Grant
<1> QED BY <1>7 DEF Promise!Next

(* Every step up to a fault is a step of Allocator, or changes no pointer.   *)
LEMMA PromiseStep ==
  ASSUME IInv, IInv', [NextWhileIntact]_vars
  PROVE  [Promise!Next]_slot
<1> SUFFICES ASSUME slot' # slot PROVE Promise!Next
  OBVIOUS
<1>1. Next /\ faults = {}
  BY DEF NextWhileIntact, vars
<1>2. TypeOK /\ CallOK /\ HeapBase /\ LiveDisjoint' /\ LIMIT \in Nat
  BY HeapAssumption DEF IInv
<1>3. ASSUME NEW s \in Slots, Free(s) PROVE Promise!Next
  <2>1. Promise!Drop(s)
    BY <1>3 DEF Free, Promise!Drop, Live, Promise!Live, NULL, Promise!NULL
  <2> QED BY <2>1 DEF Promise!Next
<1>4. ASSUME AllocSplit \/ AllocWhole PROVE Promise!Next
  <2>1. pc = "walk" /\ cur < heap_hi /\ mem[cur].sz >= need /\ Return(UserPtr(cur))
    BY <1>4 DEF AllocSplit, AllocWhole, AtBlock, InWalk, Fits
  <2>2. PICK S \in SUBSET Addr : Sound(S) /\ cur \in S \cup {heap_hi}
    BY <1>1, <2>1 DEF IInv, Intact
  <2>3. cur \in S
    BY <2>1, <2>2, <1>2 DEF TypeOK
  <2>4. /\ cur \in Nat /\ mem[cur].sz \in Nat /\ heap_lo <= cur
        /\ cur + mem[cur].sz <= heap_hi
    BY <2>2, <2>3, <1>2, BlockFacts
  <2>5. len \in Nat /\ need \in Nat /\ need >= len + 2
    BY <1>2, <2>1, NeedFacts DEF OVERHEAD
  <2>6. heap_hi <= LIMIT
    BY <2>1, <2>4, <1>2 DEF HeapBase, HeapBacked, TypeOK
  <2>7. UserPtr(cur) \in Nat /\ UserPtr(cur) > 0 /\ UserPtr(cur) + len <= LIMIT
    BY <2>1, <2>4, <2>5, <2>6, <1>2 DEF UserPtr, HDR_SZ, TypeOK
  <2> QED BY <2>1, <2>7, <1>2, GrantStep
<1>5. ASSUME AllocGrow PROVE Promise!Next
  <2>1. /\ pc = "walk" /\ Return(UserPtr(heap_hi))
        /\ heap_hi + AlignUp(need, PAGE) <= LIMIT
    BY <1>5 DEF AllocGrow, AtEnd, SetBrk
  <2>2. len \in Nat /\ need \in Nat /\ need >= len + 2
    BY <1>2, <2>1, NeedFacts DEF OVERHEAD
  <2>3. AlignUp(need, PAGE) \in Nat /\ AlignUp(need, PAGE) >= need
    BY <2>2, AlignUpPage
  <2>4. UserPtr(heap_hi) \in Nat /\ UserPtr(heap_hi) > 0 /\ UserPtr(heap_hi) + len <= LIMIT
    BY <2>1, <2>2, <2>3, <1>2 DEF UserPtr, HDR_SZ, TypeOK
  <2> QED BY <2>1, <2>4, <1>2, GrantStep
<1> QED BY <1>1, <1>3, <1>4, <1>5
    DEF Next, AllocStep, Malloc, WalkOn, AllocFail, ClientWrite

(* Up to the first fault malloc answers with words that no live pointer owns *)
(* and free takes back exactly one pointer: the heap implements Allocator.   *)
THEOREM HeapKeepsPromise == IntactSpec => KeepsPromise
<1>1. Init => Promise!Init
  BY DEF Init, Promise!Init, NULL, Promise!NULL
<1>2. IInv /\ IInv' /\ [NextWhileIntact]_vars => [Promise!Next]_slot
  BY PromiseStep
<1> QED BY <1>1, <1>2, Inductive, PTL DEF IntactSpec, KeepsPromise, Promise!Spec

-----------------------------------------------------------------------------
(* What the allocator writes.                                                *)

(* A memory, as a function on the addresses.                                 *)
OnAddr(m) == m = [x \in Addr |-> m[x]]

(* The write of a flag changes one header.                                   *)
LEMMA MarkWrites ==
  ASSUME NEW m, OnAddr(m), NEW hi, NEW b, NEW a \in Addr
  PROVE  OnAddr(MarkPrevFree(m, hi, b)) /\ (a # b => MarkPrevFree(m, hi, b)[a] = m[a])
BY DEF OnAddr, MarkPrevFree

(* The same of the flag's removal.                                           *)
LEMMA ClearWrites ==
  ASSUME NEW m, OnAddr(m), NEW hi, NEW b, NEW a \in Addr
  PROVE  OnAddr(ClearPrevFree(m, hi, b)) /\ (a # b => ClearPrevFree(m, hi, b)[a] = m[a])
BY DEF OnAddr, ClearPrevFree

(* merge writes the header and the footer of the block it makes, and the     *)
(* header behind it.                                                         *)
LEMMA MergeWrites ==
  ASSUME NEW m, OnAddr(m), NEW hi, NEW b, NEW a \in Addr, NEW p, NEW q,
         p = IF m[b].pfree THEN m[b - 1].sz ELSE 0,
         q = IF b + m[b].sz < hi /\ ~m[b + m[b].sz].alloc THEN m[b + m[b].sz].sz ELSE 0,
         a # b - p, a # Ftr(b - p, p + m[b].sz + q), a # b - p + (p + m[b].sz + q)
  PROVE  Merge(m, hi, b)[a] = m[a]
<1> DEFINE total == p + m[b].sz + q
           start == b - p
           m1    == PutBlock(m, start, total, FALSE, m[start].pfree)
<1>1. OnAddr(m1) /\ m1[a] = m[a]
  BY DEF OnAddr, PutBlock
<1>2. MarkPrevFree(m1, hi, start + total)[a] = m1[a]
  <2> HIDE DEF m1
  <2> QED BY <1>1, MarkWrites
<1>3. Merge(m, hi, b) = IF p + q = 0 THEN m ELSE MarkPrevFree(m1, hi, start + total)
  BY DEF Merge
<1> QED BY <1>1, <1>2, <1>3

(* A word of a client is in no free block and is no tag.                     *)
LEMMA PayloadApart ==
  ASSUME TypeOK, HeapBase, NEW S \in SUBSET Addr, Sound(S), NEW s \in Live, NEW a \in Payload(s)
  PROVE  /\ a \in Addr /\ a \in Nat /\ a < heap_hi
         /\ \A c \in S : a # c /\ a # Ftr(c, mem[c].sz)
         /\ \A c \in S : ~mem[c].alloc => a < c \/ c + mem[c].sz <= a
<1>1. PICK b \in S : b = HdrOf(slot[s].ptr) /\ mem[b].alloc /\ b < a /\ a < b + mem[b].sz - HDR_SZ
                     /\ a \in Addr
  BY LiveFacts, PayloadInBlock
<1>2. PICK n \in Nat : n = mem[b].sz
  BY BlockFacts
<1>3. a \in Nat /\ b \in Nat /\ b + n <= heap_hi /\ b < a /\ a < b + n - 1
  BY <1>1, <1>2, BlockFacts, HeapAssumption DEF Addr, HDR_SZ
<1>4. a < heap_hi
  BY <1>3 DEF TypeOK
<1>5. ASSUME NEW c \in S, ~mem[c].alloc PROVE a < c \/ c + mem[c].sz <= a
  <2>1. c # b
    BY <1>1, <1>5
  <2>2. PICK k \in Nat : k = mem[c].sz /\ c \in Nat
    BY BlockFacts
  <2>3. (b < c => b + n <= c) /\ (c < b => c + k <= b)
    BY <1>1, <1>2, <2>2, BlockFacts
  <2> QED BY <1>3, <2>1, <2>2, <2>3
<1> QED BY <1>1, <1>3, <1>4, <1>5, TagsNotInPayload

(* The two ways in which the search ends at a block: it writes within the    *)
(* block and the header behind it.                                           *)
LEMMA AllocWrites ==
  ASSUME IInv, faults = {}, AllocSplit \/ AllocWhole, NEW s \in Live, NEW a \in Payload(s)
  PROVE  mem'[a] = mem[a]
<1> USE DEF IInv
<1>1. /\ pc = "walk" /\ cur < heap_hi /\ ~mem[cur].alloc /\ mem[cur].sz >= need
  BY DEF AllocSplit, AllocWhole, AtBlock, InWalk, Fits
<1>2. PICK S \in SUBSET Addr : Sound(S) /\ cur \in S \cup {heap_hi}
  BY <1>1 DEF Intact
<1>3. PICK b \in S : b = cur
  BY <1>1, <1>2 DEF TypeOK
<1>4. PICK n \in Nat, k \in Nat : n = need /\ k = mem[b].sz /\ n >= 4 /\ k >= n
  BY <1>1, <1>2, <1>3, BlockFacts, NeedFacts
<1>5. b \in Nat /\ a \in Nat /\ a \in Addr /\ b + k \in S \cup {heap_hi} /\ OnAddr(mem)
  BY <1>2, <1>4, BlockFacts, PayloadApart DEF TypeOK, OnAddr
<1>6. a < b \/ b + k <= a
  BY <1>1, <1>2, <1>3, <1>4, PayloadApart
<1>7. a # b + k
  <2>1. a # heap_hi /\ \A c \in S : a # c
    BY <1>2, PayloadApart DEF TypeOK
  <2> QED BY <2>1, <1>5
<1>8. a # b /\ a # Ftr(b, n) /\ a # b + n /\ a # Ftr(b + n, k - n) /\ a # b + n + (k - n)
      /\ a # Ftr(b, k)
  BY <1>4, <1>5, <1>6, <1>7 DEF Ftr, HDR_SZ
<1>9. CASE AllocSplit
  <2> DEFINE m1 == PutBlock(mem, b, n, TRUE, mem[b].pfree)
             m2 == PutBlock(m1, b + n, k - n, FALSE, TRUE)
  <2>1. mem' = MarkPrevFree(m2, heap_hi, b + n + (k - n))
    BY <1>3, <1>4, <1>9 DEF AllocSplit, Split
  <2>2. OnAddr(m1) /\ m1[a] = mem[a]
    BY <1>5, <1>8 DEF OnAddr, PutBlock
  <2>3. OnAddr(m2) /\ m2[a] = m1[a]
    <3> HIDE DEF m1
    <3> QED BY <2>2, <1>5, <1>8 DEF OnAddr, PutBlock
  <2> HIDE DEF m1, m2
  <2> QED BY <2>1, <2>2, <2>3, <1>5, <1>8, MarkWrites
<1>10. CASE AllocWhole
  <2> DEFINE m1 == PutBlock(mem, b, k, TRUE, mem[b].pfree)
  <2>1. mem' = ClearPrevFree(m1, heap_hi, b + k)
    BY <1>3, <1>4, <1>10 DEF AllocWhole, TakeWhole
  <2>2. OnAddr(m1) /\ m1[a] = mem[a]
    BY <1>5, <1>8 DEF OnAddr, PutBlock
  <2> HIDE DEF m1
  <2> QED BY <2>1, <2>2, <1>5, <1>7, ClearWrites
<1> QED BY <1>9, <1>10

(* Growing writes above the old break, and the header of the last block.     *)
LEMMA GrowWrites ==
  ASSUME IInv, faults = {}, AllocGrow, NEW s \in Live, NEW a \in Payload(s), NEW b, b = heap_hi
  PROVE  mem'[a] = mem[a]
<1> USE DEF IInv
<1>1. pc = "walk"
  BY DEF AllocGrow, AtEnd
<1>2. PICK g \in Nat : g = AlignUp(need, PAGE) /\ g >= 4
  BY <1>1, NeedFacts, AlignUpPage
<1>3. b + g <= LIMIT /\ mem' = TakeWhole(Grown(mem, heap_lo, b, g), b + g, b)
  BY <1>2 DEF AllocGrow, SetBrk
<1>4. PICK S \in SUBSET Addr : Sound(S)
  BY DEF Intact
<1>5. /\ b \in Nat /\ heap_lo \in Nat /\ b \in Addr
      /\ a \in Nat /\ a \in Addr /\ a < b /\ \A c \in S : a # c
  BY <1>2, <1>3, <1>4, PayloadApart, HeapAssumption DEF TypeOK, Addr
<1> DEFINE pf == b > heap_lo /\ ~mem[b - HDR_SZ].alloc
           m1 == PutBlock(mem, b, g, FALSE, pf)
           m2 == Merge(m1, b + g, b)
<1>6. mem' = ClearPrevFree(PutBlock(m2, b, m2[b].sz, TRUE, m2[b].pfree), b + g, b + m2[b].sz)
  BY <1>3 DEF Grown, TakeWhole
<1>7. /\ b # Ftr(b, g) /\ Ftr(b, g) = b + g - 1 /\ a # Ftr(b, g)
  BY <1>2, <1>5 DEF Ftr, HDR_SZ
<1>8. /\ OnAddr(m1) /\ m1[b].sz = g /\ m1[b].pfree = pf /\ m1[a] = mem[a]
      /\ \A x \in Addr : x # b /\ x # Ftr(b, g) => m1[x] = mem[x]
  <2>1. m1[b] = Tag(g, FALSE, pf)
    BY <1>5, <1>7 DEF PutBlock, TypeOK
  <2>2. /\ OnAddr(m1) /\ m1[a] = mem[a]
        /\ \A x \in Addr : x # b /\ x # Ftr(b, g) => m1[x] = mem[x]
    <3>1. PICK u, v, f : u = Tag(g, FALSE, pf) /\ v = Tag(g, FALSE, FALSE) /\ f = Ftr(b, g)
      OBVIOUS
    <3>2. m1 = [mem EXCEPT ![b] = u, ![f] = v]
      BY <3>1, Zenon DEF PutBlock
    <3>3. OnAddr(mem) /\ a \in Addr /\ a # b /\ a # f
      BY <3>1, <1>5, <1>7 DEF TypeOK, OnAddr
    <3> HIDE DEF m1, pf
    <3>4. OnAddr(m1) /\ m1[a] = mem[a] /\ \A x \in Addr : x # b /\ x # f => m1[x] = mem[x]
      BY <3>2, <3>3 DEF OnAddr
    <3> QED BY <3>1, <3>4, Zenon
  <2> HIDE DEF m1, pf
  <2> QED BY <2>1, <2>2 DEF Tag
<1>9. PICK p : p = IF m1[b].pfree THEN m1[b - 1].sz ELSE 0
  OBVIOUS
<1>10. p = 0 \/ (p \in Nat /\ p >= 4 /\ p <= b /\ b - p \in S)
  <2>1. CASE ~pf
    <3> HIDE DEF pf, m1
    <3> QED BY <2>1, <1>8, <1>9
  <2>2. CASE pf
    <3>1. b # heap_lo
      BY <2>2, <1>5
    <3>2. PICK c \in S : /\ c + mem[c].sz = b /\ c \in Nat /\ mem[c].sz \in Nat /\ mem[c].sz <= b
                         /\ b - HDR_SZ \in Addr /\ mem[b - HDR_SZ].sz = mem[c].sz
      BY <3>1, <1>4, LastFooter
    <3>3. mem[c].sz >= 4
      BY <1>4, BlockFacts
    <3>4. b - HDR_SZ = b - 1 /\ b - 1 # b /\ b - 1 # Ftr(b, g)
      BY <1>2, <1>5, <1>7 DEF HDR_SZ
    <3>5. m1[b - 1].sz = mem[c].sz
      <4> HIDE DEF m1
      <4> QED BY <3>2, <3>4, <1>8
    <3>6. p = mem[c].sz
      <4> HIDE DEF m1, pf
      <4> QED BY <2>2, <3>5, <1>8, <1>9
    <3>7. b - p = c
      BY <3>2, <3>6, <1>5
    <3> QED BY <3>2, <3>3, <3>6, <3>7
  <2> QED BY <2>1, <2>2
<1>11. /\ a # b - p /\ p + g + 0 = p + g /\ b - p + (p + g) = b + g /\ Ftr(b - p, p + g) = b + g - 1
       /\ a # b + g /\ a # b + g - 1 /\ b # b + g /\ b # b + g - 1 /\ ~(b + g < b + g)
  BY <1>2, <1>5, <1>10 DEF Ftr, HDR_SZ
<1>12. 0 = IF b + m1[b].sz < b + g /\ ~m1[b + m1[b].sz].alloc THEN m1[b + m1[b].sz].sz ELSE 0
  <2> HIDE DEF m1
  <2> QED BY <1>8, <1>11
<1>13. m2[a] = mem[a]
  <2>1. m2[a] = m1[a]
    <3> HIDE DEF m1, pf
    <3> QED BY <1>5, <1>8, <1>9, <1>11, <1>12, MergeWrites
  <2> QED BY <2>1, <1>8
<1>14. OnAddr(m2)
  <2>1. Merge(m1, b + g, b) = m1 \/ \E x, n, y : Merge(m1, b + g, b) =
            MarkPrevFree(PutBlock(m1, x, n, FALSE, y), b + g, x + n)
    <3> HIDE DEF m1
    <3> QED BY DEF Merge
  <2>2. ASSUME NEW x, NEW n, NEW y PROVE OnAddr(PutBlock(m1, x, n, FALSE, y))
    <3> HIDE DEF m1
    <3> QED BY <1>8 DEF OnAddr, PutBlock
  <2>3. ASSUME NEW m, OnAddr(m), NEW hi, NEW x PROVE OnAddr(MarkPrevFree(m, hi, x))
    BY <2>3, <1>5, MarkWrites
  <2> HIDE DEF m1
  <2> QED BY <2>1, <2>2, <2>3, <1>8, Zenon
<1>15. m2[b].sz = g
  <2>1. CASE p = 0
    <3>1. Merge(m1, b + g, b) = m1
      <4> HIDE DEF m1, pf
      <4>1. p + 0 = 0
        BY <2>1
      <4> QED BY <4>1, <1>9, <1>12 DEF Merge
    <3> HIDE DEF m1
    <3> QED BY <3>1, <1>8
  <2>2. CASE p # 0
    <3>1. b # b - p
      BY <2>2, <1>5, <1>10
    <3>2. m2[b] = m1[b]
      <4> HIDE DEF m1, pf
      <4> QED BY <3>1, <1>5, <1>8, <1>9, <1>11, <1>12, MergeWrites
    <3> HIDE DEF m1, m2
    <3> QED BY <3>2, <1>8
  <2> QED BY <2>1, <2>2
<1> DEFINE m3 == PutBlock(m2, b, g, TRUE, m2[b].pfree)
<1>16. OnAddr(m3) /\ m3[a] = m2[a]
  <2> HIDE DEF m2
  <2>1. PICK u, v, f : u = Tag(g, TRUE, m2[b].pfree) /\ v = Tag(g, TRUE, FALSE) /\ f = Ftr(b, g)
    OBVIOUS
  <2>2. m3 = [m2 EXCEPT ![b] = u, ![f] = v]
    BY <2>1, Zenon DEF PutBlock
  <2>3. a \in Addr /\ a # b /\ a # f
    BY <2>1, <1>5, <1>7
  <2> HIDE DEF m3
  <2> QED BY <2>2, <2>3, <1>14 DEF OnAddr
<1>17. mem' = ClearPrevFree(m3, b + g, b + g)
  <2> HIDE DEF m2
  <2> QED BY <1>6, <1>15, Zenon
<1> HIDE DEF m2, m3
<1> QED BY <1>5, <1>11, <1>13, <1>16, <1>17, ClearWrites

(* free writes the header and the footer of the block it makes, which begin  *)
(* and end with a block, and the headers behind the block and behind that.   *)
LEMMA FreeWrites ==
  ASSUME IInv, faults = {}, NEW t \in Slots, Free(t), NEW s \in Live, NEW a \in Payload(s),
         NEW b, b = HdrOf(slot[t].ptr)
  PROVE  mem'[a] = mem[a]
<1> USE DEF IInv
<1>1. t \in Live /\ mem' = Release(mem, heap_hi, b)
  BY DEF Free
<1>2. PICK S \in SUBSET Addr : Sound(S)
  BY DEF Intact
<1>3. b \in S /\ mem[b].alloc
  BY <1>1, <1>2, LiveFacts
<1>4. PICK n \in Nat, hi \in Nat : n = mem[b].sz /\ hi = heap_hi
  BY <1>2, <1>3, BlockFacts DEF TypeOK
<1>5. /\ b \in Addr /\ b \in Nat /\ n >= 4 /\ b + n <= hi /\ b + n \in S \cup {hi}
      /\ mem[b] \in Word
  BY <1>2, <1>3, <1>4, BlockFacts
<1>6. a \in Addr /\ a \in Nat /\ a < hi /\ \A c \in S : a # c /\ a # Ftr(c, mem[c].sz)
  BY <1>2, <1>4, PayloadApart
<1>7. a # b /\ a # Ftr(b, n) /\ a # b + n /\ a # hi
  BY <1>3, <1>4, <1>5, <1>6
<1>8. b # Ftr(b, n) /\ b # b + n /\ b - 1 # b /\ b - 1 # Ftr(b, n) /\ b - 1 # b + n
      /\ b + n # b /\ b + n # Ftr(b, n) /\ Ftr(b, n) = b + n - 1
  BY <1>5 DEF Ftr, HDR_SZ
<1> DEFINE m1 == PutBlock(mem, b, n, FALSE, mem[b].pfree)
           m2 == MarkPrevFree(m1, hi, b + n)
<1>9. mem' = Merge(m2, hi, b)
  BY <1>1, <1>4, Zenon DEF Release
<1>10. /\ OnAddr(m1) /\ m1[b] = Tag(n, FALSE, mem[b].pfree)
       /\ \A x \in Addr : x # b /\ x # Ftr(b, n) => m1[x] = mem[x]
  BY <1>5, <1>8 DEF PutBlock, TypeOK, OnAddr
<1>11. /\ OnAddr(m2) /\ m2[b] = m1[b]
       /\ \A x \in Addr : x # b + n => m2[x] = m1[x]
  <2> HIDE DEF m1
  <2>1. OnAddr(m1) /\ b \in Addr /\ b # b + n
    BY <1>5, <1>8, <1>10
  <2>2. OnAddr(m2) /\ \A x \in Addr : x # b + n => m2[x] = m1[x]
    BY <2>1, MarkWrites
  <2> HIDE DEF m2
  <2> QED BY <2>1, <2>2
<1>12. m2[b].sz = n /\ m2[b].pfree = mem[b].pfree /\ m2[a] = mem[a]
  <2> HIDE DEF m1, m2
  <2> QED BY <1>6, <1>7, <1>10, <1>11 DEF Tag
<1>13. PICK p : p = IF m2[b].pfree THEN m2[b - 1].sz ELSE 0
  OBVIOUS
<1>14. p \in Nat /\ b - p \in S
  <2>1. CASE ~mem[b].pfree
    <3> HIDE DEF m1, m2
    <3>1. p = 0
      BY <2>1, <1>12, <1>13
    <3> QED BY <3>1, <1>3, <1>5
  <2>2. CASE mem[b].pfree
    <3>1. b # heap_lo
      BY <2>2, <1>2, <1>3, <1>5 DEF Sound, FlagsAreWrong, TypeOK
    <3>2. PICK c \in S : /\ c + mem[c].sz = b /\ c \in Nat /\ mem[c].sz \in Nat
                         /\ b - HDR_SZ \in Addr /\ mem[b - HDR_SZ].sz = mem[c].sz
      BY <3>1, <1>2, <1>3, LastFooter
    <3>3. m2[b - 1].sz = mem[c].sz
      <4>1. b - 1 \in Addr /\ mem[b - 1].sz = mem[c].sz
        BY <3>2 DEF HDR_SZ
      <4> HIDE DEF m1, m2
      <4> QED BY <4>1, <1>8, <1>10, <1>11
    <3>4. p = mem[c].sz
      <4> HIDE DEF m2
      <4> QED BY <3>3, <2>2, <1>12, <1>13
    <3> QED BY <3>2, <3>4, <1>5
  <2> QED BY <2>1, <2>2
<1>15. PICK q : q = IF b + m2[b].sz < hi /\ ~m2[b + m2[b].sz].alloc THEN m2[b + m2[b].sz].sz ELSE 0
  OBVIOUS
<1>16. /\ q \in Nat /\ a # b + n + q /\ a # b + n + q - 1
  <2>1. CASE b + n < hi
    <3>1. PICK nx \in S : nx = b + n
      BY <2>1, <1>5
    <3>2. /\ nx \in Addr /\ nx \in Nat /\ mem[nx].sz \in Nat /\ nx + mem[nx].sz \in S \cup {hi}
      BY <1>2, <1>4, BlockFacts
    <3>3. m2[nx].sz = mem[nx].sz
      <4>1. m1[nx] = mem[nx]
        <5> HIDE DEF m1
        <5> QED BY <3>1, <3>2, <1>8, <1>10
      <4>2. m2[nx] = Tag(m1[nx].sz, FALSE, TRUE)
        <5> HIDE DEF m1
        <5> QED BY <2>1, <3>1, <3>2, <1>10 DEF MarkPrevFree, OnAddr
      <4> HIDE DEF m1, m2
      <4> QED BY <4>1, <4>2 DEF Tag
    <3>4. q = 0 \/ q = mem[nx].sz
      <4> HIDE DEF m1, m2
      <4> QED BY <3>1, <3>3, <1>12, <1>15
    <3>5. a # nx + mem[nx].sz /\ a # nx + mem[nx].sz - 1 /\ a # b + n /\ a # b + n - 1
      <4>1. a # Ftr(nx, mem[nx].sz) /\ a # nx + mem[nx].sz
        BY <3>2, <1>6, <1>7
      <4> QED BY <4>1, <1>7, <1>8 DEF Ftr, HDR_SZ
    <3> QED BY <3>1, <3>2, <3>4, <3>5, <1>5
  <2>2. CASE ~(b + n < hi)
    <3>1. q = 0
      <4> HIDE DEF m2
      <4> QED BY <2>2, <1>12, <1>15
    <3> QED BY <3>1, <1>5, <1>7, <1>8
  <2> QED BY <2>1, <2>2
<1>17. a # b - p /\ Ftr(b - p, p + n + q) = b + n + q - 1 /\ b - p + (p + n + q) = b + n + q
  BY <1>5, <1>6, <1>14, <1>16 DEF Ftr, HDR_SZ
<1> HIDE DEF m1, m2
<1>18. Merge(m2, hi, b)[a] = m2[a]
  BY <1>6, <1>11, <1>12, <1>13, <1>15, <1>16, <1>17, MergeWrites
<1> QED BY <1>9, <1>12, <1>18

(* Neither malloc nor free writes into the words of a client.                *)
THEOREM PayloadKept == IntactSpec => PayloadUntouched
<1>1. ASSUME IInv, [NextWhileIntact]_vars, NEW s \in Live,
             ~(\E w \in UserWords : ClientWrite(s, w)), NEW a \in Payload(s)
      PROVE  mem'[a] = mem[a]
  <2>1. CASE UNCHANGED vars
    BY <2>1 DEF vars, heapvars
  <2>2. CASE Next /\ faults = {}
    <3>1. ASSUME NEW t \in Slots, NEW n \in Sizes, Malloc(t, n) PROVE mem' = mem
      BY <3>1 DEF Malloc
    <3>2. CASE AllocStep
      BY <1>1, <2>2, <3>2, AllocWrites, GrowWrites DEF AllocStep, WalkOn, AllocFail, heapvars
    <3>3. ASSUME NEW t \in Slots, Free(t) PROVE mem'[a] = mem[a]
      BY <1>1, <2>2, <3>3, FreeWrites
    <3>4. ASSUME NEW t \in Slots, NEW w \in UserWords, ClientWrite(t, w) PROVE mem'[a] = mem[a]
      <4>1. t # s /\ t \in Live /\ mem' = [x \in Addr |-> IF x \in Payload(t) THEN w ELSE mem[x]]
        BY <1>1, <3>4 DEF ClientWrite
      <4>2. a \notin Payload(t)
        BY <1>1, <4>1 DEF IInv, LiveDisjoint
      <4>3. a \in Addr
        <5>1. PICK S \in SUBSET Addr : Sound(S)
          BY <1>1, <2>2 DEF IInv, Intact
        <5> QED BY <1>1, <5>1, PayloadApart DEF IInv
      <4> QED BY <4>1, <4>2, <4>3
    <3> QED BY <2>2, <3>1, <3>2, <3>3, <3>4 DEF Next
  <2> QED BY <1>1, <2>1, <2>2 DEF NextWhileIntact
<1>2. IInv /\ [NextWhileIntact]_vars =>
        [\A s \in Live :
           slot'[s] = slot[s] /\ ~(\E w \in UserWords : ClientWrite(s, w))
             => \A a \in Payload(s) : mem'[a] = mem[a]]_vars
  BY <1>1
<1> QED BY <1>2, Inductive, PTL DEF IntactSpec, PayloadUntouched

-----------------------------------------------------------------------------
(* Damaged tags do not lead out of the heap.                                 *)

(* A size that leads nobody out of the heap: from a header not above hi, and *)
(* from a footer not below lo.  No size stands above the heap.               *)
SizeOK(a, n, lo, hi) ==
  /\ n % 2 = 0
  /\ lo <= a /\ a < hi /\ a % 2 = 0 => a + n <= hi
  /\ lo <= a /\ a < hi /\ a % 2 = 1 => lo + n <= a + 1
  /\ hi <= a => n = 0

(* The first header of the heap can be relied on: no pointer is below it.    *)
FirstOK(m, lo, hi) == lo < hi => m[lo].sz > 0 /\ m[lo].pfree = FALSE

(* lo and hi are the ends of a heap within the memory.                       *)
Range(lo, hi) == lo \in Nat /\ hi \in Nat /\ lo <= hi /\ hi <= LIMIT /\ lo % 2 = 0 /\ hi % 2 = 0

(* Whatever is read as a header has a size that stays in the heap.           *)
Sized(m, lo, hi) ==
  /\ m \in [Addr -> Word] /\ Range(lo, hi)
  /\ \A a \in Addr : SizeOK(a, m[a].sz, lo, hi)

(* And the first header can be relied on.                                   *)
Tidy(m, lo, hi) == Sized(m, lo, hi) /\ FirstOK(m, lo, hi)

(* A block of n words at b that fits into the heap; n may be 0.              *)
Inside(b, n, lo, hi) ==
  b \in Nat /\ n \in Nat /\ b % 2 = 0 /\ n % 2 = 0 /\ lo <= b /\ b < hi /\ b + n <= hi

(* Any block that fits into the heap may be given a header and a footer.     *)
LEMMA PutTidy ==
  ASSUME NEW m, NEW lo, NEW hi, Sized(m, lo, hi), NEW b, NEW n, Inside(b, n, lo, hi),
         NEW x \in BOOLEAN, NEW y \in BOOLEAN, b = lo => n > 0 /\ y = FALSE,
         b # lo => FirstOK(m, lo, hi)
  PROVE  Tidy(PutBlock(m, b, n, x, y), lo, hi)
<1> DEFINE f == Ftr(b, n)
           u == Tag(n, x, y)
           v == Tag(n, x, FALSE)
           p == PutBlock(m, b, n, x, y)
<1>1. /\ lo \in Nat /\ hi \in Nat /\ b \in Nat /\ n \in Nat /\ b % 2 = 0 /\ n % 2 = 0 /\ lo % 2 = 0
      /\ lo <= b /\ b < hi /\ b + n <= hi /\ hi <= LIMIT /\ hi % 2 = 0
  BY DEF Sized, Inside, Range
<1>2. f = b + n - 1 /\ f # b /\ f # lo /\ b \in Addr /\ f \in Int
  BY <1>1, HeapAssumption DEF Ftr, HDR_SZ, Addr
<1>3. u \in Word /\ v \in Word /\ u.sz = n /\ v.sz = n /\ u.pfree = y
  BY <1>1 DEF Tag, Word
<1>4. p = [m EXCEPT ![b] = u, ![f] = v]
  BY DEF PutBlock
<1>5. m \in [Addr -> Word] /\ \A a \in Addr : SizeOK(a, m[a].sz, lo, hi)
  BY DEF Sized
<1> HIDE DEF f, u, v, p
<1>6. p \in [Addr -> Word]
  BY <1>3, <1>4, <1>5
<1>7. ASSUME NEW a \in Addr PROVE SizeOK(a, p[a].sz, lo, hi)
  <2>1. CASE a # b /\ a # f
    BY <2>1, <1>4, <1>5
  <2>2. CASE a = b
    <3>1. p[a].sz = n
      BY <2>2, <1>2, <1>3, <1>4, <1>5
    <3> QED BY <2>2, <3>1, <1>1 DEF SizeOK
  <2>3. CASE a = f
    <3>1. p[a].sz = n
      BY <2>3, <1>2, <1>3, <1>4, <1>5
    <3> QED BY <2>3, <3>1, <1>1, <1>2 DEF SizeOK
  <2> QED BY <2>1, <2>2, <2>3
<1>8. FirstOK(p, lo, hi)
  <2>1. CASE b = lo
    <3>1. p[lo] = u
      BY <2>1, <1>2, <1>4, <1>5
    <3> QED BY <2>1, <3>1, <1>3 DEF FirstOK
  <2>2. CASE b # lo
    <3>1. p[lo] = m[lo]
      <4>1. lo \in Addr
        BY <1>1, HeapAssumption DEF Addr
      <4> QED BY <2>2, <4>1, <1>2, <1>4, <1>5
    <3> QED BY <2>2, <3>1 DEF FirstOK
  <2> QED BY <2>1, <2>2
<1> QED BY <1>6, <1>7, <1>8 DEF Sized, Tidy, p

(* A write that changes flags only, and not the first header's PREV_FREE.    *)
LEMMA FlagTidy ==
  ASSUME NEW m, NEW lo, NEW hi, Tidy(m, lo, hi), NEW p \in [Addr -> Word],
         \A a \in Addr : p[a].sz = m[a].sz,
         lo \in Addr => p[lo].pfree = m[lo].pfree \/ p[lo].pfree = FALSE
  PROVE  Tidy(p, lo, hi)
<1>1. \A a \in Addr : SizeOK(a, p[a].sz, lo, hi)
  BY DEF Sized, Tidy
<1>2. FirstOK(p, lo, hi)
  <2>1. lo < hi => lo \in Addr
    BY HeapAssumption DEF Sized, Tidy, Range, Addr
  <2> QED BY <2>1 DEF Tidy, FirstOK
<1> QED BY <1>1, <1>2 DEF Sized, Tidy

(* The flag of a header other than the first may be set.                     *)
LEMMA MarkTidy ==
  ASSUME NEW m, NEW lo, NEW hi, Tidy(m, lo, hi), NEW a \in Nat, a # lo
  PROVE  Tidy(MarkPrevFree(m, hi, a), lo, hi)
<1> DEFINE p == MarkPrevFree(m, hi, a)
<1>1. m \in [Addr -> Word] /\ hi \in Nat /\ hi <= LIMIT
  BY DEF Sized, Tidy, Range
<1>2. p \in [Addr -> Word]
  BY <1>1, MarkPrevFreeType
<1>3. \A x \in Addr : x # a => p[x] = m[x]
  BY <1>1 DEF MarkPrevFree
<1>4. a \in Addr => p[a].sz = m[a].sz
  BY <1>1 DEF MarkPrevFree, Tag
<1> HIDE DEF p
<1>5. Tidy(p, lo, hi)
  BY <1>2, <1>3, <1>4, FlagTidy
<1> QED BY <1>5 DEF p

(* Any flag may be cleared.                                                  *)
LEMMA ClearTidy ==
  ASSUME NEW m, NEW lo, NEW hi, Tidy(m, lo, hi), NEW a \in Nat
  PROVE  Tidy(ClearPrevFree(m, hi, a), lo, hi)
<1> DEFINE p == ClearPrevFree(m, hi, a)
<1>1. m \in [Addr -> Word] /\ hi \in Nat /\ hi <= LIMIT
  BY DEF Sized, Tidy, Range
<1>2. p \in [Addr -> Word]
  BY <1>1, ClearPrevFreeType
<1>3. \A x \in Addr : x # a => p[x] = m[x]
  BY <1>1 DEF ClearPrevFree
<1>4. a \in Addr => p[a].sz = m[a].sz
  BY <1>1 DEF ClearPrevFree, Tag
<1>5. a \in Addr => p[a].pfree = m[a].pfree \/ p[a].pfree = FALSE
  BY <1>1 DEF ClearPrevFree, Tag
<1> HIDE DEF p
<1>6. Tidy(p, lo, hi)
  BY <1>2, <1>3, <1>4, <1>5, FlagTidy
<1> QED BY <1>6 DEF p

(* What the tags of a header say in a tidy heap.                             *)
LEMMA HeaderFacts ==
  ASSUME NEW m, NEW lo, NEW hi, Tidy(m, lo, hi), NEW b \in Nat, b % 2 = 0, lo <= b, b < hi
  PROVE  /\ b \in Addr /\ m[b] \in Word /\ Inside(b, m[b].sz, lo, hi)
         /\ m[b].pfree \in BOOLEAN /\ m[b].alloc \in BOOLEAN
         /\ b = lo => m[b].sz > 0 /\ m[b].pfree = FALSE
<1>1. lo \in Nat /\ hi \in Nat /\ hi <= LIMIT /\ m \in [Addr -> Word]
  BY DEF Sized, Tidy, Range
<1>2. b \in Addr
  BY <1>1, HeapAssumption DEF Addr
<1>3. m[b] \in Word /\ m[b].sz \in Nat /\ m[b].pfree \in BOOLEAN /\ m[b].alloc \in BOOLEAN
  BY <1>1, <1>2 DEF Word
<1>4. Inside(b, m[b].sz, lo, hi)
  BY <1>1, <1>2, <1>3 DEF Sized, Tidy, SizeOK, Inside
<1>5. b = lo => m[b].sz > 0 /\ m[b].pfree = FALSE
  BY DEF Tidy, FirstOK
<1> QED BY <1>2, <1>3, <1>4, <1>5

(* merge joins blocks inside the heap, whatever the flags of b announce.     *)
LEMMA MergeTidy ==
  ASSUME NEW m, NEW lo, NEW hi, Tidy(m, lo, hi), NEW b \in Nat, b % 2 = 0, lo <= b, b < hi
  PROVE  Tidy(Merge(m, hi, b), lo, hi)
<1> DEFINE next    == b + m[b].sz
           prev_sz == IF m[b].pfree THEN m[b - 1].sz ELSE 0
           next_sz == IF next < hi /\ ~m[next].alloc THEN m[next].sz ELSE 0
           start   == b - prev_sz
           total   == prev_sz + m[b].sz + next_sz
           m2      == PutBlock(m, start, total, FALSE, m[start].pfree)
<1>1. lo \in Nat /\ hi \in Nat /\ hi <= LIMIT /\ lo % 2 = 0 /\ hi % 2 = 0 /\ m \in [Addr -> Word]
  BY DEF Sized, Tidy, Range
<1>2. m[b].sz \in Nat /\ m[b].sz % 2 = 0 /\ b + m[b].sz <= hi /\ (b = lo => m[b].pfree = FALSE)
  <2>1. Inside(b, m[b].sz, lo, hi)
    BY HeaderFacts
  <2>2. b = lo => m[b].pfree = FALSE
    BY HeaderFacts
  <2> QED BY <2>1, <2>2 DEF Inside
<1>3. prev_sz \in Nat /\ prev_sz % 2 = 0 /\ lo + prev_sz <= b
  <2>1. CASE m[b].pfree
    <3>1. b - 1 \in Addr /\ lo <= b - 1 /\ b - 1 < hi /\ (b - 1) % 2 = 1
      BY <1>1, <1>2, <2>1, HeapAssumption DEF Addr
    <3>2. SizeOK(b - 1, m[b - 1].sz, lo, hi) /\ m[b - 1].sz \in Nat
      BY <1>1, <3>1 DEF Sized, Tidy, Word
    <3>3. m[b - 1].sz % 2 = 0 /\ lo + m[b - 1].sz <= b - 1 + 1
      BY <3>1, <3>2 DEF SizeOK
    <3> QED BY <1>1, <2>1, <3>2, <3>3
  <2>2. CASE ~m[b].pfree
    BY <2>2, <1>1
  <2> QED BY <2>1, <2>2
<1>4. next_sz \in Nat /\ next_sz % 2 = 0 /\ next + next_sz <= hi
  <2>1. CASE next < hi /\ ~m[next].alloc
    <3>1. next \in Nat /\ next % 2 = 0 /\ lo <= next
      BY <1>1, <1>2
    <3>2. Inside(next, m[next].sz, lo, hi)
      <4> HIDE DEF next
      <4> QED BY <2>1, <3>1, HeaderFacts
    <3> QED BY <2>1, <3>2 DEF Inside
  <2>2. CASE ~(next < hi /\ ~m[next].alloc)
    BY <2>2, <1>1, <1>2
  <2> QED BY <2>1, <2>2
<1>5. Merge(m, hi, b) = IF prev_sz + next_sz = 0 THEN m ELSE MarkPrevFree(m2, hi, start + total)
  BY DEF Merge
<1>6. CASE prev_sz + next_sz = 0
  BY <1>5, <1>6
<1>7. CASE prev_sz + next_sz # 0
  <2> HIDE DEF prev_sz, next_sz
  <2>1. start \in Nat /\ start % 2 = 0 /\ lo <= start /\ start < hi
    BY <1>1, <1>3
  <2>2. total \in Nat /\ total % 2 = 0 /\ start + total <= hi /\ total > 0
    BY <1>1, <1>2, <1>3, <1>4, <1>7
  <2>3. start + total \in Nat /\ start + total # lo
    BY <1>1, <2>1, <2>2
  <2> HIDE DEF start, total, m2
  <2>4. m[start].pfree \in BOOLEAN /\ (start = lo => m[start].pfree = FALSE)
    BY <2>1, HeaderFacts
  <2>5. Inside(start, total, lo, hi)
    BY <2>1, <2>2 DEF Inside
  <2>6. FALSE \in BOOLEAN /\ Sized(m, lo, hi) /\ FirstOK(m, lo, hi)
    BY DEF Tidy
  <2>7. Tidy(m2, lo, hi)
    <3>1. start = lo => total > 0 /\ m[start].pfree = FALSE
      BY <2>2, <2>4, Zenon
    <3>2. Tidy(PutBlock(m, start, total, FALSE, m[start].pfree), lo, hi)
      BY <2>4, <2>5, <2>6, <3>1, PutTidy, Zenon
    <3> QED BY <3>2, Zenon DEF m2
  <2>8. Tidy(MarkPrevFree(m2, hi, start + total), lo, hi)
    BY <2>3, <2>7, MarkTidy
  <2> QED BY <1>5, <1>7, <2>8
<1> QED BY <1>6, <1>7

(* brk_release.                                                              *)
LEMMA ReleaseTidy ==
  ASSUME NEW m, NEW lo, NEW hi, Tidy(m, lo, hi), NEW b \in Nat, b % 2 = 0, lo <= b, b < hi
  PROVE  Tidy(Release(m, hi, b), lo, hi)
<1> DEFINE n     == m[b].sz
           freed == PutBlock(m, b, n, FALSE, m[b].pfree)
           mk    == MarkPrevFree(freed, hi, b + n)
<1>1. Inside(b, n, lo, hi) /\ m[b].pfree \in BOOLEAN /\ FALSE \in BOOLEAN
  BY HeaderFacts
<1>2. b = lo => n > 0 /\ m[b].pfree = FALSE
  BY HeaderFacts
<1>3. Sized(m, lo, hi) /\ FirstOK(m, lo, hi) /\ lo \in Nat
  BY DEF Sized, Tidy, Range
<1>4. Release(m, hi, b) = Merge(mk, hi, b)
  BY DEF Release
<1> HIDE DEF n
<1>5. Tidy(freed, lo, hi)
  BY <1>1, <1>2, <1>3, PutTidy, Zenon
<1>6. b + n \in Nat /\ b + n # lo
  BY <1>1, <1>2, <1>3 DEF Inside
<1> HIDE DEF freed
<1>7. Tidy(mk, lo, hi)
  BY <1>5, <1>6, MarkTidy
<1> HIDE DEF mk
<1> QED BY <1>4, <1>7, MergeTidy

(* brk_alloc, splitting a block that is large enough.                        *)
LEMMA SplitTidy ==
  ASSUME NEW m, NEW lo, NEW hi, Tidy(m, lo, hi), NEW b \in Nat, b % 2 = 0, lo <= b, b < hi,
         NEW n \in Nat, n > 0, n % 2 = 0, m[b].sz - n > 0
  PROVE  Tidy(Split(m, hi, b, n), lo, hi)
<1> DEFINE front == PutBlock(m, b, n, TRUE, m[b].pfree)
           rem   == m[b].sz - n
           back  == PutBlock(front, b + n, rem, FALSE, TRUE)
<1>1. Inside(b, m[b].sz, lo, hi) /\ m[b].pfree \in BOOLEAN /\ TRUE \in BOOLEAN /\ FALSE \in BOOLEAN
  BY HeaderFacts
<1>2. b = lo => m[b].pfree = FALSE
  BY HeaderFacts
<1>3. Sized(m, lo, hi) /\ FirstOK(m, lo, hi) /\ lo \in Nat /\ hi \in Nat
  BY DEF Sized, Tidy, Range
<1>4. Inside(b, n, lo, hi) /\ Inside(b + n, rem, lo, hi)
  BY <1>1, <1>3 DEF Inside
<1>5. b + n \in Nat /\ b + n # lo /\ b + n + rem \in Nat /\ b + n + rem # lo
  <2>1. PICK r \in Int : r = rem /\ r > 0
    BY <1>1 DEF Inside
  <2> HIDE DEF rem
  <2>2. b + n \in Nat /\ b + n # lo
    BY <1>3
  <2>3. b + n + r \in Nat /\ b + n + r # lo
    BY <1>3, <2>1
  <2> QED BY <2>1, <2>2, <2>3, Zenon
<1>6. Split(m, hi, b, n) = MarkPrevFree(back, hi, b + n + rem)
  BY DEF Split
<1> HIDE DEF rem
<1>7. Tidy(front, lo, hi)
  BY <1>1, <1>2, <1>3, <1>4, PutTidy, Zenon
<1> HIDE DEF front
<1>8. Tidy(back, lo, hi)
  <2>1. Sized(front, lo, hi) /\ FirstOK(front, lo, hi)
    BY <1>7 DEF Tidy
  <2> QED BY <1>1, <1>4, <1>5, <2>1, PutTidy, Zenon
<1> HIDE DEF back
<1> QED BY <1>5, <1>6, <1>8, MarkTidy

(* brk_alloc, using a block as it is.                                        *)
LEMMA TakeTidy ==
  ASSUME NEW m, NEW lo, NEW hi, Tidy(m, lo, hi), NEW b \in Nat, b % 2 = 0, lo <= b, b < hi
  PROVE  Tidy(TakeWhole(m, hi, b), lo, hi)
<1> DEFINE n     == m[b].sz
           taken == PutBlock(m, b, n, TRUE, m[b].pfree)
<1>1. Inside(b, n, lo, hi) /\ m[b].pfree \in BOOLEAN /\ TRUE \in BOOLEAN
  BY HeaderFacts
<1>2. b = lo => n > 0 /\ m[b].pfree = FALSE
  BY HeaderFacts
<1>3. Sized(m, lo, hi) /\ FirstOK(m, lo, hi)
  BY DEF Tidy
<1>4. TakeWhole(m, hi, b) = ClearPrevFree(taken, hi, b + n)
  BY DEF TakeWhole
<1> HIDE DEF n
<1>5. Tidy(taken, lo, hi)
  BY <1>1, <1>2, <1>3, PutTidy, Zenon
<1>6. b + n \in Nat
  BY <1>1 DEF Inside
<1> HIDE DEF taken
<1> QED BY <1>4, <1>5, <1>6, ClearTidy

(* brk_grow and the use of the new block: the words between the old break    *)
(* and the new one still carry no size.                                      *)
LEMMA GrowTidy ==
  ASSUME NEW m, NEW lo, NEW hi, Tidy(m, lo, hi), NEW g \in Nat, g > 0, g % 2 = 0,
         hi + g <= LIMIT
  PROVE  Tidy(TakeWhole(Grown(m, lo, hi, g), hi + g, hi), lo, hi + g)
<1> DEFINE top   == hi + g
           y     == hi > lo /\ ~m[hi - HDR_SZ].alloc
           fresh == PutBlock(m, hi, g, FALSE, y)
           grown == Merge(fresh, top, hi)
<1>1. lo \in Nat /\ hi \in Nat /\ lo <= hi /\ hi % 2 = 0 /\ lo % 2 = 0 /\ m \in [Addr -> Word]
  BY DEF Sized, Tidy, Range
<1>2. top \in Nat /\ hi < top /\ top % 2 = 0 /\ top <= LIMIT /\ lo <= hi
  BY <1>1
<1>3. Grown(m, lo, hi, g) = grown
  BY DEF Grown
<1> HIDE DEF top
<1>4. Sized(m, lo, top)
  <2>1. Range(lo, top)
    BY <1>1, <1>2 DEF Range
  <2>2. ASSUME NEW a \in Addr PROVE SizeOK(a, m[a].sz, lo, top)
    <3>1. a \in Nat /\ m[a].sz \in Nat
      BY <1>1, HeapAssumption DEF Addr, Word
    <3>2. SizeOK(a, m[a].sz, lo, hi)
      BY DEF Sized, Tidy
    <3> QED BY <1>1, <1>2, <3>1, <3>2 DEF SizeOK
  <2> QED BY <1>1, <2>1, <2>2 DEF Sized
<1>5. Inside(hi, g, lo, top)
  BY <1>1, <1>2 DEF Inside, top
<1>6. y \in BOOLEAN /\ FALSE \in BOOLEAN /\ (hi = lo => y = FALSE)
  <2>1. hi = lo => ~(hi > lo)
    BY <1>1
  <2> QED BY <2>1, Zenon
<1>7. hi # lo => FirstOK(m, lo, top)
  BY <1>1 DEF Tidy, FirstOK
<1> HIDE DEF y
<1>8. Tidy(fresh, lo, top)
  BY <1>4, <1>5, <1>6, <1>7, PutTidy, Zenon
<1> HIDE DEF fresh
<1>9. Tidy(grown, lo, top)
  BY <1>1, <1>2, <1>8, MergeTidy
<1> HIDE DEF grown
<1>10. Tidy(TakeWhole(grown, top, hi), lo, top)
  BY <1>1, <1>2, <1>9, TakeTidy
<1> QED BY <1>3, <1>10 DEF top

-----------------------------------------------------------------------------
(* The invariant of a client that may do anything, but stores no sizes.      *)

(* A word that reads like a tag without a size.                              *)
Plain(w) == w.sz = 0

(* The client of this part stores no other.                                  *)
PlainClient == \A w \in UserWords : Plain(w)

(* The heap is of this kind once it has been set up.                         *)
HeapTidy ==
  /\ heap_lo <= heap_hi /\ heap_lo % 2 = 0 /\ heap_hi % 2 = 0 /\ HeapBacked
  /\ ~heap_ok => heap_lo = 0 /\ heap_hi = 0
  /\ heap_hi <= LIMIT => Tidy(mem, heap_lo, heap_hi)

(* The payload of a held pointer lies between two words of the heap.         *)
HeldInside ==
  \A s \in Live : slot[s].ptr % 2 = 1 /\ heap_lo < slot[s].ptr
                   /\ slot[s].ptr + slot[s].len < heap_hi

(* The search does not leave the heap.                                       *)
CursorInside == pc = "walk" => cur % 2 = 0 /\ heap_lo <= cur /\ cur <= heap_hi

(* The inductive invariant of a heap that may be damaged.                    *)
BInv == TypeOK /\ HeapTidy /\ CallOK /\ HeldInside /\ CursorInside

(* A heap with anything in it is below the limit of the break.               *)
LEMMA NonEmpty ==
  ASSUME BInv, heap_lo < heap_hi
  PROVE  heap_hi <= LIMIT /\ heap_hi = brk /\ Tidy(mem, heap_lo, heap_hi)
BY DEF BInv, HeapTidy, HeapBacked

(* At first there is no heap.                                                *)
LEMMA InitBInv == Init => BInv
<1> SUFFICES ASSUME Init PROVE BInv
  OBVIOUS
<1>1. TypeOK /\ CallOK /\ HeapBacked
  BY InitIInv DEF IInv, HeapBase
<1>2. Live = {}
  BY DEF Init, Live, NULL
<1>3. Tidy(mem, 0, 0)
  <2>1. mem \in [Addr -> Word]
    BY <1>1 DEF TypeOK
  <2>2. \A a \in Addr : mem[a].sz = 0 /\ a \in Nat
    BY HeapAssumption DEF Init, Zero, Tag, Addr
  <2>3. \A a \in Addr : SizeOK(a, mem[a].sz, 0, 0)
    BY <2>2 DEF SizeOK
  <2>4. Range(0, 0)
    BY HeapAssumption DEF Range
  <2> QED BY <2>1, <2>3, <2>4 DEF Sized, Tidy, FirstOK
<1>4. HeapTidy
  BY <1>1, <1>3 DEF Init, HeapTidy
<1>5. HeldInside /\ CursorInside
  BY <1>2 DEF Init, HeldInside, CursorInside
<1> QED BY <1>1, <1>4, <1>5 DEF BInv

(* The first malloc: the heap starts, empty, at the aligned break.           *)
LEMMA MallocTidy ==
  ASSUME BInv, NEW s \in Slots, NEW n \in Sizes, Malloc(s, n)
  PROVE  BInv'
<1>1. n \in Nat
  BY HeapAssumption, SMT
<1>2. OVERHEAD + AlignUp(n, ALIGN) \in Nat
  BY <1>1, AlignUpTwo DEF OVERHEAD
<1>3. UNCHANGED <<mem, slot, faults>> /\ pc' = "walk" /\ cur' = heap_lo' /\ dst' = s
      /\ slot[s] = NULL /\ len' = n /\ need' = OVERHEAD + AlignUp(n, ALIGN)
  BY DEF Malloc
<1>4. CASE heap_ok
  <2>1. UNCHANGED <<heap_lo, heap_hi, heap_ok, brk>>
    BY <1>4 DEF Malloc
  <2>2. TypeOK'
    BY <1>1, <1>2, <1>3, <2>1 DEF BInv, TypeOK
  <2>3. HeapTidy' /\ HeldInside'
    BY <1>3, <2>1 DEF BInv, HeapTidy, HeapBacked, HeldInside, Live
  <2>4. CallOK'
    BY <1>3, <1>4, <2>1 DEF CallOK
  <2>5. CursorInside'
    BY <1>3, <2>1 DEF BInv, HeapTidy, CursorInside, TypeOK
  <2> QED BY <2>2, <2>3, <2>4, <2>5 DEF BInv
<1>5. CASE ~heap_ok
  <2> DEFINE al == AlignUp(brk, ALIGN)
  <2>1. HeapInit
    BY <1>5 DEF Malloc
  <2>2. al \in Nat /\ al % 2 = 0
    BY AlignUpTwo DEF BInv, TypeOK
  <2>3. heap_lo' = al /\ heap_hi' = al /\ heap_ok' = TRUE /\ brk' \in {al, brk}
    BY <2>1 DEF HeapInit, SetBrk
  <2> HIDE DEF al
  <2>4. TypeOK'
    BY <1>1, <1>2, <1>3, <2>2, <2>3 DEF BInv, TypeOK
  <2>5. heap_lo = 0 /\ heap_hi = 0 /\ Tidy(mem, 0, 0)
    BY <1>5, HeapAssumption DEF BInv, HeapTidy
  <2>6. Live' = {}
    <3>1. Live = {}
      BY <2>5 DEF BInv, HeldInside, Live, TypeOK
    <3> QED BY <1>3, <3>1 DEF Live
  <2>7. al <= LIMIT => Tidy(mem, al, al)
    <3> SUFFICES ASSUME al <= LIMIT PROVE Tidy(mem, al, al)
      OBVIOUS
    <3>1. mem \in [Addr -> Word] /\ \A a \in Addr : SizeOK(a, mem[a].sz, 0, 0)
      BY <2>5 DEF Sized, Tidy
    <3>2. ASSUME NEW a \in Addr PROVE SizeOK(a, mem[a].sz, al, al)
      <4>1. mem[a].sz = 0 /\ a \in Nat
        BY <3>1, HeapAssumption DEF SizeOK, Addr
      <4> QED BY <2>2, <4>1 DEF SizeOK
    <3>3. Range(al, al)
      BY <2>2 DEF Range
    <3> QED BY <2>2, <3>1, <3>2, <3>3 DEF Sized, Tidy, FirstOK
  <2>8. HeapTidy'
    BY <1>3, <2>2, <2>3, <2>7 DEF HeapTidy, HeapBacked
  <2>9. CallOK'
    BY <1>3, <2>3 DEF CallOK
  <2>10. HeldInside' /\ CursorInside'
    BY <1>3, <2>2, <2>3, <2>6 DEF HeldInside, CursorInside
  <2> QED BY <2>4, <2>8, <2>9, <2>10 DEF BInv
<1> QED BY <1>4, <1>5

(* The search stays inside the heap, wherever the sizes lead it.             *)
LEMMA WalkOnTidy ==
  ASSUME BInv, WalkOn
  PROVE  BInv'
<1>1. UNCHANGED <<mem, heap_lo, heap_hi, heap_ok, brk, slot, pc, need, dst, len, faults>>
  BY DEF WalkOn, heapvars
<1>2. pc = "walk" /\ cur < heap_hi /\ cur' = cur + mem[cur].sz
  BY DEF WalkOn, AtBlock, InWalk
<1>3. cur \in Nat /\ cur % 2 = 0 /\ heap_lo <= cur /\ heap_lo \in Nat /\ heap_hi \in Nat
  BY <1>2 DEF BInv, CursorInside, TypeOK
<1>4. Tidy(mem, heap_lo, heap_hi)
  BY <1>2, <1>3, NonEmpty
<1>5. Inside(cur, mem[cur].sz, heap_lo, heap_hi)
  BY <1>2, <1>3, <1>4, HeaderFacts
<1>6. cur' \in Nat /\ cur' % 2 = 0 /\ heap_lo <= cur' /\ cur' <= heap_hi
  BY <1>2, <1>3, <1>5 DEF Inside
<1>7. TypeOK'
  BY <1>1, <1>6 DEF BInv, TypeOK
<1>8. HeapTidy' /\ CallOK' /\ HeldInside'
  BY <1>1 DEF BInv, HeapTidy, HeapBacked, CallOK, HeldInside, Live
<1>9. CursorInside'
  BY <1>1, <1>6 DEF CursorInside
<1> QED BY <1>7, <1>8, <1>9 DEF BInv

(* malloc hands out a pointer whose payload lies inside the heap.            *)
LEMMA ReturnTidy ==
  ASSUME BInv, NEW b \in Nat, b % 2 = 0, heap_lo <= b, b + need <= heap_hi', heap_hi <= heap_hi',
         pc = "walk", Return(UserPtr(b)), UNCHANGED <<heap_lo, heap_ok>>,
         heap_hi' \in Nat, brk' \in Nat, mem' \in [Addr -> Word], faults' \subseteq FaultKinds,
         HeapTidy'
  PROVE  BInv'
<1>1. TypeOK /\ CallOK
  BY DEF BInv
<1>2. /\ len \in Nat /\ need >= len + 2 /\ need \in Nat /\ dst \in Slots
  BY <1>1, NeedFacts DEF OVERHEAD
<1>3. /\ slot' = [slot EXCEPT ![dst] = [ptr |-> b + 1, len |-> len]]
      /\ pc' = "idle" /\ cur' = 0 /\ need' = 0 /\ len' = 0 /\ dst' = NoSlot
  BY DEF Return, EndCall, UserPtr, HDR_SZ
<1>4. slot \in [Slots -> [ptr : Nat, len : Nat]] /\ heap_lo \in Nat /\ heap_hi \in Nat
  BY <1>1 DEF TypeOK
<1>5. slot' \in [Slots -> [ptr : Nat, len : Nat]]
  BY <1>2, <1>3, <1>4
<1>6. TypeOK'
  BY <1>1, <1>3, <1>5 DEF TypeOK
<1>7. HeldInside'
  <2> SUFFICES ASSUME NEW s \in Live'
               PROVE  slot'[s].ptr % 2 = 1 /\ heap_lo < slot'[s].ptr
                      /\ slot'[s].ptr + slot'[s].len < heap_hi'
    BY DEF HeldInside
  <2>0. s \in Slots
    BY DEF Live
  <2>1. CASE s = dst
    <3>1. slot'[s].ptr = b + 1 /\ slot'[s].len = len
      BY <1>3, <1>4, <2>0, <2>1
    <3> QED BY <1>2, <1>4, <3>1
  <2>2. CASE s # dst
    <3>1. slot'[s] = slot[s] /\ s \in Live
      BY <1>3, <1>4, <2>0, <2>2 DEF Live
    <3>2. slot[s].ptr \in Nat /\ slot[s].len \in Nat
      BY <1>4, <2>0
    <3> QED BY <1>4, <3>1, <3>2 DEF BInv, HeldInside
  <2> QED BY <2>1, <2>2
<1>8. CallOK' /\ CursorInside'
  BY <1>3 DEF CallOK, CursorInside
<1> QED BY <1>6, <1>7, <1>8 DEF BInv

(* malloc splits a block.                                                    *)
LEMMA AllocSplitTidy ==
  ASSUME BInv, AllocSplit
  PROVE  BInv'
<1>1. /\ pc = "walk" /\ cur < heap_hi /\ mem[cur].sz >= need /\ mem[cur].sz - need >= 4
      /\ mem' = Split(mem, heap_hi, cur, need) /\ faults' = faults \cup SplitFaults(cur)
      /\ Return(UserPtr(cur)) /\ UNCHANGED <<heap_lo, heap_hi, heap_ok, brk>>
  BY DEF AllocSplit, AtBlock, InWalk, Fits, Splits, OVERHEAD, ALIGN
<1>2. cur \in Nat /\ cur % 2 = 0 /\ heap_lo <= cur /\ heap_lo \in Nat /\ heap_hi \in Nat /\ brk \in Nat
  BY <1>1 DEF BInv, CursorInside, TypeOK
<1>3. Tidy(mem, heap_lo, heap_hi) /\ heap_hi <= LIMIT
  BY <1>1, <1>2, NonEmpty
<1>4. Inside(cur, mem[cur].sz, heap_lo, heap_hi)
  BY <1>1, <1>2, <1>3, HeaderFacts
<1>5. need \in Nat /\ need > 0 /\ need % 2 = 0
  BY <1>1, NeedFacts DEF BInv
<1>6. mem[cur].sz - need > 0
  BY <1>1, <1>4, <1>5 DEF Inside
<1>7. Tidy(mem', heap_lo, heap_hi)
  BY <1>1, <1>2, <1>3, <1>5, <1>6, SplitTidy
<1>8. HeapTidy'
  BY <1>1, <1>7 DEF BInv, HeapTidy, HeapBacked
<1>9. mem' \in [Addr -> Word]
  BY <1>7 DEF Sized, Tidy
<1>10. faults' \subseteq FaultKinds
  BY <1>1 DEF BInv, TypeOK, SplitFaults, FaultKinds
<1>11. cur + need <= heap_hi' /\ heap_hi <= heap_hi'
  BY <1>1, <1>2, <1>4, <1>5 DEF Inside
<1> QED BY <1>1, <1>2, <1>8, <1>9, <1>10, <1>11, ReturnTidy

(* malloc takes a whole block.                                               *)
LEMMA AllocWholeTidy ==
  ASSUME BInv, AllocWhole
  PROVE  BInv'
<1>1. /\ pc = "walk" /\ cur < heap_hi /\ mem[cur].sz >= need
      /\ mem' = TakeWhole(mem, heap_hi, cur) /\ faults' = faults
      /\ Return(UserPtr(cur)) /\ UNCHANGED <<heap_lo, heap_hi, heap_ok, brk>>
  BY DEF AllocWhole, AtBlock, InWalk, Fits
<1>2. cur \in Nat /\ cur % 2 = 0 /\ heap_lo <= cur /\ heap_lo \in Nat /\ heap_hi \in Nat /\ brk \in Nat
  BY <1>1 DEF BInv, CursorInside, TypeOK
<1>3. Tidy(mem, heap_lo, heap_hi)
  BY <1>1, <1>2, NonEmpty
<1>4. Inside(cur, mem[cur].sz, heap_lo, heap_hi)
  BY <1>1, <1>2, <1>3, HeaderFacts
<1>5. need \in Nat
  BY DEF BInv, TypeOK
<1>6. Tidy(mem', heap_lo, heap_hi)
  BY <1>1, <1>2, <1>3, TakeTidy
<1>7. HeapTidy'
  BY <1>1, <1>6 DEF BInv, HeapTidy, HeapBacked
<1>8. mem' \in [Addr -> Word] /\ faults' \subseteq FaultKinds
  BY <1>1, <1>6 DEF Sized, Tidy, BInv, TypeOK
<1>9. cur + need <= heap_hi' /\ heap_hi <= heap_hi'
  BY <1>1, <1>2, <1>4, <1>5 DEF Inside
<1> QED BY <1>1, <1>2, <1>7, <1>8, <1>9, ReturnTidy

(* malloc grows the heap.                                                    *)
LEMMA AllocGrowTidy ==
  ASSUME BInv, AllocGrow
  PROVE  BInv'
<1> DEFINE g == AlignUp(need, PAGE)
<1>1. /\ pc = "walk" /\ heap_hi + g <= LIMIT /\ brk' = heap_hi + g /\ heap_hi' = heap_hi + g
      /\ mem' = TakeWhole(Grown(mem, heap_lo, heap_hi, g), heap_hi + g, heap_hi)
      /\ faults' = faults \cup GrowFaults
      /\ Return(UserPtr(heap_hi)) /\ UNCHANGED <<heap_lo, heap_ok>>
  BY DEF AllocGrow, AtEnd, SetBrk
<1>2. heap_lo \in Nat /\ heap_hi \in Nat /\ heap_hi % 2 = 0 /\ heap_lo % 2 = 0 /\ heap_lo <= heap_hi
  BY DEF BInv, HeapTidy, TypeOK
<1>3. need \in Nat /\ need > 0
  BY <1>1, NeedFacts DEF BInv
<1>4. g \in Nat /\ g >= need /\ g % 2 = 0
  BY <1>3, AlignUpPage
<1> HIDE DEF g
<1>5. g > 0 /\ heap_hi + g \in Nat /\ (heap_hi + g) % 2 = 0 /\ heap_hi <= LIMIT
  BY <1>1, <1>2, <1>3, <1>4, HeapAssumption
<1>6. Tidy(mem, heap_lo, heap_hi)
  BY <1>5 DEF BInv, HeapTidy
<1>7. Tidy(mem', heap_lo, heap_hi + g)
  BY <1>1, <1>2, <1>4, <1>5, <1>6, GrowTidy
<1>8. HeapTidy'
  <2>1. ~heap_ok => FALSE
    BY <1>1 DEF BInv, CallOK
  <2> QED BY <1>1, <1>2, <1>4, <1>5, <1>7, <2>1 DEF HeapTidy, HeapBacked
<1>9. mem' \in [Addr -> Word]
  BY <1>7 DEF Sized, Tidy
<1>10. faults' \subseteq FaultKinds
  BY <1>1 DEF BInv, TypeOK, GrowFaults, FaultKinds
<1>11. heap_hi + need <= heap_hi' /\ heap_hi <= heap_hi' /\ heap_hi' \in Nat /\ brk' \in Nat
  BY <1>1, <1>2, <1>3, <1>4, <1>5
<1> QED BY <1>1, <1>2, <1>8, <1>9, <1>10, <1>11, ReturnTidy

(* malloc answers NULL.                                                      *)
LEMMA AllocFailTidy ==
  ASSUME BInv, AllocFail
  PROVE  BInv'
<1>1. UNCHANGED <<mem, heap_lo, heap_hi, heap_ok, brk, slot, faults>>
  BY DEF AllocFail, SetBrk
<1>2. pc' = "idle" /\ cur' = 0 /\ need' = 0 /\ len' = 0 /\ dst' = NoSlot
  BY DEF AllocFail, EndCall
<1>3. TypeOK'
  BY <1>1, <1>2 DEF BInv, TypeOK
<1>4. HeapTidy' /\ CallOK' /\ HeldInside' /\ CursorInside'
  BY <1>1, <1>2 DEF BInv, HeapTidy, HeapBacked, CallOK, HeldInside, Live, CursorInside
<1> QED BY <1>3, <1>4 DEF BInv

(* A held pointer leads to a header of the heap, damaged or not.             *)
LEMMA HeldHeader ==
  ASSUME BInv, NEW s \in Live
  PROVE  /\ HdrOf(slot[s].ptr) \in Nat /\ HdrOf(slot[s].ptr) % 2 = 0
         /\ heap_lo <= HdrOf(slot[s].ptr) /\ HdrOf(slot[s].ptr) < heap_hi
         /\ Tidy(mem, heap_lo, heap_hi)
<1>1. slot[s].ptr \in Nat /\ slot[s].len \in Nat /\ heap_lo \in Nat /\ heap_hi \in Nat
  BY DEF BInv, TypeOK, Live
<1>2. slot[s].ptr % 2 = 1 /\ heap_lo < slot[s].ptr /\ slot[s].ptr + slot[s].len < heap_hi
  BY DEF BInv, HeldInside
<1>3. heap_lo < heap_hi
  BY <1>1, <1>2
<1> QED BY <1>1, <1>2, <1>3, NonEmpty DEF HdrOf, HDR_SZ

(* free, whichever faults it commits.                                        *)
LEMMA FreeTidy ==
  ASSUME BInv, NEW s \in Slots, Free(s)
  PROVE  BInv'
<1> DEFINE b == HdrOf(slot[s].ptr)
<1>1. /\ s \in Live /\ pc = "idle" /\ mem' = Release(mem, heap_hi, b)
      /\ faults' = faults \cup FreeFaults(b) /\ slot' = [slot EXCEPT ![s] = NULL]
      /\ UNCHANGED <<heap_lo, heap_hi, heap_ok, brk, pc, cur, need, dst, len>>
  BY DEF Free, callvars
<1>2. b \in Nat /\ b % 2 = 0 /\ heap_lo <= b /\ b < heap_hi /\ Tidy(mem, heap_lo, heap_hi)
  BY <1>1, HeldHeader
<1> HIDE DEF b
<1>3. Tidy(mem', heap_lo, heap_hi)
  BY <1>1, <1>2, ReleaseTidy
<1>4. mem' \in [Addr -> Word]
  BY <1>3 DEF Sized, Tidy
<1>5. faults' \subseteq FaultKinds
  BY <1>1 DEF BInv, TypeOK, FreeFaults
<1>6. slot' \in [Slots -> [ptr : Nat, len : Nat]]
  BY <1>1 DEF BInv, TypeOK, NULL
<1>7. TypeOK'
  BY <1>1, <1>4, <1>5, <1>6 DEF BInv, TypeOK
<1>8. HeapTidy'
  BY <1>1, <1>3 DEF BInv, HeapTidy, HeapBacked
<1>9. \A t \in Live' : t \in Live /\ slot'[t] = slot[t]
  BY <1>1 DEF BInv, TypeOK, Live, NULL
<1>10. HeldInside'
  BY <1>1, <1>9 DEF BInv, HeldInside
<1>11. CallOK' /\ CursorInside'
  BY <1>1 DEF CallOK, CursorInside
<1> QED BY <1>7, <1>8, <1>10, <1>11 DEF BInv

(* What a plain client stores is not a size and not the first header.        *)
LEMMA ClientTidy ==
  ASSUME PlainClient, BInv, NEW s \in Slots, NEW w \in UserWords, ClientWrite(s, w)
  PROVE  BInv'
<1>1. /\ s \in Live /\ pc = "idle"
      /\ mem' = [a \in Addr |-> IF a \in Payload(s) THEN w ELSE mem[a]]
      /\ UNCHANGED <<heap_lo, heap_hi, heap_ok, brk, slot, pc, cur, need, dst, len, faults>>
  BY DEF ClientWrite, callvars
<1>2. w \in Word /\ w.sz = 0
  <2>1. Plain(w)
    BY DEF PlainClient
  <2> QED BY <2>1, HeapAssumption, Zenon DEF Plain
<1>3. /\ slot[s].ptr \in Nat /\ slot[s].len \in Nat /\ heap_lo \in Nat /\ heap_hi \in Nat
      /\ heap_lo < slot[s].ptr /\ slot[s].ptr + slot[s].len < heap_hi
      /\ heap_lo % 2 = 0 /\ heap_hi % 2 = 0
  BY <1>1 DEF BInv, TypeOK, Live, HeldInside, HeapTidy
<1>4. Tidy(mem, heap_lo, heap_hi)
  BY <1>1, HeldHeader
<1>5. mem \in [Addr -> Word] /\ Range(heap_lo, heap_hi) /\ FirstOK(mem, heap_lo, heap_hi)
      /\ \A a \in Addr : SizeOK(a, mem[a].sz, heap_lo, heap_hi)
  BY <1>4 DEF Sized, Tidy
<1>6. mem' \in [Addr -> Word]
  BY <1>1, <1>2, <1>5
<1>7. ASSUME NEW a \in Addr PROVE SizeOK(a, mem'[a].sz, heap_lo, heap_hi)
  <2>1. CASE a \in Payload(s)
    <3>1. mem'[a].sz = 0 /\ a \in Nat
      BY <1>1, <1>2, <2>1, HeapAssumption DEF Addr
    <3> QED BY <1>3, <3>1 DEF SizeOK
  <2>2. CASE a \notin Payload(s)
    BY <1>1, <1>5, <2>2
  <2> QED BY <2>1, <2>2
<1>8. FirstOK(mem', heap_lo, heap_hi)
  <2>1. heap_lo \in Addr /\ heap_lo \notin Payload(s)
    BY <1>3, <1>5, HeapAssumption DEF Addr, Payload, Range
  <2>2. mem'[heap_lo] = mem[heap_lo]
    BY <1>1, <2>1
  <2> QED BY <1>5, <2>2 DEF FirstOK
<1>9. Tidy(mem', heap_lo, heap_hi)
  BY <1>5, <1>6, <1>7, <1>8 DEF Sized, Tidy
<1>10. TypeOK' /\ HeapTidy'
  BY <1>1, <1>6, <1>9 DEF BInv, TypeOK, HeapTidy, HeapBacked
<1>11. CallOK' /\ HeldInside' /\ CursorInside'
  BY <1>1 DEF BInv, CallOK, HeldInside, Live, CursorInside
<1> QED BY <1>10, <1>11 DEF BInv

(* Every step keeps the invariant.                                           *)
LEMMA NextBInv == PlainClient /\ BInv /\ [Next]_vars => BInv'
<1> SUFFICES ASSUME PlainClient, BInv, [Next]_vars PROVE BInv'
  OBVIOUS
<1>1. CASE \E s \in Slots, n \in Sizes : Malloc(s, n)
  BY <1>1, MallocTidy
<1>2. CASE WalkOn
  BY <1>2, WalkOnTidy
<1>3. CASE AllocSplit
  BY <1>3, AllocSplitTidy
<1>4. CASE AllocWhole
  BY <1>4, AllocWholeTidy
<1>5. CASE AllocGrow
  BY <1>5, AllocGrowTidy
<1>6. CASE AllocFail
  BY <1>6, AllocFailTidy
<1>7. CASE \E s \in Slots : Free(s)
  BY <1>7, FreeTidy
<1>8. CASE \E s \in Slots, w \in UserWords : ClientWrite(s, w)
  BY <1>8, ClientTidy
<1>9. CASE UNCHANGED vars
  <2>1. UNCHANGED <<mem, heap_lo, heap_hi, heap_ok, brk, slot, pc, cur, need, dst, len, faults>>
    BY <1>9 DEF vars, heapvars, callvars
  <2> QED BY <2>1 DEF BInv, TypeOK, HeapTidy, HeapBacked, CallOK, HeldInside, Live, CursorInside
<1> QED BY <1>1, <1>2, <1>3, <1>4, <1>5, <1>6, <1>7, <1>8, <1>9 DEF Next, AllocStep

(* A client that may do anything but store tags with a size of its own keeps *)
(* every size of the heap from leading out of it: brk_alloc, merge and       *)
(* brk_release never touch a word outside [heap_lo, heap_hi), even after the *)
(* faults of free have stripped tags of held blocks.                         *)
THEOREM TidyInvariant ==
  ASSUME PlainClient
  PROVE  Spec => []BInv
<1>1. BInv /\ [Next]_vars => BInv'
  BY NextBInv
<1> QED BY <1>1, InitBInv, PTL DEF Spec

(* The types, also over damaged tags.                                        *)
THEOREM TypedWhenDamaged ==
  ASSUME PlainClient
  PROVE  Spec => []TypeOK
<1>1. BInv => TypeOK
  BY DEF BInv
<1> QED BY <1>1, TidyInvariant, PTL

(* Headers never reach above heap_hi, footers never below heap_lo, and what  *)
(* malloc returns has room for the request.                                  *)
THEOREM NeverLeavesHeap ==
  ASSUME PlainClient
  PROVE  Spec => []StaysInHeap
<1>1. BInv => StaysInHeap
  <2> SUFFICES ASSUME BInv PROVE StaysInHeap
    OBVIOUS
  <2>1. heap_lo \in Nat /\ heap_hi \in Nat
    BY DEF BInv, TypeOK
  <2>2. ASSUME NEW a \in heap_lo .. heap_hi - 1
        PROVE  /\ mem[a].sz % ALIGN = 0
               /\ IF a % ALIGN = 0 THEN a + mem[a].sz <= heap_hi
                                   ELSE heap_lo + mem[a].sz <= a + HDR_SZ
    <3>1. a \in Nat /\ heap_lo <= a /\ a < heap_hi
      BY <2>1
    <3>2. Tidy(mem, heap_lo, heap_hi) /\ heap_hi <= LIMIT
      BY <2>1, <3>1, NonEmpty
    <3>3. a \in Addr
      BY <2>1, <3>1, <3>2, HeapAssumption DEF Addr
    <3>4. SizeOK(a, mem[a].sz, heap_lo, heap_hi)
      BY <3>2, <3>3 DEF Sized, Tidy
    <3>5. a % 2 = 0 \/ a % 2 = 1
      BY <3>1
    <3> QED BY <3>1, <3>4, <3>5 DEF SizeOK, ALIGN, HDR_SZ
  <2>3. \A s \in Live : heap_lo < slot[s].ptr /\ slot[s].ptr + slot[s].len < heap_hi
    BY DEF BInv, HeldInside
  <2> QED BY <2>2, <2>3 DEF StaysInHeap
<1> QED BY <1>1, TidyInvariant, PTL

(* Every round of the loop of brk_alloc brings the search closer to heap_hi  *)
(* and not past it, whatever the faults have done to the tags: no cycle and  *)
(* no endless search. What is left of MallocReturns is that the loop runs.   *)
THEOREM SearchAdvances ==
  ASSUME PlainClient
  PROVE  Spec => [][WalkOn => cur < cur' /\ cur' <= heap_hi /\ heap_hi' = heap_hi]_vars
<1>1. BInv /\ BInv' /\ [Next]_vars =>
        [WalkOn => cur < cur' /\ cur' <= heap_hi /\ heap_hi' = heap_hi]_vars
  <2> SUFFICES ASSUME BInv, BInv', WalkOn
               PROVE  cur < cur' /\ cur' <= heap_hi /\ heap_hi' = heap_hi
    OBVIOUS
  <2>1. pc = "walk" /\ pc' = "walk" /\ heap_hi' = heap_hi
    BY DEF WalkOn, AtBlock, heapvars
  <2>2. cur' = cur + mem[cur].sz /\ mem[cur].sz # 0 /\ cur < heap_hi
    BY DEF WalkOn, AtBlock, InWalk
  <2>3. cur' <= heap_hi
    BY <2>1 DEF BInv, CursorInside
  <2>4. cur \in Nat /\ heap_hi \in Nat /\ heap_hi <= LIMIT
    <3>1. cur \in Nat /\ heap_lo \in Nat /\ heap_hi \in Nat /\ heap_lo <= cur
      BY <2>1 DEF BInv, TypeOK, CursorInside
    <3>2. Tidy(mem, heap_lo, heap_hi) /\ heap_hi <= LIMIT
      BY <2>2, <3>1, NonEmpty
    <3> QED BY <3>1, <3>2
  <2>5. cur \in Addr
    BY <2>2, <2>4, HeapAssumption DEF Addr
  <2>6. mem[cur].sz \in Nat
    BY <2>5 DEF BInv, TypeOK, Word
  <2> QED BY <2>1, <2>2, <2>3, <2>4, <2>6
<1> QED BY <1>1, TidyInvariant, PTL DEF Spec

-----------------------------------------------------------------------------
(* What the search of brk_alloc visits while the tags are sound.             *)

(* The equation that defines the walk.                                       *)
WalkStops(a) == a = heap_hi \/ mem[a].sz = 0 \/ a + mem[a].sz > heap_hi

(* The equation that defines Walk.                                           *)
WalkEqn(F) ==
  F = [a \in heap_lo .. heap_hi |->
         IF WalkStops(a) THEN {a} \ {heap_hi} ELSE {a} \cup F[a + mem[a].sz]]

(* The sets of addresses that are closed under the step of the search.       *)
ClosedUnderStep(T) ==
  T \subseteq heap_lo .. heap_hi /\ \A b \in T : WalkStops(b) \/ b + mem[b].sz \in T

(* What the walk from the start of the heap reaches at a.                    *)
Reached(a) ==
  {x \in heap_lo .. heap_hi : \A T \in SUBSET (heap_lo .. heap_hi) :
                               a \in T /\ ClosedUnderStep(T) => x \in T}

(* The equation has a solution: what is reached from each address.           *)
LEMMA WalkExists ==
  ASSUME TypeOK, heap_lo <= heap_hi, HeapBacked
  PROVE  \E F : WalkEqn(F)
<1> DEFINE D == heap_lo .. heap_hi
           G == [a \in D |-> Reached(a) \ {heap_hi}]
<1>1. heap_lo \in Nat /\ heap_hi \in Nat /\ heap_lo <= heap_hi
  BY DEF TypeOK
<1>2. \A a \in D : a # heap_hi => a \in Addr
  BY <1>1, HeapAssumption DEF HeapBacked, Addr
<1>3. \A a \in D : ~WalkStops(a) => a + mem[a].sz \in D
  <2> SUFFICES ASSUME NEW a \in D, ~WalkStops(a) PROVE a + mem[a].sz \in D
    OBVIOUS
  <2>1. a \in Addr /\ a + mem[a].sz <= heap_hi /\ mem[a].sz \in Nat
    <3>1. a # heap_hi /\ ~(a + mem[a].sz > heap_hi)
      BY DEF WalkStops
    <3>2. a \in Addr
      BY <1>2, <3>1
    <3>3. mem[a].sz \in Nat
      BY <3>2 DEF TypeOK, Word
    <3> QED BY <1>1, <3>1, <3>2, <3>3
  <2> QED BY <1>1, <2>1
<1>4. \A a \in D : a \in Reached(a) /\ Reached(a) \subseteq D
  BY DEF Reached
<1>5. \A a \in D : ClosedUnderStep(Reached(a))
  <2> SUFFICES ASSUME NEW a \in D, NEW b \in Reached(a), ~WalkStops(b)
               PROVE  b + mem[b].sz \in Reached(a)
    BY <1>4 DEF ClosedUnderStep
  <2>1. b \in D /\ b + mem[b].sz \in D
    BY <1>3, <1>4
  <2> QED BY <2>1 DEF Reached, ClosedUnderStep
<1>6. \A a \in D : WalkStops(a) => Reached(a) = {a}
  <2> SUFFICES ASSUME NEW a \in D, WalkStops(a) PROVE Reached(a) = {a}
    OBVIOUS
  <2>1. ClosedUnderStep({a}) /\ {a} \in SUBSET D
    BY DEF ClosedUnderStep
  <2>2. Reached(a) \subseteq {a}
    BY <2>1 DEF Reached
  <2> QED BY <1>4, <2>2
<1>7. \A a \in D : ~WalkStops(a) => Reached(a) = {a} \cup Reached(a + mem[a].sz)
  <2> SUFFICES ASSUME NEW a \in D, ~WalkStops(a) PROVE Reached(a) = {a} \cup Reached(a + mem[a].sz)
    OBVIOUS
  <2> DEFINE n == a + mem[a].sz
  <2>1. n \in D
    BY <1>3
  <2>2. n \in Reached(a)
    BY <1>4, <1>5 DEF ClosedUnderStep
  <2> HIDE DEF n
  <2>3. Reached(n) \subseteq Reached(a)
    BY <1>4, <1>5, <2>1, <2>2 DEF Reached
  <2>4. ClosedUnderStep({a} \cup Reached(n)) /\ {a} \cup Reached(n) \in SUBSET D
    <3>1. ClosedUnderStep(Reached(n)) /\ n \in Reached(n) /\ Reached(n) \subseteq D
      BY <1>4, <1>5, <2>1
    <3> QED BY <3>1 DEF ClosedUnderStep, n
  <2>5. Reached(a) \subseteq {a} \cup Reached(n)
    BY <2>4 DEF Reached
  <2>6. Reached(a) = {a} \cup Reached(n)
    BY <1>4, <2>3, <2>5
  <2> QED BY <2>6 DEF n
<1>8. ASSUME NEW a \in D
      PROVE  G[a] = IF WalkStops(a) THEN {a} \ {heap_hi} ELSE {a} \cup G[a + mem[a].sz]
  <2>1. CASE WalkStops(a)
    BY <1>6, <2>1
  <2>2. CASE ~WalkStops(a)
    <3>1. a # heap_hi
      BY <2>2 DEF WalkStops
    <3>2. a + mem[a].sz \in D
      BY <1>3, <2>2
    <3>3. G[a + mem[a].sz] = Reached(a + mem[a].sz) \ {heap_hi}
      BY <3>2
    <3>4. Reached(a) = {a} \cup Reached(a + mem[a].sz)
      BY <1>7, <2>2
    <3> QED BY <2>2, <3>1, <3>3, <3>4
  <2> QED BY <2>1, <2>2
<1>9. G = [a \in D |-> IF WalkStops(a) THEN {a} \ {heap_hi} ELSE {a} \cup G[a + mem[a].sz]]
  <2> DEFINE H == [a \in D |-> IF WalkStops(a) THEN {a} \ {heap_hi} ELSE {a} \cup G[a + mem[a].sz]]
  <2>1. \A a \in D : H[a] = G[a]
    <3> HIDE DEF G
    <3> QED BY <1>8
  <2>2. DOMAIN G = D /\ G = [a \in D |-> G[a]]
    OBVIOUS
  <2> HIDE DEF G
  <2> QED BY <2>1, <2>2
<1> HIDE DEF G
<1> QED BY <1>9 DEF WalkEqn

(* So the walk obeys its defining equation.                                  *)
LEMMA WalkSolves ==
  ASSUME TypeOK, heap_lo <= heap_hi, HeapBacked
  PROVE  \E F : WalkEqn(F) /\ Walk = F[heap_lo]
<1> DEFINE G == CHOOSE F : WalkEqn(F)
<1>1. WalkEqn(G)
  BY WalkExists
<1>2. Walk = G[heap_lo]
  BY DEF Walk, WalkEqn, WalkStops
<1> HIDE DEF G
<1> QED BY <1>1, <1>2

(* Every set of numbers has a least one.                                     *)
LEMMA LeastNat ==
  ASSUME NEW T \in SUBSET Nat, T # {}
  PROVE  \E x \in T : \A y \in T : x <= y
<1>1. PICK x \in T : \A y \in T : ~(<<y, x>> \in OpToRel(<, Nat))
  BY NatLessThanWellFounded, WFMin
<1>2. \A y \in T : ~(y < x)
  BY <1>1 DEF OpToRel
<1> QED BY <1>2

(* In a sound heap the search visits the blocks, and nothing else.           *)
LEMMA WalkIsBlocks ==
  ASSUME TypeOK, HeapBase, NEW S \in SUBSET Addr, Sound(S)
  PROVE  Walk = S
<1>1. PICK F : WalkEqn(F) /\ Walk = F[heap_lo]
  BY WalkSolves DEF HeapBase
<1> DEFINE B(a) == {b \in S : a <= b}
           Bad  == {a \in S \cup {heap_hi} : F[a] # B(a)}
           Far  == {n \in Nat : \E a \in Bad : n = heap_hi - a}
<1>2. heap_lo \in Nat /\ heap_hi \in Nat /\ heap_lo <= heap_hi
  BY DEF TypeOK, HeapBase
<1>3. \A b \in S : b \in Nat /\ b < heap_hi /\ heap_lo <= b
  <2> SUFFICES ASSUME NEW b \in S PROVE b \in Nat /\ b < heap_hi /\ heap_lo <= b
    OBVIOUS
  <2> QED BY <1>2, BlockFacts
<1>4. \A b \in S : /\ ~WalkStops(b) /\ b < b + mem[b].sz /\ b + mem[b].sz \in S \cup {heap_hi}
                    /\ b + mem[b].sz \in Nat
                    /\ \A c \in S : b < c => b + mem[b].sz <= c
  <2> SUFFICES ASSUME NEW b \in S
               PROVE  /\ ~WalkStops(b) /\ b < b + mem[b].sz /\ b + mem[b].sz \in S \cup {heap_hi}
                      /\ b + mem[b].sz \in Nat
                      /\ \A c \in S : b < c => b + mem[b].sz <= c
    OBVIOUS
  <2> QED BY <1>2, BlockFacts DEF WalkStops
<1>5. \A a \in S \cup {heap_hi} :
        F[a] = IF WalkStops(a) THEN {a} \ {heap_hi} ELSE {a} \cup F[a + mem[a].sz]
  <2>1. \A a \in heap_lo .. heap_hi :
          F[a] = IF WalkStops(a) THEN {a} \ {heap_hi} ELSE {a} \cup F[a + mem[a].sz]
    <3> DEFINE Body(a) == IF WalkStops(a) THEN {a} \ {heap_hi} ELSE {a} \cup F[a + mem[a].sz]
    <3>1. F = [a \in heap_lo .. heap_hi |-> Body(a)]
      BY <1>1 DEF WalkEqn
    <3> HIDE DEF Body
    <3>2. \A a \in heap_lo .. heap_hi : F[a] = Body(a)
      BY <3>1
    <3> QED BY <3>2 DEF Body
  <2>2. S \cup {heap_hi} \subseteq heap_lo .. heap_hi
    BY <1>2, <1>3
  <2> QED BY <2>1, <2>2, Zenon
<1>6. F[heap_hi] = B(heap_hi)
  <2>1. F[heap_hi] = {}
    BY <1>5 DEF WalkStops
  <2>2. B(heap_hi) = {}
    BY <1>2, <1>3
  <2> QED BY <2>1, <2>2
<1>7. Bad = {}
  <2> SUFFICES ASSUME Bad # {} PROVE FALSE
    OBVIOUS
  <2>1. Far # {} /\ Far \in SUBSET Nat
    <3>1. PICK a \in Bad : TRUE
      OBVIOUS
    <3>2. heap_hi - a \in Nat
      BY <1>2, <1>3
    <3>3. heap_hi - a \in Far
      BY <3>2, Zenon
    <3> QED BY <3>3
  <2>2. PICK n \in Far : \A y \in Far : n <= y
    <3> HIDE DEF Far
    <3> QED BY <2>1, LeastNat
  <2>3. PICK a \in Bad : n = heap_hi - a
    OBVIOUS
  <2>4. a \in S /\ F[a] # B(a)
    BY <1>6
  <2>5. F[a] = {a} \cup F[a + mem[a].sz]
    BY <1>4, <1>5, <2>4
  <2>6. a + mem[a].sz \notin Bad
    <3> SUFFICES ASSUME a + mem[a].sz \in Bad PROVE FALSE
      OBVIOUS
    <3> DEFINE c == a + mem[a].sz
    <3>1. a \in Nat /\ c \in Nat /\ a < c /\ c <= heap_hi
      BY <1>2, <1>3, <1>4, <2>4
    <3> HIDE DEF c
    <3>2. heap_hi - c \in Nat
      BY <1>2, <3>1
    <3>3. heap_hi - c \in Far
      BY <3>2 DEF c
    <3> HIDE DEF Far
    <3>4. heap_hi - a <= heap_hi - c
      BY <2>2, <2>3, <3>3
    <3> QED BY <1>2, <3>1, <3>4
  <2>7. F[a + mem[a].sz] = B(a + mem[a].sz)
    BY <1>4, <2>4, <2>6
  <2>8. B(a) = {a} \cup B(a + mem[a].sz)
    <3>1. ASSUME NEW c \in S, a <= c PROVE c = a \/ a + mem[a].sz <= c
      BY <1>3, <1>4, <2>4, <3>1
    <3>2. ASSUME NEW c \in S, a + mem[a].sz <= c PROVE a <= c
      BY <1>3, <1>4, <2>4, <3>2
    <3> QED BY <1>3, <2>4, <3>1, <3>2
  <2> QED BY <2>4, <2>5, <2>7, <2>8
<1>8. F[heap_lo] = B(heap_lo)
  <2>1. heap_lo \in S \cup {heap_hi}
    BY DEF Sound, Tiles
  <2> QED BY <1>7, <2>1
<1>9. B(heap_lo) = S
  BY <1>3
<1> QED BY <1>1, <1>8, <1>9

(* On a sound heap the walk is the set of its blocks.                        *)
LEMMA SoundWalk ==
  ASSUME IInv, faults = {}
  PROVE  Sound(Walk) /\ (pc = "walk" => cur \in Walk \cup {heap_hi})
<1>1. PICK S \in SUBSET Addr : Sound(S) /\ (pc = "walk" => cur \in S \cup {heap_hi})
  BY DEF IInv, Intact
<1>2. Walk = S
  BY <1>1, WalkIsBlocks DEF IInv
<1> QED BY <1>1, <1>2

(* As long as the tags are sound the free list has at most one block, the   *)
(* last one.                                                                *)
FreeOnlyAtTop ==
  faults = {} => \A b \in Walk : ~mem[b].alloc => b + mem[b].sz = heap_hi

(* As long as the tags are sound, every free block the search can meet is    *)
(* the last one of the heap.                                                 *)
THEOREM FreeAtTop == Spec => []FreeOnlyAtTop
<1>1. (faults = {} => IInv) => FreeOnlyAtTop
  BY SoundWalk DEF FreeOnlyAtTop, Sound, OnlyLastFree
<1> QED BY <1>1, SoundUntilFault, PTL

-----------------------------------------------------------------------------
(* Which calls damage the heap.                                              *)

(* The block behind that of s is allocated unless s is the topmost.          *)
LEMMA TopmostBlock ==
  ASSUME TypeOK, HeapBase, NEW S \in SUBSET Addr, Sound(S), NEW s \in Live,
         NEW b \in S, b = HdrOf(slot[s].ptr), NEW n \in Nat, n = mem[b].sz
  PROVE  Topmost(s) <=> ~TaggedAlloc(b + n)
<1>1. PICK hi \in Nat : hi = heap_hi
  BY DEF TypeOK
<1>2. /\ b \in Nat /\ n >= 4 /\ b + n <= hi /\ b + n \in S \cup {hi}
      /\ \A c \in S : b < c => b + n <= c
  BY <1>1, BlockFacts
<1>3. slot[s].ptr = b + 1
  BY <1>2, LiveFacts DEF UserPtr, HDR_SZ
<1>4. ASSUME TaggedAlloc(b + n) PROVE ~Topmost(s)
  <2>1. b + n \in S /\ mem[b + n].alloc
    BY <1>1, <1>2, <1>4 DEF TaggedAlloc
  <2>2. PICK t \in Live : slot[t].ptr = UserPtr(b + n)
    BY <2>1 DEF Sound, LedgerAgrees
  <2>3. ~(slot[t].ptr <= slot[s].ptr)
    BY <2>2, <1>2, <1>3 DEF UserPtr, HDR_SZ
  <2> QED BY <2>3 DEF Topmost
<1>5. ASSUME ~TaggedAlloc(b + n), NEW t \in Live PROVE slot[t].ptr <= slot[s].ptr
  <2>1. PICK c \in S : c = HdrOf(slot[t].ptr) /\ mem[c].alloc /\ slot[t].ptr = UserPtr(c)
    BY LiveFacts
  <2>2. c \in Nat /\ c < hi
    <3>1. PICK k \in Nat : k = mem[c].sz /\ k >= 4 /\ c + k <= hi /\ c \in Nat
      BY <1>1, BlockFacts
    <3> QED BY <3>1
  <2>3. ~(b < c)
    <3> SUFFICES ASSUME b < c PROVE FALSE
      OBVIOUS
    <3>1. b + n <= c
      BY <1>2
    <3>2. PICK nx \in S : nx = b + n
      BY <3>1, <2>2, <1>2
    <3>3. PICK k \in Nat : k = mem[nx].sz /\ nx \in Nat /\ \A d \in S : nx < d => nx + k <= d
      BY BlockFacts
    <3>4. ~mem[nx].alloc
      BY <3>1, <3>2, <2>2, <1>1, <1>5 DEF TaggedAlloc
    <3>5. nx + k = hi
      BY <3>3, <3>4, <1>1 DEF Sound, OnlyLastFree
    <3>6. nx = c
      <4>1. ASSUME nx < c PROVE nx + k <= c
        BY <3>3, <4>1, Zenon
      <4>2. nx <= c
        BY <3>1, <3>2
      <4> QED BY <2>2, <3>3, <3>5, <4>1, <4>2
    <3> QED BY <3>4, <3>6, <2>1
  <2> QED BY <2>1, <2>2, <2>3, <1>2, <1>3 DEF UserPtr, HDR_SZ
<1> QED BY <1>4, <1>5 DEF Topmost

(* free damages a sound heap unless it frees the topmost block and that has  *)
(* no flag.                                                                  *)
LEMMA FreeDamages ==
  ASSUME IInv, faults = {}, NEW s \in Slots, Free(s), NEW b, b = HdrOf(slot[s].ptr)
  PROVE  /\ faults' = {} <=> Topmost(s) /\ ~mem[b].pfree
         /\ faults' = {} => StartsPage(b)
<1> USE DEF IInv
<1>1. s \in Live /\ faults' = FreeFaults(b)
  BY DEF Free
<1>2. PICK S \in SUBSET Addr : Sound(S)
  BY DEF Intact
<1>3. b \in S /\ b \in Nat /\ heap_lo \in Nat
  BY <1>1, <1>2, LiveFacts, BlockFacts DEF TypeOK
<1>4. PICK n \in Nat : n = mem[b].sz
  BY <1>2, <1>3, BlockFacts
<1>5. Topmost(s) <=> ~TaggedAlloc(b + n)
  BY <1>1, <1>2, <1>3, <1>4, TopmostBlock
<1>6. mem[b].pfree => mem[b - HDR_SZ].alloc
  BY <1>2, <1>3 DEF Sound, FlagsAreWrong
<1>7. ASSUME b + n < heap_hi, ~mem[b + n].alloc
      PROVE  ~TaggedAlloc(b + n + mem[b + n].sz)
  <2>1. b + n \in S
    BY <1>2, <1>3, <1>4, <1>7, BlockFacts
  <2>2. b + n + mem[b + n].sz = heap_hi
    BY <2>1, <1>2, <1>7 DEF Sound, OnlyLastFree
  <2>3. ~(heap_hi < heap_hi)
    BY DEF TypeOK
  <2> QED BY <2>2, <2>3 DEF TaggedAlloc
<1>8. FreeFaults(b) = {} <=> ~TaggedAlloc(b + n) /\ ~mem[b].pfree
  <2>1. \A k \in FaultKinds :
          k \in FreeFaults(b) <=>
            \/ k = "swallow" /\ TaggedAlloc(b + n)
            \/ k = "false_prev" /\ mem[b].pfree
    BY <1>4, <1>6, <1>7 DEF FreeFaults
  <2>2. FreeFaults(b) \subseteq FaultKinds
    BY DEF FreeFaults
  <2>3. "swallow" \in FaultKinds /\ "false_prev" \in FaultKinds
    BY DEF FaultKinds
  <2> QED BY <2>1, <2>2, <2>3, Zenon
<1>9. faults' = {} => StartsPage(b)
  <2> SUFFICES ASSUME faults' = {} PROVE StartsPage(b)
    OBVIOUS
  <2>1. OnPage(heap_lo, b)
    BY <1>1, <1>2, <1>3, <1>8 DEF Sound, PagesMarked
  <2> QED BY <2>1, <1>3, PageStarts DEF StartsPage
<1> QED BY <1>1, <1>5, <1>8, <1>9

(* malloc damages a sound heap if it grows the heap over a free block, and   *)
(* in no other way.                                                          *)
LEMMA GrowDamages ==
  ASSUME IInv, faults = {}, AllocGrow
  PROVE  heap_hi' # heap_hi /\ (faults' = {} <=> \A b \in Walk : mem[b].alloc)
<1> USE DEF IInv
<1>1. pc = "walk" /\ faults' = GrowFaults /\ heap_hi' = heap_hi + AlignUp(need, PAGE)
  BY DEF AllocGrow, AtEnd
<1>2. AlignUp(need, PAGE) \in Nat /\ AlignUp(need, PAGE) >= 4
  BY <1>1, NeedFacts, AlignUpPage
<1>3. heap_hi' # heap_hi
  BY <1>1, <1>2 DEF TypeOK
<1>4. PICK S \in SUBSET Addr : Sound(S) /\ Walk = S
  BY WalkIsBlocks DEF Intact
<1>5. heap_lo \in Nat /\ heap_hi \in Nat /\ heap_lo <= heap_hi
  BY DEF TypeOK, HeapBase
<1>6. ASSUME heap_lo < heap_hi, ~mem[heap_hi - HDR_SZ].alloc PROVE \E c \in S : ~mem[c].alloc
  BY <1>4, <1>5, <1>6, LastFooter
<1>7. ASSUME NEW c \in S, ~mem[c].alloc PROVE heap_lo < heap_hi /\ ~mem[heap_hi - HDR_SZ].alloc
  <2>1. c + mem[c].sz = heap_hi /\ heap_lo < heap_hi
    BY <1>4, <1>7, BlockFacts DEF Sound, OnlyLastFree
  <2>2. c \in Nat /\ mem[c].sz \in Nat
    BY <1>4, BlockFacts
  <2>3. heap_hi - HDR_SZ = Ftr(c, mem[c].sz)
    BY <2>1, <2>2 DEF Ftr, HDR_SZ
  <2>4. TagsAgree(S)
    BY <1>4 DEF Sound
  <2>5. mem[Ftr(c, mem[c].sz)].alloc = mem[c].alloc
    BY <2>4 DEF TagsAgree
  <2> QED BY <2>1, <2>3, <2>5, <1>7
<1>8. GrowFaults = {} <=> \A c \in S : mem[c].alloc
  BY <1>6, <1>7 DEF GrowFaults
<1> QED BY <1>1, <1>3, <1>4, <1>8

(* A split leaves nothing behind its remainder to be damaged.                *)
LEMMA SplitHarmless ==
  ASSUME IInv, faults = {}, AllocSplit
  PROVE  faults' = {}
<1>1. PICK S \in SUBSET Addr : Sound(S) /\ (pc = "walk" => cur \in S \cup {heap_hi})
  BY DEF IInv, Intact
<1>2. pc = "walk" /\ cur < heap_hi /\ ~mem[cur].alloc /\ faults' = SplitFaults(cur)
  BY DEF AllocSplit, AtBlock, InWalk, Fits
<1>3. heap_hi \in Nat
  BY DEF IInv, TypeOK
<1>4. cur \in S
  BY <1>1, <1>2, <1>3
<1>5. cur + mem[cur].sz = heap_hi
  BY <1>1, <1>2, <1>4 DEF Sound, OnlyLastFree
<1>6. SplitFaults(cur) = {}
  BY <1>3, <1>5 DEF SplitFaults, TaggedAlloc
<1> QED BY <1>2, <1>6

(* Only free takes a pointer from the client.                                *)
LEMMA OnlyFreeForgets ==
  ASSUME IInv, Next, NEW s \in Live, slot'[s] = NULL
  PROVE  Free(s)
<1>1. slot[s] # NULL /\ s \in Slots
  BY DEF Live, NULL
<1>2. slot \in [Slots -> [ptr : Nat, len : Nat]]
  BY DEF IInv, TypeOK
<1>3. ASSUME NEW ptr, Return(ptr), pc = "walk" PROVE FALSE
  <2>1. slot[dst] = NULL
    BY <1>3 DEF IInv, CallOK
  <2>2. slot' = [slot EXCEPT ![dst] = [ptr |-> ptr, len |-> len]]
    BY <1>3 DEF Return
  <2>3. slot'[s] = slot[s]
    BY <2>1, <2>2, <1>1, <1>2
  <2> QED BY <2>3, <1>1
<1>4. ~AllocStep
  <2>1. ~WalkOn /\ ~AllocFail
    BY <1>1 DEF WalkOn, AllocFail
  <2>2. ~AllocSplit /\ ~AllocWhole /\ ~AllocGrow
    BY <1>3 DEF AllocSplit, AllocWhole, AllocGrow, AtBlock, AtEnd
  <2> QED BY <2>1, <2>2 DEF AllocStep
<1>5. ASSUME NEW t \in Slots, Free(t) PROVE t = s
  <2>1. slot' = [slot EXCEPT ![t] = NULL]
    BY <1>5 DEF Free
  <2> QED BY <2>1, <1>1, <1>2
<1>6. ASSUME NEW t \in Slots, NEW n \in Sizes PROVE ~Malloc(t, n)
  BY <1>1 DEF Malloc
<1>7. ASSUME NEW t \in Slots, NEW w \in UserWords PROVE ~ClientWrite(t, w)
  BY <1>1 DEF ClientWrite
<1> QED BY <1>4, <1>5, <1>6, <1>7 DEF Next

(* For the unrestricted client: until the first fault, free damages the tags *)
(* exactly if it frees a block that is not the topmost or whose header has   *)
(* PREV_FREE, which every block has that does not start a page; brk_grow     *)
(* exactly if there is a free block; and nothing else ever does.             *)
THEOREM DamageIsKnown == Spec => DamageBegins
<1> DEFINE A == faults = {} =>
       /\ \A s \in Live : slot'[s] = NULL =>
            LET b == HdrOf(slot[s].ptr) IN
            /\ faults' = {} <=> Topmost(s) /\ ~mem[b].pfree
            /\ faults' = {} => StartsPage(b)
       /\ heap_hi' # heap_hi => (faults' = {} <=> \A b \in Walk : mem[b].alloc)
       /\ faults' # {} => heap_hi' # heap_hi \/ \E s \in Live : slot'[s] = NULL
<1>1. (faults = {} => IInv) /\ [Next]_vars => [A]_vars
  <2> SUFFICES ASSUME IInv, faults = {}, Next PROVE A
    OBVIOUS
  <2>1. ASSUME NEW s \in Live, slot'[s] = NULL
        PROVE  LET b == HdrOf(slot[s].ptr) IN
               /\ faults' = {} <=> Topmost(s) /\ ~mem[b].pfree
               /\ faults' = {} => StartsPage(b)
    <3>1. Free(s) /\ s \in Slots
      BY <2>1, OnlyFreeForgets DEF Live
    <3>2. PICK b : b = HdrOf(slot[s].ptr)
      OBVIOUS
    <3>3. /\ faults' = {} <=> Topmost(s) /\ ~mem[b].pfree
          /\ faults' = {} => StartsPage(b)
      BY <3>1, <3>2, FreeDamages
    <3> QED BY <3>2, <3>3
  <2>2. ASSUME heap_hi' # heap_hi PROVE faults' = {} <=> \A b \in Walk : mem[b].alloc
    <3>1. CASE AllocGrow
      BY <3>1, GrowDamages
    <3>2. CASE \E s \in Slots, n \in Sizes : Malloc(s, n)
      <4>1. ~heap_ok /\ faults' = {}
        BY <2>2, <3>2 DEF Malloc
      <4>2. heap_lo = heap_hi /\ heap_hi \in Nat
        BY <4>1 DEF IInv, HeapBase, TypeOK
      <4>3. PICK S \in SUBSET Addr : Sound(S) /\ Walk = S
        BY WalkIsBlocks DEF IInv, Intact
      <4>4. \A b \in S : heap_lo < heap_hi
        BY <4>3, BlockFacts DEF IInv
      <4> QED BY <4>1, <4>2, <4>3, <4>4
    <3> QED BY <2>2, <3>1, <3>2
          DEF Next, AllocStep, WalkOn, AllocSplit, AllocWhole, AllocFail, Free, ClientWrite, heapvars
  <2>3. ASSUME faults' # {} PROVE heap_hi' # heap_hi \/ \E s \in Live : slot'[s] = NULL
    <3>1. CASE AllocGrow
      BY <3>1, GrowDamages
    <3>2. ASSUME NEW s \in Slots, Free(s) PROVE s \in Live /\ slot'[s] = NULL
      <4>1. s \in Live /\ slot' = [slot EXCEPT ![s] = NULL]
        BY <3>2 DEF Free
      <4> QED BY <4>1 DEF IInv, TypeOK
    <3>3. CASE AllocSplit
      BY <2>3, <3>3, SplitHarmless
    <3> QED BY <2>3, <3>1, <3>2, <3>3
          DEF Next, AllocStep, Malloc, WalkOn, AllocWhole, AllocFail, ClientWrite
  <2> QED BY <2>1, <2>2, <2>3
<1>2. [][A]_vars => DamageBegins
  BY DEF DamageBegins
<1> HIDE DEF A
<1> QED BY <1>1, <1>2, SoundUntilFault, PTL DEF Spec

-----------------------------------------------------------------------------
(* A client that keeps all it is given.                                      *)

(* Every call but free, and every use of the blocks.                         *)
NeverFrees == Init /\ [][Next /\ ~(\E s \in Slots : Free(s))]_vars

(* Its invariant: no block of the heap is free.                              *)
HInv == IInv /\ faults = {} /\ AllHeld

(* Without a free block the search finds none, so that nothing is split.     *)
LEMMA NoneFits == HInv => ~AllocSplit /\ ~AllocWhole
<1> SUFFICES ASSUME HInv, AtBlock, Fits(cur) PROVE FALSE
  BY DEF AllocSplit, AllocWhole
<1>1. PICK S \in SUBSET Addr : Sound(S) /\ (pc = "walk" => cur \in S \cup {heap_hi})
  BY DEF HInv, IInv, Intact
<1>2. PICK T \in SUBSET Addr : Sound(T) /\ \A b \in T : mem[b].alloc
  BY DEF HInv, AllHeld
<1>3. S = T
  <2>1. Walk = S
    BY <1>1, WalkIsBlocks DEF HInv, IInv
  <2>2. Walk = T
    BY <1>2, WalkIsBlocks DEF HInv, IInv
  <2> QED BY <2>1, <2>2
<1>4. pc = "walk" /\ cur < heap_hi /\ ~mem[cur].alloc /\ heap_hi \in Nat
  BY DEF HInv, IInv, TypeOK, AtBlock, InWalk, Fits
<1> QED BY <1>1, <1>2, <1>3, <1>4

(* A program that never frees never damages the heap: brk_alloc can only     *)
(* grow it, and hands out each growth as one block.                          *)
THEOREM NeverFreesSafe == NeverFrees => [](faults = {})
<1>1. Init => HInv
  <2> SUFFICES ASSUME Init PROVE AllHeld
    BY InitIInv DEF HInv, Init
  <2>1. heap_lo = heap_hi /\ heap_hi = 0
    BY DEF Init
  <2>2. PICK S \in SUBSET Addr : Sound(S)
    BY InitIInv DEF IInv, Intact, Init
  <2>3. \A b \in S : heap_lo < heap_hi
    BY <2>2, InitIInv, BlockFacts DEF IInv
  <2>4. \A b \in S : mem[b].alloc
    BY <2>1, <2>3
  <2> QED BY <2>2, <2>4 DEF AllHeld
<1>2. HInv /\ [Next /\ ~(\E s \in Slots : Free(s))]_vars => HInv'
  <2> SUFFICES ASSUME HInv, [Next /\ ~(\E s \in Slots : Free(s))]_vars PROVE HInv'
    OBVIOUS
  <2> USE DEF HInv
  <2>1. ASSUME NEW s \in Slots, NEW n \in Sizes, Malloc(s, n) PROVE HInv'
    BY <2>1, MallocStep DEF Malloc
  <2>2. CASE WalkOn
    <3>1. UNCHANGED <<mem, heap_lo, heap_hi, slot, faults>>
      BY <2>2 DEF WalkOn, heapvars
    <3> QED BY <2>2, <3>1, WalkOnStep, HeldUnchanged
  <2>3. CASE AllocGrow
    <3>1. PICK b : b = heap_hi
      OBVIOUS
    <3>2. GrowFaults = {}
      <4>1. PICK S \in SUBSET Addr : Sound(S) /\ \A b1 \in S : mem[b1].alloc
        BY DEF AllHeld
      <4>2. Walk = S
        BY <4>1, WalkIsBlocks DEF IInv
      <4>3. faults' = {}
        BY <2>3, <4>1, <4>2, GrowDamages
      <4> QED BY <2>3, <4>3 DEF AllocGrow
    <3>3. faults' = {}
      BY <2>3, <3>2 DEF AllocGrow
    <3> QED BY <2>3, <3>1, <3>2, <3>3, AllocGrowStep
  <2>4. CASE AllocFail
    <3>1. UNCHANGED <<mem, heap_lo, heap_hi, slot, faults>>
      BY <2>4 DEF AllocFail
    <3> QED BY <2>4, <3>1, AllocFailStep, HeldUnchanged
  <2>5. ASSUME NEW s \in Slots, NEW w \in UserWords, ClientWrite(s, w) PROVE HInv'
    BY <2>5, ClientWriteStep DEF ClientWrite
  <2>6. CASE UNCHANGED vars
    <3>1. UNCHANGED <<mem, heap_lo, heap_hi, slot, faults>>
      BY <2>6 DEF vars, heapvars
    <3> QED BY <2>6, <3>1, StutterStep, HeldUnchanged
  <2> QED BY <2>1, <2>2, <2>3, <2>4, <2>5, <2>6, NoneFits DEF Next, AllocStep
<1>3. HInv => faults = {}
  BY DEF HInv
<1> QED BY <1>1, <1>2, <1>3, PTL DEF NeverFrees

-----------------------------------------------------------------------------
(* First fit.                                                                *)

(* What the defining equation says of one address.                           *)
LEMMA WalkUnfolds ==
  ASSUME NEW F, WalkEqn(F), NEW a \in heap_lo .. heap_hi
  PROVE  /\ WalkStops(a) => F[a] = {a} \ {heap_hi}
         /\ ~WalkStops(a) => F[a] = {a} \cup F[a + mem[a].sz]
<1> DEFINE Body(x) == IF WalkStops(x) THEN {x} \ {heap_hi} ELSE {x} \cup F[x + mem[x].sz]
<1>1. F = [x \in heap_lo .. heap_hi |-> Body(x)]
  BY DEF WalkEqn
<1> HIDE DEF Body
<1>2. F[a] = Body(a)
  BY <1>1
<1> QED BY <1>2 DEF Body

(* The search only goes up: what it visits from a on is not below a.         *)
LEMMA WalkGoesUp ==
  ASSUME TypeOK, heap_lo <= heap_hi, HeapBacked, NEW F, WalkEqn(F),
         NEW a \in heap_lo .. heap_hi, NEW b \in F[a]
  PROVE  b \in Nat /\ a <= b /\ b < heap_hi
<1> DEFINE D      == heap_lo .. heap_hi
           Up(x)  == \A y \in F[x] : y \in Nat /\ x <= y /\ y < heap_hi
           Far    == {n \in Nat : \E x \in D : ~Up(x) /\ n = heap_hi - x}
<1>1. heap_lo \in Nat /\ heap_hi \in Nat
  BY DEF TypeOK
<1>2. ASSUME NEW x \in D, WalkStops(x) PROVE Up(x)
  <2>1. F[x] = {x} \ {heap_hi}
    BY <1>2, WalkUnfolds
  <2> QED BY <1>1, <2>1
<1>3. ASSUME NEW x \in D, ~WalkStops(x)
      PROVE  /\ F[x] = {x} \cup F[x + mem[x].sz]
             /\ x + mem[x].sz \in D /\ x < x + mem[x].sz /\ x < heap_hi
  <2>1. F[x] = {x} \cup F[x + mem[x].sz]
    BY <1>3, WalkUnfolds
  <2>2. x # heap_hi /\ mem[x].sz # 0 /\ ~(x + mem[x].sz > heap_hi)
    BY <1>3 DEF WalkStops
  <2>3. x \in Addr
    BY <1>1, <2>2, HeapAssumption DEF HeapBacked, Addr
  <2>4. mem[x].sz \in Nat
    BY <2>3 DEF TypeOK, Word
  <2> QED BY <1>1, <2>1, <2>2, <2>4
<1>4. Far = {}
  <2> SUFFICES ASSUME Far # {} PROVE FALSE
    OBVIOUS
  <2>1. PICK n \in Far : \A m \in Far : n <= m
    <3>1. Far \in SUBSET Nat
      OBVIOUS
    <3> HIDE DEF Far
    <3> QED BY <3>1, LeastNat
  <2>2. PICK x \in D : ~Up(x) /\ n = heap_hi - x
    OBVIOUS
  <2>3. ~WalkStops(x)
    BY <1>2, <2>2
  <2>4. PICK y : y = x + mem[x].sz
    OBVIOUS
  <2>5. F[x] = {x} \cup F[y] /\ y \in D /\ x < y /\ x < heap_hi
    BY <1>3, <2>3, <2>4
  <2>6. Up(y)
    <3> SUFFICES ASSUME ~Up(y) PROVE FALSE
      OBVIOUS
    <3>1. heap_hi - y \in Nat
      BY <1>1, <2>5
    <3>2. heap_hi - y \in Far
      BY <2>5, <3>1, Zenon
    <3> HIDE DEF Far, Up
    <3>3. heap_hi - x <= heap_hi - y
      BY <2>1, <2>2, <3>2
    <3> QED BY <1>1, <2>5, <3>3
  <2>7. Up(x)
    BY <1>1, <2>5, <2>6
  <2> QED BY <2>2, <2>7
<1>5. Up(a)
  <2> SUFFICES ASSUME ~Up(a) PROVE FALSE
    OBVIOUS
  <2>1. heap_hi - a \in Nat
    BY <1>1
  <2>2. heap_hi - a \in Far
    BY <2>1, Zenon
  <2> QED BY <1>4, <2>2
<1> QED BY <1>5

(* A block that the running malloc can use.                                  *)
FreeAndLarge(b) == ~mem[b].alloc /\ mem[b].sz >= need

(* Every block of the walk that can be used is still ahead of the search.    *)
Ahead ==
  pc = "walk" =>
    \A F : WalkEqn(F) => \A b \in F[heap_lo] : FreeAndLarge(b) => b \in F[cur]

(* The inductive invariant of first fit.                                     *)
QInv == BInv /\ Ahead

(* A heap as BInv describes it has a walk.                                   *)
LEMMA WalkOfTidy ==
  ASSUME BInv
  PROVE  /\ TypeOK /\ heap_lo \in Nat /\ heap_hi \in Nat /\ heap_lo <= heap_hi /\ HeapBacked
         /\ pc = "walk" => cur \in heap_lo .. heap_hi /\ cur \in Nat
         /\ \E F : WalkEqn(F) /\ Walk = F[heap_lo]
<1>1. TypeOK /\ heap_lo <= heap_hi /\ HeapBacked
  BY DEF BInv, HeapTidy
<1>2. heap_lo \in Nat /\ heap_hi \in Nat /\ cur \in Nat
  BY <1>1 DEF TypeOK
<1>3. pc = "walk" => cur \in heap_lo .. heap_hi
  BY <1>2 DEF BInv, CursorInside
<1> QED BY <1>1, <1>2, <1>3, WalkSolves

(* A search that goes on leaves only its own block behind, which is of no    *)
(* use.                                                                      *)
LEMMA WalkOnAhead ==
  ASSUME BInv, BInv', Ahead, WalkOn
  PROVE  Ahead'
<1>1. UNCHANGED <<mem, heap_lo, heap_hi, heap_ok, brk, slot, pc, need, dst, len, faults>>
  BY DEF WalkOn, heapvars
<1>2. pc = "walk" /\ cur < heap_hi /\ mem[cur].sz # 0 /\ cur' = cur + mem[cur].sz
  BY DEF WalkOn, AtBlock, InWalk
<1>3. ~FreeAndLarge(cur)
  BY DEF WalkOn, Fits, FreeAndLarge
<1>4. cur \in heap_lo .. heap_hi /\ cur' \in heap_lo .. heap_hi /\ cur \in Nat /\ heap_hi \in Nat
  <2>1. cur' \in Nat /\ heap_lo' <= cur' /\ cur' <= heap_hi'
    BY <1>1, <1>2 DEF BInv, TypeOK, CursorInside
  <2> QED BY <1>1, <1>2, <2>1, WalkOfTidy
<1>5. ~WalkStops(cur)
  BY <1>2, <1>4 DEF WalkStops
<1> SUFFICES ASSUME NEW F, WalkEqn(F), NEW b \in F[heap_lo], FreeAndLarge(b)
             PROVE  b \in F[cur']
  BY <1>1 DEF Ahead, WalkEqn, WalkStops, FreeAndLarge
<1>6. b \in F[cur]
  BY <1>2 DEF Ahead
<1>7. F[cur] = {cur} \cup F[cur']
  BY <1>2, <1>4, <1>5, WalkUnfolds
<1> QED BY <1>3, <1>6, <1>7

(* At first no search is running.                                            *)
LEMMA InitQInv == Init => QInv
<1> SUFFICES ASSUME Init PROVE QInv
  OBVIOUS
<1>1. pc # "walk"
  BY DEF Init
<1> QED BY <1>1, InitBInv DEF QInv, Ahead

(* Every step keeps the invariant.                                           *)
LEMMA NextQInv == PlainClient /\ QInv /\ [Next]_vars => QInv'
<1> SUFFICES ASSUME PlainClient, QInv, [Next]_vars PROVE BInv' /\ Ahead'
  BY DEF QInv
<1>1. BInv /\ Ahead
  BY DEF QInv
<1>2. BInv'
  BY <1>1, NextBInv
<1>3. CASE WalkOn
  BY <1>1, <1>2, <1>3, WalkOnAhead
<1>4. CASE cur' = heap_lo'
  BY <1>2, <1>4 DEF Ahead
<1>5. CASE pc' # "walk"
  BY <1>2, <1>5 DEF Ahead
<1>6. CASE UNCHANGED vars
  <2>1. UNCHANGED <<mem, heap_lo, heap_hi, pc, cur, need>>
    BY <1>6 DEF vars, heapvars, callvars
  <2> QED BY <1>1, <1>2, <2>1 DEF Ahead, WalkEqn, WalkStops, FreeAndLarge
<1>7. Next => WalkOn \/ cur' = heap_lo' \/ pc' # "walk"
  BY DEF Next, AllocStep, AllocSplit, AllocWhole, AllocGrow, AllocFail, Return, EndCall,
         Malloc, Free, ClientWrite, callvars
<1> QED BY <1>2, <1>3, <1>4, <1>5, <1>6, <1>7

(* A malloc that ends where blocks are to be had has used the first.         *)
LEMMA EndsAtFirst ==
  ASSUME QInv, Next, pc = "walk", pc' = "idle", NEW b \in Walk, FreeAndLarge(b)
  PROVE  slot'[dst].ptr # 0 /\ slot'[dst].ptr <= UserPtr(b)
<1>1. BInv /\ Ahead
  BY DEF QInv
<1>2. /\ TypeOK /\ heap_lo \in Nat /\ heap_hi \in Nat /\ heap_lo <= heap_hi /\ HeapBacked
      /\ cur \in heap_lo .. heap_hi /\ cur \in Nat
  BY <1>1, WalkOfTidy
<1>3. PICK F : WalkEqn(F) /\ Walk = F[heap_lo]
  BY <1>1, WalkOfTidy
<1>4. b \in F[cur]
  BY <1>1, <1>3 DEF Ahead
<1>5. b \in Nat /\ cur <= b /\ b < heap_hi
  BY <1>2, <1>3, <1>4, WalkGoesUp
<1>6. need \in Nat /\ need >= 4
  BY <1>1, NeedFacts DEF BInv
<1>7. InWalk
  <2> SUFFICES ASSUME mem[cur].sz = 0 PROVE FALSE
    BY <1>2, <1>5 DEF InWalk
  <2>1. F[cur] = {cur} \ {heap_hi}
    BY <1>2, <1>3, WalkUnfolds DEF WalkStops
  <2>2. b = cur
    BY <1>4, <2>1
  <2> QED BY <1>6, <2>2 DEF FreeAndLarge
<1>8. AllocSplit \/ AllocWhole
  BY <1>7 DEF Next, AllocStep, Malloc, WalkOn, AllocGrow, AllocFail, AtEnd, Free, ClientWrite
<1>9. slot' = [slot EXCEPT ![dst] = [ptr |-> cur + 1, len |-> len]]
  BY <1>8 DEF AllocSplit, AllocWhole, Return, UserPtr, HDR_SZ
<1>10. dst \in Slots /\ slot \in [Slots -> [ptr : Nat, len : Nat]]
  BY <1>1 DEF BInv, CallOK, TypeOK
<1>11. slot'[dst].ptr = cur + 1
  BY <1>9, <1>10
<1> QED BY <1>2, <1>5, <1>11 DEF UserPtr, HDR_SZ

(* malloc hands out the first block of the walk that is free and large       *)
(* enough, and asks the kernel for memory only when there is none: on a      *)
(* heap whose tags have been damaged, too, where several may fit.            *)
THEOREM TakesFirstFit ==
  ASSUME PlainClient
  PROVE  Spec => FirstFit
<1>1. QInv /\ [Next]_vars =>
        [pc = "walk" /\ pc' = "idle"
           => \A b \in Walk :
                ~mem[b].alloc /\ mem[b].sz >= need
                  => slot'[dst].ptr # 0 /\ slot'[dst].ptr <= UserPtr(b)]_vars
  BY EndsAtFirst DEF FreeAndLarge
<1>2. QInv /\ [Next]_vars => QInv'
  BY NextQInv
<1> QED BY <1>1, <1>2, InitQInv, PTL DEF Spec, FirstFit

-----------------------------------------------------------------------------
(* Each of the four faults really damages the tags.                          *)

(* No set of addresses is a well-formed heap.                                *)
Broken == \A S : ~WellFormed(S)

(* The inductive invariant of exactness.                                     *)
DInv == IInv /\ (faults # {} => Broken)

(* A block somebody holds and whose header is tagged free.                   *)
LEMMA LostHeader ==
  ASSUME NEW t \in Live', ~mem'[HdrOf(slot'[t].ptr)].alloc
  PROVE  Broken'
BY DEF Broken, WellFormed, LedgerAgrees

(* merge sets no FLAG_ALLOC.                                                 *)
LEMMA MergeClears ==
  ASSUME NEW m, OnAddr(m), NEW hi, NEW b, NEW a \in Addr, ~m[a].alloc
  PROVE  ~Merge(m, hi, b)[a].alloc
<1>1. ASSUME NEW k, NEW n, NEW y, NEW z
      PROVE  ~MarkPrevFree(PutBlock(m, k, n, FALSE, y), hi, z)[a].alloc
  <2> DEFINE m1 == PutBlock(m, k, n, FALSE, y)
  <2>1. OnAddr(m1) /\ ~m1[a].alloc
    BY DEF OnAddr, PutBlock, Tag
  <2> HIDE DEF m1
  <2>2. ~MarkPrevFree(m1, hi, z)[a].alloc
    BY <2>1 DEF OnAddr, MarkPrevFree, Tag
  <2> QED BY <2>2 DEF m1
<1> QED BY <1>1 DEF Merge

(* Following a PREV_FREE flag, merge tags the block in front of b free.      *)
LEMMA MergeBack ==
  ASSUME NEW m \in [Addr -> Word], NEW hi \in Nat, hi <= LIMIT, NEW b \in Addr,
         m[b].pfree, NEW k \in Nat, k > 0, m[b - 1].sz = k, b - k \in Addr
  PROVE  ~Merge(m, hi, b)[b - k].alloc
<1> DEFINE next    == b + m[b].sz
           next_sz == IF next < hi /\ ~m[next].alloc THEN m[next].sz ELSE 0
           total   == k + m[b].sz + next_sz
           m2      == PutBlock(m, b - k, total, FALSE, m[b - k].pfree)
<1>1. next \in Nat
  BY HeapAssumption DEF Addr, Word
<1>2. next_sz \in Nat
  <2>1. next < hi => next \in Addr
    BY <1>1, HeapAssumption DEF Addr
  <2> QED BY <2>1 DEF Word
<1>3. Merge(m, hi, b) = MarkPrevFree(m2, hi, b - k + total)
  <2>1. k + next_sz # 0
    BY <1>2
  <2> QED BY <2>1 DEF Merge
<1>4. OnAddr(m2) /\ ~m2[b - k].alloc
  <2> HIDE DEF total
  <2> QED BY DEF OnAddr, PutBlock, Tag
<1> HIDE DEF m2, total
<1>5. ~MarkPrevFree(m2, hi, b - k + total)[b - k].alloc
  BY <1>4 DEF OnAddr, MarkPrevFree, Tag
<1> QED BY <1>3, <1>5

(* The first two writes of brk_release.                                      *)
LEMMA ReleaseParts ==
  ASSUME NEW m \in [Addr -> Word], NEW hi \in Nat, hi <= LIMIT, NEW b \in Addr,
         NEW n \in Nat, n = m[b].sz, n >= 4, b + n <= hi
  PROVE  \E m2 \in [Addr -> Word] :
           /\ Release(m, hi, b) = Merge(m2, hi, b)
           /\ m2[b].pfree = m[b].pfree /\ m2[b].sz = n
           /\ b + n < hi => ~m2[b + n].alloc
           /\ \A a \in Addr : a < b => m2[a] = m[a]
<1> DEFINE u  == Tag(n, FALSE, m[b].pfree)
           v  == Tag(n, FALSE, FALSE)
           f  == Ftr(b, n)
           m1 == [m EXCEPT ![b] = u, ![f] = v]
           m2 == MarkPrevFree(m1, hi, b + n)
<1>1. b \in Nat /\ f = b + n - 1 /\ f \in Nat /\ f \in Addr /\ f # b
  BY HeapAssumption DEF Addr, Ftr, HDR_SZ
<1>2. u \in Word /\ v \in Word /\ u.pfree = m[b].pfree /\ u.sz = n
  BY DEF Tag, Word
<1>3. Release(m, hi, b) = Merge(m2, hi, b)
  BY Zenon DEF Release, PutBlock
<1> HIDE DEF u, v, f
<1>4. m1 \in [Addr -> Word]
  BY <1>2
<1>5. m1[b].pfree = m[b].pfree /\ m1[b].sz = n /\ \A a \in Addr : a # b /\ a # f => m1[a] = m[a]
  BY <1>1, <1>2
<1> HIDE DEF m1
<1>6. m2 \in [Addr -> Word]
  BY <1>1, <1>4, MarkPrevFreeType
<1>7. \A a \in Addr : a # b + n => m2[a] = m1[a]
  BY <1>4 DEF MarkPrevFree
<1>8. b + n < hi => ~m2[b + n].alloc
  <2>1. b + n < hi => b + n \in Addr
    BY <1>1, HeapAssumption DEF Addr
  <2> QED BY <1>4, <2>1 DEF MarkPrevFree, Tag
<1>9. b # b + n /\ \A a \in Addr : a < b => a # b /\ a # f /\ a # b + n
  BY <1>1, HeapAssumption, SMTT(30) DEF Addr
<1> HIDE DEF m2
<1>10. m2[b].pfree = m[b].pfree /\ m2[b].sz = n
  BY <1>5, <1>7, <1>9
<1>11. \A a \in Addr : a < b => m2[a] = m[a]
  BY <1>5, <1>7, <1>9
<1> QED BY <1>3, <1>6, <1>8, <1>10, <1>11

(* A free that is one of the faults strips a block the client still holds.   *)
LEMMA FreeBreaks ==
  ASSUME IInv, faults = {}, NEW s \in Slots, Free(s), faults' # {}
  PROVE  Broken'
<1> USE DEF IInv
<1>1. PICK b : b = HdrOf(slot[s].ptr)
  OBVIOUS
<1>2. /\ s \in Live /\ mem' = Release(mem, heap_hi, b)
      /\ slot' = [slot EXCEPT ![s] = NULL] /\ faults' = FreeFaults(b)
  BY <1>1 DEF Free
<1>3. PICK S \in SUBSET Addr : Sound(S)
  BY DEF Intact
<1>4. b \in S /\ mem[b].alloc
  BY <1>1, <1>2, <1>3, LiveFacts
<1>5. PICK n \in Nat : n = mem[b].sz
  BY <1>3, <1>4, BlockFacts
<1>6. /\ b \in Addr /\ b \in Nat /\ n >= 4 /\ b + n <= heap_hi /\ heap_hi \in Nat /\ heap_hi <= LIMIT
      /\ b + n \in S \cup {heap_hi} /\ mem \in [Addr -> Word]
  <2>1. mem \in [Addr -> Word]
    BY DEF TypeOK
  <2> QED BY <1>3, <1>4, <1>5, <2>1, BlockFacts
<1>7. PICK m2 \in [Addr -> Word] :
        /\ mem' = Merge(m2, heap_hi, b)
        /\ m2[b].pfree = mem[b].pfree
        /\ b + n < heap_hi => ~m2[b + n].alloc
        /\ \A a \in Addr : a < b => m2[a] = mem[a]
  BY <1>2, <1>5, <1>6, ReleaseParts
<1>8. ASSUME NEW c \in S, c # b, mem[c].alloc, ~mem'[c].alloc PROVE Broken'
  <2>1. PICK t \in Live : slot[t].ptr = UserPtr(c)
    BY <1>3, <1>8 DEF Sound, LedgerAgrees
  <2>2. c \in Nat /\ slot[t].ptr # 0 /\ HdrOf(slot[t].ptr) = c
    BY <1>3, <2>1, BlockFacts DEF UserPtr, HdrOf, HDR_SZ
  <2>3. t # s
    BY <1>1, <1>8, <2>2
  <2>4. slot'[t] = slot[t]
    BY <1>2, <2>1, <2>3 DEF TypeOK, Live
  <2>5. t \in Live'
    BY <2>1, <2>2, <2>4 DEF Live
  <2>6. ~mem'[HdrOf(slot'[t].ptr)].alloc
    BY <1>8, <2>2, <2>4
  <2> QED BY <2>5, <2>6, LostHeader
<1>9. CASE b + n < heap_hi /\ mem[b + n].alloc
  <2>1. b + n \in S /\ b + n # b /\ b + n \in Addr
    BY <1>6, <1>9
  <2>2. OnAddr(m2)
    BY DEF OnAddr
  <2>3. ~mem'[b + n].alloc
    BY <1>7, <1>9, <2>1, <2>2, MergeClears
  <2> QED BY <1>8, <1>9, <2>1, <2>3
<1>10. CASE mem[b].pfree /\ mem[b - HDR_SZ].alloc
  <2>1. heap_lo < b
    BY <1>3, <1>4, <1>10 DEF Sound, FlagsAreWrong
  <2>2. b # heap_lo /\ b \in S \cup {heap_hi}
    BY <1>4, <1>6, <2>1 DEF TypeOK
  <2>3. PICK c \in S : /\ c + mem[c].sz = b /\ c \in Nat /\ mem[c].sz \in Nat /\ b - HDR_SZ \in Addr
                        /\ mem[b - HDR_SZ].sz = mem[c].sz /\ mem[b - HDR_SZ].alloc = mem[c].alloc
    BY <1>3, <2>2, LastFooter
  <2>4. PICK k \in Nat : k = mem[c].sz /\ k >= 4 /\ c \in Addr
    BY <1>3, <2>3, BlockFacts
  <2>5. c = b - k /\ b - k \in Addr /\ b - 1 \in Addr /\ b - 1 < b /\ c # b
    BY <1>6, <2>3, <2>4 DEF HDR_SZ
  <2>6. m2[b - 1].sz = k
    BY <1>7, <2>3, <2>4, <2>5 DEF HDR_SZ
  <2>7. m2[b].pfree
    BY <1>7, <1>10
  <2>8. k > 0
    BY <2>4
  <2>9. ~Merge(m2, heap_hi, b)[b - k].alloc
    BY <1>6, <2>5, <2>6, <2>7, <2>8, MergeBack
  <2> QED BY <1>7, <1>8, <1>10, <2>3, <2>5, <2>9
<1>11. ~(b + n < heap_hi /\ ~mem[b + n].alloc /\ TaggedAlloc(b + n + mem[b + n].sz))
  <2> SUFFICES ASSUME b + n < heap_hi, ~mem[b + n].alloc PROVE ~TaggedAlloc(b + n + mem[b + n].sz)
    OBVIOUS
  <2>1. b + n \in S
    BY <1>6
  <2>2. b + n + mem[b + n].sz = heap_hi
    BY <1>3, <2>1 DEF Sound, OnlyLastFree
  <2> QED BY <1>6, <2>2 DEF TaggedAlloc
<1>12. FreeFaults(b) # {}
  BY <1>2
<1> QED BY <1>5, <1>9, <1>10, <1>11, <1>12 DEF FreeFaults, TaggedAlloc

(* The heap ends at b with a free block of k words at c; g words are added.  *)
OverFree(m, lo, b, g, k, c) ==
  /\ m \in [Addr -> Word] /\ lo \in Nat /\ b \in Nat /\ g \in Nat /\ k \in Nat /\ c \in Nat
  /\ c + k = b /\ k >= 4 /\ g >= 4 /\ b + g <= LIMIT /\ lo < b
  /\ m[b - HDR_SZ].sz = k /\ ~m[b - HDR_SZ].alloc

(* brk_grow, merging the new block with a free last one: the block that      *)
(* results starts below the pointer malloc returns.                          *)
LEMMA GrowOverFree ==
  ASSUME NEW m, NEW lo, NEW b, NEW g, NEW k, NEW c, OverFree(m, lo, b, g, k, c)
  PROVE  LET p == TakeWhole(Grown(m, lo, b, g), b + g, b)
         IN  p[c].sz = k + g /\ \A a \in Addr : a < c => p[a] = m[a]
<1> DEFINE p == TakeWhole(Grown(m, lo, b, g), b + g, b)
<1> SUFFICES p[c].sz = k + g /\ \A a \in Addr : a < c => p[a] = m[a]
  OBVIOUS
<1>0. /\ m \in [Addr -> Word] /\ lo \in Nat /\ b \in Nat /\ g \in Nat /\ k \in Nat /\ c \in Nat
      /\ c + k = b /\ k >= 4 /\ g >= 4 /\ b + g <= LIMIT /\ lo < b
      /\ m[b - HDR_SZ].sz = k /\ ~m[b - HDR_SZ].alloc
  BY DEF OverFree
<1> USE <1>0
<1> DEFINE top == b + g
           y1  == b > lo /\ ~m[b - HDR_SZ].alloc
           u1  == Tag(g, FALSE, y1)
           v1  == Tag(g, FALSE, FALSE)
           f   == Ftr(b, g)
           m1  == [m EXCEPT ![b] = u1, ![f] = v1]
           u2  == Tag(k + g, FALSE, m1[c].pfree)
           v2  == Tag(k + g, FALSE, FALSE)
           m2  == [m1 EXCEPT ![c] = u2, ![f] = v2]
<1>1. /\ b \in Addr /\ c \in Addr /\ c < b /\ f \in Nat /\ f = b + g - 1 /\ b < f /\ f < top
      /\ b - 1 \in Addr /\ b - 1 # b /\ b - 1 # f /\ f \in Addr /\ f # b /\ f # c /\ c # b
      /\ top \in Nat
  BY HeapAssumption DEF Addr, Ftr, HDR_SZ
<1>2. y1 = TRUE
  <2>1. b > lo
    OBVIOUS
  <2> QED BY <2>1, Zenon
<1>3. Grown(m, lo, b, g) = Merge(m1, top, b)
  BY Zenon DEF Grown, PutBlock
<1>4. u1.sz = g /\ u1.pfree = TRUE
  BY <1>2 DEF Tag
<1>5. u1 \in Word /\ v1 \in Word
  <2>1. TRUE \in BOOLEAN /\ FALSE \in BOOLEAN
    OBVIOUS
  <2> QED BY <1>2, <2>1 DEF Tag, Word
<1> HIDE DEF u1, v1, y1
<1>6. m1 \in [Addr -> Word]
  BY <1>5
<1>7. m1[b] = u1 /\ m1[b - 1] = m[b - 1] /\ \A a \in Addr : a < b => m1[a] = m[a]
  <2>1. \A a \in Addr : a < b => a # b /\ a # f
    BY <1>1, HeapAssumption DEF Addr
  <2> HIDE DEF f
  <2> QED BY <1>1, <2>1
<1> HIDE DEF m1
<1>8. Merge(m1, top, b) = m2
  <2>1. m1[b].pfree /\ m1[b].sz = g /\ m1[b - 1].sz = k
    BY <1>4, <1>7 DEF HDR_SZ
  <2>2. b + g = top /\ ~(top < top)
    BY <1>1
  <2>3. b - k = c /\ k + g + 0 = k + g /\ k + 0 # 0 /\ c + (k + g) = top /\ Ftr(c, k + g) = f
    BY <1>1 DEF Ftr, HDR_SZ
  <2>4. Merge(m1, top, b) = MarkPrevFree(PutBlock(m1, c, k + g, FALSE, m1[c].pfree), top, top)
    <3> DEFINE prev == IF m1[b].pfree THEN m1[b - 1].sz ELSE 0
               q    == IF b + m1[b].sz < top /\ ~m1[b + m1[b].sz].alloc THEN m1[b + m1[b].sz].sz ELSE 0
               size == prev + m1[b].sz + q
               from == b - prev
    <3> HIDE DEF top
    <3>1. prev = k /\ q = 0 /\ m1[b].sz = g
      BY <2>1, <2>2
    <3>2. Merge(m1, top, b) = IF prev + q = 0 THEN m1
                              ELSE MarkPrevFree(PutBlock(m1, from, size, FALSE, m1[from].pfree),
                                                top, from + size)
      BY DEF Merge
    <3> HIDE DEF prev, q
    <3>3. prev + q # 0 /\ size = k + g /\ from = c /\ from + size = top
      BY <2>3, <3>1
    <3> HIDE DEF size, from
    <3> QED BY <3>2, <3>3
  <2>5. Merge(m1, top, b) = PutBlock(m1, c, k + g, FALSE, m1[c].pfree)
    <3> HIDE DEF top
    <3> QED BY <2>2, <2>4 DEF MarkPrevFree
  <2> QED BY <2>3, <2>5, Zenon DEF PutBlock
<1>9. m1[c].pfree \in BOOLEAN
  BY <1>1, <1>6 DEF Word
<1>10. u2 \in Word /\ v2 \in Word /\ u2.sz = k + g
  BY <1>9 DEF Tag, Word
<1> HIDE DEF u2, v2
<1>11. m2 \in [Addr -> Word]
  BY <1>6, <1>10
<1>12. m2[c].sz = k + g /\ m2[b].sz = g /\ \A a \in Addr : a < c => m2[a] = m[a]
  <2>1. \A a \in Addr : a < c => a < b /\ a # c /\ a # f
    BY <1>1, HeapAssumption DEF Addr
  <2> HIDE DEF f
  <2>2. m2[c] = u2 /\ m2[b] = m1[b]
    BY <1>1, <1>6
  <2>3. \A a \in Addr : a < c => m2[a] = m1[a]
    BY <1>6, <2>1
  <2> QED BY <1>4, <1>7, <1>10, <2>1, <2>2, <2>3
<1> HIDE DEF m2
<1>13. p = ClearPrevFree(PutBlock(m2, b, g, TRUE, m2[b].pfree), top, top)
  BY <1>3, <1>8, <1>12 DEF TakeWhole
<1>14. p = PutBlock(m2, b, g, TRUE, m2[b].pfree)
  <2>1. ~(top < top)
    BY <1>1
  <2> QED BY <1>13, <2>1 DEF ClearPrevFree
<1>15. \A a \in Addr : a <= c => p[a] = m2[a]
  <2>1. \A a \in Addr : a <= c => a # b /\ a # f
    BY <1>1, HeapAssumption DEF Addr
  <2> HIDE DEF f
  <2> QED BY <1>11, <1>14, <2>1 DEF PutBlock, f
<1>16. c <= c /\ \A a \in Addr : a < c => a <= c
  BY HeapAssumption DEF Addr
<1> QED BY <1>1, <1>12, <1>15, <1>16

(* The pointer malloc returns is then no block of the walk.                  *)
LEMMA GrowBreaks ==
  ASSUME IInv, faults = {}, AllocGrow, faults' # {}
  PROVE  Broken'
<1> USE DEF IInv
<1>1. PICK b : b = heap_hi
  OBVIOUS
<1>2. pc = "walk" /\ faults' = GrowFaults /\ Return(UserPtr(b))
  BY <1>1 DEF AllocGrow, AtEnd
<1>3. PICK g \in Nat : g = AlignUp(need, PAGE) /\ g >= 4
  BY <1>2, NeedFacts, AlignUpPage
<1>4. /\ heap_hi' = b + g /\ b + g <= LIMIT /\ heap_lo' = heap_lo
      /\ mem' = TakeWhole(Grown(mem, heap_lo, b, g), b + g, b)
  BY <1>1, <1>3 DEF AllocGrow, SetBrk
<1>5. heap_lo < heap_hi /\ ~mem[b - HDR_SZ].alloc
  BY <1>1, <1>2 DEF GrowFaults
<1>6. PICK S \in SUBSET Addr : Sound(S)
  BY DEF Intact
<1>7. b \in Nat /\ heap_lo \in Nat /\ heap_lo < b /\ mem \in [Addr -> Word]
  BY <1>1, <1>5 DEF TypeOK
<1>8. PICK c \in S : /\ c + mem[c].sz = b /\ c \in Nat /\ mem[c].sz \in Nat
                     /\ mem[b - HDR_SZ].sz = mem[c].sz /\ mem[b - HDR_SZ].alloc = mem[c].alloc
  <2>1. b \in S \cup {heap_hi} /\ b # heap_lo
    BY <1>1, <1>7
  <2> QED BY <1>6, <2>1, LastFooter
<1>9. PICK k \in Nat : k = mem[c].sz /\ k >= 4
  BY <1>6, <1>8, BlockFacts
<1>10. mem'[c].sz = k + g /\ \A a \in Addr : a < c => mem'[a] = mem[a]
  <2>1. c + k = b /\ mem[b - HDR_SZ].sz = k
    BY <1>8, <1>9
  <2>2. c \in Nat /\ k >= 4 /\ g >= 4
    BY <1>3, <1>8, <1>9
  <2>3. OverFree(mem, heap_lo, b, g, k, c)
    BY <1>4, <1>5, <1>7, <2>1, <2>2 DEF OverFree
  <2> QED BY <1>4, <2>3, GrowOverFree
<1>11. \E t \in Live' : slot'[t].ptr = UserPtr(b)
  <2>1. dst \in Slots /\ slot \in [Slots -> [ptr : Nat, len : Nat]]
    BY <1>2 DEF CallOK, TypeOK
  <2>2. slot'[dst].ptr = UserPtr(b)
    BY <1>2, <2>1 DEF Return
  <2>3. UserPtr(b) # 0
    BY <1>7 DEF UserPtr, HDR_SZ
  <2> QED BY <2>1, <2>2, <2>3 DEF Live
<1>12. SUFFICES ASSUME NEW W, WellFormed(W)' PROVE FALSE
  BY DEF Broken
<1>13. b \in W
  <2>1. HdrOf(UserPtr(b)) = b
    BY <1>7 DEF HdrOf, UserPtr, HDR_SZ
  <2> QED BY <1>11, <1>12, <2>1 DEF WellFormed, LedgerAgrees
<1>14. c \in W
  <2> DEFINE T == {x \in S : x <= c /\ x \notin W}
  <2> SUFFICES ASSUME c \notin W PROVE FALSE
    OBVIOUS
  <2>1. T # {} /\ T \in SUBSET Nat
    <3>1. S \subseteq Nat
      BY HeapAssumption DEF Addr
    <3>2. c \in T
      BY <1>8
    <3> QED BY <3>1, <3>2
  <2>2. PICK x \in T : \A y \in T : x <= y
    <3> HIDE DEF T
    <3> QED BY <2>1, LeastNat
  <2>3. x \in S /\ x <= c /\ x \notin W /\ x \in Nat /\ c < b /\ b < b + g /\ x < b + g
    BY <1>3, <1>7, <1>8, <1>9, <2>1
  <2>4. x # heap_lo
    <3>1. heap_lo \in W \cup {b + g}
      BY <1>4, <1>12 DEF WellFormed, Tiles
    <3> QED BY <1>7, <2>3, <3>1
  <2>5. PICK y \in S : y + mem[y].sz = x
    BY <1>6, <2>3, <2>4 DEF Sound, Linked
  <2>6. y \in Nat /\ y \in Addr /\ y < x
    BY <1>6, <2>5, BlockFacts
  <2>7. y \in W
    BY <1>8, <2>2, <2>3, <2>6
  <2>8. mem'[y] = mem[y]
    BY <1>8, <1>10, <2>3, <2>6
  <2>9. y + mem'[y].sz \in W \cup {b + g}
    BY <1>4, <1>12, <2>7 DEF WellFormed, Tiles
  <2> QED BY <1>3, <1>7, <2>3, <2>5, <2>8, <2>9
<1>15. c + mem'[c].sz <= b
  <2>1. c < b
    BY <1>8, <1>9
  <2> QED BY <1>12, <1>13, <1>14, <2>1 DEF WellFormed, Tiles
<1> QED BY <1>3, <1>8, <1>9, <1>10, <1>15

(* A step that records a fault leaves damaged tags.                          *)
LEMMA FaultBreaks ==
  ASSUME IInv, faults = {}, Next, faults' # {}
  PROVE  Broken'
<1>1. CASE \E s \in Slots : Free(s)
  BY <1>1, FreeBreaks
<1>2. CASE AllocGrow
  BY <1>2, GrowBreaks
<1>3. CASE AllocSplit
  <2>1. PICK S \in SUBSET Addr : Sound(S) /\ (pc = "walk" => cur \in S \cup {heap_hi})
    BY DEF IInv, Intact
  <2>2. pc = "walk" /\ cur < heap_hi /\ ~mem[cur].alloc /\ faults' = SplitFaults(cur)
    BY <1>3 DEF AllocSplit, AtBlock, InWalk, Fits
  <2>3. heap_hi \in Nat
    BY DEF IInv, TypeOK
  <2>4. cur \in S
    BY <2>1, <2>2, <2>3
  <2>5. cur + mem[cur].sz = heap_hi
    BY <2>1, <2>2, <2>4 DEF Sound, OnlyLastFree
  <2>6. SplitFaults(cur) = {}
    BY <2>3, <2>5 DEF SplitFaults, TaggedAlloc
  <2> QED BY <2>2, <2>6
<1> QED BY <1>1, <1>2, <1>3 DEF Next, AllocStep, Malloc, WalkOn, AllocWhole, AllocFail, ClientWrite

(* WellFormed depends on the tags, the bounds and the pointers only.         *)
LEMMA BrokenUnchanged ==
  ASSUME Broken, UNCHANGED vars
  PROVE  Broken'
<1>1. UNCHANGED <<mem, heap_lo, heap_hi, slot>>
  BY DEF vars, heapvars
<1> SUFFICES ASSUME NEW S, WellFormed(S)' PROVE FALSE
  BY DEF Broken
<1>2. WellFormed(S)
  BY <1>1 DEF WellFormed, Tiles, TagsAgree, LedgerAgrees, Live
<1> QED BY <1>2 DEF Broken

(* The four faults are exactly the ways in which the code damages the tags:  *)
(* while none has happened the blocks of the walk are well-formed, and each  *)
(* of them leaves tags that are not.                                         *)
THEOREM FaultsAreExact == IntactSpec => []DamagedExactlyByFaults
<1>1. DInv /\ [NextWhileIntact]_vars => DInv'
  <2> SUFFICES ASSUME DInv, [NextWhileIntact]_vars PROVE DInv'
    OBVIOUS
  <2>1. IInv'
    BY NextIInv, StutterStep DEF DInv
  <2>2. CASE NextWhileIntact
    BY <2>1, <2>2, FaultBreaks DEF DInv, NextWhileIntact
  <2>3. CASE UNCHANGED vars
    <3>1. faults' = faults
      BY <2>3 DEF vars
    <3> QED BY <2>1, <2>3, <3>1, BrokenUnchanged DEF DInv
  <2> QED BY <2>2, <2>3
<1>2. Init => DInv
  BY InitIInv DEF Init, DInv
<1>3. DInv => DamagedExactlyByFaults
  <2>1. ASSUME DInv, faults = {} PROVE WellFormed(Walk)
    BY <2>1, SoundWalk DEF DInv, Sound, WellFormed
  <2>2. ASSUME DInv, faults # {} PROVE ~WellFormed(Walk)
    BY <2>2 DEF DInv, Broken
  <2> QED BY <2>1, <2>2 DEF DamagedExactlyByFaults
<1> QED BY <1>1, <1>2, <1>3, PTL DEF IntactSpec

-----------------------------------------------------------------------------
(* The brk tier of module Malloc.                                            *)

(* NULL and -errno are no headers: what Malloc assumes of its sites.         *)
ApiConstants == NoAddr \notin Headers /\ NoSlot \notin Headers /\ NoAddr # NoSlot

(* The refinement mapping of Tier: the headers of Malloc.                    *)
HdrBar == [a \in Headers |->
             IF faults = {} /\ \E s \in Live : HdrOf(slot[s].ptr) = a
             THEN 2 * mem[a].sz ELSE 0]

(* The refinement mapping of Tier: the variables of its client.              *)
SlotBar == [s \in Slots |-> [at   |-> IF s \in Live THEN HdrOf(slot[s].ptr) ELSE NoAddr,
                             len  |-> 2 * slot[s].len,
                             kept |-> 0]]

(* An unsigned long that does not wrap round.                                *)
LEMMA Unwrapped ==
  ASSUME NEW x \in Nat, NEW w \in Nat, x < w
  PROVE  x % w = x
OBVIOUS

(* Rounding half words to twice the unit is rounding words to the unit.      *)
LEMMA TwiceAlign ==
  ASSUME NEW n \in Nat, NEW a \in Nat, a > 0
  PROVE  ((2 * n + 2 * a - 1) \div (2 * a)) * (2 * a) = 2 * (((n + a - 1) \div a) * a)
<1> DEFINE x == n + a - 1
           q == x \div a
           y == 2 * n + 2 * a - 1
           r == y \div (2 * a)
<1>1. x \in Nat /\ y \in Nat /\ y = 2 * x + 1
  OBVIOUS
<1>2. q \in Nat /\ q * a <= x /\ x < q * a + a
  BY <1>1
<1>3. r \in Nat /\ r * (2 * a) <= y /\ y < r * (2 * a) + 2 * a
  BY <1>1
<1> HIDE DEF x, q, y, r
<1>4. r * (2 * a) = 2 * (r * a)
  BY <1>3
<1>5. q * a \in Nat /\ r * a \in Nat
  BY <1>2, <1>3
<1>6. q * a < r * a + a /\ r * a < q * a + a
  BY <1>1, <1>2, <1>3, <1>4, <1>5
<1>7. q * a + a = (q + 1) * a /\ r * a + a = (r + 1) * a
  BY <1>2, <1>3
<1>8. q < r + 1 /\ r < q + 1
  <2>1. \A u, v \in Nat : u * a < v * a => u < v
    OBVIOUS
  <2> QED BY <1>2, <1>3, <1>6, <1>7, <2>1
<1>9. q = r
  BY <1>2, <1>3, <1>8
<1> QED BY <1>4, <1>9 DEF q, r, x, y

(* brk_alloc's rounding, in half words.                                      *)
LEMMA TierNeed ==
  ASSUME NEW n \in Nat, n > 0, n < LIMIT
  PROVE  Api!OVERHEAD + Api!AlignUp(2 * n, Api!ALIGN) = 2 * (OVERHEAD + AlignUp(n, ALIGN))
<1>1. LIMIT \in Nat /\ 2 * n + 4 - 1 \in Nat /\ 16 * LIMIT \in Nat /\ 2 * n + 4 - 1 < 16 * LIMIT
  BY HeapAssumption
<1>2. (2 * n + 4 - 1) % (16 * LIMIT) = 2 * n + 4 - 1
  BY <1>1, Unwrapped
<1>3. ((2 * n + 4 - 1) \div 4) * 4 = 2 * (((n + 2 - 1) \div 2) * 2)
  OBVIOUS
<1>4. Api!AlignUp(2 * n, Api!ALIGN) = 2 * AlignUp(n, ALIGN)
  BY <1>2, <1>3 DEF Api!AlignUp, Api!ALIGN, AlignUp, ALIGN
<1>5. AlignUp(n, ALIGN) \in Nat
  BY AlignUpTwo
<1> QED BY <1>4, <1>5 DEF Api!OVERHEAD, OVERHEAD

(* brk_grow's rounding, in half words.                                       *)
LEMMA TierPage ==
  ASSUME NEW n \in Nat, n > 0, AlignUp(n, PAGE) <= LIMIT
  PROVE  Api!AlignUp(2 * n, 2 * PAGE) = 2 * AlignUp(n, PAGE)
<1>1. PAGE \in Nat /\ PAGE > 0 /\ LIMIT \in Nat
  BY HeapAssumption
<1>2. AlignUp(n, PAGE) \in Nat /\ AlignUp(n, PAGE) >= n
  BY <1>1, AlignUpFacts
<1>3. PICK q \in Nat : AlignUp(n, PAGE) = q * PAGE
  BY <1>1, AlignUpFacts
<1>4. PAGE <= LIMIT
  <2>1. q # 0
    <3>1. q = 0 => q * PAGE = 0
      BY <1>1
    <3>2. AlignUp(n, PAGE) # 0
      BY <1>2
    <3> QED BY <1>3, <3>1, <3>2
  <2>2. q * PAGE >= PAGE
    BY <1>1, <2>1
  <2> QED BY <1>1, <1>2, <1>3, <2>2
<1>5. 2 * n + 2 * PAGE - 1 \in Nat /\ 16 * LIMIT \in Nat /\ 2 * n + 2 * PAGE - 1 < 16 * LIMIT
  BY <1>1, <1>2, <1>4
<1>6. (2 * n + 2 * PAGE - 1) % (16 * LIMIT) = 2 * n + 2 * PAGE - 1
  BY <1>5, Unwrapped
<1> QED BY <1>1, <1>6, TwiceAlign DEF Api!AlignUp, AlignUp

-----------------------------------------------------------------------------
(* A step that moves no pointer, damages no tag and, as long as none is      *)
(* damaged, rewrites no header of a live block is invisible to Malloc.       *)
LEMMA TierStutter ==
  ASSUME slot' = slot, faults' = faults,
         faults = {} =>
           \A s \in Live : mem'[HdrOf(slot[s].ptr)].sz = mem[HdrOf(slot[s].ptr)].sz
  PROVE  UNCHANGED Api!vars
<1>1. Live' = Live
  BY DEF Live
<1>2. HdrBar' = HdrBar
  <2>1. ASSUME NEW a \in Headers
        PROVE  faults = {} /\ (\E s \in Live : HdrOf(slot[s].ptr) = a) => mem'[a].sz = mem[a].sz
    OBVIOUS
  <2>2. ASSUME NEW a \in Headers PROVE HdrBar'[a] = HdrBar[a]
    BY <1>1, <2>1 DEF HdrBar
  <2>3. HdrBar = [a \in Headers |-> HdrBar[a]] /\ HdrBar' = [a \in Headers |-> HdrBar'[a]]
    BY DEF HdrBar
  <2> QED BY <2>2, <2>3
<1>3. SlotBar' = SlotBar
  BY <1>1 DEF SlotBar
<1>4. (faults = {})' = (faults = {})
  OBVIOUS
<1> QED BY <1>2, <1>3, <1>4 DEF Api!vars, HdrBar, SlotBar

(* A step leaves the tags as sound or damaged as they were, or damages them. *)
LEMMA TierDamage ==
  ASSUME faults' = {} => faults = {}
  PROVE  /\ (faults = {})' \in {faults = {}, FALSE}
         /\ ~(faults = {} /\ faults' # {}) => (faults = {})' \in {faults = {}}
<1>1. PICK i \in BOOLEAN, j \in BOOLEAN : i = (faults = {}) /\ j = (faults' = {})
  OBVIOUS
<1>2. j \in {i, FALSE}
  BY <1>1
<1>3. ~(faults = {} /\ faults' # {}) => j \in {i}
  BY <1>1
<1> QED BY <1>1, <1>2, <1>3, Zenon

(* malloc's answer, a block at b, is an outcome that Malloc's brk tier has.  *)
LEMMA TierGrant ==
  ASSUME TypeOK, CallOK, ApiConstants, pc = "walk", len < LIMIT, NEW b \in Headers,
         Return(UserPtr(b)), NEW t,
         faults' = {} => faults = {},
         faults = {} => t \in Api!BrkTotals(2 * len) /\ \A s \in Live : HdrOf(slot[s].ptr) # b,
         faults # {} => t = 0,
         faults = {} /\ faults' # {} => t = Api!GrownTotal(2 * len),
         faults' = {} =>
           /\ t = 2 * mem'[b].sz
           /\ \A s \in Live : mem'[HdrOf(slot[s].ptr)].sz = mem[HdrOf(slot[s].ptr)].sz
  PROVE  Api!Next
<1> DEFINE o == [at |-> b, total |-> t]
<1>1. b \in Nat
  BY HeapAssumption DEF Headers, Addr
<1>2. len \in Nat /\ len > 0 /\ dst \in Slots /\ dst \notin Live /\ LIMIT \in Nat
  BY NeedFacts, HeapAssumption
<1>3. slot \in [Slots -> [ptr : Nat, len : Nat]]
  BY DEF TypeOK
<1>4. slot' = [slot EXCEPT ![dst] = [ptr |-> b + 1, len |-> len]]
  BY DEF Return, UserPtr, HDR_SZ
<1>5. /\ slot'[dst].ptr = b + 1 /\ slot'[dst].len = len
      /\ \A s \in Slots : s # dst => slot'[s] = slot[s]
      /\ Live' = Live \cup {dst}
  BY <1>1, <1>2, <1>3, <1>4 DEF Live
<1>6. HdrOf(slot'[dst].ptr) = b
  BY <1>1, <1>5 DEF HdrOf, HDR_SZ
<1>7. faults = {} => HdrBar[b] = 0
  BY DEF HdrBar
<1>8. PICK h : h = [HdrBar EXCEPT ![b] = t]
  OBVIOUS
<1>9. HdrBar' = [a \in Headers |-> IF faults' # {} THEN 0 ELSE h[a]]
  <2>1. HdrBar = [a \in Headers |-> HdrBar[a]] /\ HdrBar' = [a \in Headers |-> HdrBar'[a]]
    BY DEF HdrBar
  <2>2. ASSUME NEW a \in Headers, faults' # {} PROVE HdrBar'[a] = 0
    BY <2>2 DEF HdrBar
  <2>3. ASSUME NEW a \in Headers, faults' = {}, a # b PROVE HdrBar'[a] = HdrBar[a]
    <3>1. (\E s \in Live' : HdrOf(slot'[s].ptr) = a) <=> (\E s \in Live : HdrOf(slot[s].ptr) = a)
      BY <1>2, <1>5, <1>6, <2>3 DEF Live
    <3>2. (\E s \in Live : HdrOf(slot[s].ptr) = a) => mem'[a].sz = mem[a].sz
      BY <2>3
    <3> QED BY <2>3, <3>1, <3>2 DEF HdrBar
  <2>4. ASSUME faults' = {} PROVE HdrBar'[b] = t
    BY <1>5, <1>6, <2>4 DEF HdrBar
  <2>5. h[b] = t /\ \A a \in Headers : a # b => h[a] = HdrBar[a]
    BY <1>8, <2>1
  <2> QED BY <2>1, <2>2, <2>3, <2>4, <2>5
<1>10. SlotBar' = [SlotBar EXCEPT ![dst] = [at |-> b, len |-> 2 * len, kept |-> 0]]
  <2>1. ASSUME NEW s \in Slots, s # dst PROVE SlotBar'[s] = SlotBar[s]
    BY <1>5, <2>1 DEF SlotBar
  <2>2. SlotBar'[dst] = [at |-> b, len |-> 2 * len, kept |-> 0]
    BY <1>2, <1>5, <1>6 DEF SlotBar
  <2>3. SlotBar = [s \in Slots |-> SlotBar[s]] /\ SlotBar' = [s \in Slots |-> SlotBar'[s]]
    BY DEF SlotBar
  <2> QED BY <2>1, <2>2, <2>3
<1>11. SlotBar[dst].at = NoAddr
  BY <1>2 DEF SlotBar
<1>12. o \in Api!Outcomes(2 * len)
  <2>1. 2 * len # 0 /\ ~(2 * len >= 4 * LIMIT)
    BY <1>2
  <2>2. PICK n : n = 2 * len
    OBVIOUS
  <2>3. n # 0 /\ ~(n >= 4 * LIMIT)
    BY <2>1, <2>2
  <2>4. o \in Api!BrkOutcomes(n)
    <3> DEFINE Y == {x \in Headers : [a \in Headers |->
                                       IF faults = {} /\ \E s \in Live : HdrOf(slot[s].ptr) = a
                                       THEN 2 * mem[a].sz ELSE 0][x] = 0}
               Sound1 == {[at |-> x, total |-> z] : x \in Y, z \in Api!BrkTotals(n)}
               Damaged == {[at |-> x, total |-> 0] : x \in Headers}
    <3>1. Api!BrkOutcomes(n) = {[at |-> NoAddr, total |-> 0]} \cup
                                 IF faults = {} THEN Sound1 ELSE Damaged
      BY DEF Api!BrkOutcomes
    <3>2. CASE faults = {}
      <4>1. b \in Y
        BY <1>7, <3>2 DEF HdrBar
      <4>2. t \in Api!BrkTotals(n)
        BY <2>2, <3>2
      <4> HIDE DEF Y
      <4> QED BY <3>1, <3>2, <4>1, <4>2
    <3>3. CASE faults # {}
      <4>1. o \in Damaged
        BY <3>3
      <4> HIDE DEF Damaged, Sound1, o
      <4> QED BY <3>1, <3>3, <4>1
    <3> QED BY <3>2, <3>3
  <2>5. Api!Outcomes(n) = Api!BrkOutcomes(n)
    BY <2>3 DEF Api!Outcomes
  <2> HIDE DEF o
  <2> QED BY <2>2, <2>4, <2>5
<1>13. o.at = b /\ o.total = t /\ b # NoSlot /\ b # NoAddr /\ b \in Headers \cup {}
  BY DEF ApiConstants
<1> HIDE DEF o
<1>14. Api!Placed(o) = h
  BY <1>8, <1>13 DEF Api!Placed, Api!Sites, HdrBar
<1>15. Api!Granted(o) = [m \in {} |-> 0]
  BY <1>13 DEF Api!Granted
<1>16. PICK d \in Slots, n \in {2 * m : m \in Sizes} : d = dst /\ n = 2 * len
  BY DEF CallOK
<1>17. o \in Api!Outcomes(n) /\ d \notin Api!Live
  BY <1>11, <1>12, <1>16 DEF Api!Live, SlotBar
<1>18. Api!Assign(d, o, n, 0)
  <2>1. SlotBar' = [SlotBar EXCEPT ![d] = [at |-> b, len |-> n, kept |-> 0]]
    BY <1>10, <1>16
  <2> QED BY <2>1, <1>13 DEF Api!Assign, SlotBar
<1>19. faults = {} /\ faults' # {} => Api!Grows(n, o)
  BY <1>13, <1>16 DEF Api!Grows
<1>20. (faults = {})' \in IF Api!Grows(n, o) THEN {faults = {}, FALSE} ELSE {faults = {}}
  BY <1>19, TierDamage, Zenon
<1>21. Api!SetHeaders(Api!Placed(o), Api!Grows(n, o))
  <2>1. HdrBar' = [a \in Headers \cup {} |->
                    IF a \in Headers /\ ~(faults = {})' THEN 0 ELSE Api!Placed(o)[a]]
    BY <1>9, <1>14
  <2> QED BY <1>20, <2>1, Zenon DEF Api!SetHeaders, Api!Sites, HdrBar
<1>22. Api!Answer(d, n, o, n, 0)
  <2>1. o.at # NoSlot
    BY <1>13
  <2>2. [m \in {} |-> 0]' = Api!Granted(o)
    BY <1>15
  <2> QED BY <1>18, <1>21, <2>1, <2>2, Zenon DEF Api!Answer
<1>23. Api!Malloc(d, n)
  BY <1>17, <1>22 DEF Api!Malloc
<1> QED BY <1>16, <1>23 DEF Api!Next

(* The sizes of block that Malloc's brk tier may answer with.               *)
LEMMA TierTotals ==
  ASSUME TypeOK, CallOK, pc = "walk", need <= LIMIT
  PROVE  /\ len < LIMIT
         /\ 2 * need \in Api!BrkTotals(2 * len) /\ 2 * (need + 2) \in Api!BrkTotals(2 * len)
         /\ AlignUp(need, PAGE) <= LIMIT =>
              /\ Api!GrownTotal(2 * len) = 2 * AlignUp(need, PAGE)
              /\ 2 * AlignUp(need, PAGE) \in Api!BrkTotals(2 * len)
<1>1. /\ len \in Nat /\ len > 0 /\ need \in Nat /\ need >= len + 2 /\ LIMIT \in Nat
      /\ need = OVERHEAD + AlignUp(len, ALIGN)
  BY NeedFacts, HeapAssumption DEF OVERHEAD, CallOK
<1>2. len < LIMIT
  BY <1>1
<1>3. Api!OVERHEAD + Api!AlignUp(2 * len, Api!ALIGN) = 2 * need
  BY <1>1, <1>2, TierNeed
<1>4. PICK x : x = 2 * need
  OBVIOUS
<1>5. Api!GrownTotal(2 * len) = Api!AlignUp(x, 2 * PAGE)
  BY <1>3, <1>4, Zenon DEF Api!GrownTotal
<1>6. Api!BrkTotals(2 * len) = {x, x + Api!ALIGN, Api!GrownTotal(2 * len)}
  BY <1>3, <1>4, Zenon DEF Api!BrkTotals
<1>7. x + Api!ALIGN = 2 * (need + 2)
  BY <1>1, <1>4 DEF Api!ALIGN
<1>8. AlignUp(need, PAGE) <= LIMIT => Api!AlignUp(x, 2 * PAGE) = 2 * AlignUp(need, PAGE)
  BY <1>1, <1>4, TierPage
<1> QED BY <1>2, <1>4, <1>5, <1>6, <1>7, <1>8

(* The search ends at a free block, the last one: the others stay.           *)
LEMMA TierAlloc ==
  ASSUME IInv, ApiConstants, faults = {}, AllocSplit \/ AllocWhole
  PROVE  Api!Next
<1> USE DEF IInv
<1>1. /\ pc = "walk" /\ cur < heap_hi /\ ~mem[cur].alloc /\ mem[cur].sz >= need
      /\ Return(UserPtr(cur))
  BY DEF AllocSplit, AllocWhole, AtBlock, InWalk, Fits
<1>2. PICK S \in SUBSET Addr : Sound(S) /\ cur \in S \cup {heap_hi}
  BY <1>1 DEF Intact
<1>3. PICK b \in S : b = cur
  BY <1>1, <1>2 DEF TypeOK
<1>4. PICK n \in Nat, k \in Nat : n = need /\ k = mem[b].sz /\ n >= 4 /\ k >= n /\ n % 2 = 0
  BY <1>1, <1>2, <1>3, BlockFacts, NeedFacts
<1>5. /\ b \in Nat /\ b \in Addr /\ b % 2 = 0 /\ k % 2 = 0 /\ b + k = heap_hi /\ heap_hi <= LIMIT
      /\ heap_hi \in Nat
  <2>1. b + k = heap_hi
    BY <1>1, <1>2, <1>3, <1>4 DEF Sound, OnlyLastFree
  <2> QED BY <2>1, <1>2, <1>4, BlockFacts
<1>6. b \in Headers /\ need <= LIMIT
  BY <1>4, <1>5, HeapAssumption DEF Headers, ALIGN
<1>7. mem'[b].sz \in {need, need + 2} /\ \A a \in Addr : a < b => mem'[a] = mem[a]
  <2>1. CASE AllocSplit
    <3>1. mem' = MarkPrevFree(PutBlock(PutBlock(mem, b, n, TRUE, mem[b].pfree),
                                       b + n, k - n, FALSE, TRUE), heap_hi, b + n + (k - n))
      BY <1>3, <1>4, <2>1 DEF AllocSplit, Split
    <3>2. PICK u, v, w, x : /\ u = Tag(n, TRUE, mem[b].pfree) /\ v = Tag(n, TRUE, FALSE)
                            /\ w = Tag(k - n, FALSE, TRUE) /\ x = Tag(k - n, FALSE, FALSE)
      OBVIOUS
    <3>3. PICK f, g : f = Ftr(b, n) /\ g = Ftr(b + n, k - n)
      OBVIOUS
    <3>4. PICK m1 : m1 = [mem EXCEPT ![b] = u, ![f] = v]
      OBVIOUS
    <3>5. PICK m2 : m2 = [m1 EXCEPT ![b + n] = w, ![g] = x]
      OBVIOUS
    <3>6. mem' = MarkPrevFree(m2, heap_hi, b + n + (k - n))
      BY <3>1, <3>2, <3>3, <3>4, <3>5, Zenon DEF PutBlock
    <3>7. mem' = m2
      <4>1. ~(b + n + (k - n) < heap_hi)
        BY <1>4, <1>5
      <4> QED BY <3>6, <4>1, Zenon DEF MarkPrevFree
    <3>8. /\ f = b + n - 1 /\ g = b + k - 1 /\ b # f /\ b # b + n /\ b # g
      BY <3>3, <1>4, <1>5 DEF Ftr, HDR_SZ
    <3>9. u.sz = n
      BY <3>2 DEF Tag
    <3>10. mem \in [Addr -> Word]
      BY DEF TypeOK
    <3>11. m1 = [a \in Addr |-> m1[a]] /\ m1[b] = u
           /\ \A a \in Addr : a # b /\ a # f => m1[a] = mem[a]
      BY <3>4, <3>8, <3>10, <1>5
    <3>12. m2[b] = u /\ \A a \in Addr : a # b /\ a # f /\ a # b + n /\ a # g => m2[a] = mem[a]
      BY <3>5, <3>8, <3>11, <1>5
    <3>13. \A a \in Addr : a < b => a # b /\ a # f /\ a # b + n /\ a # g
      BY <3>8, <1>4, <1>5, HeapAssumption DEF Addr
    <3> QED BY <3>7, <3>9, <3>12, <3>13, <1>4
  <2>2. CASE AllocWhole
    <3>1. ~(k - n >= 4)
      BY <1>3, <1>4, <2>2 DEF AllocWhole, Splits, OVERHEAD, ALIGN
    <3>2. k = need \/ k = need + 2
      BY <3>1, <1>4, <1>5
    <3>3. mem' = ClearPrevFree(PutBlock(mem, b, k, TRUE, mem[b].pfree), heap_hi, b + k)
      BY <1>3, <1>4, <2>2 DEF AllocWhole, TakeWhole
    <3>4. PICK u, v, f : u = Tag(k, TRUE, mem[b].pfree) /\ v = Tag(k, TRUE, FALSE) /\ f = Ftr(b, k)
      OBVIOUS
    <3>5. PICK m1 : m1 = [mem EXCEPT ![b] = u, ![f] = v]
      OBVIOUS
    <3>6. mem' = ClearPrevFree(m1, heap_hi, b + k)
      BY <3>3, <3>4, <3>5, Zenon DEF PutBlock
    <3>7. mem' = m1
      <4>1. ~(b + k < heap_hi)
        BY <1>4, <1>5
      <4> QED BY <3>6, <4>1, Zenon DEF ClearPrevFree
    <3>8. f = b + k - 1 /\ b # f
      BY <3>4, <1>4, <1>5 DEF Ftr, HDR_SZ
    <3>9. u.sz = k
      BY <3>4 DEF Tag
    <3>10. m1[b] = u /\ \A a \in Addr : a < b => m1[a] = mem[a]
      <4>1. m1[b] = u /\ \A a \in Addr : a # b /\ a # f => m1[a] = mem[a]
        BY <3>5, <3>8, <1>5 DEF TypeOK
      <4>2. \A a \in Addr : a < b => a # b /\ a # f
        BY <3>8, <1>4, <1>5, HeapAssumption DEF Addr
      <4> QED BY <4>1, <4>2
    <3> QED BY <3>2, <3>7, <3>9, <3>10
  <2> QED BY <2>1, <2>2
<1>8. ASSUME NEW s \in Live
      PROVE  HdrOf(slot[s].ptr) # b /\ mem'[HdrOf(slot[s].ptr)].sz = mem[HdrOf(slot[s].ptr)].sz
  <2>1. PICK c \in S : c = HdrOf(slot[s].ptr) /\ mem[c].alloc
    BY <1>2, LiveFacts
  <2>2. c # b
    BY <2>1, <1>1, <1>3
  <2>3. c < b /\ c \in Addr
    BY <2>2, <1>2, <1>4, <1>5, FreeBlockIsLast
  <2> QED BY <2>1, <2>2, <2>3, <1>7
<1>9. len < LIMIT /\ 2 * mem'[b].sz \in Api!BrkTotals(2 * len)
  BY <1>1, <1>6, <1>7, TierTotals
<1>10. Return(UserPtr(b))
  BY <1>1, <1>3
<1>11. faults' = {}
  BY SplitHarmless DEF AllocWhole
<1>12. PICK t : t = 2 * mem'[b].sz
  OBVIOUS
<1> QED BY <1>1, <1>6, <1>8, <1>9, <1>10, <1>11, <1>12, TierGrant

(* Growth with no free block to merge with writes nothing below the old      *)
(* break, where it puts the new block.                                       *)
LEMMA GrowsAbove ==
  ASSUME IInv, AllocGrow, faults' = {}, NEW b, b = heap_hi
  PROVE  /\ mem'[b].sz = AlignUp(need, PAGE)
         /\ \A a \in Addr : a < b => mem'[a] = mem[a]
<1> USE DEF IInv
<1>1. pc = "walk" /\ GrowFaults = {}
  BY DEF AllocGrow, AtEnd
<1>2. PICK g \in Nat : g = AlignUp(need, PAGE) /\ g >= 4 /\ g >= need
  BY <1>1, NeedFacts, AlignUpPage
<1>3. b + g <= LIMIT /\ mem' = TakeWhole(Grown(mem, heap_lo, b, g), b + g, b)
  BY <1>2 DEF AllocGrow, SetBrk
<1>4. b \in Nat /\ b \in Addr
  <2>1. b \in Nat
    BY DEF TypeOK
  <2> QED BY <2>1, <1>2, <1>3, HeapAssumption DEF Addr
<1>5. PICK pf \in BOOLEAN : ~pf /\ pf = (b > heap_lo /\ ~mem[b - HDR_SZ].alloc)
  <2>1. b > heap_lo <=> heap_lo < b
    BY <1>4 DEF TypeOK
  <2>2. ~(heap_lo < b /\ ~mem[b - HDR_SZ].alloc)
    BY <1>1 DEF GrowFaults
  <2> QED BY <2>1, <2>2
<1>6. PICK u, v, w, x, f : /\ u = Tag(g, FALSE, pf) /\ v = Tag(g, FALSE, FALSE)
                           /\ w = Tag(g, TRUE, pf) /\ x = Tag(g, TRUE, FALSE) /\ f = Ftr(b, g)
  OBVIOUS
<1>7. u.sz = g /\ u.pfree = pf /\ w.sz = g
  BY <1>6, Zenon DEF Tag
<1>8. PICK m1 : m1 = [mem EXCEPT ![b] = u, ![f] = v]
  OBVIOUS
<1>9. f = b + g - 1 /\ b # f /\ ~(b + g < b + g)
  BY <1>2, <1>4, <1>6 DEF Ftr, HDR_SZ
<1>10. /\ m1 = [a \in Addr |-> m1[a]] /\ m1[b] = u
       /\ \A a \in Addr : a # b /\ a # f => m1[a] = mem[a]
  BY <1>4, <1>8, <1>9 DEF TypeOK
<1>11. Grown(mem, heap_lo, b, g) = m1
  <2>1. Grown(mem, heap_lo, b, g) = Merge(m1, b + g, b)
    BY <1>5, <1>6, <1>8, Zenon DEF Grown, PutBlock
  <2>2. ~m1[b].pfree /\ m1[b].sz = g
    BY <1>5, <1>7, <1>10, Zenon
  <2> QED BY <2>1, <2>2, <1>9, MergeNothing, Zenon
<1>12. PICK m2 : m2 = [m1 EXCEPT ![b] = w, ![f] = x]
  OBVIOUS
<1>13. mem' = m2
  <2>1. m1[b].pfree = pf /\ m1[b].sz = g
    BY <1>7, <1>10, Zenon
  <2>2. mem' = ClearPrevFree(m2, b + g, b + g)
    BY <2>1, <1>3, <1>6, <1>11, <1>12, Zenon DEF TakeWhole, PutBlock
  <2> QED BY <2>2, <1>9, Zenon DEF ClearPrevFree
<1>14. mem'[b].sz = g /\ \A a \in Addr : a < b => mem'[a] = mem[a]
  <2>1. m2[b] = w /\ \A a \in Addr : a # b /\ a # f => m2[a] = mem[a]
    BY <1>4, <1>9, <1>10, <1>12
  <2>2. \A a \in Addr : a < b => a # b /\ a # f
    BY <1>2, <1>4, <1>9, HeapAssumption DEF Addr
  <2> QED BY <2>1, <2>2, <1>7, <1>13
<1> QED BY <1>2, <1>14

(* Growth answers with a block at the old break, whether or not it damages   *)
(* the tags by merging that with a free block.                               *)
LEMMA TierGrow ==
  ASSUME IInv, ApiConstants, faults = {}, AllocGrow
  PROVE  Api!Next
<1> USE DEF IInv
<1>1. pc = "walk" /\ Return(UserPtr(heap_hi))
  BY DEF AllocGrow, AtEnd
<1>2. PICK b, g : b = heap_hi /\ g = AlignUp(need, PAGE)
  OBVIOUS
<1>3. g \in Nat /\ g >= 4 /\ g >= need /\ b + g <= LIMIT
  <2>1. AlignUp(need, PAGE) \in Nat /\ AlignUp(need, PAGE) >= 4 /\ AlignUp(need, PAGE) >= need
    BY <1>1, NeedFacts, AlignUpPage
  <2> QED BY <2>1, <1>2 DEF AllocGrow, SetBrk
<1>4. b \in Nat /\ b \in Headers /\ need \in Nat /\ need <= LIMIT /\ g <= LIMIT
  <2>1. b \in Nat /\ need \in Nat /\ b % 2 = 0
    BY <1>2 DEF TypeOK, HeapBase
  <2> QED BY <2>1, <1>3, HeapAssumption DEF Addr, Headers, ALIGN
<1>5. PICK S \in SUBSET Addr : Sound(S)
  BY DEF Intact
<1>6. ASSUME NEW s \in Live
      PROVE  /\ HdrOf(slot[s].ptr) # b
             /\ faults' = {} => mem'[HdrOf(slot[s].ptr)].sz = mem[HdrOf(slot[s].ptr)].sz
  <2>1. PICK c \in S : c = HdrOf(slot[s].ptr)
    BY <1>5, LiveFacts
  <2>2. c \in Nat /\ c \in Addr /\ mem[c].sz \in Nat /\ mem[c].sz >= 4 /\ c + mem[c].sz <= b
    BY <1>2, <1>5, BlockFacts
  <2>3. c < b
    BY <2>2, <1>4
  <2>4. faults' = {} => mem'[c] = mem[c]
    BY <2>2, <2>3, <1>2, GrowsAbove
  <2> QED BY <2>1, <2>3, <2>4, <1>4
<1>7. /\ len < LIMIT /\ Api!GrownTotal(2 * len) = 2 * g
      /\ 2 * g \in Api!BrkTotals(2 * len)
  BY <1>1, <1>2, <1>4, TierTotals
<1>8. faults' = {} => mem'[b].sz = g
  BY <1>2, GrowsAbove
<1>9. PICK t : t = 2 * g
  OBVIOUS
<1>10. faults' = {} => t = 2 * mem'[b].sz
  BY <1>8, <1>9
<1>11. Return(UserPtr(b))
  BY <1>1, <1>2
<1> QED BY <1>1, <1>4, <1>6, <1>7, <1>9, <1>10, <1>11, TierGrant

(* A free that is no fault keeps the headers of the blocks still held.       *)
LEMMA FreeHeaders ==
  ASSUME IInv, faults = {}, NEW s \in Slots, Free(s), faults' = {}, NEW t \in Live, t # s
  PROVE  mem'[HdrOf(slot[t].ptr)].sz = mem[HdrOf(slot[t].ptr)].sz
<1> USE DEF IInv
<1>1. PICK b : b = HdrOf(slot[s].ptr)
  OBVIOUS
<1>2. s \in Live /\ mem' = Release(mem, heap_hi, b) /\ FreeFaults(b) = {}
  BY <1>1 DEF Free
<1>3. PICK S \in SUBSET Addr : Sound(S)
  BY DEF Intact
<1>4. b \in S /\ mem[b].alloc
  BY <1>1, <1>2, <1>3, LiveFacts
<1>5. PICK n \in Nat : n = mem[b].sz
  BY <1>3, <1>4, BlockFacts
<1>6. /\ b \in Addr /\ b \in Nat /\ n >= 4 /\ b % 2 = 0 /\ b + n <= heap_hi /\ heap_hi \in Nat
      /\ heap_hi <= LIMIT /\ b + n \in S \cup {heap_hi} /\ \A c \in S : b < c => b + n <= c
  BY <1>3, <1>4, <1>5, BlockFacts
<1>7. PICK c \in S : c = HdrOf(slot[t].ptr) /\ mem[c].alloc
  BY <1>3, LiveFacts
<1>8. c \in Addr /\ c \in Nat /\ c % 2 = 0 /\ mem[c].sz >= 4 /\ mem[c].sz \in Nat /\ c + mem[c].sz <= heap_hi
  BY <1>3, <1>7, BlockFacts
<1>9. c # b
  <2>1. slot[s].ptr \in Nat /\ slot[t].ptr \in Nat /\ slot[t].ptr # slot[s].ptr
    BY <1>2, <1>3, LiveFacts DEF Sound, LedgerAgrees
  <2> QED BY <2>1, <1>1, <1>7 DEF HdrOf, HDR_SZ
<1>10. ~(b + n < heap_hi /\ mem[b + n].alloc)
  BY <1>2, <1>5, Zenon DEF FreeFaults, TaggedAlloc, FaultKinds
<1>11. ~mem[b].pfree
  <2>1. ~(mem[b].pfree /\ mem[b - HDR_SZ].alloc)
    BY <1>2, Zenon DEF FreeFaults, FaultKinds
  <2> QED BY <2>1, <1>3, <1>4 DEF Sound, FlagsAreWrong
<1>12. c < b
  <2> SUFFICES ASSUME b < c PROVE FALSE
    BY <1>6, <1>8, <1>9
  <2>1. b + n < heap_hi
    BY <1>6, <1>7, <1>8
  <2>2. PICK d \in S : d = b + n /\ ~mem[d].alloc
    BY <2>1, <1>6, <1>10
  <2>3. d + mem[d].sz = heap_hi
    BY <2>2, <1>3 DEF Sound, OnlyLastFree
  <2>4. c # d
    BY <2>2, <1>7
  <2>5. c < d
    BY <2>3, <2>4, <1>3, FreeBlockIsLast
  <2> QED BY <2>2, <2>5, <1>6
<1>13. PICK m2 \in [Addr -> Word] :
         /\ mem' = Merge(m2, heap_hi, b) /\ m2[b].pfree = mem[b].pfree /\ m2[b].sz = n
         /\ \A a \in Addr : a < b => m2[a] = mem[a]
  <2>1. mem \in [Addr -> Word]
    BY DEF TypeOK
  <2> QED BY <2>1, <1>2, <1>5, <1>6, ReleaseParts
<1>14. PICK p : p = IF m2[b].pfree THEN m2[b - 1].sz ELSE 0
  OBVIOUS
<1>15. p = 0
  BY <1>11, <1>13, <1>14, Zenon
<1>16. PICK q : q = IF b + m2[b].sz < heap_hi /\ ~m2[b + m2[b].sz].alloc THEN m2[b + m2[b].sz].sz ELSE 0
  OBVIOUS
<1>17. q \in Nat
  <2>1. b + n < heap_hi => b + n \in Addr
    BY <1>6, HeapAssumption DEF Addr
  <2>2. \A a \in Addr : m2[a].sz \in Nat
    BY DEF Word
  <2> QED BY <2>1, <2>2, <1>13, <1>16
<1>18. c # b - p /\ c # Ftr(b - p, p + n + q) /\ c # b - p + (p + n + q)
  BY <1>6, <1>8, <1>12, <1>15, <1>17 DEF Ftr, HDR_SZ
<1>19. OnAddr(m2)
  BY DEF OnAddr
<1>20. mem'[c] = m2[c]
  BY <1>8, <1>13, <1>14, <1>16, <1>18, <1>19, MergeWrites
<1> QED BY <1>7, <1>8, <1>12, <1>13, <1>20

(* free is Malloc's free of a block of the brk tier, of whatever size the    *)
(* tags say that it is.                                                      *)
LEMMA TierFree ==
  ASSUME TypeOK, ApiConstants, NEW s \in Slots, Free(s), NEW b \in Headers,
         b = HdrOf(slot[s].ptr), faults' = {} => faults = {},
         faults' = {} => \A t \in Live \ {s} :
           /\ HdrOf(slot[t].ptr) # b
           /\ mem'[HdrOf(slot[t].ptr)].sz = mem[HdrOf(slot[t].ptr)].sz
  PROVE  Api!Free(s)
<1>1. s \in Live /\ slot' = [slot EXCEPT ![s] = NULL] /\ slot \in [Slots -> [ptr : Nat, len : Nat]]
  BY DEF Free, TypeOK
<1>2. slot'[s] = NULL /\ (\A t \in Slots : t # s => slot'[t] = slot[t]) /\ Live' = Live \ {s}
  BY <1>1 DEF Live, NULL
<1>3. \A t \in Live' : t \in Live \ {s} /\ slot'[t] = slot[t]
  BY <1>2 DEF Live
<1>4. SlotBar[s].at = b /\ b # NoAddr
  BY <1>1 DEF SlotBar, ApiConstants
<1>5. PICK v : v = IF faults = {} THEN HdrBar[b] ELSE 0
  OBVIOUS
<1>6. v \in Api!HeaderSizes(s)
  <2>1. s \in Api!Live
    BY <1>4 DEF Api!Live, SlotBar
  <2>2. PICK R : R = Api!HeaderSizes(s)
    OBVIOUS
  <2>3. R = IF b \in Headers /\ ~(faults = {}) THEN {0} ELSE {HdrBar[b]}
    BY <2>1, <2>2, <1>4 DEF Api!HeaderSizes, SlotBar, HdrBar
  <2>4. v \in R
    BY <2>3, <1>5
  <2> QED BY <2>2, <2>4
<1>7. ~Api!IsMapped(b, v)
  BY DEF Api!IsMapped
<1>8. PICK h : h = [HdrBar EXCEPT ![b] = 0]
  OBVIOUS
<1>9. Api!Released(HdrBar, b, v) = h
  BY <1>7, <1>8 DEF Api!Released
<1>10. Api!Unmapped([m \in {} |-> 0], b, v) = [m \in {} |-> 0]
  BY <1>7 DEF Api!Unmapped
<1>11. HdrBar' = [a \in Headers |-> IF faults' # {} THEN 0 ELSE h[a]]
  <2>1. HdrBar = [a \in Headers |-> HdrBar[a]] /\ HdrBar' = [a \in Headers |-> HdrBar'[a]]
    BY DEF HdrBar
  <2>2. ASSUME NEW a \in Headers, faults' # {} PROVE HdrBar'[a] = 0
    BY <2>2 DEF HdrBar
  <2>3. ASSUME faults' = {} PROVE HdrBar'[b] = 0
    BY <1>3, <2>3 DEF HdrBar
  <2>4. ASSUME NEW a \in Headers, faults' = {}, a # b PROVE HdrBar'[a] = HdrBar[a]
    <3>1. (\E t \in Live' : HdrOf(slot'[t].ptr) = a) <=> (\E t \in Live : HdrOf(slot[t].ptr) = a)
      BY <1>2, <1>3, <2>4
    <3>2. ASSUME NEW t \in Live, HdrOf(slot[t].ptr) = a PROVE mem'[a].sz = mem[a].sz
      <4>1. t \in Live \ {s}
        BY <3>2, <2>4
      <4> QED BY <4>1, <3>2, <2>4
    <3> QED BY <3>1, <3>2, <2>4 DEF HdrBar
  <2>5. h[b] = 0 /\ \A a \in Headers : a # b => h[a] = HdrBar[a]
    BY <1>8, <2>1
  <2> QED BY <2>1, <2>2, <2>3, <2>4, <2>5
<1>12. SlotBar' = [SlotBar EXCEPT ![s] = Api!NULL]
  <2>1. ASSUME NEW t \in Slots, t # s PROVE SlotBar'[t] = SlotBar[t]
    BY <1>2, <2>1 DEF SlotBar
  <2>2. SlotBar'[s] = Api!NULL
    BY <1>2 DEF SlotBar, Api!NULL, NULL
  <2>3. SlotBar = [t \in Slots |-> SlotBar[t]] /\ SlotBar' = [t \in Slots |-> SlotBar'[t]]
    BY DEF SlotBar
  <2> QED BY <2>1, <2>2, <2>3
<1>13. PICK R : R = Api!Released(HdrBar, SlotBar[s].at, v)
  OBVIOUS
<1>14. R = h
  BY <1>4, <1>9, <1>13
<1>15. (faults = {})' \in IF Api!Returns(SlotBar[s].at) THEN {faults = {}, FALSE}
                         ELSE {faults = {}}
  <2>1. Api!Returns(SlotBar[s].at)
    BY <1>4 DEF Api!Returns
  <2> QED BY <2>1, TierDamage, Zenon
<1>16. Api!SetHeaders(Api!Released(HdrBar, SlotBar[s].at, v), Api!Returns(SlotBar[s].at))
  <2>1. HdrBar' = [a \in Headers \cup {} |->
                    IF a \in Headers /\ ~(faults = {})' THEN 0
                    ELSE Api!Released(HdrBar, SlotBar[s].at, v)[a]]
    <3>1. HdrBar' = [a \in Headers \cup {} |-> IF a \in Headers /\ ~(faults = {})' THEN 0
                                              ELSE R[a]]
      BY <1>11, <1>14
    <3> QED BY <3>1, <1>13, Zenon
  <2> QED BY <1>15, <2>1, Zenon DEF Api!SetHeaders, Api!Sites, HdrBar
<1>17. [m \in {} |-> 0]' = Api!Unmapped([m \in {} |-> 0], SlotBar[s].at, v)
  BY <1>4, <1>10
<1>18. SlotBar' = [SlotBar EXCEPT ![s] = Api!NULL] /\ TRUE' = TRUE
  BY <1>12
<1> QED BY <1>6, <1>16, <1>17, <1>18, Zenon DEF Api!Free, HdrBar, SlotBar

(* The first damage may be done by free; a free that does none keeps the     *)
(* headers of the blocks still held.                                         *)
LEMMA TierFreeSound ==
  ASSUME IInv, ApiConstants, faults = {}, NEW s \in Slots, Free(s)
  PROVE  Api!Free(s)
<1>1. s \in Live
  BY DEF Free
<1>2. PICK S \in SUBSET Addr : Sound(S)
  BY DEF IInv, Intact
<1>3. PICK b : b = HdrOf(slot[s].ptr)
  OBVIOUS
<1>4. b \in Headers
  <2>1. b \in S /\ b \in Addr /\ b % 2 = 0
    BY <1>1, <1>2, <1>3, LiveFacts, BlockFacts DEF IInv
  <2> QED BY <2>1 DEF Headers, ALIGN
<1>5. ASSUME NEW t \in Live \ {s}
      PROVE  /\ HdrOf(slot[t].ptr) # b
             /\ faults' = {} => mem'[HdrOf(slot[t].ptr)].sz = mem[HdrOf(slot[t].ptr)].sz
  <2>1. slot[s].ptr \in Nat /\ slot[t].ptr \in Nat /\ slot[t].ptr # slot[s].ptr
    BY <1>1, <1>2, LiveFacts DEF Sound, LedgerAgrees, IInv
  <2>2. HdrOf(slot[t].ptr) # b
    BY <2>1, <1>3 DEF HdrOf, HDR_SZ
  <2> QED BY <2>2, FreeHeaders
<1> QED BY <1>3, <1>4, <1>5, TierFree DEF IInv

(* A client that writes its own words is invisible to Malloc.                *)
LEMMA TierWrite ==
  ASSUME IInv, faults = {}, NEW s \in Slots, NEW w \in UserWords, ClientWrite(s, w)
  PROVE  UNCHANGED Api!vars
<1>1. PICK S \in SUBSET Addr : Sound(S)
  BY DEF IInv, Intact
<1>2. /\ s \in Live /\ slot' = slot /\ faults' = faults
      /\ mem' = [a \in Addr |-> IF a \in Payload(s) THEN w ELSE mem[a]]
  BY DEF ClientWrite
<1>3. ASSUME NEW t \in Live PROVE mem'[HdrOf(slot[t].ptr)].sz = mem[HdrOf(slot[t].ptr)].sz
  <2>1. PICK c \in S : c = HdrOf(slot[t].ptr)
    BY <1>1, LiveFacts DEF IInv
  <2>2. c \in Addr /\ c \notin Payload(s)
    BY <1>1, <1>2, TagsNotInPayload DEF IInv
  <2> QED BY <2>1, <2>2, <1>2
<1> QED BY <1>2, <1>3, TierStutter

(* Every step over sound tags, the one that first damages them included, is  *)
(* a step of Malloc or hidden from it.                                       *)
LEMMA TierStep ==
  ASSUME IInv, ApiConstants, faults = {}, Next
  PROVE  [Api!Next]_(Api!vars)
<1>1. ASSUME AllocSplit \/ AllocWhole \/ AllocGrow PROVE Api!Next
  BY <1>1, TierAlloc, TierGrow
<1>2. ASSUME NEW s \in Slots, Free(s) PROVE Api!Next
  <2>1. Api!Free(s)
    BY <1>2, TierFreeSound
  <2> QED BY <2>1, Zenon DEF Api!Next
<1>3. ASSUME NEW s \in Slots, NEW w \in UserWords, ClientWrite(s, w) PROVE UNCHANGED Api!vars
  BY <1>3, TierWrite
<1>4. ASSUME (\E s \in Slots, n \in Sizes : Malloc(s, n)) \/ WalkOn \/ AllocFail
      PROVE  UNCHANGED Api!vars
  <2>1. slot' = slot /\ mem' = mem /\ faults' = faults
    BY <1>4 DEF Malloc, WalkOn, AllocFail, heapvars
  <2> QED BY <2>1, TierStutter
<1> QED BY <1>1, <1>2, <1>3, <1>4 DEF Next, AllocStep

(* Every step over damaged tags of a client that stores no size, too.        *)
LEMMA TierAfterDamage ==
  ASSUME BInv, ApiConstants, faults # {}, Next
  PROVE  [Api!Next]_(Api!vars)
<1>1. faults' # {}
  BY FaultsGrow
<1>2. heap_hi \in Nat /\ heap_lo \in Nat /\ LIMIT \in Nat /\ TypeOK /\ CallOK
  BY HeapAssumption DEF BInv, TypeOK
<1>3. ASSUME AllocSplit \/ AllocWhole PROVE Api!Next
  <2>1. /\ pc = "walk" /\ cur < heap_hi /\ mem[cur].sz >= need /\ Return(UserPtr(cur))
    BY <1>3 DEF AllocSplit, AllocWhole, AtBlock, InWalk, Fits
  <2>2. cur \in Nat /\ cur % 2 = 0 /\ heap_lo <= cur
    BY <2>1 DEF BInv, CursorInside, TypeOK
  <2>3. Tidy(mem, heap_lo, heap_hi) /\ heap_hi <= LIMIT
    BY <2>1, <2>2, <1>2, NonEmpty
  <2>4. Inside(cur, mem[cur].sz, heap_lo, heap_hi)
    BY <2>1, <2>2, <2>3, HeaderFacts
  <2>5. need \in Nat /\ need <= LIMIT
    BY <2>1, <2>2, <2>3, <2>4, <1>2 DEF Inside, TypeOK
  <2>6. cur \in Headers
    BY <2>1, <2>2, <2>3, <1>2 DEF Headers, Addr, ALIGN
  <2>7. len < LIMIT
    BY <2>1, <2>5, <1>2, TierTotals
  <2> QED BY <2>1, <2>6, <2>7, <1>1, <1>2, TierGrant
<1>4. ASSUME AllocGrow PROVE Api!Next
  <2>1. pc = "walk" /\ Return(UserPtr(heap_hi)) /\ heap_hi + AlignUp(need, PAGE) <= LIMIT
    BY <1>4 DEF AllocGrow, AtEnd, SetBrk
  <2>2. /\ need \in Nat /\ AlignUp(need, PAGE) \in Nat
        /\ AlignUp(need, PAGE) >= 4 /\ AlignUp(need, PAGE) >= need
    BY <2>1, <1>2, NeedFacts, AlignUpPage
  <2>3. heap_hi \in Headers /\ need <= LIMIT
    <3>1. heap_hi % 2 = 0
      BY DEF BInv, HeapTidy
    <3> QED BY <3>1, <2>1, <2>2, <1>2 DEF Headers, Addr, ALIGN
  <2>4. len < LIMIT
    BY <2>1, <2>3, <1>2, TierTotals
  <2> QED BY <2>1, <2>3, <2>4, <1>1, <1>2, TierGrant
<1>5. ASSUME NEW s \in Slots, Free(s) PROVE Api!Next
  <2>1. s \in Live
    BY <1>5 DEF Free
  <2>2. PICK b : b = HdrOf(slot[s].ptr)
    OBVIOUS
  <2>3. b \in Nat /\ b % 2 = 0 /\ heap_lo <= b /\ b < heap_hi
    BY <2>1, <2>2, HeldHeader
  <2>4. heap_hi <= LIMIT
    BY <2>3, <1>2, NonEmpty
  <2>5. b \in Headers
    BY <2>3, <2>4, <1>2 DEF Headers, Addr, ALIGN
  <2>6. Api!Free(s)
    BY <2>2, <2>5, <1>1, <1>2, <1>5, TierFree
  <2> QED BY <2>6, Zenon DEF Api!Next
<1>6. ASSUME \/ \E s \in Slots, n \in Sizes : Malloc(s, n)
             \/ \E s \in Slots, w \in UserWords : ClientWrite(s, w)
             \/ WalkOn \/ AllocFail
      PROVE  UNCHANGED Api!vars
  <2>1. slot' = slot /\ faults' = faults
    BY <1>6 DEF Malloc, ClientWrite, WalkOn, AllocFail
  <2> QED BY <2>1, TierStutter
<1> QED BY <1>3, <1>4, <1>5, <1>6 DEF Next, AllocStep

(* Before the first call Malloc has no blocks.                               *)
LEMMA TierInit == Init => Api!Init
<1> SUFFICES ASSUME Init PROVE Api!Init
  OBVIOUS
<1>1. Live = {} /\ slot = [s \in Slots |-> NULL] /\ faults = {}
  BY DEF Init, Live, NULL
<1>2. HdrBar = [a \in Headers |-> 0]
  BY <1>1 DEF HdrBar
<1>3. SlotBar = [s \in Slots |-> Api!NULL]
  BY <1>1 DEF SlotBar, Api!NULL, NULL
<1> QED BY <1>1, <1>2, <1>3 DEF Api!Init, Api!Sites, HdrBar, SlotBar

(* A step that changes nothing changes nothing of Malloc.                    *)
LEMMA TierRests == UNCHANGED vars => UNCHANGED Api!vars
<1> SUFFICES ASSUME UNCHANGED vars PROVE UNCHANGED Api!vars
  OBVIOUS
<1>1. slot' = slot /\ mem' = mem /\ faults' = faults
  BY DEF vars, heapvars
<1> QED BY <1>1, TierStutter

(* For any client, up to and including the first step that damages a tag,    *)
(* the boundary tags answer malloc and free as Malloc says of its brk tier.  *)
THEOREM AnswersTheApi ==
  ASSUME ApiConstants
  PROVE  IntactSpec => AnswersAsTier
<1>1. IInv /\ [NextWhileIntact]_vars => [Api!Next]_(Api!vars)
  BY TierStep, TierRests DEF NextWhileIntact
<1>2. Init => Api!Init
  BY TierInit
<1>3. IntactSpec => []IInv
  BY Inductive
<1> QED BY <1>1, <1>2, <1>3, PTL DEF IntactSpec, AnswersAsTier, Api!Spec

(* So they do ever after, for a client that stores no size: damaged tags may *)
(* hand out what is held already, but nothing outside of the heap.           *)
THEOREM AnswersWhenDamaged ==
  ASSUME ApiConstants, PlainClient
  PROVE  Spec => AnswersAsTier
<1>1. (faults = {} => IInv) /\ BInv /\ [Next]_vars => [Api!Next]_(Api!vars)
  BY TierStep, TierAfterDamage, TierRests
<1>2. Init => Api!Init
  BY TierInit
<1>3. Spec => [](faults = {} => IInv)
  BY SoundUntilFault
<1>4. Spec => []BInv
  BY TidyInvariant
<1> QED BY <1>1, <1>2, <1>3, <1>4, PTL DEF Spec, AnswersAsTier, Api!Spec
=============================================================================
