-------------------------------- MODULE Heap --------------------------------
(***************************************************************************)
(* The brk tier of src/heap.c: an implicit list of blocks with boundary    *)
(* tags, first-fit search, splitting, coalescing and growth by whole pages.*)
(*                                                                         *)
(* Addresses and sizes count 8-byte words, the unit of a tag: HDR_SZ is 1, *)
(* ALIGN and OVERHEAD are 2.  A block at address b of size n has its header*)
(* at b, its footer at b+n-1 and hands out the pointer b+1.  Every word is *)
(* modelled as a tag; what a client stores is a tag too (UserWords), since *)
(* the code has no way to tell the two apart.                              *)
(***************************************************************************)
EXTENDS Integers, FiniteSets

CONSTANTS
  Slots,      (* The pointer variables of the client program.            *)
  NoSlot,     (* Stands for "no call is running" in dst.                 *)
  Sizes,      (* Request sizes, in words, below MMAP_LIMIT.              *)
  PAGE,       (* The growth unit of brk_grow, in words (512 in the code). *)
  LIMIT,      (* The kernel grants no break above this address.          *)
  UserWords   (* What a client may store in the words it was given.      *)

ALIGN    == 2
HDR_SZ   == 1
OVERHEAD == 2

Addr == 0 .. LIMIT - 1

(* A tag: the block size, bit 0 (ALLOCATED) and bit 1 (PREV_FREE).         *)
Word == [sz : Nat, alloc : BOOLEAN, pfree : BOOLEAN]

Tag(n, alloc, pfree) == [sz |-> n, alloc |-> alloc, pfree |-> pfree]

Zero == Tag(0, FALSE, FALSE)

ASSUME HeapAssumption ==
  /\ NoSlot \notin Slots
  /\ Sizes \subseteq Nat \ {0}
  /\ PAGE \in Nat /\ PAGE > 0 /\ PAGE % ALIGN = 0
  /\ LIMIT \in Nat
  /\ UserWords \subseteq Word

VARIABLES
  mem,       (* The words below LIMIT.                                    *)
  heap_lo, heap_hi, heap_ok,                  (* The globals of heap.c.   *)
  brk,       (* The kernel's program break.                               *)
  slot,      (* Each client variable: the pointer and the words asked for.*)
  pc,        (* "idle", or "walk" inside the search loop of brk_alloc.     *)
  cur, need, dst, len,      (* Locals of the running malloc.              *)
  faults     (* History: the ways in which the tags have been damaged.    *)

heapvars == <<mem, heap_lo, heap_hi, heap_ok, brk>>
callvars == <<pc, cur, need, dst, len>>
vars     == <<heapvars, slot, callvars, faults>>

NULL == [ptr |-> 0, len |-> 0]

Live == {s \in Slots : slot[s].ptr # 0}

(* A name of the form Bad... is a slip somebody could make in the code, used  *)
(* to check that the properties would notice it; no action refers to it.    *)

(* Slip: rounds down.                                                      *)
BadAlignUp(n, a) == (n \div a) * a

AlignUp(n, a) == ((n + a - 1) \div a) * a

(* Slip: hdr - 1 for hdr + 1.                                              *)
BadUserPtr(b) == b - HDR_SZ

(* The pointer handed out for the block at b, and back.                     *)
UserPtr(b) == b + HDR_SZ
HdrOf(ptr) == ptr - HDR_SZ

(* The address of the footer of a block of n words.                         *)
Ftr(b, n) == b + n - HDR_SZ

-----------------------------------------------------------------------------
(* Tag writes.  Each takes a memory and returns the memory after it.        *)

(* Slip: the footer is forgotten.                                          *)
BadPutBlock(m, b, n, alloc, pfree) == [m EXCEPT ![b] = Tag(n, alloc, pfree)]

(* Header and footer of a block; only the header carries PREV_FREE.         *)
PutBlock(m, b, n, alloc, pfree) ==
  [m EXCEPT ![b] = Tag(n, alloc, pfree), ![Ftr(b, n)] = Tag(n, alloc, FALSE)]

(* h & ~0x7UL | FLAG_PREV_FREE on a header h: the mask clears bit 0 as well.*)
MarkPrevFree(m, hi, a) ==
  IF a < hi THEN [m EXCEPT ![a] = Tag(m[a].sz, FALSE, TRUE)] ELSE m

(* h & ~FLAG_PREV_FREE: bit 0 stays.                                       *)
ClearPrevFree(m, hi, a) ==
  IF a < hi THEN [m EXCEPT ![a] = Tag(m[a].sz, m[a].alloc, FALSE)] ELSE m

(* Slip: the sizes are added up but the block does not start at its         *)
(* predecessor.                                                            *)
BadMerge(m, hi, blk) ==
  LET next    == blk + m[blk].sz
      prev_sz == IF m[blk].pfree THEN m[blk - 1].sz ELSE 0
      next_sz == IF next < hi /\ ~m[next].alloc THEN m[next].sz ELSE 0
      total   == prev_sz + m[blk].sz + next_sz
  IN  PutBlock(m, blk, total, FALSE, m[blk].pfree)

(* merge: joins blk with a predecessor its PREV_FREE flag announces and     *)
(* with a successor that is tagged free.                                    *)
Merge(m, hi, blk) ==
  LET next    == blk + m[blk].sz
      prev_sz == IF m[blk].pfree THEN m[blk - 1].sz ELSE 0
      next_sz == IF next < hi /\ ~m[next].alloc THEN m[next].sz ELSE 0
      start   == blk - prev_sz
      total   == prev_sz + m[blk].sz + next_sz
  IN  IF prev_sz + next_sz = 0 THEN m
      ELSE MarkPrevFree(PutBlock(m, start, total, FALSE, m[start].pfree),
                        hi, start + total)

(* Slip: the front block does not get its FLAG_ALLOC.                      *)
BadSplit(m, hi, b, n) ==
  LET front == PutBlock(m, b, n, FALSE, m[b].pfree)
      rem   == m[b].sz - n
  IN  MarkPrevFree(PutBlock(front, b + n, rem, FALSE, TRUE), hi, b + n + rem)

(* brk_alloc, splitting: [ALLOC(n)][FREE(rem)].                             *)
Split(m, hi, b, n) ==
  LET front == PutBlock(m, b, n, TRUE, m[b].pfree)
      rem   == m[b].sz - n
  IN  MarkPrevFree(PutBlock(front, b + n, rem, FALSE, TRUE), hi, b + n + rem)

(* Slip: a block used as a whole does not get its FLAG_ALLOC.              *)
BadTakeWhole(m, hi, b) == ClearPrevFree(m, hi, b + m[b].sz)

(* brk_alloc, not splitting, and the block brk_grow has just made.          *)
TakeWhole(m, hi, b) ==
  ClearPrevFree(PutBlock(m, b, m[b].sz, TRUE, m[b].pfree), hi, b + m[b].sz)

(* brk_grow after the kernel agreed: a free block of n words at the old     *)
(* break, merged with a free predecessor.  hi is the new break.             *)
Grown(m, lo, b, n) ==
  Merge(PutBlock(m, b, n, FALSE, b > lo /\ ~m[b - HDR_SZ].alloc), b + n, b)

(* brk_release.                                                             *)
Release(m, hi, b) ==
  LET freed == PutBlock(m, b, m[b].sz, FALSE, m[b].pfree)
  IN  Merge(MarkPrevFree(freed, hi, b + m[b].sz), hi, b)

-----------------------------------------------------------------------------
(* The four ways in which a step strips the tags of a live block.  They are *)
(* recorded, never acted upon: the code does not notice any of them.        *)

FaultKinds == {"swallow", "false_prev", "clobber", "inner"}

TaggedAlloc(a) == a < heap_hi /\ mem[a].alloc

(* Freeing b: line 332 clears the ALLOCATED bit of the block after b;       *)
(* merge follows a PREV_FREE flag that was wrong; or it joins b with the    *)
(* free block after it and line 385 clears the bit of the block after that. *)
FreeFaults(b) ==
  LET next == b + mem[b].sz IN
  {k \in FaultKinds :
     \/ k = "swallow"    /\ TaggedAlloc(next)
     \/ k = "false_prev" /\ mem[b].pfree /\ mem[b - HDR_SZ].alloc
     \/ k = "clobber"    /\ next < heap_hi /\ ~mem[next].alloc
                         /\ TaggedAlloc(next + mem[next].sz)}

(* Splitting b: line 264 clears the bit of the block after the remainder.   *)
SplitFaults(b) == IF TaggedAlloc(b + mem[b].sz) THEN {"clobber"} ELSE {}

(* Growing: brk_grow merges the new block with a free last block and still  *)
(* returns the address of the new block, now inside a free one.             *)
GrowFaults ==
  IF heap_lo < heap_hi /\ ~mem[heap_hi - HDR_SZ].alloc THEN {"inner"} ELSE {}

-----------------------------------------------------------------------------
Init ==
  /\ mem = [a \in Addr |-> Zero]
  /\ heap_lo = 0 /\ heap_hi = 0 /\ heap_ok = FALSE
  /\ brk \in {a \in 0 .. ALIGN - 1 : a <= LIMIT}
  /\ slot = [s \in Slots |-> NULL]
  /\ pc = "idle" /\ cur = 0 /\ need = 0 /\ len = 0
  /\ dst = NoSlot
  /\ faults = {}

(* toylibc_brk(addr): the kernel moves the break or leaves it alone.        *)
SetBrk(addr, granted) ==
  /\ granted => addr <= LIMIT
  /\ brk' = IF granted THEN addr ELSE brk

(* heap_init: an unaligned break is rounded up; the answer is not checked.  *)
HeapInit ==
  LET al == AlignUp(brk, ALIGN) IN
  /\ IF al = brk THEN UNCHANGED brk
     ELSE \E granted \in BOOLEAN : SetBrk(al, granted)
  /\ heap_lo' = al /\ heap_hi' = al /\ heap_ok' = TRUE

(* toylibc_malloc(n) assigned to the empty variable s, up to the search.    *)
Malloc(s, n) ==
  /\ pc = "idle" /\ slot[s] = NULL
  /\ IF heap_ok THEN UNCHANGED <<heap_lo, heap_hi, heap_ok, brk>> ELSE HeapInit
  /\ pc' = "walk" /\ cur' = heap_lo' /\ need' = OVERHEAD + AlignUp(n, ALIGN)
  /\ dst' = s /\ len' = n
  /\ UNCHANGED <<mem, slot, faults>>

(* Slip: no defence against a block of size 0.                             *)
EndlessInWalk == cur < heap_hi

(* The loop of brk_alloc stops at the break, or at a block of size 0.       *)
InWalk == cur < heap_hi /\ mem[cur].sz # 0

AtBlock == pc = "walk" /\ InWalk

AtEnd == pc = "walk" /\ ~InWalk

(* The addresses the search loop of brk_alloc visits, from heap_lo on, as    *)
(* long as it finds nothing.                                                *)
Walk ==
  LET From[a \in heap_lo .. heap_hi] ==
        IF a = heap_hi \/ mem[a].sz = 0 \/ a + mem[a].sz > heap_hi THEN {a} \ {heap_hi}
        ELSE {a} \cup From[a + mem[a].sz]
  IN  From[heap_lo]

(* Slip: best fit.                                                          *)
BestFits(b) ==
  /\ ~mem[b].alloc /\ mem[b].sz >= need
  /\ \A c \in Walk : ~mem[c].alloc /\ mem[c].sz >= need => mem[b].sz <= mem[c].sz

(* Slip: the first free block will do.                                     *)
BadFits(b) == ~mem[b].alloc

Fits(b) == ~mem[b].alloc /\ mem[b].sz >= need

(* Slip: a remainder of exactly one smallest block is not split off.        *)
BadSplits(b) == mem[b].sz - need > OVERHEAD + ALIGN

Splits(b) == mem[b].sz - need >= OVERHEAD + ALIGN

EndCall == pc' = "idle" /\ cur' = 0 /\ need' = 0 /\ len' = 0 /\ dst' = NoSlot

(* malloc returns ptr and the client stores it.                             *)
Return(ptr) ==
  /\ slot' = [slot EXCEPT ![dst] = [ptr |-> ptr, len |-> len]]
  /\ EndCall

WalkOn ==
  /\ AtBlock /\ ~Fits(cur)
  /\ cur' = cur + mem[cur].sz
  /\ UNCHANGED <<heapvars, slot, pc, need, dst, len, faults>>

AllocSplit ==
  /\ AtBlock /\ Fits(cur) /\ Splits(cur)
  /\ mem' = Split(mem, heap_hi, cur, need)
  /\ faults' = faults \cup SplitFaults(cur)
  /\ Return(UserPtr(cur))
  /\ UNCHANGED <<heap_lo, heap_hi, heap_ok, brk>>

AllocWhole ==
  /\ AtBlock /\ Fits(cur) /\ ~Splits(cur)
  /\ mem' = TakeWhole(mem, heap_hi, cur)
  /\ Return(UserPtr(cur))
  /\ UNCHANGED <<heap_lo, heap_hi, heap_ok, brk, faults>>

AllocGrow ==
  LET grow    == AlignUp(need, PAGE)
      new_brk == heap_hi + grow
  IN
  /\ AtEnd
  /\ SetBrk(new_brk, TRUE)
  /\ mem' = TakeWhole(Grown(mem, heap_lo, heap_hi, grow), new_brk, heap_hi)
  /\ heap_hi' = new_brk
  /\ faults' = faults \cup GrowFaults
  /\ Return(UserPtr(heap_hi))
  /\ UNCHANGED <<heap_lo, heap_ok>>

(* Slip: heap_hi has been moved before the answer was looked at.           *)
BadAllocFail ==
  /\ AtEnd
  /\ SetBrk(heap_hi + AlignUp(need, PAGE), FALSE)
  /\ heap_hi' = heap_hi + AlignUp(need, PAGE)
  /\ EndCall
  /\ UNCHANGED <<mem, heap_lo, heap_ok, slot, faults>>

(* The kernel refuses: malloc returns NULL.                                 *)
AllocFail ==
  /\ AtEnd
  /\ SetBrk(heap_hi + AlignUp(need, PAGE), FALSE)
  /\ EndCall
  /\ UNCHANGED <<mem, heap_lo, heap_hi, heap_ok, slot, faults>>

(* toylibc_free of a small block; the client forgets the pointer.           *)
Free(s) ==
  LET b == HdrOf(slot[s].ptr) IN
  /\ pc = "idle" /\ s \in Live
  /\ mem' = Release(mem, heap_hi, b)
  /\ faults' = faults \cup FreeFaults(b)
  /\ slot' = [slot EXCEPT ![s] = NULL]
  /\ UNCHANGED <<heap_lo, heap_hi, heap_ok, brk, callvars>>

(* What the client was given: the words it asked for, from its pointer on.  *)
Payload(s) == slot[s].ptr .. slot[s].ptr + slot[s].len - 1

(* The client fills what it was given.                                      *)
ClientWrite(s, w) ==
  /\ pc = "idle" /\ s \in Live
  /\ mem' = [a \in Addr |-> IF a \in Payload(s) THEN w ELSE mem[a]]
  /\ UNCHANGED <<heap_lo, heap_hi, heap_ok, brk, slot, callvars, faults>>

AllocStep == WalkOn \/ AllocSplit \/ AllocWhole \/ AllocGrow \/ AllocFail

Next ==
  \/ \E s \in Slots, n \in Sizes : Malloc(s, n)
  \/ AllocStep
  \/ \E s \in Slots : Free(s)
  \/ \E s \in Slots, w \in UserWords : ClientWrite(s, w)

(* A client that may do anything C allows it to.                            *)
Spec == Init /\ [][Next]_vars

(* The thread that called malloc keeps running.                             *)
FairSpec == Spec /\ WF_vars(AllocStep)

(* The same client, which stops at the first step that damages the tags.    *)
NextWhileIntact == faults = {} /\ Next

IntactSpec == Init /\ [][NextWhileIntact]_vars

-----------------------------------------------------------------------------
(* The heap as a list of blocks.                                            *)

(* The blocks at S cover the heap without gap or overlap.                   *)
Tiles(S) ==
  /\ heap_lo \in S \cup {heap_hi}
  /\ \A b \in S :
       /\ heap_lo <= b /\ b % ALIGN = 0
       /\ mem[b].sz >= OVERHEAD + ALIGN /\ mem[b].sz % ALIGN = 0
       /\ b + mem[b].sz \in S \cup {heap_hi} /\ b + mem[b].sz <= heap_hi
       /\ \A c \in S : b < c => b + mem[b].sz <= c

(* Each footer repeats its header; a free block is announced to the block   *)
(* behind it, which is not free, so that the two are never adjacent.        *)
TagsAgree(S) ==
  \A b \in S :
    LET next == b + mem[b].sz
        ftr  == mem[Ftr(b, mem[b].sz)]
    IN
    /\ ftr.sz = mem[b].sz /\ ftr.alloc = mem[b].alloc
    /\ ~mem[b].alloc /\ next < heap_hi => mem[next].alloc /\ mem[next].pfree

(* The allocated blocks are exactly those the client holds, each once and   *)
(* large enough.                                                            *)
LedgerAgrees(S) ==
  /\ \A b \in S : mem[b].alloc => \E s \in Live : slot[s].ptr = UserPtr(b)
  /\ \A s \in Live :
       LET b == HdrOf(slot[s].ptr) IN
       b \in S /\ mem[b].alloc /\ slot[s].len + OVERHEAD <= mem[b].sz
  /\ \A s, t \in Live : slot[s].ptr = slot[t].ptr => s = t

WellFormed(S) == Tiles(S) /\ TagsAgree(S) /\ LedgerAgrees(S)

-----------------------------------------------------------------------------
(* Properties.                                                              *)

TypeOK ==
  /\ mem \in [Addr -> Word]
  /\ heap_lo \in Nat /\ heap_hi \in Nat /\ heap_ok \in BOOLEAN /\ brk \in Nat
  /\ slot \in [Slots -> [ptr : Nat, len : Nat]]
  /\ pc \in {"idle", "walk"} /\ dst \in Slots \cup {NoSlot}
  /\ cur \in Nat /\ need \in Nat /\ len \in Nat
  /\ faults \subseteq FaultKinds

(* The blocks tile the heap, headers, footers and flags agree and the       *)
(* allocated blocks are the client's, exactly as long as no step of malloc  *)
(* or free was one of the four faults: the faults are all real, and no      *)
(* other line of heap.c damages the tags.                                   *)
DamagedExactlyByFaults == WellFormed(Walk) <=> faults = {}

(* No two pointers the client holds share a word.                           *)
LiveDisjoint ==
  \A s, t \in Live : s # t => Payload(s) \cap Payload(t) = {}

(* Every word of [heap_lo, heap_hi) is below the kernel's break, even when  *)
(* the unchecked brk call of heap_init or a later one was refused.          *)
HeapBacked == heap_lo < heap_hi => heap_hi = brk /\ heap_hi <= LIMIT

(* No block the client holds lies behind that of s.                         *)
Topmost(s) == \A t \in Live : slot[t].ptr <= slot[s].ptr

StartsPage(b) == (b - heap_lo) % PAGE = 0

(* Which calls damage a sound heap, said in what the client holds:          *)
(* brk_release does when it frees any block but the topmost one, or one     *)
(* whose header has the flag of a remainder, as every block has that does   *)
(* not start a page; brk_grow does when the heap has a free block; and no   *)
(* other step does.                                                         *)
DamageBegins ==
  [][faults = {} =>
       /\ \A s \in Live : slot'[s] = NULL =>
            LET b == HdrOf(slot[s].ptr) IN
            /\ faults' = {} <=> Topmost(s) /\ ~mem[b].pfree
            /\ faults' = {} => StartsPage(b)
       /\ heap_hi' # heap_hi => (faults' = {} <=> \A b \in Walk : mem[b].alloc)
       /\ faults' # {} => heap_hi' # heap_hi \/ \E s \in Live : slot'[s] = NULL]_vars

(* Whatever malloc and free write, they leave the words of the blocks the   *)
(* client holds alone.                                                      *)
PayloadUntouched ==
  [][\A s \in Live :
       slot'[s] = slot[s] /\ ~(\E w \in UserWords : ClientWrite(s, w))
         => \A a \in Payload(s) : mem'[a] = mem[a]]_vars

(* First fit: malloc takes the first block of the walk that is free and     *)
(* large enough, and asks the kernel for memory only when there is none.    *)
(* On a sound heap only the last block is free; several that fit come up    *)
(* once frees have damaged the tags, so this is for a client that goes on.  *)
FirstFit ==
  [][pc = "walk" /\ pc' = "idle"
       => \A b \in Walk :
            ~mem[b].alloc /\ mem[b].sz >= need
              => slot'[dst].ptr # 0 /\ slot'[dst].ptr <= UserPtr(b)]_vars

(* A client that only stores zeros, and frees each pointer once, may damage *)
(* the tags through the faults, yet every tag the allocator can still read  *)
(* keeps it inside the heap: headers never reach above heap_hi, footers     *)
(* never below heap_lo, and what malloc returns has room for the request.   *)
StaysInHeap ==
  /\ \A a \in heap_lo .. heap_hi - 1 :
       /\ mem[a].sz % ALIGN = 0
       /\ IF a % ALIGN = 0 THEN a + mem[a].sz <= heap_hi
                           ELSE heap_lo + mem[a].sz <= a + HDR_SZ
  /\ \A s \in Live : heap_lo < slot[s].ptr /\ slot[s].ptr + slot[s].len < heap_hi

(* Every malloc returns: the search loop ends even over damaged tags.       *)
MallocReturns == pc = "walk" ~> pc = "idle"

-----------------------------------------------------------------------------
(* A claim of the comments that the code does not keep.                     *)

(* heap.c:38, free merges a neighbour when it is free: no free block covers *)
(* the header of a block the client holds.                                  *)
MergesOnlyFree ==
  \A b \in Walk : ~mem[b].alloc =>
    \A s \in Live : HdrOf(slot[s].ptr) \notin b .. b + mem[b].sz - 1

-----------------------------------------------------------------------------
Promise == INSTANCE Allocator

(* Up to the first fault the heap is an allocator: fresh, disjoint words for *)
(* every request, and no pointer moves.                                     *)
KeepsPromise == Promise!Spec
=============================================================================
