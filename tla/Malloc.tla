------------------------------- MODULE Malloc -------------------------------
(***************************************************************************)
(* The public functions of src/heap.c: malloc, free, calloc and realloc    *)
(* over two tiers, the brk heap and one mapping per large block.           *)
(*                                                                         *)
(* The brk tier is what module Heap shows of it: a block of its own for    *)
(* every request, or NULL, until a free or a growth has damaged its tags;  *)
(* from then on any address of its heap, given out already or not, with    *)
(* headers that may say anything.  It stays inside the heap, though, for a *)
(* client that stores nothing that reads as a tag with a size (StaysInHeap *)
(* of Heap), and that is the client of this module.                        *)
(*                                                                         *)
(* Sizes count half words of 4 bytes, so that a size can be no multiple of *)
(* HDR_SZ; they are taken modulo WORD as an unsigned long is.  A site is   *)
(* the address of a header.                                                *)
(***************************************************************************)
EXTENDS Integers, FiniteSets

CONSTANTS
  Slots,       (* The pointer variables of the client.                      *)
  BrkSites,    (* Headers inside [heap_lo, heap_hi).                        *)
  MapSites,    (* Page addresses at which the kernel may place a mapping.   *)
  NoSite,      (* NULL.                                                     *)
  Fault,       (* -errno other than -1, taken for the address of a mapping. *)
  Sizes,       (* Request sizes.                                            *)
  Counts,      (* First arguments of calloc.                                *)
  PAGE,        (* The unit of mmap and of the growth of the brk heap.       *)
  AnySizes,    (* What a damaged tag of the brk heap may say of a size.     *)
  MMAP_LIMIT,  (* Requests of this size or more get a mapping.              *)
  WORD         (* An unsigned long is below WORD.                           *)

ALIGN    == 4
HDR_SZ   == 2
OVERHEAD == 4

Sites == BrkSites \cup MapSites

ASSUME MallocAssumption ==
  /\ BrkSites \cap MapSites = {} /\ {NoSite, Fault} \cap Sites = {} /\ NoSite # Fault
  /\ Sizes \subseteq 0 .. WORD - 1 /\ Counts \subseteq 0 .. WORD - 1
  /\ AnySizes \subseteq 0 .. WORD - 1
  /\ PAGE \in Nat /\ PAGE > 0 /\ MMAP_LIMIT \in Nat /\ MMAP_LIMIT > OVERHEAD
  /\ WORD \in Nat /\ WORD >= MMAP_LIMIT + PAGE + 4 * OVERHEAD

VARIABLES
  hdr,       (* The size in the header at each site, 0 where no block is    *)
             (* and, once the tags are damaged, at all BrkSites.            *)
  mapping,   (* The kernel's mappings: the length at each site, or 0.       *)
  slot,      (* Each variable: the block, the size the client counts on and *)
             (* how much of it, from its start, holds what was put there.   *)
  alive,     (* FALSE once the process has died of SIGSEGV.                 *)
  intact     (* FALSE once the tags of the brk heap are damaged.            *)

vars == <<hdr, mapping, slot, alive, intact>>

NULL == [at |-> NoSite, len |-> 0, kept |-> 0]

Live == {s \in Slots : slot[s].at # NoSite}

Least(m, n) == IF m < n THEN m ELSE n

(* ALIGN_UP on an unsigned long.                                            *)
AlignUp(n, a) == (((n + a - 1) % WORD) \div a) * a

-----------------------------------------------------------------------------
(* Slip: the header is not counted.                                         *)
BadMapTotal(n) == AlignUp(n, PAGE)

MapTotal(n) == AlignUp((n + HDR_SZ) % WORD, PAGE)

(* What brk_grow adds for a request.                                        *)
GrownTotal(n) == AlignUp(OVERHEAD + AlignUp(n, ALIGN), PAGE)

(* The blocks the brk tier may answer with: one that was split, a free one  *)
(* too small to be split, or all that brk_grow added.                       *)
BrkTotals(n) ==
  LET need == OVERHEAD + AlignUp(n, ALIGN) IN {need, need + ALIGN, GrownTotal(n)}

(* What malloc(n) may come to in each tier: a block of some size at some    *)
(* site, NULL, or -errno taken for an address.  The kernel refuses a        *)
(* mapping of no length; of the errors only -1, which is -EPERM, is noticed.*)
MapOutcomes(n) ==
  {[at |-> x, total |-> 0] : x \in {NoSite, Fault}} \cup
  {[at |-> m, total |-> MapTotal(n)] :
     m \in {x \in MapSites : mapping[x] = 0 /\ MapTotal(n) > 0}}

BrkOutcomes(n) ==
  {[at |-> NoSite, total |-> 0]} \cup
  IF intact
  THEN {[at |-> b, total |-> t] : b \in {x \in BrkSites : hdr[x] = 0}, t \in BrkTotals(n)}
  ELSE {[at |-> b, total |-> 0] : b \in BrkSites}

Outcomes(n) ==
  IF n = 0 THEN {[at |-> NoSite, total |-> 0]}
  ELSE IF n >= MMAP_LIMIT THEN MapOutcomes(n) ELSE BrkOutcomes(n)

(* What may be read as the size of the block that s holds.                  *)
HeaderSizes(s) ==
  IF s \notin Live THEN {}
  ELSE IF slot[s].at \in BrkSites /\ ~intact THEN AnySizes
  ELSE {hdr[slot[s].at]}

(* Slip: a mapping is recognised by the size of the block alone.            *)
BadIsMapped(at, v) == v >= MMAP_LIMIT

(* free looks at the size v and at whether the block is outside of the heap.*)
IsMapped(at, v) == v >= MMAP_LIMIT /\ at \notin BrkSites

-----------------------------------------------------------------------------
(* The headers and the kernel's mappings after malloc came to o.            *)
Placed(o)  == IF o.at \in Sites THEN [hdr EXCEPT ![o.at] = o.total] ELSE hdr
Granted(o) == IF o.at \in MapSites THEN [mapping EXCEPT ![o.at] = o.total] ELSE mapping

(* The same after free(at), which read the size v: munmap of that much, or  *)
(* brk_release.  munmap refuses an address that no page starts at.          *)
Released(h, at, v) ==
  IF IsMapped(at, v) /\ at \notin MapSites THEN h ELSE [h EXCEPT ![at] = 0]
Unmapped(m, at, v) ==
  IF IsMapped(at, v) /\ at \in MapSites THEN [m EXCEPT ![at] = @ - v] ELSE m

(* The steps of the brk tier that may be the first to damage its tags: it   *)
(* grows, or takes a block back (DamageBegins of Heap).                     *)
Grows(n, o)  == o.at \in BrkSites /\ o.total = GrownTotal(n)
Returns(at)  == at \in BrkSites

(* The headers become h; damaging says whether the step may damage tags.    *)
SetHeaders(h, damaging) ==
  /\ intact' \in IF damaging THEN {intact, FALSE} ELSE {intact}
  /\ hdr' = [a \in Sites |-> IF a \in BrkSites /\ ~intact' THEN 0 ELSE h[a]]

(* The header is written through -errno.                                    *)
Die == alive' = FALSE /\ UNCHANGED <<hdr, mapping, slot, intact>>

(* s becomes the result of an allocation of which the client uses n, the    *)
(* first k of them filled.                                                  *)
Assign(s, o, n, k) ==
  slot' = [slot EXCEPT ![s] =
             IF o.at = NoSite THEN NULL ELSE [at |-> o.at, len |-> n, kept |-> k]]

Init ==
  /\ hdr = [a \in Sites |-> 0] /\ mapping = [m \in MapSites |-> 0]
  /\ slot = [s \in Slots |-> NULL] /\ alive = TRUE /\ intact = TRUE

(* malloc(n) came to o; the client counts on len of it, k of them filled.   *)
Answer(s, n, o, len, k) ==
  \/ o.at = Fault /\ Die
  \/ /\ o.at # Fault
     /\ Assign(s, o, len, k)
     /\ SetHeaders(Placed(o), Grows(n, o)) /\ mapping' = Granted(o) /\ UNCHANGED alive

Malloc(s, n) ==
  /\ alive /\ s \notin Live
  /\ \E o \in Outcomes(n) : Answer(s, n, o, n, 0)

Free(s) ==
  LET at == slot[s].at IN
  /\ alive
  /\ \E v \in HeaderSizes(s) :
       /\ SetHeaders(Released(hdr, at, v), Returns(at))
       /\ mapping' = Unmapped(mapping, at, v)
  /\ slot' = [slot EXCEPT ![s] = NULL] /\ UNCHANGED alive

(* Slip: no check of the product.                                           *)
BadOverflows(n, sz) == FALSE

(* n != 0 && total / n != sz.                                               *)
Overflows(n, sz) == n # 0 /\ ((n * sz) % WORD) \div n # sz

(* The client counts on n * sz zeros, however the product is computed.      *)
Calloc(s, n, sz) ==
  LET total == (n * sz) % WORD IN
  /\ alive /\ s \notin Live
  /\ \/ Overflows(n, sz) /\ UNCHANGED vars
     \/ ~Overflows(n, sz) /\ \E o \in Outcomes(total) : Answer(s, total, o, n * sz, total)

(* Slip: one word too many taken off.                                       *)
BadOldSize(v) == (v - OVERHEAD - HDR_SZ) % WORD

(* old_sz, where the header says v: the payload of a block of the brk heap, *)
(* for a mapping too.  Damaged tags may say less than OVERHEAD.             *)
OldSize(v) == IF v < OVERHEAD THEN v - OVERHEAD + WORD ELSE v - OVERHEAD

(* Slip: a whole old block is copied, however small the new one is.         *)
BadCopied(v, newsz) == OldSize(v)

Copied(v, newsz) == IF OldSize(v) >= MMAP_LIMIT THEN Least(OldSize(v), newsz) ELSE OldSize(v)

InPlace(v, newsz) == OldSize(v) < MMAP_LIMIT /\ newsz <= OldSize(v)

(* realloc(p, 0) and realloc(NULL, n) are Free and Malloc.  In the others v *)
(* is the size realloc reads.                                               *)
ReallocInPlace(s, newsz, v) ==
  /\ alive /\ v \in HeaderSizes(s) /\ newsz # 0 /\ InPlace(v, newsz)
  /\ Assign(s, slot[s], newsz, Least(slot[s].kept, newsz))
  /\ UNCHANGED <<hdr, mapping, alive, intact>>

(* No new block: realloc returns NULL and the client keeps the old one.     *)
ReallocNull(s, newsz, v) ==
  /\ alive /\ v \in HeaderSizes(s) /\ newsz # 0 /\ ~InPlace(v, newsz)
  /\ \E o \in Outcomes(newsz) : o.at = NoSite
  /\ UNCHANGED vars

(* free reads the size again.  It can have changed only in a block of the   *)
(* brk heap, for which IsMapped does not depend on it.                      *)
ReallocMove(s, newsz, v) ==
  LET at == slot[s].at IN
  /\ alive /\ v \in HeaderSizes(s) /\ newsz # 0 /\ ~InPlace(v, newsz)
  /\ \E o \in Outcomes(newsz) :
       \/ o.at = Fault /\ Die
       \/ /\ o.at \in Sites
          /\ Assign(s, o, newsz, Least(Least(slot[s].kept, Copied(v, newsz)), newsz))
          /\ SetHeaders(Released(Placed(o), at, v), Grows(newsz, o) \/ Returns(at))
          /\ mapping' = Unmapped(Granted(o), at, v) /\ UNCHANGED alive

(* The client fills the block up to the size it asked for.                  *)
Fill(s) ==
  /\ alive /\ s \in Live
  /\ slot' = [slot EXCEPT ![s].kept = slot[s].len]
  /\ UNCHANGED <<hdr, mapping, alive, intact>>

Next ==
  \E s \in Slots :
    \/ Free(s) \/ Fill(s)
    \/ \E n \in Sizes : Malloc(s, n)
    \/ \E n \in Sizes, v \in HeaderSizes(s) :
         ReallocInPlace(s, n, v) \/ ReallocNull(s, n, v) \/ ReallocMove(s, n, v)
    \/ \E n \in Counts, sz \in Sizes : Calloc(s, n, sz)

Spec == Init /\ [][Next]_vars

-----------------------------------------------------------------------------
(* Properties.                                                              *)

TypeOK ==
  /\ hdr \in [Sites -> 0 .. WORD] /\ mapping \in [MapSites -> 0 .. WORD]
  /\ slot \in [Slots -> [at : Sites \cup {NoSite}, len : 0 .. WORD, kept : 0 .. WORD]]
  /\ alive \in BOOLEAN /\ intact \in BOOLEAN

(* A block the client can rely on: a mapping always, one of the brk heap as *)
(* long as its tags are sound.                                              *)
Reliable(at, sound) == at \in MapSites \/ sound

(* Every mapping belongs to one variable of the client, and every variable  *)
(* that says so to a mapping: none leaks and none dangles, whichever tier   *)
(* free and realloc take a block for, whatever realloc answers and whatever *)
(* has become of the brk heap.  Blocks of the brk heap do not either, until *)
(* its tags are damaged.                                                    *)
Owned ==
  /\ \A s \in Live : LET at == slot[s].at IN
       Reliable(at, intact) =>
         /\ hdr[at] # 0
         /\ at \in MapSites => mapping[at] = hdr[at]
         /\ \A t \in Live : slot[t].at = at => t = s
  /\ \A b \in BrkSites : hdr[b] # 0 => \E s \in Live : slot[s].at = b
  /\ \A m \in MapSites : mapping[m] # 0 => \E s \in Live : slot[s].at = m

(* What a client may use of a block: a mapping has no footer.               *)
Room(h, at) == IF at \in MapSites THEN h[at] - HDR_SZ ELSE h[at] - OVERHEAD

(* A block has room for what the client counts on, calloc's product and     *)
(* realloc in place included.                                               *)
RoomForRequest ==
  \A s \in Live : Reliable(slot[s].at, intact) => slot[s].len <= Room(hdr, slot[s].at)

(* realloc never copies past the end of the new block, a mapping even when  *)
(* the old size was read from damaged tags.                                 *)
CopyInBounds ==
  [][\A s \in Live, n \in Sizes : \A v \in HeaderSizes(s) :
       alive' /\ Reliable(slot'[s].at, intact') /\ ReallocMove(s, n, v)
         => Copied(v, n) <= Room(hdr', slot'[s].at)]_vars

(* realloc keeps what was stored in a block of the brk heap and loses at    *)
(* most one word of a mapping, whose last word OldSize takes for a footer.  *)
ReallocLosesAWordAtMost ==
  [][\A s \in Live :
       LET lost == IF slot[s].at \in MapSites THEN HDR_SZ ELSE 0 IN
       slot'[s] # slot[s] /\ s \in Live' /\ Reliable(slot[s].at, intact)
         /\ Reliable(slot'[s].at, intact')
         => slot'[s].kept >= Least(slot[s].kept, slot'[s].len) - lost]_vars

-----------------------------------------------------------------------------
(* A claim that the code does not keep.                                     *)

(* heap.c:102 answers NULL when the kernel refuses a mapping: the process   *)
(* survives the refusal, whatever the error.                                *)
SurvivesRefusal == alive
=============================================================================
