-------------------------------- MODULE Tier --------------------------------
(***************************************************************************)
(* The brk tier of module Malloc over the boundary tags of module Heap: a  *)
(* step of Heap is a step of Malloc with no mappings.  Malloc counts half  *)
(* words, and knows of a block what the header of a live one says.         *)
(***************************************************************************)
EXTENDS Heap

CONSTANT NoAddr   (* Malloc's NoSite.                                       *)

Headers == {a \in Addr : a % ALIGN = 0}

Api == INSTANCE Malloc WITH
  BrkSites   <- Headers,
  MapSites   <- {},
  NoSite     <- NoAddr,
  Fault      <- NoSlot,
  Sizes      <- {2 * n : n \in Sizes},
  Counts     <- {},
  AnySizes   <- {0},
  PAGE       <- 2 * PAGE,
  MMAP_LIMIT <- 4 * LIMIT,
  WORD       <- 16 * LIMIT,
  hdr        <- [a \in Headers |->
                   IF faults = {} /\ \E s \in Live : HdrOf(slot[s].ptr) = a
                   THEN 2 * mem[a].sz ELSE 0],
  mapping    <- [m \in {} |-> 0],
  slot       <- [s \in Slots |->
                   [at   |-> IF s \in Live THEN HdrOf(slot[s].ptr) ELSE NoAddr,
                    len  |-> 2 * slot[s].len,
                    kept |-> 0]],
  alive      <- TRUE,
  intact     <- faults = {}

(* The heap answers malloc and free as Malloc says of its brk tier.  As long *)
(* as no tag is damaged: with a free site and a block that is exactly what  *)
(* the request needs, or one unit more, or all that the heap grew by, the   *)
(* headers of the other live blocks staying as they are.  The first damage  *)
(* is done by a free or a growth; after it, with some address of the heap.  *)
AnswersAsTier == Api!Spec
=============================================================================
