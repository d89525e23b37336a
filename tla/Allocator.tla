----------------------------- MODULE Allocator ------------------------------
(***************************************************************************)
(* What malloc and free promise to their caller, whatever the structure of *)
(* the heap: a request is answered with words no other live pointer owns,  *)
(* or refused; a pointer stays valid and keeps its extent until it is      *)
(* freed.                                                                  *)
(***************************************************************************)
EXTENDS Integers

CONSTANTS
  Slots,   (* The pointer variables of the client.                         *)
  Sizes,   (* Request sizes, in words.                                     *)
  LIMIT    (* No word at or above this address is ever handed out.         *)

VARIABLE slot

NULL == [ptr |-> 0, len |-> 0]

Live == {s \in Slots : slot[s].ptr # 0}

Extent(v) == v.ptr .. v.ptr + v.len - 1

Init == slot = [s \in Slots |-> NULL]

Grant(s, n) ==
  /\ slot[s] = NULL
  /\ \E p \in 1 .. LIMIT - n :
       LET new == [ptr |-> p, len |-> n] IN
       /\ \A t \in Live : Extent(slot[t]) \cap Extent(new) = {}
       /\ slot' = [slot EXCEPT ![s] = new]

Drop(s) == s \in Live /\ slot' = [slot EXCEPT ![s] = NULL]

Next == \E s \in Slots : Drop(s) \/ \E n \in Sizes : Grant(s, n)

Spec == Init /\ [][Next]_slot
=============================================================================
