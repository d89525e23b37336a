------------------------------- MODULE Stream -------------------------------
(***************************************************************************)
(* What printf and puts promise of standard output, however they buffer:   *)
(* the text of a call is offered to write once, in order and to its end; a *)
(* short or failed write drops what it was offered; and the call returns.  *)
(***************************************************************************)
EXTENDS Integers, SequencesExt

VARIABLES
  running,   (* Whether a call is running.                                  *)
  text,      (* What the call has to print, as far as it is known.          *)
  offered,   (* How many bytes of text have been offered to write.          *)
  out        (* Those of them that were taken.                              *)

vars == <<running, text, offered, out>>

Init == ~running /\ text = <<>> /\ offered = 0 /\ out = <<>>

(* From what has been offered and taken so far, t and o, the call may learn *)
(* more of its text, offer the next part of it, and return when all is done. *)
Goes(t, k, o) ==
  /\ IsPrefix(t, text')
  /\ \E n \in k .. Len(text') :
       /\ offered' = n
       /\ \E taken \in k .. n : out' = o \o SubSeq(text', k + 1, taken)
  /\ ~running' => offered' = Len(text')

Begin == ~running /\ Goes(<<>>, 0, <<>>)

Continue == running /\ Goes(text, offered, out)

Next == Begin \/ Continue

Spec == Init /\ [][Next]_vars /\ []<>~running
=============================================================================
