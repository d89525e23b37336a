------------------------------ MODULE MCStrings -----------------------------
(* A small instance of Strings.                                             *)
EXTENDS Strings

(* Arguments of memset with the same low byte, one of them no byte.         *)
SomeFills == {1, -255}
=============================================================================
