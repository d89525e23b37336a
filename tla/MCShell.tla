------------------------------- MODULE MCShell ------------------------------
(* A small instance of Shell.                                               *)
EXTENDS Shell

(* The search path of shell.c, its empty entry included.                     *)
SearchPath == <<"/bin", "/usr/bin", "/usr/local/bin", NoDir>>

SomeDirs == {"/bin", "/usr/bin", "/usr/local/bin", "/home"}
=============================================================================
