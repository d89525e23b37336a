------------------------------- MODULE MCStdio ------------------------------
(* A small instance of Stdio.                                               *)
EXTENDS Stdio

SomeInts == {-128, -7, 0, 127}

SomeChars == {"0", "1", "2", "3", "4", "5", "6", "7", "8", "9", "a", "b", "c", "d", "e", "f",
              "-", "x", "(", "n", "u", "l", ")", "%", "q", ".", "\n"}

SomeStrings == {<<>>, <<"a", "b", "c">>}
=============================================================================
