---------------------------- MODULE StdioProofs -----------------------------
(* Theorems about printf and puts: buffers of every size, any strings and    *)
(* numbers, formats of any length, and whatever write answers.               *)
EXTENDS Stdio, SequenceTheorems, NaturalsInduction, WellFoundedInduction, TLAPS

(* Where a call has nothing left to print.                                   *)
Held ==
  /\ pc \in {"idle", "newline"} => buf = <<>>
  /\ pc \in {"idle", "fmt"} => todo = <<>>
  /\ pc = "newline" => todo = <<"\n">>

(* str_reverse stays within the digits.                                      *)
Reversing == l >= 1 /\ (pc = "reverse" => r <= Len(num))

(* Three parts of a text, one behind the other.                              *)
InTurn(g, b, d) == g \o (b \o d)

(* The text of a call is what has been offered to write, then what is in the *)
(* buffer, then what is still to be buffered; and stdout has all that has    *)
(* been offered, or some of it is lost.                                      *)
Accounts ==
  \E given \in Chars :
    /\ text = InTurn(given, buf, todo)
    /\ Len(given) = Len(out) + lost
    /\ lost = 0 => out = given

(* What a call has counted so far.                                           *)
Counts ==
  /\ pc \notin {"idle", "newline"} => total = Len(out)
  /\ pc = "newline" /\ ret >= 0 => ret = Len(out)

(* The inductive invariant.                                                  *)
PInv == TypeOK /\ Held /\ Reversing /\ Accounts /\ Counts /\ ReturnsWritten
-----------------------------------------------------------------------------
(* Concatenation, for the sequences of this model.                           *)
LEMMA Assoc == \A s, t, u \in Chars : (s \o t) \o u = s \o (t \o u)
BY ConcatAssociative DEF Chars

(* The length of a concatenation, and the empty one.                         *)
LEMMA Concat ==
  \A s, t \in Chars : /\ s \o t \in Chars /\ Len(s \o t) = Len(s) + Len(t)
                      /\ Len(s) \in Nat /\ s \o <<>> = s /\ <<>> \o s = s /\ <<>> \in Chars
BY ConcatProperties, ConcatEmptySeq, LenProperties DEF Chars

(* A call of write takes the first bytes of s, and the rest of s is lost.    *)
LEMMA WritesFacts ==
  ASSUME NEW s \in Chars, NEW k \in -1 .. Len(s), out \in Chars, lost \in Nat, Writes(s, k)
  PROVE  /\ out' \in Chars /\ Counted(k) \in Nat /\ Len(out') = Len(out) + Counted(k)
         /\ Counted(k) <= Len(s) /\ out' = out \o SubSeq(s, 1, Counted(k))
         /\ lost' \in Nat /\ Len(out') + lost' = Len(out) + lost + Len(s)
         /\ lost' = 0 => lost = 0 /\ out' = out \o s
<1>1. Len(s) \in Nat /\ k \in Int /\ k <= Len(s) /\ s \in Seq(Char) /\ out \in Seq(Char)
      /\ Len(out) \in Nat
  BY DEF Chars
<1>2. Counted(k) \in Nat /\ Counted(k) <= Len(s) /\ (k > 0 => Counted(k) = k)
      /\ (k <= 0 => Counted(k) = 0)
  BY <1>1 DEF Counted
<1>3. SubSeq(s, 1, k) = SubSeq(s, 1, Counted(k))
  <2>1. CASE k > 0
    <3>1. Counted(k) = k
      BY <2>1 DEF Counted
    <3> QED BY <3>1, Zenon
  <2>2. CASE k <= 0
    <3>1. SubSeq(s, 1, k) = <<>> /\ SubSeq(s, 1, Counted(k)) = <<>>
      BY <1>1, <1>2, <2>2, SubSeqEmpty
    <3> QED BY <3>1, Zenon
  <2>3. k > 0 \/ k <= 0
    BY <1>1
  <2> QED BY <2>1, <2>2, <2>3, Zenon
<1>4. SubSeq(s, 1, Counted(k)) \in Seq(Char) /\ Len(SubSeq(s, 1, Counted(k))) = Counted(k)
  <2>1. \A i \in 1 .. Counted(k) : s[i] \in Char
    BY <1>1, <1>2, ElementOfSeq
  <2> QED BY <1>2, <2>1, SubSeqProperties
<1>5. out' = out \o SubSeq(s, 1, Counted(k)) /\ lost' = lost + Len(s) - Counted(k)
  BY <1>3 DEF Writes, Counted
<1>6. out' \in Seq(Char) /\ Len(out') = Len(out) + Counted(k)
  BY <1>1, <1>4, <1>5, ConcatProperties
<1>7. lost' \in Nat /\ Len(out') + lost' = Len(out) + lost + Len(s)
  BY <1>1, <1>2, <1>5, <1>6
<1>8. ASSUME lost' = 0 PROVE lost = 0 /\ out' = out \o s
  <2>1. lost = 0 /\ Counted(k) = Len(s)
    BY <1>1, <1>2, <1>5, <1>8
  <2>2. SubSeq(s, 1, Len(s)) = s
    BY <1>1, SubSeqFull
  <2> QED BY <1>5, <2>1, <2>2
<1> QED BY <1>2, <1>5, <1>6, <1>7, <1>8 DEF Chars

(* Text that is added at the end comes after everything that waits.          *)
LEMMA Grows ==
  ASSUME NEW g \in Chars, NEW b \in Chars, NEW d \in Chars, NEW s \in Chars
  PROVE  InTurn(g, b, d) \o s = InTurn(g, b, d \o s)
<1>1. b \o d \in Chars /\ d \o s \in Chars
  BY Concat
<1>2. (g \o (b \o d)) \o s = g \o ((b \o d) \o s)
  BY <1>1, Assoc, ZenonT(60)
<1>3. (b \o d) \o s = b \o (d \o s)
  BY Assoc
<1> QED BY <1>2, <1>3 DEF InTurn

(* What write has been given joins what it was given before.                 *)
LEMMA Offers ==
  ASSUME NEW s \in Chars, NEW k \in -1 .. Len(s), out \in Chars, lost \in Nat, Writes(s, k),
         NEW rest \in Chars, NEW given \in Chars,
         text = given \o (s \o rest), Len(given) = Len(out) + lost,
         lost = 0 => out = given,
         text' = text, buf' \o todo' = rest
  PROVE  Accounts'
<1>1. /\ Len(out') + lost' = Len(out) + lost + Len(s)
      /\ lost' = 0 => lost = 0 /\ out' = out \o s
  BY WritesFacts
<1>2. given \o s \in Chars /\ Len(given \o s) = Len(given) + Len(s)
  BY ConcatProperties DEF Chars
<1>3. given \o (s \o rest) = (given \o s) \o rest
  BY Assoc
<1>4. text' = InTurn(given \o s, buf', todo')
  BY <1>3 DEF InTurn
<1> QED BY <1>1, <1>2, <1>4 DEF Accounts

-----------------------------------------------------------------------------
(* The texts of a format are sequences of characters.                        *)
LEMMA TextFacts ==
  /\ NullText \in Chars /\ <<"%">> \in Chars /\ <<"%", "q">> \in Chars /\ <<".">> \in Chars
  /\ <<"-">> \in Chars /\ <<"0", "x">> \in Chars /\ <<>> \in Chars /\ <<"0">> \in Chars
  /\ <<"\n">> \in Chars /\ Len(<<"\n">>) = 1 /\ Strings \subseteq Chars
  /\ Glyphs \in Chars /\ Len(Glyphs) = 16
<1>1. Strings \subseteq Chars
  BY StdioAssumption DEF Chars
<1>2. {"0", "1", "2", "3", "4", "5", "6", "7", "8", "9", "a", "b", "c", "d", "e", "f",
       "-", "x", "(", "n", "u", "l", ")", "%", "q", ".", "\n"} \subseteq Char
  BY StdioAssumption
<1>3. Glyphs \in Chars /\ Len(Glyphs) = 16
  BY <1>2 DEF Glyphs, Chars
<1>4. NullText \in Chars
  BY <1>2 DEF NullText, Chars
<1>5. /\ <<"%">> \in Chars /\ <<"%", "q">> \in Chars /\ <<".">> \in Chars
      /\ <<"-">> \in Chars /\ <<"0", "x">> \in Chars /\ <<>> \in Chars /\ <<"0">> \in Chars
      /\ <<"\n">> \in Chars /\ Len(<<"\n">>) = 1
  BY <1>2 DEF Chars
<1> QED BY <1>1, <1>3, <1>4, <1>5

(* A call begins with nothing printed.                                       *)
LEMMA PrintfKept == ASSUME PInv, Printf PROVE PInv'
<1>1. todo = <<>> /\ todo' = <<>> /\ buf' = <<>> /\ total' = 0 /\ ret' = 0 /\ out' = <<>>
      /\ text' = <<>> /\ lost' = 0 /\ pc' = "fmt" /\ left' \in 0 .. MaxFmt
      /\ UNCHANGED conv
  BY DEF PInv, Held, Printf
<1>2. UNCHANGED <<val, base, num, l, r, arg>>
  BY <1>1 DEF conv
<1>3. <<>> \in Chars /\ Len(<<>>) = 0 /\ <<>> = <<>> \o (<<>> \o <<>>)
  BY TextFacts, Concat
<1>4. TypeOK'
  BY <1>1, <1>2, <1>3, StdioAssumption DEF PInv, TypeOK
<1>5. Accounts'
  BY <1>1, <1>3 DEF Accounts, InTurn
<1>6. Counts' /\ Held' /\ ReturnsWritten'
  BY <1>1, <1>3 DEF Counts, Held, ReturnsWritten
<1>7. Reversing'
  BY <1>1, <1>2 DEF PInv, Reversing
<1> QED BY <1>4, <1>5, <1>6, <1>7 DEF PInv

(* A directive adds its text behind everything that waits.                   *)
LEMMA TextAdded ==
  ASSUME Accounts, buf \in Chars, todo \in Chars, NEW s \in Chars, todo' = todo \o s,
         text' = text \o s, buf' = buf, out' = out, lost' = lost
  PROVE  Accounts'
<1>1. PICK given \in Chars : /\ text = InTurn(given, buf, todo)
                             /\ Len(given) = Len(out) + lost /\ (lost = 0 => out = given)
  BY DEF Accounts
<1>2. text' = InTurn(given, buf', todo')
  BY <1>1, Grows, ZenonT(60)
<1> QED BY <1>1, <1>2 DEF Accounts

(* Characters without a conversion.                                          *)
LEMMA EmitKept == ASSUME PInv, NEW s \in Chars, Emit(s) PROVE PInv'
<1>1. /\ pc = "fmt" /\ pc' = "emit" /\ left \in Nat /\ left > 0 /\ left' = left - 1
      /\ todo' = s /\ text' = text \o s /\ todo = <<>> /\ ret' = ret
      /\ UNCHANGED <<buf, total, out, lost, val, base, num, l, r, arg>>
  BY DEF PInv, TypeOK, Held, Emit, Directive, io, ctx, conv
<1>2. todo' = todo \o s /\ text' \in Chars
  BY <1>1, Concat DEF PInv, TypeOK
<1>3. Accounts'
  BY <1>1, <1>2, TextAdded DEF PInv, TypeOK
<1>4. left' \in 0 .. MaxFmt
  BY <1>1, StdioAssumption DEF PInv, TypeOK
<1>5. TypeOK'
  BY <1>1, <1>2, <1>4 DEF PInv, TypeOK
<1>6. Held' /\ Counts' /\ Reversing' /\ ReturnsWritten'
  BY <1>1 DEF PInv, Held, Counts, Reversing, ReturnsWritten
<1> QED BY <1>3, <1>5, <1>6 DEF PInv

(* The digits of a number, behind a prefix.                                  *)
LEMMA NumberKept ==
  ASSUME PInv, NEW prefix \in Chars, NEW v \in Nat, NEW b \in {10, 16}, NEW x \in Int,
         Number(prefix, v, b, x)
  PROVE  PInv'
<1>1. /\ pc = "fmt" /\ left \in Nat /\ left > 0 /\ left' = left - 1
      /\ todo' = prefix /\ text' = text \o prefix /\ todo = <<>> /\ ret' = ret
      /\ base' = b /\ arg' = x
      /\ UNCHANGED <<buf, total, out, lost, l, r>>
  BY DEF PInv, TypeOK, Held, Number, Directive, io, ctx
<1>2. pc' \in {"number", "digits"} /\ num' \in Chars /\ val' \in Nat
  BY TextFacts DEF Number
<1>3. todo' = todo \o prefix /\ text' \in Chars
  BY <1>1, Concat DEF PInv, TypeOK
<1>4. Accounts'
  BY <1>1, <1>3, TextAdded DEF PInv, TypeOK
<1>5. left' \in 0 .. MaxFmt
  BY <1>1, StdioAssumption DEF PInv, TypeOK
<1>6. TypeOK'
  BY <1>1, <1>2, <1>3, <1>5 DEF PInv, TypeOK
<1>7. Held' /\ Counts' /\ Reversing' /\ ReturnsWritten'
  BY <1>1, <1>2 DEF PInv, Held, Counts, Reversing, ReturnsWritten
<1> QED BY <1>4, <1>6, <1>7 DEF PInv

(* The remainder of a division by WORD is a natural number.                  *)
LEMMA Residue == \A v \in Int : v % WORD \in Nat
BY StdioAssumption

(* A numeric directive.                                                      *)
LEMMA NumericKept == ASSUME PInv, Numeric PROVE PInv'
<1>1. PICK v \in Ints : LET u == v % WORD IN
        \/ Signed(v) \/ Number(<<>>, u, 10, u) \/ Number(<<>>, u, 16, u)
        \/ Number(<<"0", "x">>, u, 16, u)
  BY DEF Numeric
<1>2. v \in Int /\ v % WORD \in Nat /\ v % WORD \in Int
  BY Residue, StdioAssumption
<1>3. CASE Signed(v)
  <2>1. CASE v < 0
    <3>1. ((-(v + 1)) % WORD) + 1 \in Nat
      BY <1>2, Residue
    <3>2. Number(<<"-">>, ((-(v + 1)) % WORD) + 1, 10, v)
      BY <1>3, <2>1 DEF Signed
    <3> QED BY <1>2, <3>1, <3>2, TextFacts, NumberKept
  <2>2. CASE ~ (v < 0)
    <3>1. v \in Nat /\ Number(<<>>, v, 10, v)
      BY <1>2, <1>3, <2>2 DEF Signed
    <3> QED BY <1>2, <3>1, TextFacts, NumberKept
  <2> QED BY <2>1, <2>2
<1>4. CASE LET u == v % WORD IN
           Number(<<>>, u, 10, u) \/ Number(<<>>, u, 16, u) \/ Number(<<"0", "x">>, u, 16, u)
  BY <1>2, <1>4, TextFacts, NumberKept
<1> QED BY <1>1, <1>3, <1>4
-----------------------------------------------------------------------------
(* A step that only works on the digits.                                     *)
LEMMA DigitsKept ==
  ASSUME PInv, pc \in {"digits", "reverse"}, pc' \in {"digits", "reverse"},
         num' \in Chars, val' \in Nat, l' \in Nat, r' \in Nat, Reversing',
         UNCHANGED <<left, io, base, arg, todo, ret, text>>
  PROVE  PInv'
<1>1. UNCHANGED <<left, buf, total, out, lost, base, arg, todo, ret, text>>
  BY DEF io, ctx
<1>2. TypeOK'
  BY <1>1 DEF PInv, TypeOK
<1>3. Accounts'
  BY <1>1 DEF PInv, Accounts
<1>4. Held' /\ Counts' /\ ReturnsWritten'
  BY <1>1 DEF PInv, Held, Counts, ReturnsWritten
<1> QED BY <1>2, <1>3, <1>4 DEF PInv

(* A digit of utoa or xtoa.                                                  *)
LEMMA DigitKept == ASSUME PInv, Digit PROVE PInv'
<1>1. /\ pc = "digits" /\ pc' = "digits" /\ num \in Chars /\ val \in Nat /\ base \in {10, 16}
      /\ num' = Append(num, Glyphs[(val % base) + 1]) /\ val' = val \div base
      /\ UNCHANGED <<left, io, base, l, r, arg, todo, ret, text>>
  BY DEF PInv, TypeOK, Digit
<1>2. val' \in Nat /\ (val % base) + 1 \in 1 .. 16
  <2>1. CASE base = 10
    BY <1>1, <2>1
  <2>2. CASE base = 16
    BY <1>1, <2>2
  <2> QED BY <1>1, <2>1, <2>2
<1>3. Glyphs[(val % base) + 1] \in Char
  BY <1>2, TextFacts, ElementOfSeq DEF Chars
<1>4. num' \in Chars
  BY <1>1, <1>3, AppendProperties DEF Chars
<1>5. Reversing' /\ l' \in Nat /\ r' \in Nat
  BY <1>1 DEF PInv, TypeOK, Reversing
<1> QED BY <1>1, <1>2, <1>4, <1>5, DigitsKept

(* The last digit has been written.                                          *)
LEMMA DigitsEndKept == ASSUME PInv, DigitsEnd PROVE PInv'
<1>1. /\ pc = "digits" /\ pc' = "reverse" /\ l' = 1 /\ r' = Len(num) /\ num' = num /\ val' = val
      /\ UNCHANGED <<left, io, base, arg, todo, ret, text>>
  BY DEF DigitsEnd
<1>2. num \in Chars /\ val \in Nat /\ Len(num) \in Nat
  BY Concat DEF PInv, TypeOK
<1>3. Reversing' /\ l' \in Nat /\ r' \in Nat
  BY <1>1, <1>2 DEF Reversing
<1> QED BY <1>1, <1>2, <1>3, DigitsKept

(* str_reverse exchanges two digits.                                         *)
LEMMA SwapKept == ASSUME PInv, Swap PROVE PInv'
<1>1. /\ pc = "reverse" /\ pc' = "reverse" /\ l < r /\ l' = l + 1 /\ r' = r - 1 /\ val' = val
      /\ num' = [num EXCEPT ![l] = num[r], ![r] = num[l]]
      /\ UNCHANGED <<left, io, base, arg, todo, ret, text>>
  BY DEF Swap
<1>2. /\ num \in Seq(Char) /\ Len(num) \in Nat /\ val \in Nat /\ l \in Nat /\ r \in Nat
      /\ l >= 1 /\ r <= Len(num)
  BY <1>1, Concat DEF PInv, TypeOK, Reversing, Chars
<1>3. l \in 1 .. Len(num) /\ r \in 1 .. Len(num)
  BY <1>1, <1>2
<1>4. num[l] \in Char /\ num[r] \in Char
  BY <1>2, <1>3, ElementOfSeq
<1>5. num' \in Seq(Char) /\ Len(num') = Len(num)
  <2> DEFINE h == [num EXCEPT ![l] = num[r]]
  <2>1. h \in Seq(Char) /\ Len(h) = Len(num)
    BY <1>2, <1>3, <1>4, ExceptSeq
  <2>2. [h EXCEPT ![r] = num[l]] \in Seq(Char) /\ Len([h EXCEPT ![r] = num[l]]) = Len(h)
    BY <1>3, <1>4, <2>1, ExceptSeq
  <2> QED BY <1>1, <2>1, <2>2
<1>6. Reversing' /\ l' \in Nat /\ r' \in Nat
  BY <1>1, <1>2, <1>5 DEF Reversing
<1> QED BY <1>1, <1>2, <1>5, <1>6, DigitsKept DEF Chars

(* The digits follow the prefix.                                             *)
LEMMA NumberDoneKept == ASSUME PInv, NumberDone PROVE PInv'
<1>1. /\ pc \in {"number", "reverse"} /\ pc' = "emit" /\ todo' = todo \o num
      /\ text' = text \o num /\ ret' = ret /\ num \in Chars /\ text \in Chars /\ todo \in Chars
      /\ UNCHANGED <<left, buf, total, out, lost, val, base, num, l, r, arg>>
  BY DEF PInv, TypeOK, NumberDone, io, ctx, conv
<1>2. todo' \in Chars /\ text' \in Chars
  BY <1>1, Concat
<1>3. Accounts'
  BY <1>1, TextAdded DEF PInv, TypeOK
<1>4. TypeOK'
  BY <1>1, <1>2 DEF PInv, TypeOK
<1>5. Held' /\ Counts' /\ Reversing' /\ ReturnsWritten'
  BY <1>1 DEF PInv, Held, Counts, Reversing, ReturnsWritten
<1> QED BY <1>3, <1>4, <1>5 DEF PInv

(* The first character of a text that is not empty.                          *)
LEMMA FirstOf ==
  ASSUME NEW d \in Chars, d # <<>>
  PROVE  /\ <<Head(d)>> \in Chars /\ Len(<<Head(d)>>) = 1 /\ Head(d) \in Char
         /\ Tail(d) \in Chars /\ <<Head(d)>> \o Tail(d) = d
<1>1. Head(d) \in Char /\ Tail(d) \in Seq(Char) /\ Len(Tail(d)) = Len(d) - 1
      /\ \A i \in 1 .. Len(Tail(d)) : Tail(d)[i] = d[i + 1]
  BY HeadTailProperties DEF Chars
<1>2. <<Head(d)>> \in Seq(Char) /\ Len(<<Head(d)>>) = 1 /\ <<Head(d)>>[1] = d[1]
  BY <1>1 DEF Chars
<1>3. Len(d) \in Nat /\ d \in Seq(Char)
  BY Concat DEF Chars
<1>4. <<Head(d)>> \o Tail(d) \in Seq(Char) /\ Len(<<Head(d)>> \o Tail(d)) = Len(d)
  BY <1>1, <1>2, <1>3, ConcatProperties
<1>5. ASSUME NEW i \in 1 .. Len(d) PROVE (<<Head(d)>> \o Tail(d))[i] = d[i]
  <2>1. (<<Head(d)>> \o Tail(d))[i] = IF i <= 1 THEN <<Head(d)>>[i] ELSE Tail(d)[i - 1]
    BY <1>1, <1>2, <1>3, <1>5, ConcatProperties
  <2>2. CASE i = 1
    BY <1>2, <2>1, <2>2
  <2>3. CASE i # 1
    <3>1. i - 1 \in 1 .. Len(Tail(d)) /\ ~(i <= 1)
      BY <1>1, <1>3, <1>5, <2>3
    <3> QED BY <1>1, <1>3, <2>1, <3>1
  <2> QED BY <2>2, <2>3
<1>6. <<Head(d)>> \o Tail(d) = d
  BY <1>3, <1>4, <1>5, SeqEqual
<1> QED BY <1>1, <1>2, <1>6 DEF Chars
-----------------------------------------------------------------------------
(* The buffer is handed to write, and rest takes its place; d, what is still *)
(* to come, is rest and what follows it.                                     *)
LEMMA DrainFacts ==
  ASSUME PInv, NEW rest \in Chars, Drain(rest), rest \o todo' = todo, text' = text,
         todo' \in Chars
  PROVE  /\ buf' = rest /\ out' \in Chars /\ lost' \in Nat /\ total' \in Nat /\ Accounts'
         /\ pc \notin {"idle", "newline"} => total' = Len(out')
<1>1. PICK k \in -1 .. Len(buf) : Writes(buf, k) /\ total' = total + Counted(k) /\ buf' = rest
  BY DEF Drain
<1>2. buf \in Chars /\ todo \in Chars /\ out \in Chars /\ lost \in Nat /\ total \in Nat
  BY DEF PInv, TypeOK
<1>3. /\ out' \in Chars /\ Counted(k) \in Nat /\ Len(out') = Len(out) + Counted(k) /\ lost' \in Nat
  BY <1>1, <1>2, WritesFacts
<1>4. PICK given \in Chars : /\ text = InTurn(given, buf, todo)
                             /\ Len(given) = Len(out) + lost /\ (lost = 0 => out = given)
  BY DEF PInv, Accounts
<1>5. text = given \o (buf \o todo)
  BY <1>4 DEF InTurn
<1>6. Accounts'
  BY <1>1, <1>2, <1>4, <1>5, Offers
<1>7. total' \in Nat /\ (pc \notin {"idle", "newline"} => total' = Len(out'))
  BY <1>1, <1>2, <1>3 DEF PInv, Counts
<1> QED BY <1>1, <1>3, <1>6, <1>7

(* A character goes to the buffer, which is emptied first when it is full.   *)
LEMMA PutcKept == ASSUME PInv, Putc PROVE PInv'
<1>1. /\ pc = "emit" /\ pc' = "emit" /\ todo \in Chars /\ todo # <<>> /\ todo' = Tail(todo)
      /\ buf \in Chars /\ text' = text /\ ret' = ret
      /\ UNCHANGED <<left, val, base, num, l, r, arg>>
  BY DEF PInv, TypeOK, Putc, conv
<1>2. /\ <<Head(todo)>> \in Chars /\ Len(<<Head(todo)>>) = 1 /\ Head(todo) \in Char
      /\ todo' \in Chars /\ <<Head(todo)>> \o todo' = todo
  BY <1>1, FirstOf
<1>3. BUF \in Nat /\ BUF > 1 /\ Len(buf) \in Nat
  BY <1>1, Concat, StdioAssumption
<1>4. CASE Full /\ Drain(<<Head(todo)>>)
  <2>1. /\ buf' = <<Head(todo)>> /\ out' \in Chars /\ lost' \in Nat /\ total' \in Nat /\ Accounts'
        /\ total' = Len(out')
    BY <1>1, <1>2, <1>4, DrainFacts
  <2>2. TypeOK'
    BY <1>1, <1>2, <1>3, <2>1 DEF PInv, TypeOK
  <2>3. Held' /\ Counts' /\ Reversing' /\ ReturnsWritten'
    BY <1>1, <2>1 DEF PInv, Held, Counts, Reversing, ReturnsWritten
  <2> QED BY <2>1, <2>2, <2>3 DEF PInv
<1>5. CASE ~Full /\ buf' = Append(buf, Head(todo)) /\ UNCHANGED <<total, out, lost>>
  <2>1. buf' = buf \o <<Head(todo)>> /\ buf' \in Chars /\ Len(buf') = Len(buf) + 1
    BY <1>1, <1>2, <1>5, AppendIsConcat, AppendProperties DEF Chars
  <2>2. Len(buf') <= BUF
    BY <1>3, <1>5, <2>1 DEF Full
  <2>3. buf' \o todo' = buf \o todo
    BY <1>1, <1>2, <2>1, Assoc, SMTT(30)
  <2>4. Accounts'
    BY <1>1, <1>5, <2>3 DEF PInv, Accounts, InTurn
  <2>5. TypeOK'
    BY <1>1, <1>2, <1>5, <2>1, <2>2 DEF PInv, TypeOK
  <2>6. Held' /\ Counts' /\ Reversing' /\ ReturnsWritten'
    BY <1>1, <1>5 DEF PInv, Held, Counts, Reversing, ReturnsWritten
  <2> QED BY <2>4, <2>5, <2>6 DEF PInv
<1> QED BY <1>4, <1>5 DEF Putc

(* The next directive.                                                       *)
LEMMA DirectiveEndsKept == ASSUME PInv, DirectiveEnds PROVE PInv'
<1>1. /\ pc = "emit" /\ pc' = "fmt" /\ todo = <<>> /\ todo' = todo
      /\ num' = <<>> /\ l' = 1 /\ r' = 0 /\ base' = 10 /\ arg' = 0
      /\ UNCHANGED <<left, buf, total, out, lost, val, ret, text>>
  BY DEF DirectiveEnds, io, ctx
<1>2. TypeOK'
  BY <1>1, TextFacts DEF PInv, TypeOK
<1>3. Accounts'
  BY <1>1 DEF PInv, Accounts
<1>4. Held' /\ Counts' /\ Reversing' /\ ReturnsWritten'
  BY <1>1 DEF PInv, Held, Counts, Reversing, ReturnsWritten
<1> QED BY <1>2, <1>3, <1>4 DEF PInv

(* printf returns what it has counted.                                       *)
LEMMA PrintfEndsKept == ASSUME PInv, PrintfEnds PROVE PInv'
<1>1. /\ pc = "fmt" /\ pc' = "idle" /\ todo = <<>> /\ todo' = todo /\ ret' = total' /\ text' = text
      /\ UNCHANGED <<left, val, base, num, l, r, arg>>
  BY DEF PInv, Held, PrintfEnds, conv
<1>2. <<>> \in Chars /\ <<>> \o todo' = todo /\ Len(<<>>) = 0
  BY <1>1, TextFacts, Concat
<1>3. /\ buf' = <<>> /\ out' \in Chars /\ lost' \in Nat /\ total' \in Nat /\ Accounts'
      /\ total' = Len(out')
  <2>1. CASE buf = <<>> /\ UNCHANGED io
    <3>1. UNCHANGED <<buf, total, out, lost>>
      BY <2>1 DEF io, ctx
    <3> QED BY <1>1, <2>1, <3>1 DEF PInv, TypeOK, Accounts, Counts
  <2>2. CASE Drain(<<>>)
    BY <1>1, <1>2, <2>2, DrainFacts
  <2> QED BY <2>1, <2>2 DEF PrintfEnds
<1>4. TypeOK'
  BY <1>1, <1>2, <1>3, StdioAssumption DEF PInv, TypeOK
<1>5. Held' /\ Counts' /\ Reversing' /\ ReturnsWritten'
  BY <1>1, <1>3 DEF PInv, Held, Counts, Reversing, ReturnsWritten
<1> QED BY <1>3, <1>4, <1>5 DEF PInv
-----------------------------------------------------------------------------
(* puts writes s and has rest to write.                                      *)
LEMMA PutsFacts ==
  ASSUME PInv, pc = "idle", NEW s \in Chars, NEW k \in Int, NEW rest \in Chars,
         PutsWrites(s, k, rest)
  PROVE  /\ out' \in Chars /\ Len(out') = Counted(k) /\ lost' \in Nat /\ Accounts'
         /\ todo' = rest /\ text' = s \o rest /\ text' \in Chars /\ buf = <<>>
         /\ k \in -1 .. Len(s)
         /\ UNCHANGED <<left, buf, total, val, base, num, l, r, arg>>
<1>1. /\ k \in -1 .. Len(s) /\ out' = SubSeq(s, 1, k) /\ lost' = Len(s) - Counted(k)
      /\ todo' = rest /\ text' = s \o rest /\ buf = <<>>
      /\ UNCHANGED <<left, buf, total, val, base, num, l, r, arg>>
  BY DEF PInv, Held, PutsWrites, ctx, conv, Counted
<1>2. Len(s) \in Nat /\ s \in Seq(Char) /\ s \o rest \in Chars
  BY Concat DEF Chars
<1>3. Counted(k) \in Nat /\ Counted(k) <= Len(s) /\ lost' \in Nat
      /\ Counted(k) = IF 1 <= k THEN k - 1 + 1 ELSE 0
  BY <1>1, <1>2 DEF Counted
<1>4. out' \in Chars /\ Len(out') = Counted(k)
  <2>1. \A i \in 1 .. k : s[i] \in Char
    BY <1>1, <1>2, ElementOfSeq
  <2>2. SubSeq(s, 1, k) \in Seq(Char) /\ Len(SubSeq(s, 1, k)) = IF 1 <= k THEN k - 1 + 1 ELSE 0
    BY <2>1, SubSeqProperties
  <2> QED BY <1>1, <1>3, <2>2 DEF Chars
<1>5. ASSUME lost' = 0 PROVE out' = s
  <2>1. Counted(k) = Len(s)
    BY <1>1, <1>2, <1>3, <1>5
  <2>2. CASE k > 0
    <3>1. k = Len(s)
      BY <2>1, <2>2 DEF Counted
    <3> QED BY <1>1, <1>2, <3>1, SubSeqFull
  <2>3. CASE k <= 0
    <3>1. Len(s) = 0 /\ k < 1
      BY <2>1, <2>3 DEF Counted
    <3>2. s = <<>>
      BY <1>2, <3>1, EmptySeq
    <3>3. SubSeq(s, 1, k) = <<>>
      BY <3>1, SubSeqEmpty
    <3> QED BY <1>1, <3>2, <3>3
  <2>4. k > 0 \/ k <= 0
    OBVIOUS
  <2> QED BY <2>2, <2>3, <2>4
<1>6. text' = InTurn(s, buf', todo')
  BY <1>1, Concat DEF InTurn
<1>7. Len(s) = Len(out') + lost'
  BY <1>1, <1>2, <1>3, <1>4
<1>8. Accounts'
  BY <1>5, <1>6, <1>7 DEF Accounts
<1> QED BY <1>1, <1>2, <1>3, <1>4, <1>8

(* puts of a null pointer.                                                   *)
LEMMA PutsNullKept == ASSUME PInv, PutsNull PROVE PInv'
<1> DEFINE s == NullText \o <<"\n">>
<1>1. pc = "idle" /\ pc' = pc /\ ret' = 7 /\ \E k \in -1 .. Len(s) : PutsWrites(s, k, <<>>)
  BY DEF PutsNull
<1>2. s \in Chars /\ <<>> \in Chars /\ s \o <<>> = s /\ Len(s) \in Nat /\ Len(<<>>) = 0
  BY TextFacts, Concat
<1> HIDE DEF s
<1>3. PICK k \in Int : PutsWrites(s, k, <<>>)
  BY <1>1, <1>2
<1>4. /\ out' \in Chars /\ lost' \in Nat /\ Accounts'
      /\ todo' = <<>> /\ text' = s /\ buf = <<>>
      /\ UNCHANGED <<left, buf, total, val, base, num, l, r, arg>>
  BY <1>1, <1>2, <1>3, PutsFacts
<1>5. TypeOK'
  BY <1>1, <1>2, <1>4 DEF PInv, TypeOK
<1>6. Held' /\ Counts' /\ Reversing'
  BY <1>1, <1>4 DEF PInv, Held, Counts, Reversing
<1>7. ReturnsWritten'
  BY <1>4 DEF ReturnsWritten, s
<1> QED BY <1>4, <1>5, <1>6, <1>7 DEF PInv

(* puts of a string.                                                         *)
LEMMA PutsKept == ASSUME PInv, NEW s \in Strings, Puts(s) PROVE PInv'
<1>1. s \in Chars /\ <<"\n">> \in Chars /\ Len(s) \in Nat
  BY TextFacts, Concat
<1>2. pc = "idle" /\ pc' = "newline"
  BY DEF Puts
<1>3. PICK k \in Int : PutsWrites(s, k, <<"\n">>) /\ ret' = k
  BY <1>1 DEF Puts
<1>4. /\ out' \in Chars /\ Len(out') = Counted(k) /\ lost' \in Nat /\ Accounts' /\ text' \in Chars
      /\ todo' = <<"\n">> /\ buf = <<>> /\ k \in -1 .. Len(s)
      /\ UNCHANGED <<left, buf, total, val, base, num, l, r, arg>>
  BY <1>1, <1>2, <1>3, PutsFacts
<1>5. k >= -1 /\ (k >= 0 => k = Len(out'))
  BY <1>1, <1>4 DEF Counted
<1>6. TypeOK'
  BY <1>1, <1>2, <1>3, <1>4, <1>5 DEF PInv, TypeOK
<1>7. Held' /\ Counts' /\ Reversing' /\ ReturnsWritten'
  BY <1>2, <1>3, <1>4, <1>5 DEF PInv, Held, Counts, Reversing, ReturnsWritten
<1> QED BY <1>4, <1>6, <1>7 DEF PInv

(* The newline, and the result of puts.                                      *)
LEMMA PutsNewlineKept == ASSUME PInv, PutsNewline PROVE PInv'
<1>1. /\ pc = "newline" /\ pc' = "idle" /\ todo = <<"\n">> /\ todo' = <<>> /\ buf = <<>>
      /\ text' = text /\ UNCHANGED <<left, buf, total, val, base, num, l, r, arg>>
  BY DEF PInv, Held, PutsNewline, ctx, conv
<1>2. PICK k \in -1 .. 1 : k # 0 /\ Writes(todo, k) /\ ret' = PutsResult(ret, k)
  BY DEF PutsNewline
<1>3. /\ todo \in Chars /\ Len(todo) = 1 /\ <<>> \in Chars /\ out \in Chars /\ lost \in Nat
      /\ ret \in Int /\ ret >= -1 /\ Len(<<>>) = 0
  BY <1>1, TextFacts DEF PInv, TypeOK
<1>4. k \in -1 .. Len(todo)
  BY <1>2, <1>3
<1>5. /\ out' \in Chars /\ Len(out') = Len(out) + Counted(k) /\ lost' \in Nat
  BY <1>2, <1>3, <1>4, WritesFacts
<1>6. Accounts'
  <2>1. PICK given \in Chars : /\ text = InTurn(given, buf, todo)
                               /\ Len(given) = Len(out) + lost /\ (lost = 0 => out = given)
    BY DEF PInv, Accounts
  <2>2. text = given \o (todo \o <<>>) /\ buf' \o todo' = <<>>
    BY <1>1, <1>3, <2>1, Concat DEF InTurn
  <2> QED BY <1>1, <1>2, <1>3, <1>4, <2>1, <2>2, Offers
<1>7. ret' \in Int /\ ret' >= -1 /\ (ret' >= 0 => ret' = Len(out'))
  <2>1. CASE ret < 0 \/ k < 0
    BY <1>2, <2>1 DEF PutsResult
  <2>2. CASE ~(ret < 0 \/ k < 0)
    <3>1. k = 1 /\ ret' = ret + k /\ ret >= 0 /\ Counted(k) = 1
      BY <1>2, <1>3, <2>2 DEF PutsResult, Counted
    <3>2. ret = Len(out)
      BY <1>1, <3>1 DEF PInv, Counts
    <3> QED BY <1>3, <1>5, <3>1, <3>2
  <2> QED BY <2>1, <2>2
<1>8. TypeOK'
  BY <1>1, <1>3, <1>5, <1>7 DEF PInv, TypeOK
<1>9. Held' /\ Counts' /\ Reversing' /\ ReturnsWritten'
  BY <1>1, <1>7 DEF PInv, Held, Counts, Reversing, ReturnsWritten
<1> QED BY <1>6, <1>8, <1>9 DEF PInv
-----------------------------------------------------------------------------
(* At first there is no call.                                                *)
LEMMA InitPInv == ASSUME Init PROVE PInv
<1>1. <<>> \in Chars /\ Len(<<>>) = 0 /\ <<>> = <<>> \o (<<>> \o <<>>)
  BY TextFacts, Concat
<1>2. TypeOK
  BY <1>1, StdioAssumption DEF Init, TypeOK
<1>3. Accounts
  BY <1>1 DEF Init, Accounts, InTurn
<1>4. Held /\ Counts /\ Reversing /\ ReturnsWritten
  BY <1>1 DEF Init, Held, Counts, Reversing, ReturnsWritten
<1> QED BY <1>2, <1>3, <1>4 DEF PInv

(* A directive without a number.                                             *)
LEMMA TextKept == ASSUME PInv, Text PROVE PInv'
<1>1. PICK s \in Chars : Emit(s)
  BY TextFacts DEF Text
<1> QED BY <1>1, EmitKept

(* Every step keeps the invariant.                                           *)
LEMMA NextPInv == ASSUME PInv, [Next]_vars PROVE PInv'
<1>1. CASE UNCHANGED vars
  <2>1. UNCHANGED <<pc, left, buf, total, out, lost, val, base, num, l, r, arg, todo, ret, text>>
    BY <1>1 DEF vars, io, ctx, conv
  <2> QED BY <2>1 DEF PInv, TypeOK, Accounts, Held, Counts, Reversing, ReturnsWritten
<1>2. CASE Step
  BY <1>2, TextKept, NumericKept, DigitKept, DigitsEndKept, SwapKept, NumberDoneKept,
     PutcKept, DirectiveEndsKept, PrintfEndsKept, PutsNewlineKept DEF Step
<1>3. CASE Printf \/ PutsNull \/ \E s \in Strings : Puts(s)
  BY <1>3, PrintfKept, PutsNullKept, PutsKept
<1> QED BY <1>1, <1>2, <1>3 DEF Next

(* The inductive invariant of printf and puts: where each byte of the text   *)
(* of a call is, and what the call has counted.                              *)
THEOREM StdioInvariant == Spec => []PInv
BY InitPInv, NextPInv, PTL DEF Spec

(* The buffer of printf never holds more than it has room for.               *)
THEOREM StdioTyped == Spec => []TypeOK
<1>1. PInv => TypeOK
  BY DEF PInv
<1> QED BY <1>1, StdioInvariant, PTL

(* If write takes all it is given, stdout receives what was formatted.       *)
THEOREM CompleteAlways == Spec => []CompleteUnlessShort
<1>1. ASSUME PInv PROVE CompleteUnlessShort
  <2>1. PICK given \in Chars : /\ text = InTurn(given, buf, todo)
                               /\ Len(given) = Len(out) + lost /\ (lost = 0 => out = given)
    BY <1>1 DEF PInv, Accounts
  <2>2. buf \in Chars /\ todo \in Chars
    BY <1>1 DEF PInv, TypeOK
  <2>3. (given \o buf) \o todo = text
    BY <2>1, <2>2, Assoc DEF InTurn
  <2>4. pc = "idle" => text = given
    BY <1>1, <2>1, Concat DEF InTurn, PInv, Held
  <2> QED BY <2>1, <2>3, <2>4 DEF CompleteUnlessShort
<1> QED BY <1>1, StdioInvariant, PTL

(* printf and puts return how many bytes stdout received.                    *)
THEOREM ReturnsWrittenAlways == Spec => []ReturnsWritten
<1>1. PInv => ReturnsWritten
  BY DEF PInv
<1> QED BY <1>1, StdioInvariant, PTL
-----------------------------------------------------------------------------
(* A text is a prefix of what it grows to.                                   *)
LEMMA PrefixGrows ==
  ASSUME NEW t \in Chars, NEW s \in Chars PROVE Promise!IsPrefix(t, t \o s)
<1>1. Len(t) \in Nat /\ Len(s) \in Nat /\ Len(t \o s) = Len(t) + Len(s) /\ t \in Seq(Char)
      /\ t \o s \in Seq(Char)
  BY Concat DEF Chars
<1>2. CASE Len(t) = 0
  <2>1. SubSeq(t, 1, Len(t)) = <<>> /\ SubSeq(t \o s, 1, Len(t)) = <<>>
    BY <1>2, SubSeqEmpty
  <2> QED BY <1>1, <2>1 DEF Promise!IsPrefix
<1>3. CASE Len(t) # 0
  <2>1. 1 \in 1 .. Len(t) /\ Len(t) \in 1 .. Len(t)
    BY <1>1, <1>3
  <2>2. SubSeq(t \o s, 1, Len(t)) = SubSeq(t, 1, Len(t))
    BY <2>1, SubSeqOfConcat1 DEF Chars
  <2> QED BY <1>1, <2>2 DEF Promise!IsPrefix
<1> QED BY <1>2, <1>3

(* A step that adds s to the text, offers it up to n and has it taken up to  *)
(* k + c is one that Stream allows.                                          *)
LEMMA GoesOn ==
  ASSUME NEW t \in Chars, NEW s \in Chars, text' = t \o s, NEW k \in Nat, NEW o,
         NEW n \in k .. Len(text'), Len(out') + lost' = n,
         NEW c \in Nat, k + c <= n, out' = o \o SubSeq(text', k + 1, k + c),
         pc' = "idle" => n = Len(text')
  PROVE  Promise!Goes(t, k, o)
<1>1. Promise!IsPrefix(t, text')
  BY PrefixGrows
<1>2. k + c \in k .. n
  OBVIOUS
<1>3. \E m \in k .. Len(text') :
        /\ Len(out') + lost' = m
        /\ \E taken \in k .. m : out' = o \o SubSeq(text', k + 1, taken)
  BY <1>2
<1> QED BY <1>1, <1>3 DEF Promise!Goes

(* How much has been offered, and what is still to be.                       *)
LEMMA OfferedFacts ==
  ASSUME PInv
  PROVE  \E given \in Chars :
           /\ text = InTurn(given, buf, todo) /\ Len(given) = Len(out) + lost
           /\ Len(text) = Len(given) + Len(buf) + Len(todo) /\ text \in Chars
           /\ Len(given) \in Nat /\ Len(buf) \in Nat /\ Len(todo) \in Nat
<1>1. PICK given \in Chars : text = InTurn(given, buf, todo) /\ Len(given) = Len(out) + lost
  BY DEF PInv, Accounts
<1>2. buf \in Chars /\ todo \in Chars /\ text \in Chars
  BY DEF PInv, TypeOK
<1>3. buf \o todo \in Chars /\ Len(buf \o todo) = Len(buf) + Len(todo)
  BY <1>2, Concat
<1>4. Len(text) = Len(given) + (Len(buf) + Len(todo))
  BY <1>1, <1>3, Concat DEF InTurn
<1>5. Len(given) \in Nat /\ Len(buf) \in Nat /\ Len(todo) \in Nat
  BY <1>2, Concat
<1> QED BY <1>1, <1>2, <1>4, <1>5

(* A step of a running call that offers nothing to write.                    *)
LEMMA QuietStep ==
  ASSUME PInv, PInv', pc # "idle", pc' # "idle", NEW s \in Chars, text' = text \o s,
         out' = out, lost' = lost
  PROVE  Promise!Continue
<1> DEFINE k == Len(out) + lost
<1>1. PICK given \in Chars :
        /\ text = InTurn(given, buf, todo) /\ Len(given) = Len(out) + lost
        /\ Len(text) = Len(given) + Len(buf) + Len(todo) /\ text \in Chars
        /\ Len(given) \in Nat /\ Len(buf) \in Nat /\ Len(todo) \in Nat
  BY OfferedFacts
<1>2. text \in Chars /\ out \in Chars /\ k \in Nat /\ k <= Len(text) /\ Len(text) \in Nat
  BY <1>1 DEF PInv, TypeOK
<1>3. Len(text') = Len(text) + Len(s) /\ Len(s) \in Nat
  BY <1>2, Concat
<1>4. Len(out') + lost' = k
  OBVIOUS
<1> HIDE DEF k
<1>5. k \in k .. Len(text') /\ k + 0 <= k /\ 0 \in Nat /\ k + 0 < k + 1 /\ k + 0 \in Int /\ k + 1 \in Int
  BY <1>2, <1>3
<1>6. SubSeq(text', k + 1, k + 0) = <<>>
  BY <1>5, SubSeqEmpty
<1>7. out' = out \o SubSeq(text', k + 1, k + 0)
  BY <1>2, <1>6, Concat
<1>8. Promise!Goes(text, k, out)
  BY <1>2, <1>4, <1>5, <1>7, GoesOn
<1> QED BY <1>8 DEF Promise!Continue, k

(* The part of a text that has been offered, and the next one.               *)
LEMMA NextPart ==
  ASSUME NEW g \in Chars, NEW s \in Chars, NEW u \in Chars, NEW c \in 0 .. Len(s)
  PROVE  SubSeq(g \o (s \o u), Len(g) + 1, Len(g) + c) = SubSeq(s, 1, c)
<1>1. /\ g \in Seq(Char) /\ s \in Seq(Char) /\ s \o u \in Seq(Char) /\ Len(g) \in Nat
      /\ Len(s) \in Nat /\ Len(u) \in Nat /\ Len(s \o u) = Len(s) + Len(u) /\ c \in Nat
      /\ u \in Seq(Char)
  BY Concat DEF Chars
<1>2. CASE c = 0
  <2>1. SubSeq(g \o (s \o u), Len(g) + 1, Len(g) + c) = <<>> /\ SubSeq(s, 1, c) = <<>>
    BY <1>1, <1>2, SubSeqEmpty
  <2> QED BY <2>1, Zenon
<1>3. CASE c # 0
  <2>1. SubSeq(g \o (s \o u), Len(g) + 1, Len(g) + c)
          = SubSeq(s \o u, Len(g) + 1 - Len(g), Len(g) + c - Len(g))
    <3>1. /\ Len(g) + 1 \in Len(g) + 1 .. Len(g) + Len(s \o u)
          /\ Len(g) + c \in Len(g) + 1 .. Len(g) + Len(s \o u)
      BY <1>1, <1>3
    <3> QED BY <1>1, <3>1, SubSeqOfConcat2
  <2>2. Len(g) + 1 - Len(g) = 1 /\ Len(g) + c - Len(g) = c
    BY <1>1
  <2>3. 1 \in 1 .. Len(s) /\ c \in 1 .. Len(s)
    BY <1>1, <1>3
  <2>4. SubSeq(s \o u, 1, c) = SubSeq(s, 1, c)
    BY <1>1, <2>3, SubSeqOfConcat1
  <2> QED BY <2>1, <2>2, <2>4
<1> QED BY <1>2, <1>3

(* A step that offers s to write.                                            *)
LEMMA OfferStep ==
  ASSUME PInv, PInv', pc # "idle", NEW s \in Chars, NEW k \in -1 .. Len(s), Writes(s, k),
         NEW given \in Chars, NEW u \in Chars, text = given \o (s \o u), text' = text,
         Len(given) = Len(out) + lost, pc' = "idle" => u = <<>>
  PROVE  Promise!Continue
<1>1. /\ out' \in Chars /\ Counted(k) \in Nat /\ Counted(k) <= Len(s)
      /\ out' = out \o SubSeq(s, 1, Counted(k))
      /\ Len(out') + lost' = Len(out) + lost + Len(s)
      /\ text \in Chars
  BY WritesFacts DEF PInv, TypeOK
<1>2. /\ Len(given) \in Nat /\ Len(s) \in Nat /\ Len(u) \in Nat /\ Len(<<>>) = 0
      /\ Len(text) = Len(given) + (Len(s) + Len(u)) /\ <<>> \in Chars /\ text' = text \o <<>>
  <2>1. s \o u \in Chars /\ Len(s \o u) = Len(s) + Len(u) /\ text \o <<>> = text
    BY <1>1, Concat
  <2>2. Len(text) = Len(given) + Len(s \o u)
    BY <2>1, Concat
  <2> QED BY <2>1, <2>2, Concat
<1>3. SubSeq(text', Len(given) + 1, Len(given) + Counted(k)) = SubSeq(s, 1, Counted(k))
  <2>1. Counted(k) \in 0 .. Len(s)
    BY <1>1, <1>2
  <2> QED BY <2>1, NextPart
<1>4. Len(given) + Len(s) \in Len(given) .. Len(text') /\ Len(given) + Counted(k) <= Len(given) + Len(s)
      /\ Len(out') + lost' = Len(given) + Len(s)
      /\ (pc' = "idle" => Len(given) + Len(s) = Len(text'))
  <2>1. Len(text') = Len(given) + (Len(s) + Len(u)) /\ (pc' = "idle" => Len(u) = 0)
    BY <1>2
  <2>2. Len(given) + Len(s) \in Len(given) .. Len(text')
        /\ Len(given) + Counted(k) <= Len(given) + Len(s)
    BY <1>1, <1>2, <2>1
  <2>3. Len(out') + lost' = Len(given) + Len(s)
    BY <1>1
  <2>4. pc' = "idle" => Len(given) + Len(s) = Len(text')
    BY <1>2, <2>1
  <2> QED BY <2>2, <2>3, <2>4
<1>5. Promise!Goes(text, Len(given), out)
  BY <1>1, <1>2, <1>3, <1>4, GoesOn
<1>6. Promise!Goes(text, Len(out) + lost, out)
  BY <1>5
<1> QED BY <1>6 DEF Promise!Continue

(* A call of puts begins: stdout and the text start anew.                    *)
LEMMA PutsBegins ==
  ASSUME PInv, pc = "idle", NEW s \in Chars, NEW k \in Int, NEW rest \in Chars,
         PutsWrites(s, k, rest), pc' = "idle" => rest = <<>>
  PROVE  Promise!Begin
<1>1. /\ Len(out') = Counted(k) /\ lost' \in Nat /\ text' = s \o rest /\ k \in -1 .. Len(s)
      /\ out' \in Chars
  BY PutsFacts
<1>2. out' = SubSeq(s, 1, k) /\ lost' = Len(s) - Counted(k)
  BY DEF PutsWrites, Counted
<1>3. /\ Len(s) \in Nat /\ Len(rest) \in Nat /\ Len(text') = Len(s) + Len(rest) /\ text' \in Chars
      /\ <<>> \in Chars /\ text' = <<>> \o text' /\ text' = <<>> \o (s \o rest) /\ Len(<<>>) = 0
  BY <1>1, Concat
<1>4. Counted(k) \in Nat /\ Counted(k) <= Len(s) /\ (k > 0 => Counted(k) = k)
      /\ (k <= 0 => Counted(k) = 0)
  BY <1>1, <1>3 DEF Counted
<1>5. SubSeq(s, 1, k) = SubSeq(s, 1, Counted(k))
  <2>1. CASE k > 0
    BY <1>4, <2>1, Zenon
  <2>2. CASE k <= 0
    <3>1. SubSeq(s, 1, k) = <<>> /\ SubSeq(s, 1, Counted(k)) = <<>>
      BY <1>4, <2>2, SubSeqEmpty
    <3> QED BY <3>1, Zenon
  <2>3. k > 0 \/ k <= 0
    OBVIOUS
  <2> QED BY <2>1, <2>2, <2>3, Zenon
<1>6. SubSeq(text', 0 + 1, 0 + Counted(k)) = SubSeq(s, 1, Counted(k))
  <2>1. Counted(k) \in 0 .. Len(s)
    BY <1>3, <1>4
  <2>2. SubSeq(<<>> \o (s \o rest), Len(<<>>) + 1, Len(<<>>) + Counted(k)) = SubSeq(s, 1, Counted(k))
    BY <1>3, <2>1, NextPart
  <2> QED BY <1>3, <2>2
<1>7. out' = <<>> \o SubSeq(text', 0 + 1, 0 + Counted(k))
  BY <1>1, <1>2, <1>5, <1>6, Concat
<1>8. /\ Len(s) \in 0 .. Len(text') /\ 0 + Counted(k) <= Len(s) /\ 0 \in Nat
      /\ Len(out') + lost' = Len(s)
  BY <1>1, <1>2, <1>3, <1>4
<1>9. pc' = "idle" => Len(s) = Len(text')
  BY <1>3
<1>10. Promise!Goes(<<>>, 0, <<>>)
  BY <1>3, <1>4, <1>7, <1>8, <1>9, GoesOn
<1> QED BY <1>10 DEF Promise!Begin

(* A call of printf begins with nothing offered.                             *)
LEMMA PrintfBegins == ASSUME PInv, Printf PROVE Promise!Begin
<1>1. pc = "idle" /\ pc' = "fmt" /\ out' = <<>> /\ text' = <<>> /\ lost' = 0
  BY DEF Printf
<1>2. <<>> \in Chars /\ Len(<<>>) = 0 /\ <<>> = <<>> \o <<>>
  BY TextFacts, Concat
<1>3. SubSeq(text', 0 + 1, 0 + 0) = <<>>
  BY SubSeqEmpty
<1>4. out' = <<>> \o SubSeq(text', 0 + 1, 0 + 0)
  BY <1>1, <1>2, <1>3
<1>5. /\ 0 \in 0 .. Len(text') /\ 0 + 0 <= 0 /\ 0 \in Nat /\ Len(out') + lost' = 0
      /\ text' = <<>> \o <<>>
  BY <1>1, <1>2
<1>6. Promise!Goes(<<>>, 0, <<>>)
  BY <1>1, <1>2, <1>4, <1>5, GoesOn
<1> QED BY <1>1, <1>6 DEF Promise!Begin

(* Draining the buffer offers it.                                            *)
LEMMA DrainOffers ==
  ASSUME PInv, PInv', pc # "idle", NEW rest, Drain(rest), text' = text,
         pc' = "idle" => todo = <<>>
  PROVE  Promise!Continue
<1>1. PICK k \in -1 .. Len(buf) : Writes(buf, k)
  BY DEF Drain
<1>2. PICK given \in Chars : text = InTurn(given, buf, todo) /\ Len(given) = Len(out) + lost
  BY DEF PInv, Accounts
<1>3. buf \in Chars /\ todo \in Chars /\ text = given \o (buf \o todo)
  BY <1>2 DEF PInv, TypeOK, InTurn
<1> QED BY <1>1, <1>2, <1>3, OfferStep

(* Every step of a call is one that Stream allows.                           *)
LEMMA StreamStep == ASSUME PInv, PInv', Next PROVE Promise!Next
<1>1. CASE Printf
  BY <1>1, PrintfBegins DEF Promise!Next
<1>2. CASE PutsNull
  <2> DEFINE s == NullText \o <<"\n">>
  <2>1. pc = "idle" /\ \E k \in -1 .. Len(s) : PutsWrites(s, k, <<>>)
    BY <1>2 DEF PutsNull
  <2>2. s \in Chars /\ <<>> \in Chars /\ Len(s) \in Nat
    BY TextFacts, Concat
  <2> HIDE DEF s
  <2>3. PICK k \in Int : PutsWrites(s, k, <<>>)
    BY <2>1, <2>2
  <2>4. Promise!Begin
    BY <2>1, <2>2, <2>3, PutsBegins
  <2> QED BY <2>4 DEF Promise!Next
<1>3. ASSUME NEW s \in Strings, Puts(s) PROVE Promise!Next
  <2>1. s \in Chars /\ <<"\n">> \in Chars /\ Len(s) \in Nat
    BY TextFacts, Concat
  <2>2. pc = "idle" /\ pc' = "newline"
    BY <1>3 DEF Puts
  <2>3. PICK k \in Int : PutsWrites(s, k, <<"\n">>)
    BY <1>3, <2>1 DEF Puts
  <2>4. Promise!Begin
    BY <2>1, <2>2, <2>3, PutsBegins
  <2> QED BY <2>4 DEF Promise!Next
<1>4. CASE Digit \/ DigitsEnd \/ Swap \/ DirectiveEnds
  <2>1. pc # "idle" /\ pc' # "idle" /\ text' = text /\ out' = out /\ lost' = lost
    BY <1>4 DEF Digit, DigitsEnd, Swap, DirectiveEnds, io
  <2>2. <<>> \in Chars /\ text' = text \o <<>>
    BY <2>1, TextFacts, Concat DEF PInv, TypeOK
  <2> QED BY <2>1, <2>2, QuietStep DEF Promise!Next
<1>5. CASE Text
  <2>1. PICK s \in Chars : Emit(s)
    BY <1>5, TextFacts DEF Text
  <2>2. pc # "idle" /\ pc' # "idle" /\ text' = text \o s /\ out' = out /\ lost' = lost
    BY <2>1 DEF Emit, Directive, io
  <2> QED BY <2>2, QuietStep DEF Promise!Next
<1>6. CASE Numeric
  <2>1. PICK s \in Chars : /\ pc # "idle" /\ pc' # "idle" /\ text' = text \o s
                           /\ out' = out /\ lost' = lost
    BY <1>6, TextFacts DEF Numeric, Signed, Number, Directive, io
  <2> QED BY <2>1, QuietStep DEF Promise!Next
<1>7. CASE NumberDone
  <2>1. pc # "idle" /\ pc' # "idle" /\ text' = text \o num /\ out' = out /\ lost' = lost
    BY <1>7 DEF NumberDone, io
  <2>2. num \in Chars
    BY DEF PInv, TypeOK
  <2> QED BY <2>1, <2>2, QuietStep DEF Promise!Next
<1>8. CASE Putc
  <2>1. pc # "idle" /\ pc' # "idle" /\ text' = text
    BY <1>8 DEF Putc
  <2>2. CASE Drain(<<Head(todo)>>)
    BY <2>1, <2>2, DrainOffers DEF Promise!Next
  <2>3. CASE UNCHANGED <<total, out, lost>>
    <3>1. <<>> \in Chars /\ text' = text \o <<>> /\ out' = out /\ lost' = lost
      BY <2>1, <2>3, TextFacts, Concat DEF PInv, TypeOK
    <3> QED BY <2>1, <3>1, QuietStep DEF Promise!Next
  <2> QED BY <1>8, <2>2, <2>3 DEF Putc
<1>9. CASE PrintfEnds
  <2>1. pc # "idle" /\ text' = text /\ todo = <<>>
    BY <1>9 DEF PrintfEnds, PInv, Held
  <2>2. CASE Drain(<<>>)
    BY <2>1, <2>2, DrainOffers DEF Promise!Next
  <2>3. CASE buf = <<>> /\ UNCHANGED io
    <3>1. UNCHANGED <<out, lost>> /\ Len(<<>>) = 0 /\ <<>> \in Chars
      BY <2>3, TextFacts, Concat DEF io
    <3>2. PICK given \in Chars : text = InTurn(given, buf, todo) /\ Len(given) = Len(out) + lost
      BY DEF PInv, Accounts
    <3>3. text = given \o (<<>> \o <<>>)
      BY <2>1, <2>3, <3>2 DEF InTurn
    <3>4. Writes(<<>>, 0)
      <4>1. SubSeq(<<>>, 1, 0) = <<>> /\ out \in Chars /\ lost \in Nat
        BY SubSeqEmpty DEF PInv, TypeOK
      <4>2. out' = out \o SubSeq(<<>>, 1, 0)
        BY <3>1, <4>1, Concat
      <4>3. lost' = lost + Len(<<>>) - 0
        BY <3>1, <4>1
      <4> QED BY <4>2, <4>3 DEF Writes
    <3>5. 0 \in -1 .. Len(<<>>)
      BY <3>1
    <3>6. Promise!Continue
      BY <2>1, <3>1, <3>2, <3>3, <3>4, <3>5, OfferStep
    <3> QED BY <3>6 DEF Promise!Next
  <2> QED BY <1>9, <2>2, <2>3 DEF PrintfEnds
<1>10. CASE PutsNewline
  <2>1. pc # "idle" /\ text' = text /\ buf = <<>>
    BY <1>10 DEF PutsNewline, PInv, Held
  <2>2. todo \in Chars /\ Len(todo) = 1 /\ <<>> \in Chars
    BY <1>10, TextFacts DEF PutsNewline, PInv, Held
  <2>3. PICK k \in -1 .. Len(todo) : Writes(todo, k)
    BY <1>10, <2>2 DEF PutsNewline
  <2>4. PICK given \in Chars : text = InTurn(given, buf, todo) /\ Len(given) = Len(out) + lost
    BY DEF PInv, Accounts
  <2>5. text = given \o (todo \o <<>>)
    BY <2>1, <2>2, <2>4, Concat DEF InTurn
  <2>6. Promise!Continue
    BY <2>1, <2>2, <2>3, <2>4, <2>5, OfferStep
  <2> QED BY <2>6 DEF Promise!Next
<1> QED BY <1>1, <1>2, <1>3, <1>4, <1>5, <1>6, <1>7, <1>8, <1>9, <1>10 DEF Next, Step

(* Every behaviour of printf and puts is one that Stream allows, but for the *)
(* promise to return, which only fair runs keep.                             *)
THEOREM StreamSteps == Spec => Promise!Init /\ [][Promise!Next]_Promise!vars
<1>1. Init => Promise!Init
  <2>1. Init => <<>> \in Chars /\ Len(<<>>) = 0
    BY TextFacts, Concat
  <2> QED BY <2>1 DEF Init, Promise!Init
<1>2. PInv /\ PInv' /\ [Next]_vars => [Promise!Next]_Promise!vars
  <2>1. CASE UNCHANGED vars
    BY <2>1 DEF vars, io, ctx, conv, Promise!vars
  <2> QED BY <2>1, StreamStep
<1> QED BY <1>1, <1>2, StdioInvariant, PTL DEF Spec

-----------------------------------------------------------------------------
(* Numerals.                                                                 *)

(* What of the number under conversion is written in digits.                 *)
Magnitude == IF arg < 0 THEN - arg ELSE arg

(* The digit that a character stands for.                                    *)
DigitOf(g) == CHOOSE d \in 0 .. 15 : Glyphs[d + 1] = g

(* The digit that utoa and xtoa write when x is left of the number.          *)
LastDigit(x) == Glyphs[(x % base) + 1]

(* What is left of the number after each of n digits.                        *)
Divides(w, n) ==
  /\ w \in [0 .. n -> Nat] /\ w[0] = Magnitude
  /\ \A k \in 1 .. n : w[k - 1] > 0 /\ w[k] = w[k - 1] \div base

(* The equation that defines Value.                                          *)
ValueEqn(V) ==
  V = [k \in 0 .. Len(num) |-> IF k = 0 THEN 0 ELSE V[k - 1] * base + DigitOf(num[k])]

(* No digit is written in two ways.                                          *)
LEMMA DigitsDiffer ==
  ASSUME NEW d \in 0 .. 15
  PROVE  DigitOf(Glyphs[d + 1]) = d /\ (Glyphs[d + 1] = "0" => d = 0)
<1>1. \A e \in 0 .. 15 : Glyphs[e + 1] = Glyphs[d + 1] => e = d
  BY DEF Glyphs
<1>2. DigitOf(Glyphs[d + 1]) = d
  <2> DEFINE g == Glyphs[d + 1]
  <2>1. \E e \in 0 .. 15 : Glyphs[e + 1] = g
    OBVIOUS
  <2>2. \A e \in 0 .. 15 : Glyphs[e + 1] = g => e = d
    BY <1>1
  <2> HIDE DEF g
  <2>3. DigitOf(g) = d
    BY <2>1, <2>2 DEF DigitOf
  <2> QED BY <2>3 DEF g
<1>3. Glyphs[0 + 1] = "0"
  BY DEF Glyphs
<1>4. Glyphs[d + 1] = "0" => d = 0
  BY <1>1, <1>3
<1> QED BY <1>2, <1>4

(* Division by the base.                                                     *)
LEMMA BaseFacts ==
  ASSUME base \in {10, 16}, NEW x \in Nat
  PROVE  /\ x \div base \in Nat /\ x % base \in 0 .. 15 /\ x = (x \div base) * base + (x % base)
         /\ (x \div base = 0 => x % base = x)
<1>1. CASE base = 10
  BY <1>1
<1>2. CASE base = 16
  BY <1>2
<1> QED BY <1>1, <1>2

(* Every set of numbers has a least one.                                     *)
LEMMA LeastNat ==
  ASSUME NEW T \in SUBSET Nat, T # {}
  PROVE  \E x \in T : \A y \in T : x <= y
<1>1. PICK x \in T : \A y \in T : ~(<<y, x>> \in OpToRel(<, Nat))
  BY NatLessThanWellFounded, WFMin
<1>2. \A y \in T : ~(y < x)
  BY <1>1 DEF OpToRel
<1> QED BY <1>2

(* The digits of a number, the highest first, have its value.                *)
LEMMA DigitsHaveValue ==
  ASSUME base \in {10, 16}, NEW n \in Nat, n > 0, n = Len(num), NEW w, Divides(w, n), w[n] = 0,
         \A k \in 1 .. n : num[n + 1 - k] = LastDigit(w[k - 1])
  PROVE  Value = Magnitude /\ (num[1] = "0" => n = 1)
<1> DEFINE G == CHOOSE V : ValueEqn(V)
           F == [k \in 0 .. n |-> w[n - k]]
<1>1. \A k \in 0 .. n : n - k \in 0 .. n /\ w[k] \in Nat
  <2>1. w \in [0 .. n -> Nat]
    BY DEF Divides
  <2>2. \A k \in 0 .. n : n - k \in 0 .. n
    OBVIOUS
  <2> QED BY <2>1, <2>2
<1>2. ASSUME NEW k \in 1 .. n
      PROVE  /\ w[n - k] = w[n + 1 - k] * base + DigitOf(num[k])
             /\ (num[k] = "0" => w[n - k] % base = 0)
  <2>1. PICK j \in 1 .. n : j = n + 1 - k /\ j - 1 = n - k /\ k = n + 1 - j
    OBVIOUS
  <2>2. PICK x \in Nat : x = w[j - 1]
    BY <1>1, <2>1, SMTT(30)
  <2>3. num[k] = Glyphs[(x % base) + 1] /\ w[j] = x \div base
    BY <2>1, <2>2 DEF LastDigit, Divides
  <2>4. x % base \in 0 .. 15 /\ x = (x \div base) * base + (x % base)
    BY BaseFacts
  <2>5. DigitOf(num[k]) = x % base /\ (num[k] = "0" => x % base = 0)
    BY <2>3, <2>4, DigitsDiffer
  <2> QED BY <2>1, <2>2, <2>3, <2>4, <2>5
<1>3. F[0] = 0 /\ F[n] = Magnitude /\ \A k \in 1 .. n : F[k] = F[k - 1] * base + DigitOf(num[k])
  <2>1. F[0] = 0 /\ F[n] = Magnitude
    <3>1. n - 0 = n /\ n - n = 0 /\ 0 \in 0 .. n /\ n \in 0 .. n
      OBVIOUS
    <3> QED BY <3>1 DEF Divides
  <2>2. ASSUME NEW k \in 1 .. n PROVE F[k] = F[k - 1] * base + DigitOf(num[k])
    <3>1. k \in 0 .. n /\ k - 1 \in 0 .. n /\ n - (k - 1) = n + 1 - k
      OBVIOUS
    <3>2. F[k] = w[n - k] /\ F[k - 1] = w[n + 1 - k]
      BY <3>1
    <3> QED BY <1>2, <3>2
  <2> QED BY <2>1, <2>2
<1>4. ValueEqn(F)
  <2> DEFINE H == [k \in 0 .. Len(num) |-> IF k = 0 THEN 0 ELSE F[k - 1] * base + DigitOf(num[k])]
  <2>1. F = [k \in 0 .. n |-> F[k]]
    OBVIOUS
  <2> HIDE DEF F
  <2>2. \A k \in 0 .. n : H[k] = F[k]
    BY <1>3
  <2>3. H = [k \in 0 .. n |-> H[k]]
    OBVIOUS
  <2> HIDE DEF H
  <2>4. F = H
    BY <2>1, <2>2, <2>3
  <2> QED BY <2>4 DEF ValueEqn, H
<1>5. Value = G[n] /\ ValueEqn(G)
  <2>1. ValueEqn(G)
    <3> HIDE DEF F
    <3> QED BY <1>4
  <2>2. Value = G[Len(num)]
    BY DEF Value, ValueEqn, DigitOf
  <2> QED BY <2>1, <2>2
<1> HIDE DEF G, F
<1>6. G[0] = 0 /\ \A k \in 1 .. n : G[k] = G[k - 1] * base + DigitOf(num[k])
  <2>1. G = [k \in 0 .. n |-> IF k = 0 THEN 0 ELSE G[k - 1] * base + DigitOf(num[k])]
    BY <1>5 DEF ValueEqn
  <2>2. \A k \in 0 .. n : G[k] = IF k = 0 THEN 0 ELSE G[k - 1] * base + DigitOf(num[k])
    BY <2>1, Zenon
  <2>3. 0 \in 0 .. n /\ \A k \in 1 .. n : k \in 0 .. n /\ k # 0
    OBVIOUS
  <2> QED BY <2>2, <2>3, Zenon
<1>7. \A k \in 0 .. n : G[k] = F[k]
  <2> DEFINE T == {k \in 0 .. n : G[k] # F[k]}
  <2> SUFFICES ASSUME T # {} PROVE FALSE
    OBVIOUS
  <2>1. T \in SUBSET Nat
    OBVIOUS
  <2>2. PICK k \in T : \A j \in T : k <= j
    BY <2>1, LeastNat
  <2>3. k # 0
    BY <1>3, <1>6
  <2>4. k - 1 \in 0 .. n /\ k - 1 \notin T /\ k \in 1 .. n
    BY <2>2, <2>3
  <2>5. G[k - 1] = F[k - 1]
    BY <2>4
  <2>6. G[k] = F[k]
    BY <2>4, <2>5, <1>3, <1>6
  <2> QED BY <2>6
<1>8. Value = Magnitude
  <2>1. n \in 0 .. n
    OBVIOUS
  <2> QED BY <2>1, <1>3, <1>5, <1>7
<1>9. ASSUME num[1] = "0" PROVE n = 1
  <2>1. 1 \in 1 .. n /\ n \in 1 .. n /\ n - 1 \in 0 .. n
    OBVIOUS
  <2>2. PICK x \in Nat : x = w[n - 1]
    BY <1>1, <2>1
  <2>3. x > 0 /\ x \div base = 0
    BY <2>1, <2>2 DEF Divides
  <2>4. x % base = 0
    BY <1>2, <1>9, <2>1, <2>2
  <2>5. x % base = x
    BY <2>3, BaseFacts
  <2> QED BY <2>3, <2>4, <2>5
<1> QED BY <1>8, <1>9

(* Digits that came out lowest first, and of which str_reverse has exchanged *)
(* those before l and those after r.                                         *)
Place(k) == IF l <= k /\ k <= r THEN k ELSE Len(num) + 1 - k

(* The digits so far came out of w, the lowest first.                        *)
Written(w) == Divides(w, Len(num)) /\ \A k \in 1 .. Len(num) : num[k] = LastDigit(w[k - 1])

(* The same when str_reverse has exchanged some.                             *)
Turned(w) ==
  Divides(w, Len(num)) /\ \A k \in 1 .. Len(num) : num[Place(k)] = LastDigit(w[k - 1])

(* The number under conversion: what is left of it after each digit, and     *)
(* where its digits are.                                                     *)
NumberInv ==
  /\ pc \in {"idle", "fmt", "newline"} => num = <<>>
  /\ pc = "number" => num = <<"0">> /\ arg = 0
  /\ pc = "digits" => \E w : Written(w) /\ w[Len(num)] = val /\ (val = 0 => num # <<>>)
  /\ pc = "reverse" =>
       num # <<>> /\ l + r = Len(num) + 1 /\ \E w : Turned(w) /\ w[Len(num)] = 0
  /\ pc \in {"number", "digits", "reverse"} /\ arg < 0 => text # <<>> /\ text[Len(text)] = "-"
  /\ NumbersReadBack

(* Between numbers there is nothing to say.                                  *)
LEMMA NoNumber ==
  ASSUME num' = <<>>, pc' \in {"idle", "fmt", "newline", "emit"}
  PROVE  NumberInv'
BY DEF NumberInv, NumbersReadBack

(* The value of the numeral d in base b.                                     *)
ValueOf(d, b) ==
  (CHOOSE V :
     V = [k \in 0 .. Len(d) |-> IF k = 0 THEN 0 ELSE V[k - 1] * b + DigitOf(d[k])])[Len(d)]

(* The value of a numeral that is not touched.                               *)
LEMMA SameValue == ASSUME num' = num, base' = base PROVE Value' = Value
<1>1. Value = ValueOf(num, base)
  BY DEF Value, ValueOf, DigitOf
<1>2. Value' = ValueOf(num', base')
  BY DEF Value, ValueOf, DigitOf
<1> QED BY <1>1, <1>2

(* A numeral that has been printed is not touched.                           *)
LEMMA PrintedKept ==
  ASSUME NumberInv, pc = "emit", pc' = "emit", num' = num, base' = base, arg' = arg, text' = text
  PROVE  NumberInv'
<1>1. Value' = Value
  BY SameValue
<1>2. NumbersReadBack'
  BY <1>1 DEF NumberInv, NumbersReadBack
<1> QED BY <1>2 DEF NumberInv

(* A number begins, its sign before it.                                      *)
LEMMA NumberStarts ==
  ASSUME PInv, NEW prefix \in Chars, NEW v \in Nat, NEW b \in {10, 16}, NEW x \in Int,
         Number(prefix, v, b, x), v = IF x < 0 THEN - x ELSE x, x < 0 => prefix = <<"-">>
  PROVE  NumberInv'
<1>1. /\ text' = text \o prefix /\ base' = b /\ arg' = x /\ text \in Chars
      /\ IF v = 0 THEN pc' = "number" /\ num' = <<"0">> /\ val' = 0
                  ELSE pc' = "digits" /\ num' = <<>> /\ val' = v
  BY DEF PInv, TypeOK, Number
<1>2. ASSUME x < 0 PROVE text' # <<>> /\ text'[Len(text')] = "-"
  <2>1. <<"-">> \in Chars /\ Len(<<"-">>) = 1 /\ Len(text) \in Nat /\ text' = text \o <<"-">>
    BY <1>1, <1>2, TextFacts, Concat
  <2>2. Len(text') = Len(text) + 1
    BY <1>1, <2>1, Concat
  <2>3. text'[Len(text) + 1] = "-"
    BY <1>1, <2>1, ConcatProperties DEF Chars
  <2>4. text' # <<>>
    BY <2>1, <2>2
  <2> QED BY <2>2, <2>3, <2>4
<1>3. CASE v = 0
  <2>1. pc' = "number" /\ num' = <<"0">> /\ x = 0
    BY <1>1, <1>3
  <2> QED BY <1>1, <2>1 DEF NumberInv, NumbersReadBack
<1>4. CASE v # 0
  <2> DEFINE w == [k \in 0 .. 0 |-> v]
  <2>1. pc' = "digits" /\ num' = <<>> /\ val' = v /\ Len(<<>>) = 0
    BY <1>1, <1>4
  <2>2. w \in [0 .. 0 -> Nat] /\ w[0] = v
    OBVIOUS
  <2> HIDE DEF w
  <2>3. Magnitude' = v
    BY <1>1 DEF Magnitude
  <2>4. Divides(w, Len(num))'
    BY <2>1, <2>2, <2>3 DEF Divides
  <2>5. Written(w)' /\ w[Len(num')] = val' /\ val' # 0
    BY <1>4, <2>1, <2>2, <2>4 DEF Written
  <2> QED BY <1>1, <1>2, <2>1, <2>5 DEF NumberInv, NumbersReadBack
<1> QED BY <1>3, <1>4

(* A number below WORD is its own residue.                                   *)
LEMMA ResidueOf == \A v \in 0 .. WORD - 1 : v % WORD = v
BY StdioAssumption

(* Every numeric directive begins with the magnitude of its number.          *)
LEMMA NumericStarts == ASSUME PInv, Numeric PROVE NumberInv'
<1>1. PICK v \in Ints : LET u == v % WORD IN
        \/ Signed(v) \/ Number(<<>>, u, 10, u) \/ Number(<<>>, u, 16, u)
        \/ Number(<<"0", "x">>, u, 16, u)
  BY DEF Numeric
<1>2. v \in Int /\ v % WORD \in Nat /\ v >= - WORD /\ v < WORD /\ WORD \in Nat
  BY Residue, StdioAssumption
<1>3. CASE Signed(v)
  <2>1. CASE v < 0
    <3>1. -(v + 1) \in 0 .. WORD - 1
      BY <1>2, <2>1
    <3>2. ((-(v + 1)) % WORD) + 1 = - v
      BY <1>2, <3>1, ResidueOf
    <3>3. Number(<<"-">>, - v, 10, v)
      BY <1>3, <2>1, <3>2 DEF Signed
    <3>4. - v \in Nat
      BY <1>2, <2>1
    <3> QED BY <1>2, <2>1, <3>3, <3>4, TextFacts, NumberStarts
  <2>2. CASE ~ (v < 0)
    <3>1. v \in Nat /\ Number(<<>>, v, 10, v)
      BY <1>2, <1>3, <2>2 DEF Signed
    <3> QED BY <1>2, <2>2, <3>1, TextFacts, NumberStarts
  <2> QED BY <2>1, <2>2
<1>4. CASE LET u == v % WORD IN
           Number(<<>>, u, 10, u) \/ Number(<<>>, u, 16, u) \/ Number(<<"0", "x">>, u, 16, u)
  <2>1. PICK u \in Nat : u = v % WORD
    BY <1>2
  <2>2. u \in Int /\ ~ (u < 0) /\ u = IF u < 0 THEN - u ELSE u
    BY <2>1
  <2>3. Number(<<>>, u, 10, u) \/ Number(<<>>, u, 16, u) \/ Number(<<"0", "x">>, u, 16, u)
    BY <1>4, <2>1
  <2> QED BY <2>2, <2>3, TextFacts, NumberStarts
<1> QED BY <1>1, <1>3, <1>4

(* Another digit.                                                            *)
LEMMA DigitWritten == ASSUME PInv, NumberInv, Digit PROVE NumberInv'
<1>1. /\ pc = "digits" /\ pc' = "digits" /\ val > 0 /\ num \in Chars /\ val \in Nat
      /\ base \in {10, 16} /\ num' = Append(num, LastDigit(val)) /\ val' = val \div base
      /\ UNCHANGED <<base, arg, text>>
  BY DEF PInv, TypeOK, Digit, LastDigit
<1>2. PICK w : Written(w) /\ w[Len(num)] = val
  BY <1>1 DEF NumberInv
<1>3. PICK n \in Nat : n = Len(num)
  BY <1>1, Concat
<1>4. /\ Len(num') = n + 1 /\ num'[n + 1] = LastDigit(val) /\ num' # <<>>
      /\ \A k \in 1 .. n : num'[k] = num[k]
  <2>1. LastDigit(val) \in Char
    <3>1. (val % base) + 1 \in 1 .. 16
      BY <1>1, BaseFacts
    <3> QED BY <3>1, TextFacts, ElementOfSeq DEF LastDigit, Chars
  <2>2. Len(num') = n + 1 /\ num'[n + 1] = LastDigit(val) /\ \A k \in 1 .. n : num'[k] = num[k]
    BY <1>1, <1>3, <2>1, AppendProperties DEF Chars
  <2> QED BY <2>2, <1>3
<1>5. /\ w \in [0 .. n -> Nat] /\ w[0] = Magnitude /\ w[n] = val
      /\ \A k \in 1 .. n : w[k - 1] > 0 /\ w[k] = w[k - 1] \div base
      /\ \A k \in 1 .. n : num[k] = LastDigit(w[k - 1])
  BY <1>2, <1>3 DEF Written, Divides
<1>6. val \div base \in Nat
  BY <1>1, BaseFacts
<1>7. PICK u : /\ u \in [0 .. n + 1 -> Nat] /\ u[n + 1] = val \div base
               /\ \A k \in 0 .. n : u[k] = w[k]
  <2> DEFINE t == [k \in 0 .. n + 1 |-> IF k <= n THEN w[k] ELSE val \div base]
  <2>1. t \in [0 .. n + 1 -> Nat] /\ t[n + 1] = val \div base /\ \A k \in 0 .. n : t[k] = w[k]
    BY <1>5, <1>6
  <2> HIDE DEF t
  <2> QED BY <2>1
<1>8. ASSUME NEW k \in 1 .. n + 1
      PROVE  u[k - 1] > 0 /\ u[k] = u[k - 1] \div base /\ num'[k] = LastDigit(u[k - 1])
  <2>1. CASE k = n + 1
    BY <1>1, <1>4, <1>5, <1>7, <2>1
  <2>2. CASE k # n + 1
    <3>1. k \in 1 .. n /\ k \in 0 .. n /\ k - 1 \in 0 .. n
      BY <2>2
    <3> QED BY <1>4, <1>5, <1>7, <3>1
  <2> QED BY <2>1, <2>2
<1>9. Written(u)' /\ u[Len(num')] = val'
  <2>1. Magnitude' = Magnitude
    BY <1>1 DEF Magnitude
  <2>2. \A k \in 1 .. n + 1 : LastDigit(u[k - 1])' = LastDigit(u[k - 1])
    BY <1>1 DEF LastDigit
  <2>3. u[0] = Magnitude /\ u[n + 1] = val'
    BY <1>1, <1>5, <1>7
  <2>4. Divides(u, Len(num))'
    BY <1>1, <1>4, <1>7, <1>8, <2>1, <2>3 DEF Divides
  <2> QED BY <1>4, <1>8, <2>2, <2>3, <2>4 DEF Written
<1> QED BY <1>1, <1>4, <1>9 DEF NumberInv, NumbersReadBack

(* The last digit is written, and nothing has been exchanged.                *)
LEMMA DigitsTurn == ASSUME PInv, NumberInv, DigitsEnd PROVE NumberInv'
<1>1. /\ pc = "digits" /\ pc' = "reverse" /\ val = 0 /\ l' = 1 /\ r' = Len(num)
      /\ UNCHANGED <<num, base, arg, text>> /\ num \in Chars
  BY DEF PInv, TypeOK, DigitsEnd
<1>2. PICK n \in Nat : n = Len(num)
  BY <1>1, Concat
<1>3. PICK w : Written(w) /\ w[n] = 0
  BY <1>1, <1>2 DEF NumberInv
<1>4. num # <<>>
  BY <1>1 DEF NumberInv
<1>5. \A k \in 1 .. n : Place(k)' = k
  BY <1>1, <1>2 DEF Place
<1>6. \A k \in 1 .. n : LastDigit(w[k - 1])' = LastDigit(w[k - 1])
  BY <1>1 DEF LastDigit
<1>7. Divides(w, n)' /\ \A k \in 1 .. n : num'[k] = LastDigit(w[k - 1])
  BY <1>1, <1>2, <1>3 DEF Written, Divides, Magnitude
<1>8. Turned(w)'
  BY <1>1, <1>2, <1>5, <1>6, <1>7 DEF Turned
<1> QED BY <1>1, <1>2, <1>3, <1>4, <1>8 DEF NumberInv, NumbersReadBack

(* Two digits change places, and the digits still to exchange lie between.   *)
LEMMA DigitsSwapped == ASSUME PInv, NumberInv, Swap PROVE NumberInv'
<1>1. /\ pc = "reverse" /\ pc' = "reverse" /\ l < r /\ l' = l + 1 /\ r' = r - 1
      /\ num' = [num EXCEPT ![l] = num[r], ![r] = num[l]]
      /\ UNCHANGED <<base, arg, text>>
      /\ num \in Seq(Char) /\ l \in Nat /\ r \in Nat /\ l >= 1 /\ r <= Len(num)
  BY DEF PInv, TypeOK, Reversing, Swap, Chars
<1>2. PICK n \in Nat : n = Len(num)
  BY <1>1
<1>3. PICK w : Turned(w) /\ w[n] = 0
  BY <1>1, <1>2 DEF NumberInv
<1>4. num # <<>> /\ l + r = n + 1
  BY <1>1, <1>2 DEF NumberInv
<1>5. l \in 1 .. n /\ r \in 1 .. n
  BY <1>1, <1>2
<1>6. /\ Len(num') = n /\ num'[l] = num[r] /\ num'[r] = num[l]
      /\ \A k \in 1 .. n : k # l /\ k # r => num'[k] = num[k]
  <2> DEFINE h == [num EXCEPT ![l] = num[r]]
  <2>1. num[l] \in Char /\ num[r] \in Char
    BY <1>1, <1>2, <1>5, ElementOfSeq
  <2>2. /\ h \in Seq(Char) /\ Len(h) = n
        /\ \A k \in 1 .. n : h[k] = IF k = l THEN num[r] ELSE num[k]
    BY <1>1, <1>2, <1>5, <2>1, ExceptSeq
  <2>3. num' = [h EXCEPT ![r] = num[l]]
    BY <1>1
  <2> HIDE DEF h
  <2>4. Len(num') = n /\ \A k \in 1 .. n : num'[k] = IF k = r THEN num[l] ELSE h[k]
    BY <1>5, <2>1, <2>2, <2>3, ExceptSeq
  <2> QED BY <1>1, <1>5, <2>2, <2>4
<1>7. ASSUME NEW k \in 1 .. n PROVE num'[Place(k)'] = num[Place(k)]
  <2>1. Place(k)' = IF l + 1 <= k /\ k <= r - 1 THEN k ELSE n + 1 - k
    BY <1>1, <1>6 DEF Place
  <2>2. Place(k) = IF l <= k /\ k <= r THEN k ELSE n + 1 - k
    BY <1>2 DEF Place
  <2>3. CASE k = l
    <3>1. ~(l + 1 <= k) /\ l <= k /\ k <= r /\ n + 1 - k = r
      BY <1>1, <1>4, <2>3
    <3>2. Place(k)' = r /\ Place(k) = l
      BY <2>1, <2>2, <2>3, <3>1
    <3> QED BY <1>6, <3>2
  <2>4. CASE k = r
    <3>1. ~(k <= r - 1) /\ l <= k /\ k <= r /\ n + 1 - k = l
      BY <1>1, <1>4, <2>4
    <3>2. Place(k)' = l /\ Place(k) = r
      BY <2>1, <2>2, <2>4, <3>1
    <3> QED BY <1>6, <3>2
  <2>5. CASE k # l /\ k # r
    <3>1. (l + 1 <= k /\ k <= r - 1) <=> (l <= k /\ k <= r)
      BY <1>1, <2>5
    <3>2. Place(k)' = Place(k)
      BY <2>1, <2>2, <3>1
    <3>3. n + 1 - k \in 1 .. n /\ n + 1 - k # l /\ n + 1 - k # r
      BY <1>1, <1>4, <2>5
    <3>4. Place(k) \in 1 .. n /\ Place(k) # l /\ Place(k) # r
      BY <2>2, <2>5, <3>3
    <3> QED BY <1>6, <3>2, <3>4
  <2> QED BY <2>3, <2>4, <2>5
<1>8. \A k \in 1 .. n : LastDigit(w[k - 1])' = LastDigit(w[k - 1])
  BY <1>1 DEF LastDigit
<1>9. Divides(w, n)' /\ \A k \in 1 .. n : num[Place(k)] = LastDigit(w[k - 1])
  BY <1>1, <1>2, <1>3 DEF Turned, Divides, Magnitude
<1>10. Turned(w)'
  BY <1>6, <1>7, <1>8, <1>9 DEF Turned
<1>11. num' # <<>>
  <2>1. n > 0
    BY <1>5
  <2> QED BY <1>6, <2>1
<1> QED BY <1>1, <1>3, <1>4, <1>6, <1>10, <1>11 DEF NumberInv, NumbersReadBack

(* A single zero has the value 0.                                            *)
LEMMA ZeroValue ==
  ASSUME base \in {10, 16}, num = <<"0">>
  PROVE  Value = 0
<1> DEFINE G == CHOOSE V : ValueEqn(V)
           F == [k \in 0 .. 1 |-> 0]
<1>1. DigitOf("0") = 0
  <2>1. Glyphs[0 + 1] = "0"
    BY DEF Glyphs
  <2> QED BY <2>1, DigitsDiffer
<1>2. num[1] = "0" /\ Len(num) = 1
  OBVIOUS
<1>3. ValueEqn(F)
  <2> DEFINE H == [k \in 0 .. 1 |-> IF k = 0 THEN 0 ELSE F[k - 1] * base + DigitOf(num[k])]
  <2>1. \A k \in 0 .. 1 : H[k] = 0
    BY <1>1, <1>2
  <2>2. H = [k \in 0 .. 1 |-> H[k]]
    OBVIOUS
  <2>3. F = H
    <3> HIDE DEF H
    <3> QED BY <2>1, <2>2
  <2> QED BY <1>2, <2>3 DEF ValueEqn
<1>4. Value = G[1] /\ ValueEqn(G)
  <2>1. ValueEqn(G)
    <3> HIDE DEF F
    <3> QED BY <1>3
  <2>2. Value = G[Len(num)]
    BY DEF Value, ValueEqn, DigitOf
  <2> QED BY <1>2, <2>1, <2>2
<1> HIDE DEF G, F
<1>5. G = [k \in 0 .. 1 |-> IF k = 0 THEN 0 ELSE G[k - 1] * base + DigitOf(num[k])]
  BY <1>2, <1>4 DEF ValueEqn
<1>6. G[0] = 0 /\ G[1] = G[0] * base + DigitOf(num[1])
  BY <1>5
<1> QED BY <1>1, <1>2, <1>4, <1>6

(* When nothing is left to exchange the highest digit is the first.          *)
LEMMA NumeralDone == ASSUME PInv, NumberInv, NumberDone PROVE NumberInv'
<1>1. /\ pc \in {"number", "reverse"} /\ pc' = "emit" /\ text' = text \o num
      /\ UNCHANGED <<num, base, arg>> /\ num \in Chars /\ text \in Chars
      /\ base \in {10, 16} /\ l \in Nat /\ r \in Nat /\ (pc = "reverse" => l >= r)
  BY DEF PInv, TypeOK, NumberDone, conv
<1>2. Value' = Value
  BY <1>1, SameValue
<1>3. PICK n \in Nat : n = Len(num)
  BY <1>1, Concat
<1>4. Value = Magnitude /\ (num[1] = "0" => n = 1)
  <2>1. CASE pc = "number"
    <3>1. num = <<"0">> /\ arg = 0
      BY <2>1 DEF NumberInv
    <3>2. Value = 0 /\ n = 1
      BY <1>1, <1>3, <3>1, ZeroValue
    <3> QED BY <3>1, <3>2 DEF Magnitude
  <2>2. CASE pc = "reverse"
    <3>1. PICK w : Turned(w) /\ w[n] = 0
      BY <1>3, <2>2 DEF NumberInv
    <3>2. n > 0 /\ l + r = n + 1 /\ l >= r
      BY <1>1, <1>3, <2>2 DEF NumberInv, Chars
    <3>3. ASSUME NEW k \in 1 .. n PROVE Place(k) = n + 1 - k
      <4>1. l <= k /\ k <= r => k = n + 1 - k
        BY <1>1, <3>2
      <4> QED BY <1>3, <4>1 DEF Place
    <3>4. Divides(w, n) /\ \A k \in 1 .. n : num[n + 1 - k] = LastDigit(w[k - 1])
      BY <1>3, <3>1, <3>3 DEF Turned
    <3> QED BY <1>1, <1>3, <3>1, <3>2, <3>4, DigitsHaveValue
  <2> QED BY <1>1, <2>1, <2>2
<1>5. ASSUME arg < 0 PROVE text'[Len(text') - Len(num')] = "-"
  <2>1. text # <<>> /\ text[Len(text)] = "-"
    BY <1>1, <1>5 DEF NumberInv
  <2>2. Len(text) \in Nat /\ Len(text) > 0 /\ Len(text') = Len(text) + n
    BY <1>1, <1>3, <2>1, Concat DEF Chars
  <2>3. Len(text') - Len(num') = Len(text) /\ Len(text) \in 1 .. Len(text)
    BY <1>1, <1>3, <2>2
  <2>4. text'[Len(text)] = text[Len(text)]
    BY <1>1, <2>3, ConcatProperties DEF Chars
  <2> QED BY <2>1, <2>3, <2>4
<1>6. NumbersReadBack'
  BY <1>1, <1>2, <1>3, <1>4, <1>5 DEF NumbersReadBack, Magnitude
<1> QED BY <1>1, <1>6 DEF NumberInv

(* Every step keeps what is known of the number under conversion.            *)
LEMMA NumberStep == ASSUME PInv, NumberInv, Next PROVE NumberInv'
<1>1. CASE Printf
  <2>1. pc = "idle" /\ pc' = "fmt" /\ num' = num
    BY <1>1 DEF Printf, conv
  <2> QED BY <2>1, NoNumber DEF NumberInv
<1>2. CASE PutsNull \/ \E s \in Strings : Puts(s)
  <2>1. pc = "idle" /\ pc' \in {"idle", "newline"} /\ num' = num
    BY <1>2 DEF PutsNull, Puts, PutsWrites, conv
  <2> QED BY <2>1, NoNumber DEF NumberInv
<1>3. CASE Text
  <2>1. pc = "fmt" /\ pc' = "emit" /\ num' = num
    BY <1>3 DEF Text, Emit, Directive, conv
  <2> QED BY <2>1, NoNumber DEF NumberInv
<1>4. CASE Putc
  <2>1. pc = "emit" /\ pc' = "emit" /\ UNCHANGED <<num, base, arg, text>>
    BY <1>4 DEF Putc, conv
  <2> QED BY <2>1, PrintedKept
<1>5. CASE DirectiveEnds
  BY <1>5, NoNumber DEF DirectiveEnds
<1>6. CASE PrintfEnds
  <2>1. pc = "fmt" /\ pc' = "idle" /\ num' = num
    BY <1>6 DEF PrintfEnds, conv
  <2> QED BY <2>1, NoNumber DEF NumberInv
<1>7. CASE PutsNewline
  <2>1. pc = "newline" /\ pc' = "idle" /\ num' = num
    BY <1>7 DEF PutsNewline, conv
  <2> QED BY <2>1, NoNumber DEF NumberInv
<1> QED BY <1>1, <1>2, <1>3, <1>4, <1>5, <1>6, <1>7, NumericStarts, DigitWritten, DigitsTurn,
           DigitsSwapped, NumeralDone DEF Next, Step

(* Nothing else changes the number.                                          *)
LEMMA NumberStutters == ASSUME NumberInv, UNCHANGED vars PROVE NumberInv'
<1>1. /\ UNCHANGED <<pc, val, base, num, l, r, arg, text>>
  BY DEF vars, conv
<1>2. Value' = Value
  BY <1>1, SameValue
<1>3. NumbersReadBack'
  BY <1>1, <1>2 DEF NumberInv, NumbersReadBack
<1>4. \A w, n : Divides(w, n)' <=> Divides(w, n)
  BY <1>1 DEF Divides, Magnitude
<1>5. \A x : LastDigit(x)' = LastDigit(x) /\ Place(x)' = Place(x)
  BY <1>1 DEF LastDigit, Place
<1>6. \A w : Written(w)' <=> Written(w)
  BY <1>1, <1>4, <1>5 DEF Written
<1>7. \A w : Turned(w)' <=> Turned(w)
  BY <1>1, <1>4, <1>5 DEF Turned
<1> QED BY <1>1, <1>3, <1>6, <1>7 DEF NumberInv

(* However many digits a number has, what utoa, xtoa and itoa leave in the   *)
(* text is its numeral: no digit lost or out of place, no leading zero, and  *)
(* the sign of a negative number before it.                                  *)
THEOREM NumbersBack == Spec => []NumbersReadBack
<1>1. Init => NumberInv
  BY DEF Init, NumberInv, NumbersReadBack
<1>2. PInv /\ NumberInv /\ [Next]_vars => NumberInv'
  BY NumberStep, NumberStutters
<1>3. NumberInv => NumbersReadBack
  BY DEF NumberInv
<1> QED BY <1>1, <1>2, <1>3, StdioInvariant, PTL DEF Spec

-----------------------------------------------------------------------------
(* A call comes to its end.                                                  *)

(* How far the running directive, or the call, is from its end.              *)
Phase == IF pc = "digits" THEN 4
         ELSE IF pc \in {"reverse", "number"} THEN 3
         ELSE IF pc = "emit" THEN 2
         ELSE IF pc \in {"fmt", "newline"} THEN 1 ELSE 0

(* What the loop of this phase still has to do.                              *)
Rounds == IF pc = "digits" THEN val
          ELSE IF pc = "reverse" /\ l < r THEN r - l
          ELSE IF pc = "emit" THEN Len(todo) ELSE 0

(* One directive less, or a later phase of it, or one round less.            *)
Closer ==
  \/ left' < left
  \/ left' = left /\ Phase' < Phase
  \/ left' = left /\ Phase' = Phase /\ Rounds' < Rounds

(* The measure is one of natural numbers.                                    *)
LEMMA MeasureFacts ==
  ASSUME TypeOK
  PROVE  left \in Nat /\ Phase \in Nat /\ Rounds \in Nat
<1>1. left \in Nat
  BY StdioAssumption DEF TypeOK
<1>2. Phase \in Nat
  BY DEF TypeOK, Phase
<1>3. Rounds \in Nat
  <2>1. Len(todo) \in Nat
    BY DEF TypeOK, Chars
  <2> QED BY <2>1 DEF TypeOK, Rounds
<1> QED BY <1>1, <1>2, <1>3

(* Each step of a call makes the measure smaller.                            *)
LEMMA StepCloser == ASSUME TypeOK, TypeOK', Step PROVE Closer
<1>0. left \in Nat /\ left' \in Nat
  BY StdioAssumption DEF TypeOK
<1>1. CASE Directive
  BY <1>0, <1>1 DEF Directive, Closer
<1>2. CASE Digit
  <2>1. pc = "digits" /\ pc' = "digits" /\ left' = left /\ val' = val \div base /\ val > 0
    BY <1>2 DEF Digit
  <2>2. val \in Nat /\ base \in {10, 16}
    BY DEF TypeOK
  <2>3. val \div base < val
    BY <2>1, <2>2
  <2>4. Phase' = Phase /\ Rounds' = val' /\ Rounds = val
    BY <2>1 DEF Phase, Rounds
  <2> QED BY <2>1, <2>3, <2>4 DEF Closer
<1>3. CASE DigitsEnd
  <2>1. pc = "digits" /\ pc' = "reverse" /\ left' = left
    BY <1>3 DEF DigitsEnd
  <2>2. Phase = 4 /\ Phase' = 3
    BY <2>1 DEF Phase
  <2> QED BY <2>1, <2>2 DEF Closer
<1>4. CASE Swap
  <2>1. pc = "reverse" /\ pc' = "reverse" /\ left' = left /\ l < r /\ l' = l + 1 /\ r' = r - 1
    BY <1>4 DEF Swap
  <2>2. l \in Nat /\ r \in Nat
    BY DEF TypeOK
  <2>3. Phase' = Phase
    BY <2>1 DEF Phase
  <2>4. Rounds = r - l /\ Rounds' = IF l' < r' THEN r' - l' ELSE 0
    BY <2>1 DEF Rounds
  <2>5. Rounds' < Rounds
    BY <2>1, <2>2, <2>4
  <2> QED BY <2>1, <2>3, <2>5 DEF Closer
<1>5. CASE NumberDone
  <2>1. pc \in {"reverse", "number"} /\ pc' = "emit" /\ left' = left
    BY <1>5 DEF NumberDone
  <2>2. Phase = 3 /\ Phase' = 2
    BY <2>1 DEF Phase
  <2> QED BY <2>1, <2>2 DEF Closer
<1>6. CASE Putc
  <2>1. pc = "emit" /\ pc' = "emit" /\ left' = left /\ todo # <<>> /\ todo' = Tail(todo)
    BY <1>6 DEF Putc
  <2>2. todo \in Seq(Char)
    BY DEF TypeOK, Chars
  <2>3. Len(Tail(todo)) = Len(todo) - 1 /\ Len(todo) \in Nat
    BY <2>1, <2>2, HeadTailProperties
  <2>4. Phase' = Phase /\ Rounds = Len(todo) /\ Rounds' = Len(todo')
    BY <2>1 DEF Phase, Rounds
  <2>5. Rounds' < Rounds
    BY <2>1, <2>3, <2>4
  <2> QED BY <2>1, <2>4, <2>5 DEF Closer
<1>7. CASE DirectiveEnds
  <2>1. pc = "emit" /\ pc' = "fmt" /\ left' = left
    BY <1>7 DEF DirectiveEnds
  <2>2. Phase = 2 /\ Phase' = 1
    BY <2>1 DEF Phase
  <2> QED BY <2>1, <2>2 DEF Closer
<1>8. CASE PrintfEnds \/ PutsNewline
  <2>1. pc \in {"fmt", "newline"} /\ pc' = "idle" /\ left' = left
    BY <1>8 DEF PrintfEnds, PutsNewline
  <2>2. Phase = 1 /\ Phase' = 0
    BY <2>1 DEF Phase
  <2> QED BY <2>1, <2>2 DEF Closer
<1>9. Text \/ Numeric => Directive
  BY DEF Text, Numeric, Emit, Signed, Number
<1> QED BY <1>1, <1>2, <1>3, <1>4, <1>5, <1>6, <1>7, <1>8, <1>9 DEF Step

(* Every step of printf or puts decreases a measure of natural numbers,      *)
(* whatever write answers: no call runs for ever. What is left of KeepsPromise *)
(* is that the call that has begun keeps running.                            *)
THEOREM CallEnds ==
  Spec => [](left \in Nat /\ Phase \in Nat /\ Rounds \in Nat) /\ [][Step => Closer]_vars
<1>1. TypeOK => left \in Nat /\ Phase \in Nat /\ Rounds \in Nat
  BY MeasureFacts
<1>2. TypeOK /\ TypeOK' /\ [Next]_vars => [Step => Closer]_vars
  BY StepCloser
<1> QED BY <1>1, <1>2, StdioTyped, PTL DEF Spec
=============================================================================
