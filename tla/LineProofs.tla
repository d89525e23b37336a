----------------------------- MODULE LineProofs -----------------------------
(* Theorems about the read loop of toysh and parse_line, for buffers and     *)
(* argv of every size and every alphabet.                                    *)
EXTENDS Line, SequenceTheorems, FiniteSetTheorems, NaturalsInduction, WellFoundedInduction, TLAPS

(* The next character goes behind those that have been read, and the buffer  *)
(* holds them while the line is being read.                                  *)
AsTyped ==
  /\ pos = Len(line)
  /\ pc = "read" => \A k \in 1 .. Len(line) : input[k - 1] = line[k]

(* parse_line writes behind what it reads, and neither leaves the line.      *)
Behind == pc \in {"parse", "skip", "run"} => o <= in /\ in <= Len(line)

(* The inductive invariant.                                                  *)
LInv == TypeOK /\ AsTyped /\ Behind /\ UnreadIntact

-----------------------------------------------------------------------------
(* The shell begins with nothing read.                                       *)
LEMMA InitLInv == Init => LInv
<1> SUFFICES ASSUME Init PROVE LInv
  OBVIOUS
<1>1. MAX_INPUT \in Nat /\ MAX_INPUT > 1 /\ MAX_ARGS \in Nat /\ MAX_ARGS > 1
  BY LineAssumption
<1>2. line = <<>> /\ argv = <<>> /\ Len(line) = 0 /\ Len(argv) = 0
      /\ line \in Seq(Text) /\ argv \in Seq(Index)
  BY DEF Init
<1>3. input \in [Index -> Text \cup {NUL}]
  BY DEF Init, Index
<1>4. in_quote \in BOOLEAN
  BY DEF Init
<1>5. pc = "read" /\ pos = 0 /\ in = 0 /\ o = 0
  BY DEF Init
<1> QED BY <1>1, <1>2, <1>3, <1>4, <1>5 DEF LInv, TypeOK, AsTyped, Behind, UnreadIntact, Index

(* While the buffer has room for a character it also has room for the NUL.   *)
LEMMA ReadStep == ASSUME LInv, NEW c \in Text, Read(c) PROVE LInv'
<1>1. /\ MAX_INPUT \in Nat /\ pos \in Nat /\ pos < MAX_INPUT - 1 /\ pc = "read"
      /\ pos = Len(line) /\ line \in Seq(Text) /\ input \in [Index -> Text \cup {NUL}]
      /\ \A k \in 1 .. Len(line) : input[k - 1] = line[k]
  BY LineAssumption DEF LInv, TypeOK, AsTyped, Read, Room, Index
<1>2. /\ line' = Append(line, c) /\ pos' = pos + 1 /\ input' = [input EXCEPT ![pos] = c]
      /\ UNCHANGED <<pc, argv, in, o, in_quote>>
  BY DEF Read
<1>3. /\ line' \in Seq(Text) /\ Len(line') = Len(line) + 1
      /\ \A k \in 1 .. Len(line) : line'[k] = line[k]
      /\ line'[Len(line) + 1] = c
  BY <1>1, <1>2, AppendProperties
<1>4. pos \in Index /\ pos' \in Index /\ input' \in [Index -> Text \cup {NUL}]
  BY <1>1, <1>2 DEF Index
<1>5. ASSUME NEW k \in 1 .. Len(line') PROVE input'[k - 1] = line'[k]
  <2>1. CASE k = Len(line) + 1
    BY <2>1, <1>1, <1>2, <1>3, <1>4
  <2>2. CASE k # Len(line) + 1
    <3>1. k \in 1 .. Len(line) /\ k - 1 # pos /\ k - 1 \in Index
      BY <2>2, <1>1, <1>3 DEF Index
    <3> QED BY <3>1, <1>1, <1>2, <1>3
  <2> QED BY <2>1, <2>2
<1>6. TypeOK'
  BY <1>1, <1>2, <1>3, <1>4 DEF LInv, TypeOK, Index
<1>7. AsTyped'
  BY <1>1, <1>2, <1>3, <1>5 DEF AsTyped
<1> QED BY <1>1, <1>2, <1>6, <1>7 DEF LInv, Behind, UnreadIntact

(* A new line begins at the front of the buffer.                             *)
LEMMA NextLineStep == LInv /\ NextLine => LInv'
<1> SUFFICES ASSUME LInv, NextLine PROVE LInv'
  OBVIOUS
<1>1. /\ MAX_INPUT \in Nat /\ MAX_INPUT > 1 /\ MAX_ARGS \in Nat /\ MAX_ARGS > 1
      /\ input \in [Index -> Text \cup {NUL}]
  BY LineAssumption DEF LInv, TypeOK
<1>2. /\ line' = <<>> /\ argv' = <<>> /\ Len(line') = 0 /\ Len(argv') = 0
      /\ line' \in Seq(Text) /\ argv' \in Seq(Index)
      /\ pc' = "read" /\ pos' = 0 /\ in' = 0 /\ o' = 0 /\ input' = input
  BY DEF NextLine
<1>3. in_quote' \in BOOLEAN
  BY DEF NextLine
<1> QED BY <1>1, <1>2, <1>3 DEF LInv, TypeOK, AsTyped, Behind, UnreadIntact, Index

(* The NUL goes behind the last character: what is to be parsed is the line. *)
LEMMA ReadDoneStep == LInv /\ ReadDone => LInv'
<1> SUFFICES ASSUME LInv, ReadDone PROVE LInv'
  OBVIOUS
<1>1. CASE line = <<>> /\ NextLine
  BY <1>1, NextLineStep
<1>2. CASE line # <<>> /\ Terminate /\ pc' = "parse" /\ argv' = <<0>> /\ in' = 0 /\ o' = 0
           /\ in_quote' = FALSE /\ UNCHANGED <<pos, line>>
  <2>1. /\ MAX_INPUT \in Nat /\ MAX_INPUT > 1 /\ MAX_ARGS \in Nat /\ MAX_ARGS > 1
        /\ pos = Len(line) /\ pos \in Index /\ line \in Seq(Text)
        /\ input \in [Index -> Text \cup {NUL}]
        /\ \A k \in 1 .. Len(line) : input[k - 1] = line[k]
    BY LineAssumption DEF LInv, TypeOK, AsTyped, ReadDone
  <2>2. input' = [input EXCEPT ![pos] = NUL]
    BY <1>2 DEF Terminate
  <2>3. /\ 0 \in Index /\ argv' \in Seq(Index) /\ Len(argv') = 1
        /\ input' \in [Index -> Text \cup {NUL}] /\ input'[pos] = NUL
    BY <1>2, <2>1, <2>2 DEF Index
  <2>4. \A k \in 1 .. Len(line) : input'[k - 1] = line[k]
    BY <2>1, <2>2 DEF Index
  <2>5. pc' = "parse" /\ in' = 0 /\ o' = 0 /\ in_quote' \in BOOLEAN /\ pos' = pos /\ line' = line
    BY <1>2
  <2> QED BY <2>1, <2>3, <2>4, <2>5 DEF LInv, TypeOK, AsTyped, Behind, UnreadIntact, Index
<1> QED BY <1>1, <1>2 DEF ReadDone

(* What parse_line sees at in is a character of the line, or the NUL at its  *)
(* end and nowhere else.                                                     *)
LEMMA AtIn ==
  ASSUME LInv, pc \in {"parse", "skip"}
  PROVE  /\ in \in Nat /\ o \in Nat /\ Len(line) \in Nat /\ Len(line) < MAX_INPUT
         /\ o <= in /\ in <= Len(line) /\ MAX_INPUT \in Nat
         /\ in \in Index /\ o \in Index
         /\ input \in [Index -> Text \cup {NUL}]
         /\ input[Len(line)] = NUL
         /\ \A k \in in + 1 .. Len(line) : input[k - 1] = line[k]
         /\ input[in] # NUL => in < Len(line)
  BY LineAssumption DEF LInv, TypeOK, AsTyped, UnreadIntact, Index

(* The loop body puts one character at out, which is not ahead of input.     *)
LEMMA WriteStep ==
  ASSUME LInv, pc = "parse", input[in] # NUL, NEW c \in Text \cup {NUL},
         input' = [input EXCEPT ![o] = c], o' = o + 1, in' = in + 1,
         pc' \in {"parse", "skip"}, UNCHANGED <<pos, argv, in_quote, line>>
  PROVE  LInv'
<1>1. /\ in \in Nat /\ o \in Nat /\ Len(line) \in Nat /\ Len(line) < MAX_INPUT
      /\ o <= in /\ in < Len(line) /\ MAX_INPUT \in Nat /\ o \in Index
      /\ input \in [Index -> Text \cup {NUL}] /\ input[Len(line)] = NUL
      /\ \A k \in in + 1 .. Len(line) : input[k - 1] = line[k]
  BY AtIn
<1>2. /\ input' \in [Index -> Text \cup {NUL}] /\ input'[Len(line)] = NUL
      /\ \A k \in in + 2 .. Len(line) : input'[k - 1] = line[k]
  BY <1>1 DEF Index
<1>3. TypeOK' /\ AsTyped'
  BY <1>1, <1>2 DEF LInv, TypeOK, AsTyped, Index
<1>4. Behind' /\ UnreadIntact'
  BY <1>1, <1>2 DEF Behind, UnreadIntact
<1> QED BY <1>3, <1>4 DEF LInv

(* A quote, or a further blank, is only read.                                *)
LEMMA PassStep ==
  ASSUME LInv, pc \in {"parse", "skip"}, input[in] # NUL, in' = in + 1, in_quote' \in BOOLEAN,
         UNCHANGED <<pc, input, pos, argv, o, line>>
  PROVE  LInv'
<1>1. /\ in \in Nat /\ o \in Nat /\ Len(line) \in Nat /\ Len(line) < MAX_INPUT
      /\ o <= in /\ in < Len(line) /\ MAX_INPUT \in Nat
      /\ input[Len(line)] = NUL /\ \A k \in in + 1 .. Len(line) : input[k - 1] = line[k]
  BY AtIn
<1>2. TypeOK' /\ AsTyped'
  BY <1>1 DEF LInv, TypeOK, AsTyped, Index
<1> QED BY <1>1, <1>2 DEF LInv, Behind, UnreadIntact

(* An argument begins at out, and only while the NULL has its place.         *)
LEMMA SkipDoneStep == LInv /\ SkipDone => LInv'
<1> SUFFICES ASSUME LInv, SkipDone PROVE LInv'
  OBVIOUS
<1>1. /\ pc = "skip" /\ pc' = "parse" /\ UNCHANGED <<input, pos, in, o, in_quote, line>>
      /\ argv' = argv \/ (ArgRoom /\ argv' = Append(argv, o))
  BY DEF SkipDone
<1>2. /\ argv \in Seq(Index) /\ Len(argv) \in Nat /\ Len(argv) <= MAX_ARGS - 1 /\ MAX_ARGS \in Nat
      /\ o \in Index
  BY LineAssumption DEF LInv, TypeOK
<1>3. argv' \in Seq(Index) /\ Len(argv') <= MAX_ARGS - 1
  <2>1. CASE argv' = argv
    BY <2>1, <1>2
  <2>2. CASE ArgRoom /\ argv' = Append(argv, o)
    BY <2>2, <1>2, AppendProperties DEF ArgRoom
  <2> QED BY <1>1, <2>1, <2>2
<1> QED BY <1>1, <1>3 DEF LInv, TypeOK, AsTyped, Behind, UnreadIntact

(* The last NUL goes where out is, which is not past the end of the line.    *)
LEMMA ParseDoneStep == LInv /\ ParseDone => LInv'
<1> SUFFICES ASSUME LInv, ParseDone PROVE LInv'
  OBVIOUS
<1>1. pc = "parse" /\ pc' = "run" /\ input' = [input EXCEPT ![o] = NUL]
      /\ UNCHANGED <<pos, argv, in, o, in_quote, line>>
  BY DEF ParseDone
<1>2. o \in Index /\ input \in [Index -> Text \cup {NUL}] /\ o <= in /\ in <= Len(line)
  BY <1>1, AtIn
<1> QED BY <1>1, <1>2 DEF LInv, TypeOK, AsTyped, Behind, UnreadIntact

(* Every step keeps the invariant.                                           *)
LEMMA NextLInv == LInv /\ [Next]_vars => LInv'
<1> SUFFICES ASSUME LInv, [Next]_vars PROVE LInv'
  OBVIOUS
<1>1. ASSUME NEW c \in Text, Read(c) PROVE LInv'
  BY <1>1, ReadStep
<1>2. CASE ReadEnd
  BY <1>2 DEF ReadEnd, LInv, TypeOK, AsTyped, Behind, UnreadIntact
<1>3. CASE ReadDone
  BY <1>3, ReadDoneStep
<1>4. CASE ParseQuote
  <2>1. pc = "parse" /\ input[in] # NUL /\ in_quote' \in BOOLEAN
    BY <1>4 DEF ParseQuote, Quote, NUL
  <2> QED BY <1>4, <2>1, PassStep DEF ParseQuote
<1>5. CASE ParseBlank
  <2>1. pc = "parse" /\ input[in] # NUL /\ pc' = "skip" /\ NUL \in Text \cup {NUL}
    BY <1>5 DEF ParseBlank, Separates, Blank, NUL
  <2> QED BY <1>5, <2>1, WriteStep DEF ParseBlank
<1>6. CASE Skip
  <2>1. pc = "skip" /\ input[in] # NUL /\ in_quote' \in BOOLEAN
    BY <1>6 DEF Skip, Blank, NUL, LInv, TypeOK
  <2> QED BY <1>6, <2>1, PassStep DEF Skip
<1>7. CASE SkipDone
  BY <1>7, SkipDoneStep
<1>8. CASE ParseChar
  <2>1. pc = "parse" /\ input[in] # NUL /\ pc' = "parse"
    BY <1>8 DEF ParseChar
  <2>2. input[in] \in Text \cup {NUL}
    BY <2>1, AtIn
  <2> QED BY <1>8, <2>1, <2>2, WriteStep DEF ParseChar
<1>9. CASE ParseDone
  BY <1>9, ParseDoneStep
<1>10. CASE RunDone
  BY <1>10, NextLineStep DEF RunDone
<1>11. CASE UNCHANGED vars
  BY <1>11 DEF vars, LInv, TypeOK, AsTyped, Behind, UnreadIntact
<1> QED BY <1>1, <1>2, <1>3, <1>4, <1>5, <1>6, <1>7, <1>8, <1>9, <1>10, <1>11 DEF Next, Step

-----------------------------------------------------------------------------
(* The invariant holds in every state.                                       *)
THEOREM LineInvariant == Spec => []LInv
<1>1. Init => LInv
  BY InitLInv
<1>2. LInv /\ [Next]_vars => LInv'
  BY NextLInv
<1> QED BY <1>1, <1>2, PTL DEF Spec

(* Every index into the buffer, those of the NULs included, is inside it,    *)
(* and argv keeps an entry for its NULL: shell.c:69 and shell.c:123.         *)
THEOREM IndicesInBounds == Spec => []TypeOK
<1>1. LInv => TypeOK
  BY DEF LInv
<1> QED BY <1>1, LineInvariant, PTL

(* Splitting in place never destroys what is still to be read: shell.c:129.  *)
THEOREM NothingReadIsLost == Spec => []UnreadIntact
<1>1. LInv => UnreadIntact
  BY DEF LInv
<1> QED BY <1>1, LineInvariant, PTL

-----------------------------------------------------------------------------
(* Counting.                                                                 *)

(* How many members of T are at most k.                                      *)
Upto(T, k) == Cardinality({j \in T : j <= k})

(* T is a set of positions, up to n.                                         *)
Among(T, n) == n \in Nat /\ T \in SUBSET (1 .. n)

(* The count grows by one at each member.                                    *)
LEMMA UptoFacts ==
  ASSUME NEW n, NEW T, Among(T, n)
  PROVE  /\ n \in Nat /\ Upto(T, 0) = 0 /\ Upto(T, n) = Cardinality(T)
         /\ \A k \in Nat : /\ Upto(T, k) \in Nat
                           /\ Upto(T, k + 1) = Upto(T, k) + (IF k + 1 \in T THEN 1 ELSE 0)
                           /\ k >= n => Upto(T, k) = Cardinality(T)
         /\ \A j, k \in Nat : j <= k => Upto(T, j) <= Upto(T, k)
         /\ \A k \in T : /\ k \in Nat /\ k - 1 \in Nat /\ k >= 1 /\ k <= n
                         /\ Upto(T, k) = Upto(T, k - 1) + 1 /\ Upto(T, k - 1) \in Nat
<1>0. n \in Nat /\ T \in SUBSET (1 .. n) /\ \A j \in T : j \in Nat /\ 1 <= j /\ j <= n
  BY DEF Among
<1>1. IsFiniteSet(T)
  <2>1. IsFiniteSet(1 .. n)
    BY <1>0, FS_Interval
  <2> QED BY <1>0, <2>1, FS_Subset
<1>2. ASSUME NEW k \in Nat PROVE IsFiniteSet({j \in T : j <= k}) /\ Upto(T, k) \in Nat
  <2>1. {j \in T : j <= k} \in SUBSET T
    OBVIOUS
  <2>2. IsFiniteSet({j \in T : j <= k})
    BY <1>1, <2>1, FS_Subset
  <2> QED BY <2>2, FS_CardinalityType DEF Upto
<1>3. Upto(T, 0) = 0
  <2>2. \A j \in T : ~(j <= 0)
    BY <1>0
  <2>1. {j \in T : j <= 0} = {}
    BY <2>2, Zenon
  <2> QED BY <2>1, FS_EmptySet DEF Upto
<1>4. ASSUME NEW k \in Nat, k > 0
      PROVE  Upto(T, k) = Upto(T, k - 1) + (IF k \in T THEN 1 ELSE 0)
  <2> DEFINE A == {j \in T : j <= k - 1}
             B == {j \in T : j <= k}
  <2>0. k - 1 \in Nat
    BY <1>4
  <2>1. IsFiniteSet(A)
    BY <1>2, <2>0
  <2>9. \A j \in T : (j <= k) <=> (j <= k - 1 \/ j = k)
    BY <1>0
  <2>2. CASE k \in T
    <3>0. ~(k <= k - 1)
      OBVIOUS
    <3>1. B = A \cup {k} /\ k \notin A
      BY <2>2, <2>9, <3>0, Zenon
    <3>2. Cardinality(A \cup {k}) = Cardinality(A) + 1
      <4> HIDE DEF A, B
      <4> QED BY <2>1, <3>1, FS_AddElement
    <3> QED BY <2>2, <3>1, <3>2 DEF Upto
  <2>3. CASE k \notin T
    <3>1. B = A
      BY <2>3, <2>9
    <3>2. Cardinality(A) \in Nat
      <4> HIDE DEF A
      <4> QED BY <2>1, FS_CardinalityType
    <3>3. Upto(T, k) = Cardinality(B) /\ Upto(T, k - 1) = Cardinality(A)
      BY DEF Upto
    <3> HIDE DEF A, B
    <3> QED BY <2>3, <3>1, <3>2, <3>3
  <2> QED BY <2>2, <2>3
<1>5. ASSUME NEW j \in Nat, NEW k \in Nat, j <= k PROVE Upto(T, j) <= Upto(T, k)
  <2>2. \A i \in T : i <= j => i <= k
    BY <1>0, <1>5
  <2>1. {i \in T : i <= j} \in SUBSET {i \in T : i <= k}
    BY <2>2, Zenon
  <2> QED BY <1>2, <2>1, FS_Subset DEF Upto
<1>6. ASSUME NEW k \in Nat, k >= n PROVE Upto(T, k) = Cardinality(T)
  <2>2. \A j \in T : j <= k
    BY <1>0, <1>6
  <2>1. {j \in T : j <= k} = T
    BY <2>2, Zenon
  <2> QED BY <2>1 DEF Upto
<1>7. ASSUME NEW k \in Nat
      PROVE  Upto(T, k + 1) = Upto(T, k) + (IF k + 1 \in T THEN 1 ELSE 0)
  <2>1. k + 1 \in Nat /\ k + 1 > 0 /\ (k + 1) - 1 = k
    OBVIOUS
  <2>2. Upto(T, k + 1) = Upto(T, (k + 1) - 1) + (IF k + 1 \in T THEN 1 ELSE 0)
    BY <1>4, <2>1
  <2> QED BY <2>1, <2>2
<1>8. ASSUME NEW k \in T
      PROVE  /\ k \in Nat /\ k - 1 \in Nat /\ k >= 1 /\ k <= n
             /\ Upto(T, k) = Upto(T, k - 1) + 1 /\ Upto(T, k - 1) \in Nat
  <2>1. k \in Nat /\ k - 1 \in Nat /\ k > 0 /\ k <= n
    BY <1>0
  <2>2. Upto(T, k) = Upto(T, k - 1) + 1
    BY <1>4, <2>1
  <2>3. Upto(T, k - 1) \in Nat
    BY <1>2, <2>1
  <2>4. k >= 1
    BY <2>1
  <2> QED BY <2>1, <2>2, <2>3, <2>4
<1>9. Upto(T, n) = Cardinality(T)
  BY <1>0, <1>6
<1> QED BY <1>0, <1>2, <1>3, <1>5, <1>6, <1>7, <1>8, <1>9

(* Every set of numbers has a least one.                                     *)
LEMMA LeastNat ==
  ASSUME NEW T \in SUBSET Nat, T # {}
  PROVE  \E x \in T : \A y \in T : x <= y
<1>1. PICK x \in T : \A y \in T : ~(<<y, x>> \in OpToRel(<, Nat))
  BY NatLessThanWellFounded, WFMin
<1>2. \A y \in T : ~(y < x)
  BY <1>1 DEF OpToRel
<1> QED BY <1>2

(* There is exactly one i-th member.                                         *)
LEMMA Ranked ==
  ASSUME NEW n, NEW T, Among(T, n), NEW i \in 1 .. Cardinality(T)
  PROVE  \E k \in T : Upto(T, k) = i /\ \A j \in T : Upto(T, j) = i => j = k
<1> DEFINE R == {k \in Nat : Upto(T, k) >= i}
<1>1. n \in R
  <2>1. n \in Nat /\ Upto(T, n) = Cardinality(T) /\ Upto(T, n) \in Nat
    BY UptoFacts
  <2> QED BY <2>1
<1>2. PICK k \in R : \A j \in R : k <= j
  <2>1. R \in SUBSET Nat /\ R # {}
    BY <1>1
  <2> HIDE DEF R
  <2> QED BY <2>1, LeastNat
<1>3. i \in Nat /\ i > 0 /\ k \in Nat /\ Upto(T, k) >= i /\ Upto(T, 0) = 0 /\ k > 0
  <2>1. Upto(T, 0) = 0 /\ Cardinality(T) = Upto(T, n) /\ Upto(T, n) \in Nat
    BY UptoFacts
  <2> QED BY <1>2, <2>1
<1>4. Upto(T, k) = Upto(T, k - 1) + (IF k \in T THEN 1 ELSE 0)
  <2>1. k - 1 \in Nat /\ (k - 1) + 1 = k
    BY <1>3
  <2>2. Upto(T, (k - 1) + 1) = Upto(T, k - 1) + (IF (k - 1) + 1 \in T THEN 1 ELSE 0)
    BY <2>1, UptoFacts
  <2> QED BY <2>1, <2>2
<1>5. k - 1 \in Nat /\ Upto(T, k - 1) \in Nat /\ Upto(T, k - 1) < i
  <2>1. k - 1 \in Nat /\ k - 1 \notin R
    BY <1>2, <1>3
  <2>2. Upto(T, k - 1) \in Nat
    BY <2>1, UptoFacts
  <2> QED BY <1>3, <2>1, <2>2
<1>6. k \in T /\ Upto(T, k) = i
  BY <1>3, <1>4, <1>5
<1>7. ASSUME NEW j \in T, Upto(T, j) = i PROVE j = k
  <2>1. j \in Nat
    BY UptoFacts
  <2>2. k <= j
    BY <1>2, <1>3, <1>7, <2>1
  <2>3. CASE k < j
    <3>1. Upto(T, j) = Upto(T, j - 1) + 1 /\ j - 1 \in Nat /\ Upto(T, j - 1) \in Nat
      BY UptoFacts
    <3>3. k <= j - 1
      BY <1>3, <2>1, <2>3
    <3>2. Upto(T, k) <= Upto(T, j - 1)
      BY <1>3, <3>1, <3>3, UptoFacts
    <3> QED BY <1>3, <1>6, <1>7, <3>1, <3>2
  <2> QED BY <1>3, <2>1, <2>2, <2>3
<1> QED BY <1>6, <1>7

-----------------------------------------------------------------------------
(* Splitting.                                                                *)

(* The definitions of the split, of any line w.                              *)
QuotedIn(w, k) == Cardinality({j \in 1 .. k - 1 : w[j] = Quote}) % 2 = 1

GapIn(w, k) == w[k] = Blank /\ ~QuotedIn(w, k)

KeepersIn(w) == {k \in 1 .. Len(w) : ~GapIn(w, k) /\ w[k] # Quote}
GapsIn(w)    == {k \in 1 .. Len(w) : GapIn(w, k)}
StartsIn(w)  == {k \in 2 .. Len(w) : GapIn(w, k - 1) /\ ~GapIn(w, k)}

(* K, S and G are the kept characters of the line w, the starts and the gaps. *)
Divided(w, K, S, G) ==
  /\ w \in Seq(Text) /\ K \in SUBSET (1 .. Len(w)) /\ G \in SUBSET (1 .. Len(w))
  /\ S = {k \in 2 .. Len(w) : k - 1 \in G /\ k \notin G}
  /\ \A k \in 1 .. Len(w) : k \in K <=> k \notin G /\ w[k] # Quote

(* parse_line has read x characters and written y, and has looked for the    *)
(* start of an argument up to seen.  Each kept character is behind those     *)
(* kept before it and one NUL for each argument that has ended before.       *)
SplitAt(K, S, G, w, buf, av, x, y, seen) ==
  /\ seen \in {x, x + 1}
  /\ seen = x => x \in G
  /\ x \in G => (seen = x \/ x + 1 \notin G) /\ buf[y - 1] = NUL
  /\ y = Upto(K, x) + Upto(S, x) + (IF x \in G THEN 1 ELSE 0)
  /\ Len(av) = IF Upto(S, seen) + 1 < MAX_ARGS THEN Upto(S, seen) + 1 ELSE MAX_ARGS - 1
  /\ av[1] = 0
  /\ \A t \in S : t <= seen =>
       /\ buf[Upto(K, t - 1) + Upto(S, t) - 1] = NUL
       /\ Upto(S, t) < Len(av) => av[Upto(S, t) + 1] = Upto(K, t - 1) + Upto(S, t)
  /\ \A k \in K : k <= x => buf[Upto(K, k - 1) + Upto(S, k)] = w[k]

(* The inductive invariant of the split.                                     *)
SplitInv ==
  pc \in {"parse", "skip", "run"} =>
    /\ in_quote <=> QuotedIn(line, in + 1)
    /\ SplitAt(KeepersIn(line), StartsIn(line), GapsIn(line), line, input, argv, in, o,
               IF pc = "skip" THEN in ELSE in + 1)
    /\ pc = "run" => in = Len(line) /\ input[o] = NUL

(* The definitions of the split say that it divides the line.                *)
LEMMA LineDivided ==
  ASSUME NEW w \in Seq(Text)
  PROVE  Divided(w, KeepersIn(w), StartsIn(w), GapsIn(w))
<1>1. Len(w) \in Nat
  OBVIOUS
<1>2. KeepersIn(w) \in SUBSET (1 .. Len(w)) /\ GapsIn(w) \in SUBSET (1 .. Len(w))
  BY DEF KeepersIn, GapsIn
<1>3. \A k \in 1 .. Len(w) : k \in KeepersIn(w) <=> k \notin GapsIn(w) /\ w[k] # Quote
  BY DEF KeepersIn, GapsIn
<1>4. \A k \in 2 .. Len(w) : k - 1 \in 1 .. Len(w) /\ k \in 1 .. Len(w)
  BY <1>1
<1>5. \A k \in 1 .. Len(w) : k \in GapsIn(w) <=> GapIn(w, k)
  BY DEF GapsIn
<1>6. \A k \in 2 .. Len(w) :
        GapIn(w, k - 1) /\ ~GapIn(w, k) <=> k - 1 \in GapsIn(w) /\ k \notin GapsIn(w)
  BY <1>4, <1>5
<1>7. StartsIn(w) = {k \in 2 .. Len(w) : k - 1 \in GapsIn(w) /\ k \notin GapsIn(w)}
  BY <1>6, Zenon DEF StartsIn
<1> QED BY <1>2, <1>3, <1>7 DEF Divided

(* What the counts do from one character to the next.                        *)
LEMMA Counting ==
  ASSUME NEW w, NEW K, NEW S, NEW G, Divided(w, K, S, G)
  PROVE  /\ Len(w) \in Nat
         /\ Upto(K, 0) = 0 /\ Upto(S, 0) = 0 /\ Upto(S, 1) = 0
         /\ \A k \in Nat : /\ Upto(K, k) \in Nat /\ Upto(S, k) \in Nat
                           /\ Upto(K, k + 1) = Upto(K, k) + (IF k + 1 \in K THEN 1 ELSE 0)
                           /\ Upto(S, k + 1) = Upto(S, k) + (IF k + 1 \in S THEN 1 ELSE 0)
                           /\ k >= Len(w) => Upto(K, k) = Cardinality(K) /\ Upto(S, k) = Cardinality(S)
         /\ \A j, k \in Nat : j <= k => Upto(K, j) <= Upto(K, k) /\ Upto(S, j) <= Upto(S, k)
         /\ \A k \in Nat : /\ k \in K \cup S \cup G => k >= 1 /\ k <= Len(w)
                           /\ k + 1 \in S <=> k \in G /\ k + 1 \notin G /\ k + 1 <= Len(w)
                           /\ k \in S => k \notin G /\ k >= 2
                           /\ k \in K => k \notin G
         /\ Among(K, Len(w)) /\ Among(S, Len(w))
<1>1. /\ Len(w) \in Nat /\ K \in SUBSET (1 .. Len(w)) /\ G \in SUBSET (1 .. Len(w))
      /\ S = {k \in 2 .. Len(w) : k - 1 \in G /\ k \notin G}
      /\ \A k \in 1 .. Len(w) : k \in K <=> k \notin G /\ w[k] # Quote
  BY DEF Divided
<1>2. Among(K, Len(w)) /\ Among(S, Len(w))
  BY <1>1 DEF Among
<1>3. \A k \in Nat : /\ k \in K \cup S \cup G => k >= 1 /\ k <= Len(w)
                     /\ k + 1 \in S <=> k \in G /\ k + 1 \notin G /\ k + 1 <= Len(w)
                     /\ k \in S => k \notin G /\ k >= 2
                     /\ k \in K => k \notin G
  BY <1>1
<1>4. ASSUME NEW k \in Nat
      PROVE  /\ Upto(K, k) \in Nat /\ Upto(S, k) \in Nat
             /\ Upto(K, k + 1) = Upto(K, k) + (IF k + 1 \in K THEN 1 ELSE 0)
             /\ Upto(S, k + 1) = Upto(S, k) + (IF k + 1 \in S THEN 1 ELSE 0)
             /\ k >= Len(w) => Upto(K, k) = Cardinality(K) /\ Upto(S, k) = Cardinality(S)
  <2>1. /\ Upto(K, k) \in Nat
        /\ Upto(K, k + 1) = Upto(K, k) + (IF k + 1 \in K THEN 1 ELSE 0)
        /\ k >= Len(w) => Upto(K, k) = Cardinality(K)
    <3>1. Upto(K, k) \in Nat
      BY <1>2, UptoFacts
    <3>2. Upto(K, k + 1) = Upto(K, k) + (IF k + 1 \in K THEN 1 ELSE 0)
      <4>1. PICK m : Among(K, m)
        BY <1>2
      <4> QED BY <4>1, UptoFacts
    <3>3. k >= Len(w) => Upto(K, k) = Cardinality(K)
      BY <1>2, UptoFacts
    <3> QED BY <3>1, <3>2, <3>3
  <2>2. /\ Upto(S, k) \in Nat
        /\ Upto(S, k + 1) = Upto(S, k) + (IF k + 1 \in S THEN 1 ELSE 0)
        /\ k >= Len(w) => Upto(S, k) = Cardinality(S)
    <3>1. Upto(S, k) \in Nat
      BY <1>2, UptoFacts
    <3>2. Upto(S, k + 1) = Upto(S, k) + (IF k + 1 \in S THEN 1 ELSE 0)
      <4>1. PICK m : Among(S, m)
        BY <1>2
      <4> QED BY <4>1, UptoFacts
    <3>3. k >= Len(w) => Upto(S, k) = Cardinality(S)
      BY <1>2, UptoFacts
    <3> QED BY <3>1, <3>2, <3>3
  <2> QED BY <2>1, <2>2
<1>5. Upto(K, 0) = 0 /\ Upto(S, 0) = 0
  BY <1>2, UptoFacts
<1>6. Upto(S, 1) = 0
  <2>1. 0 \in Nat /\ 0 + 1 = 1 /\ 1 \notin S
    BY <1>3
  <2> QED BY <1>4, <1>5, <2>1
<1>7. \A j, k \in Nat : j <= k => Upto(K, j) <= Upto(K, k) /\ Upto(S, j) <= Upto(S, k)
  BY <1>2, UptoFacts
<1> QED BY <1>1, <1>2, <1>3, <1>4, <1>5, <1>6, <1>7

(* From the character at x to the next.                                      *)
LEMMA NextCount ==
  ASSUME NEW w, NEW K, NEW S, NEW G, Divided(w, K, S, G), NEW x \in Nat
  PROVE  /\ Len(w) \in Nat /\ Upto(K, x) \in Nat /\ Upto(S, x) \in Nat
         /\ Upto(K, x + 1) = Upto(K, x) + (IF x + 1 \in K THEN 1 ELSE 0)
         /\ Upto(S, x + 1) = Upto(S, x) + (IF x + 1 \in S THEN 1 ELSE 0)
         /\ x + 1 \in S <=> x \in G /\ x + 1 \notin G /\ x + 1 <= Len(w)
         /\ x + 1 \in G => x + 1 \notin K /\ x + 1 \notin S
         /\ (\A t \in S : t \in Nat) /\ (\A k \in K : k \in Nat)
<1>1. Len(w) \in Nat /\ Upto(K, x) \in Nat /\ Upto(S, x) \in Nat
  BY Counting, ZenonT(60)
<1>2. Upto(K, x + 1) = Upto(K, x) + (IF x + 1 \in K THEN 1 ELSE 0)
  <2>1. PICK m : Among(K, m)
    BY Counting
  <2> QED BY <2>1, UptoFacts
<1>3. Upto(S, x + 1) = Upto(S, x) + (IF x + 1 \in S THEN 1 ELSE 0)
  <2>1. PICK m : Among(S, m)
    BY Counting
  <2> QED BY <2>1, UptoFacts
<1>4. /\ K \in SUBSET (1 .. Len(w)) /\ G \in SUBSET (1 .. Len(w))
      /\ S = {k \in 2 .. Len(w) : k - 1 \in G /\ k \notin G}
      /\ \A k \in 1 .. Len(w) : k \in K <=> k \notin G /\ w[k] # Quote
  BY DEF Divided
<1>5. x + 1 \in G => x + 1 \notin K /\ x + 1 \notin S
  BY <1>4
<1>7. x + 1 \in S <=> x \in G /\ x + 1 \notin G /\ x + 1 <= Len(w)
  <2>1. (x + 1) - 1 = x /\ (x \in G => x >= 1)
    BY <1>4
  <2> QED BY <1>1, <1>4, <2>1
<1>6. (\A t \in S : t \in Nat) /\ (\A k \in K : k \in Nat)
  BY DEF Divided
<1> QED BY <1>1, <1>2, <1>3, <1>5, <1>6, <1>7

(* The parts of a line are positions in it.                                  *)
LEMMA Positions ==
  ASSUME NEW w, NEW K, NEW S, NEW G, Divided(w, K, S, G)
  PROVE  /\ Len(w) \in Nat
         /\ \A t \in S : t \in Nat
         /\ \A k \in K : k \in Nat
  BY DEF Divided

(* A start follows a gap.                                                    *)
LEMMA StartNext ==
  ASSUME NEW w, NEW K, NEW S, NEW G, Divided(w, K, S, G), NEW x \in Nat
  PROVE  x + 1 \in S <=> x \in G /\ x + 1 \notin G /\ x + 1 <= Len(w)
<1>1. /\ Len(w) \in Nat /\ G \in SUBSET (1 .. Len(w))
      /\ S = {k \in 2 .. Len(w) : k - 1 \in G /\ k \notin G}
  BY DEF Divided
<1>2. (x + 1) - 1 = x /\ (x \in G => x >= 1)
  BY <1>1
<1> QED BY <1>1, <1>2

(* The counts grow by one at each member.                                    *)
LEMMA UptoNext ==
  ASSUME NEW T, NEW n, Among(T, n), NEW x \in Nat
  PROVE  /\ Upto(T, x) \in Nat
         /\ Upto(T, x + 1) = Upto(T, x) + (IF x + 1 \in T THEN 1 ELSE 0)
<1>1. Upto(T, x) \in Nat
  BY UptoFacts
<1>2. Upto(T, x + 1) = Upto(T, x) + (IF x + 1 \in T THEN 1 ELSE 0)
  BY UptoFacts
<1> QED BY <1>1, <1>2

(* The starts up to a position that is none, or past the line.               *)
LEMMA NoStart ==
  ASSUME NEW w, NEW K, NEW S, NEW G, Divided(w, K, S, G), NEW x \in Nat, x + 1 \notin S
  PROVE  Upto(S, x + 1) = Upto(S, x)
<1>1. PICK m : Among(S, m)
  BY Counting
<1>2. Upto(S, x) \in Nat /\ Upto(S, x + 1) = Upto(S, x) + (IF x + 1 \in S THEN 1 ELSE 0)
  BY <1>1, UptoNext
<1> QED BY <1>2

(* Whatever has been placed is below out.                                    *)
LEMMA PlacedBelow ==
  ASSUME NEW w, NEW K, NEW S, NEW G, Divided(w, K, S, G), NEW buf, NEW av,
         NEW x \in 0 .. Len(w), NEW y, NEW seen, SplitAt(K, S, G, w, buf, av, x, y, seen)
  PROVE  /\ y \in Nat
         /\ \A t \in S : t <= seen => Upto(K, t - 1) + Upto(S, t) - 1 \in 0 .. y - 1
         /\ \A k \in K : k <= x => Upto(K, k - 1) + Upto(S, k) \in 0 .. y - 1
<1>0. Len(w) \in Nat /\ x \in Nat /\ Upto(K, x) \in Nat /\ Upto(S, x) \in Nat
  <2>1. Len(w) \in Nat
    BY Counting
  <2>2. x \in Nat
    BY <2>1
  <2> QED BY <2>1, <2>2, Counting
<1>1. /\ x \in Nat /\ seen \in Nat /\ seen <= x + 1 /\ Upto(K, x) \in Nat /\ Upto(S, x) \in Nat
      /\ y = Upto(K, x) + Upto(S, x) + (IF x \in G THEN 1 ELSE 0)
      /\ seen \in {x, x + 1}
  <2>1. /\ y = Upto(K, x) + Upto(S, x) + (IF x \in G THEN 1 ELSE 0)
        /\ seen \in {x, x + 1}
    BY DEF SplitAt
  <2> QED BY <1>0, <2>1
<1>4. y \in Nat /\ y >= Upto(K, x) + Upto(S, x) /\ (x \in G => y = Upto(K, x) + Upto(S, x) + 1)
  BY <1>1
<1>2. ASSUME NEW t \in S, t <= seen PROVE Upto(K, t - 1) + Upto(S, t) - 1 \in 0 .. y - 1
  <2>1. t \in Nat /\ t - 1 \in Nat /\ t >= 1
        /\ Upto(S, t) = Upto(S, t - 1) + 1 /\ Upto(S, t - 1) \in Nat
    BY Counting, UptoFacts
  <2>2. Upto(K, t - 1) \in Nat
    BY <2>1, Counting
  <2>3. Upto(K, t - 1) <= Upto(K, x) /\ Upto(S, t - 1) <= Upto(S, x)
    <3>1. t - 1 <= x
      BY <1>1, <1>2, <2>1
    <3> QED BY <1>0, <2>1, <3>1, Counting
  <2>4. CASE t <= x
    <3>1. Upto(S, t) <= Upto(S, x)
      BY <1>0, <2>1, <2>4, Counting
    <3>2. Upto(K, t - 1) + Upto(S, t) - 1 >= 0
      BY <2>1, <2>2
    <3>3. Upto(K, t - 1) + Upto(S, t) - 1 <= y - 1
      BY <1>0, <1>4, <2>1, <2>2, <2>3, <3>1
    <3> QED BY <2>1, <2>2, <3>2, <3>3, <1>4
  <2>5. CASE t = x + 1
    <3>1. x \in G /\ t - 1 = x
      BY <1>0, <2>1, <2>5, Counting
    <3>2. Upto(K, t - 1) + Upto(S, t) - 1 >= 0
      BY <2>1, <2>2
    <3>3. Upto(K, t - 1) + Upto(S, t) - 1 <= y - 1
      BY <1>0, <1>4, <2>1, <2>2, <2>3, <3>1
    <3> QED BY <2>1, <2>2, <3>2, <3>3, <1>4
  <2> QED BY <1>1, <1>2, <2>1, <2>4, <2>5
<1>3. ASSUME NEW k \in K, k <= x PROVE Upto(K, k - 1) + Upto(S, k) \in 0 .. y - 1
  <2>1. k \in Nat /\ Upto(K, k) = Upto(K, k - 1) + 1 /\ Upto(K, k - 1) \in Nat
    BY Counting, UptoFacts
  <2>2. Upto(S, k) \in Nat
    BY <2>1, Counting
  <2>3. Upto(K, k) <= Upto(K, x) /\ Upto(S, k) <= Upto(S, x)
    BY <1>0, <1>3, <2>1, Counting
  <2> QED BY <1>1, <2>1, <2>2, <2>3
<1> QED BY <1>1, <1>2, <1>3

(* Writing at out disturbs nothing that has been placed.                     *)
LEMMA Overwrites ==
  ASSUME NEW w, NEW K, NEW S, NEW G, Divided(w, K, S, G),
         NEW buf \in [Index -> Text \cup {NUL}], NEW av,
         NEW x \in 0 .. Len(w), NEW y \in Index, NEW seen, NEW c,
         SplitAt(K, S, G, w, buf, av, x, y, seen)
  PROVE  SplitAt(K, S, G, w, [buf EXCEPT ![y] = c], av, x, y, seen)
<1>1. PICK b2 : b2 = [buf EXCEPT ![y] = c]
  OBVIOUS
<1>2. \A a \in 0 .. y - 1 : b2[a] = buf[a]
  <2>1. \A a \in 0 .. y - 1 : a \in Index /\ a # y
    BY LineAssumption DEF Index
  <2> QED BY <1>1, <2>1
<1>3. x \in G => y - 1 \in 0 .. y - 1
  <2>2. Len(w) \in Nat
    BY Positions
  <2>3. x \in Nat
    BY <2>2
  <2>4. Among(K, Len(w)) /\ Among(S, Len(w))
    BY Counting
  <2>1. Upto(K, x) \in Nat /\ Upto(S, x) \in Nat
    BY <2>3, <2>4, UptoFacts
  <2> QED BY <2>1 DEF SplitAt
<1>4. SplitAt(K, S, G, w, b2, av, x, y, seen)
  BY <1>2, <1>3, PlacedBelow DEF SplitAt
<1> QED BY <1>1, <1>4

(* A blank that follows another is passed over.                              *)
LEMMA PassGap ==
  ASSUME NEW w, NEW K, NEW S, NEW G, Divided(w, K, S, G), NEW buf, NEW av,
         NEW x \in Nat, NEW y, SplitAt(K, S, G, w, buf, av, x, y, x), x + 1 \in G
  PROVE  SplitAt(K, S, G, w, buf, av, x + 1, y, x + 1)
<1>1. /\ Upto(K, x + 1) = Upto(K, x) + (IF x + 1 \in K THEN 1 ELSE 0)
      /\ Upto(S, x + 1) = Upto(S, x) + (IF x + 1 \in S THEN 1 ELSE 0)
      /\ Upto(K, x) \in Nat /\ Upto(S, x) \in Nat
  BY NextCount
<1>2. x + 1 \notin K /\ x + 1 \notin S
  BY NextCount
<1>3. Upto(K, x + 1) = Upto(K, x) /\ Upto(S, x + 1) = Upto(S, x)
  BY <1>1, <1>2
<1>4. x \in G /\ buf[y - 1] = NUL /\ y = Upto(K, x) + Upto(S, x) + (IF x \in G THEN 1 ELSE 0)
  BY DEF SplitAt
<1>5. (\A t \in S : t <= x + 1 => t <= x) /\ (\A k \in K : k <= x + 1 => k <= x)
  <2>1. (\A t \in S : t \in Nat) /\ (\A k \in K : k \in Nat)
    BY Positions
  <2>2. (\A t \in S : t # x + 1) /\ (\A k \in K : k # x + 1)
    BY <1>2
  <2> QED BY <2>1, <2>2
<1>6. y = Upto(K, x + 1) + Upto(S, x + 1) + (IF x + 1 \in G THEN 1 ELSE 0)
  BY <1>3, <1>4
<1>7. /\ Len(av) = IF Upto(S, x + 1) + 1 < MAX_ARGS THEN Upto(S, x + 1) + 1 ELSE MAX_ARGS - 1
      /\ av[1] = 0
  BY <1>3 DEF SplitAt
<1>8. \A t \in S : t <= x + 1 =>
        /\ buf[Upto(K, t - 1) + Upto(S, t) - 1] = NUL
        /\ Upto(S, t) < Len(av) => av[Upto(S, t) + 1] = Upto(K, t - 1) + Upto(S, t)
  BY <1>5 DEF SplitAt
<1>9. \A k \in K : k <= x + 1 => buf[Upto(K, k - 1) + Upto(S, k)] = w[k]
  BY <1>5 DEF SplitAt
<1> QED BY <1>4, <1>6, <1>7, <1>8, <1>9 DEF SplitAt

(* The blank behind an argument becomes its NUL.                             *)
LEMMA EndArgument ==
  ASSUME NEW w, NEW K, NEW S, NEW G, Divided(w, K, S, G), NEW buf, NEW av,
         NEW x \in Nat, NEW y, SplitAt(K, S, G, w, buf, av, x, y, x + 1), x + 1 \in G,
         buf[y] = NUL
  PROVE  SplitAt(K, S, G, w, buf, av, x + 1, y + 1, x + 1)
<1>1. /\ Upto(K, x + 1) = Upto(K, x) + (IF x + 1 \in K THEN 1 ELSE 0)
      /\ Upto(S, x + 1) = Upto(S, x) + (IF x + 1 \in S THEN 1 ELSE 0)
      /\ Upto(K, x) \in Nat /\ Upto(S, x) \in Nat
  BY NextCount
<1>2. x + 1 \notin K /\ x + 1 \notin S
  BY NextCount
<1>3. Upto(K, x + 1) = Upto(K, x) /\ Upto(S, x + 1) = Upto(S, x)
  BY <1>1, <1>2
<1>4. x \notin G
  BY DEF SplitAt
<1>5. y = Upto(K, x) + Upto(S, x)
  <2>1. y = Upto(K, x) + Upto(S, x) + (IF x \in G THEN 1 ELSE 0)
    BY DEF SplitAt
  <2> QED BY <1>1, <1>4, <2>1
<1>6. y + 1 = Upto(K, x + 1) + Upto(S, x + 1) + (IF x + 1 \in G THEN 1 ELSE 0)
      /\ (y + 1) - 1 = y
  BY <1>1, <1>3, <1>5
<1>7. \A k \in K : k <= x + 1 => k <= x
  <2>1. \A k \in K : k \in Nat
    BY Positions
  <2>2. \A k \in K : k # x + 1
    BY <1>2
  <2> QED BY <2>1, <2>2
<1>8. \A k \in K : k <= x + 1 => buf[Upto(K, k - 1) + Upto(S, k)] = w[k]
  BY <1>7 DEF SplitAt
<1> QED BY <1>6, <1>8 DEF SplitAt

(* A character of an argument is kept, or is a quote.                        *)
LEMMA KeepOrDrop ==
  ASSUME NEW w, NEW K, NEW S, NEW G, Divided(w, K, S, G), NEW buf, NEW av,
         NEW x \in Nat, NEW y, SplitAt(K, S, G, w, buf, av, x, y, x + 1), x + 1 \notin G,
         NEW z, z = y + (IF x + 1 \in K THEN 1 ELSE 0),
         x + 1 \in K => buf[y] = w[x + 1], x < Len(w)
  PROVE  SplitAt(K, S, G, w, buf, av, x + 1, z, x + 2)
<1>1. /\ Upto(K, x + 1) = Upto(K, x) + (IF x + 1 \in K THEN 1 ELSE 0)
      /\ Upto(S, x + 1) = Upto(S, x) + (IF x + 1 \in S THEN 1 ELSE 0)
      /\ Upto(K, x) \in Nat /\ Upto(S, x) \in Nat /\ Len(w) \in Nat
  BY NextCount
<1>2. x + 1 \in S <=> x \in G
  <2>1. x + 1 \in S <=> x \in G /\ x + 1 \notin G /\ x + 1 <= Len(w)
    BY StartNext
  <2>2. x + 1 <= Len(w)
    BY <1>1
  <2> QED BY <2>1, <2>2
<1>3. x + 2 \notin S /\ Upto(S, x + 2) = Upto(S, x + 1)
  <2>1. PICK u \in Nat : u = x + 1 /\ u + 1 = x + 2
    OBVIOUS
  <2>2. u + 1 \notin S
    <3>1. u + 1 \in S <=> u \in G /\ u + 1 \notin G /\ u + 1 <= Len(w)
      BY StartNext
    <3> QED BY <2>1, <3>1
  <2>4. Upto(S, u + 1) = Upto(S, u)
    BY <2>2, NoStart
  <2> QED BY <2>1, <2>2, <2>4
<1>4. y = Upto(K, x) + Upto(S, x) + (IF x \in G THEN 1 ELSE 0)
  BY DEF SplitAt
<1>5. y = Upto(K, x) + Upto(S, x + 1) /\ z = Upto(K, x + 1) + Upto(S, x + 1)
  BY <1>1, <1>2, <1>4
<1>6. z = Upto(K, x + 1) + Upto(S, x + 1) + (IF x + 1 \in G THEN 1 ELSE 0)
  <2>1. Upto(K, x + 1) \in Nat /\ Upto(S, x + 1) \in Nat
    BY <1>1
  <2> QED BY <1>5, <2>1
<1>7. \A t \in S : t <= x + 2 => t <= x + 1
  <2>1. \A t \in S : t \in Nat
    BY Positions
  <2>2. \A t \in S : t # x + 2
    BY <1>3
  <2> QED BY <2>1, <2>2
<1>8. \A t \in S : t <= x + 2 =>
        /\ buf[Upto(K, t - 1) + Upto(S, t) - 1] = NUL
        /\ Upto(S, t) < Len(av) => av[Upto(S, t) + 1] = Upto(K, t - 1) + Upto(S, t)
  BY <1>7 DEF SplitAt
<1>9. ASSUME NEW k \in K, k <= x + 1 PROVE buf[Upto(K, k - 1) + Upto(S, k)] = w[k]
  <2>1. k \in Nat
    BY Counting, UptoFacts
  <2>2. CASE k = x + 1
    <3>1. k - 1 = x /\ buf[y] = w[k]
      BY <1>9, <2>2
    <3>2. y = Upto(K, k - 1) + Upto(S, k)
      BY <1>5, <2>2, <3>1
    <3> QED BY <3>1, <3>2
  <2>3. CASE k # x + 1
    <3>1. k <= x
      BY <1>9, <2>1, <2>3
    <3> QED BY <3>1 DEF SplitAt
  <2> QED BY <2>2, <2>3
<1>10. /\ Len(av) = IF Upto(S, x + 2) + 1 < MAX_ARGS THEN Upto(S, x + 2) + 1 ELSE MAX_ARGS - 1
       /\ av[1] = 0
  BY <1>3 DEF SplitAt
<1>11. x + 2 \in {x + 1, (x + 1) + 1} /\ x + 2 # x + 1
  OBVIOUS
<1> QED BY <1>6, <1>8, <1>9, <1>10, <1>11 DEF SplitAt

(* An argument begins, if argv has room for it.                              *)
LEMMA BeginArgument ==
  ASSUME NEW w, NEW K, NEW S, NEW G, Divided(w, K, S, G), NEW buf, NEW av \in Seq(Index),
         NEW x \in Nat, NEW y \in Index, SplitAt(K, S, G, w, buf, av, x, y, x),
         x + 1 \notin G, x < Len(w),
         NEW a2, a2 = IF Len(av) < MAX_ARGS - 1 THEN Append(av, y) ELSE av
  PROVE  SplitAt(K, S, G, w, buf, a2, x, y, x + 1)
<1>1. /\ Upto(S, x + 1) = Upto(S, x) + (IF x + 1 \in S THEN 1 ELSE 0)
      /\ Upto(K, x) \in Nat /\ Upto(S, x) \in Nat /\ Len(w) \in Nat
  BY NextCount
<1>2. x \in G /\ buf[y - 1] = NUL /\ y = Upto(K, x) + Upto(S, x) + (IF x \in G THEN 1 ELSE 0)
  BY DEF SplitAt
<1>3. x + 1 \in S /\ Upto(S, x + 1) = Upto(S, x) + 1
  <2>1. x + 1 \in S
    BY <1>1, <1>2, NextCount
  <2> QED BY <1>1, <2>1
<1>4. y = Upto(K, x) + Upto(S, x + 1)
  BY <1>1, <1>2, <1>3
<1>5. /\ Len(av) = IF Upto(S, x) + 1 < MAX_ARGS THEN Upto(S, x) + 1 ELSE MAX_ARGS - 1
      /\ av[1] = 0 /\ Len(av) \in Nat /\ MAX_ARGS \in Nat /\ MAX_ARGS > 1
  BY LineAssumption DEF SplitAt
<1>6. /\ Len(av) >= 1
      /\ Len(av) < MAX_ARGS - 1 => Len(av) = Upto(S, x) + 1
      /\ Len(av) >= MAX_ARGS - 1 => Len(av) = MAX_ARGS - 1 /\ Upto(S, x) + 1 >= MAX_ARGS - 1
  BY <1>1, <1>5
<1>7. /\ Len(av) < MAX_ARGS - 1 =>
           /\ Len(a2) = Len(av) + 1 /\ a2[Len(av) + 1] = y
           /\ \A k \in 1 .. Len(av) : a2[k] = av[k]
      /\ Len(av) >= MAX_ARGS - 1 => a2 = av
  <2>1. CASE Len(av) < MAX_ARGS - 1
    <3>1. a2 = Append(av, y)
      BY <2>1
    <3>2. /\ Len(a2) = Len(av) + 1 /\ a2[Len(av) + 1] = y
          /\ \A k \in 1 .. Len(av) : a2[k] = av[k]
      BY <3>1, AppendProperties
    <3> QED BY <1>5, <2>1, <3>2
  <2>2. CASE Len(av) >= MAX_ARGS - 1
    BY <1>5, <2>2
  <2> QED BY <1>5, <2>1, <2>2
<1>8. a2[1] = 0
  BY <1>5, <1>6, <1>7
<1>9. Len(a2) = IF Upto(S, x + 1) + 1 < MAX_ARGS THEN Upto(S, x + 1) + 1 ELSE MAX_ARGS - 1
  <2>1. CASE Len(av) < MAX_ARGS - 1
    BY <1>1, <1>3, <1>5, <1>6, <1>7, <2>1
  <2>2. CASE Len(av) >= MAX_ARGS - 1
    BY <1>1, <1>3, <1>5, <1>6, <1>7, <2>2
  <2> QED BY <1>5, <2>1, <2>2
<1>10. ASSUME NEW t \in S, t <= x + 1
       PROVE  /\ buf[Upto(K, t - 1) + Upto(S, t) - 1] = NUL
              /\ Upto(S, t) < Len(a2) => a2[Upto(S, t) + 1] = Upto(K, t - 1) + Upto(S, t)
  <2>1. t \in Nat /\ Upto(S, t) = Upto(S, t - 1) + 1 /\ Upto(S, t - 1) \in Nat
    BY Counting, UptoFacts
  <2>2. CASE t = x + 1
    <3>1. t - 1 = x /\ Upto(K, t - 1) + Upto(S, t) = y
      BY <1>4, <2>2
    <3>6. Upto(K, t - 1) + Upto(S, t) - 1 = y - 1
      <4>1. PICK a \in Nat : a = Upto(K, t - 1)
        BY <1>1, <3>1
      <4>2. PICK b \in Nat : b = Upto(S, t)
        BY <2>1
      <4> QED BY <3>1, <4>1, <4>2
    <3>2. buf[Upto(K, t - 1) + Upto(S, t) - 1] = NUL
      BY <1>2, <3>6
    <3>3. Upto(S, t) = Upto(S, x) + 1
      BY <1>3, <2>2
    <3>4. Upto(S, t) < Len(a2) => Len(av) < MAX_ARGS - 1 /\ Upto(S, t) = Len(av)
      BY <1>1, <1>5, <1>6, <1>7, <3>3
    <3>5. Upto(S, t) < Len(a2) => a2[Upto(S, t) + 1] = y
      BY <1>7, <3>4
    <3> QED BY <3>1, <3>2, <3>5
  <2>3. CASE t # x + 1
    <3>1. t <= x
      BY <1>10, <2>1, <2>3
    <3>2. buf[Upto(K, t - 1) + Upto(S, t) - 1] = NUL
      BY <3>1 DEF SplitAt
    <3>3. Upto(S, t) < Len(av) => av[Upto(S, t) + 1] = Upto(K, t - 1) + Upto(S, t)
      BY <3>1 DEF SplitAt
    <3>4. Upto(S, t) <= Upto(S, x)
      BY <2>1, <3>1, Counting
    <3>5. PICK i \in Nat : i = Upto(S, t)
      BY <2>1
    <3>6. i < Len(a2) => i < Len(av)
      BY <1>1, <1>5, <1>6, <1>7, <3>4, <3>5
    <3>7. i < Len(av) => a2[i + 1] = av[i + 1]
      <4>1. i < Len(av) => i + 1 \in 1 .. Len(av)
        BY <1>5
      <4> QED BY <1>5, <1>7, <4>1
    <3> QED BY <3>2, <3>3, <3>5, <3>6, <3>7
  <2> QED BY <2>2, <2>3
<1>11. x + 1 \in {x, x + 1} /\ x + 1 # x
  OBVIOUS
<1>12. \A k \in K : k <= x => buf[Upto(K, k - 1) + Upto(S, k)] = w[k]
  BY DEF SplitAt
<1> QED BY <1>2, <1>8, <1>9, <1>10, <1>11, <1>12 DEF SplitAt

(* Blanks at the end of the line begin nothing.                              *)
LEMMA BeginNothing ==
  ASSUME NEW w, NEW K, NEW S, NEW G, Divided(w, K, S, G), NEW buf, NEW av,
         NEW x \in Nat, NEW y, SplitAt(K, S, G, w, buf, av, x, y, x), x = Len(w)
  PROVE  SplitAt(K, S, G, w, buf, av, x, y, x + 1)
<1>1. x + 1 \notin S /\ x + 1 \notin G
  <2>1. Len(w) \in Nat
    BY Positions
  <2>2. x + 1 \in Nat /\ ~(x + 1 <= Len(w))
    BY <2>1
  <2> QED BY <2>2, Counting
<1>2. Upto(S, x + 1) = Upto(S, x)
  BY <1>1, NoStart
<1>3. \A t \in S : t <= x + 1 => t <= x
  <2>1. \A t \in S : t \in Nat
    BY Positions
  <2>2. \A t \in S : t # x + 1
    BY <1>1
  <2> QED BY <2>1, <2>2
<1>4. \A t \in S : t <= x + 1 =>
        /\ buf[Upto(K, t - 1) + Upto(S, t) - 1] = NUL
        /\ Upto(S, t) < Len(av) => av[Upto(S, t) + 1] = Upto(K, t - 1) + Upto(S, t)
  BY <1>3 DEF SplitAt
<1>5. x + 1 \in {x, x + 1} /\ x + 1 # x
  OBVIOUS
<1>6. Len(av) = IF Upto(S, x + 1) + 1 < MAX_ARGS THEN Upto(S, x + 1) + 1 ELSE MAX_ARGS - 1
  BY <1>2 DEF SplitAt
<1> QED BY <1>1, <1>4, <1>5, <1>6 DEF SplitAt

-----------------------------------------------------------------------------
(* A quote begins what is quoted and the next one ends it.                   *)
LEMMA QuotedNext ==
  ASSUME NEW w \in Seq(Text), NEW k \in 1 .. Len(w)
  PROVE  QuotedIn(w, k + 1) <=> (QuotedIn(w, k) <=> w[k] # Quote)
<1> DEFINE Q == {j \in 1 .. Len(w) : w[j] = Quote}
<1>1. Len(w) \in Nat /\ k \in Nat /\ k >= 1 /\ k <= Len(w) /\ k - 1 \in Nat /\ (k - 1) + 1 = k
  OBVIOUS
<1>2. Among(Q, Len(w))
  BY <1>1 DEF Among
<1>3. ASSUME NEW h \in Nat, h <= Len(w)
      PROVE  {j \in 1 .. h : w[j] = Quote} = {j \in Q : j <= h}
  <2>1. \A j : j \in 1 .. h <=> j \in 1 .. Len(w) /\ j <= h
    BY <1>1, <1>3
  <2> QED BY <2>1, Zenon
<1>4. PICK a \in Nat : a = Upto(Q, k - 1)
  <2> HIDE DEF Q
  <2> QED BY <1>1, <1>2, UptoFacts
<1>5. Upto(Q, k) = a + (IF k \in Q THEN 1 ELSE 0)
  <2> HIDE DEF Q
  <2>1. PICK m \in Nat : m = k - 1 /\ m + 1 = k
    BY <1>1
  <2>2. Upto(Q, m + 1) = Upto(Q, m) + (IF m + 1 \in Q THEN 1 ELSE 0)
    BY <1>2, UptoNext
  <2> QED BY <1>4, <2>1, <2>2
<1>6. k \in Q <=> w[k] = Quote
  OBVIOUS
<1>7. QuotedIn(w, k) <=> a % 2 = 1
  <2>1. {j \in 1 .. k - 1 : w[j] = Quote} = {j \in Q : j <= k - 1}
    BY <1>1, <1>3
  <2> HIDE DEF Q
  <2> QED BY <1>4, <2>1 DEF QuotedIn, Upto
<1>8. QuotedIn(w, k + 1) <=> Upto(Q, k) % 2 = 1
  <2>1. {j \in 1 .. k : w[j] = Quote} = {j \in Q : j <= k} /\ (k + 1) - 1 = k
    BY <1>1, <1>3
  <2> HIDE DEF Q
  <2> QED BY <2>1 DEF QuotedIn, Upto
<1> HIDE DEF Q
<1>9. (a + 1) % 2 = 1 <=> ~(a % 2 = 1)
  BY <1>4
<1>10. CASE w[k] = Quote
  BY <1>5, <1>6, <1>7, <1>8, <1>9, <1>10
<1>11. CASE w[k] # Quote
  <2>1. Upto(Q, k) = a
    BY <1>4, <1>5, <1>6, <1>11
  <2> QED BY <1>7, <1>8, <1>11, <2>1
<1> QED BY <1>10, <1>11

(* Nothing is quoted at the start of a line.                                 *)
LEMMA QuotedFirst == ASSUME NEW w PROVE ~QuotedIn(w, 1)
<1>1. {j \in 1 .. 1 - 1 : w[j] = Quote} = {}
  OBVIOUS
<1>2. Cardinality({j \in 1 .. 1 - 1 : w[j] = Quote}) = 0
  BY <1>1, FS_EmptySet
<1> QED BY <1>2 DEF QuotedIn

(* The split begins with the first argument.                                 *)
LEMMA BeginSplit ==
  ASSUME NEW w, NEW K, NEW S, NEW G, Divided(w, K, S, G), NEW buf, NEW av,
         Len(av) = 1, av[1] = 0
  PROVE  SplitAt(K, S, G, w, buf, av, 0, 0, 1)
<1>1. Upto(K, 0) = 0 /\ Upto(S, 0) = 0 /\ Upto(S, 1) = 0
  BY Counting
<1>2. /\ \A t \in S : t \in Nat /\ t >= 2
      /\ \A k \in K : k \in Nat /\ k >= 1
      /\ 0 \notin G
  BY DEF Divided
<1>3. Len(av) = 1 /\ av[1] = 0 /\ MAX_ARGS \in Nat /\ MAX_ARGS > 1
  BY LineAssumption
<1>4. Len(av) = IF Upto(S, 1) + 1 < MAX_ARGS THEN Upto(S, 1) + 1 ELSE MAX_ARGS - 1
  BY <1>1, <1>3
<1>5. (\A t \in S : ~(t <= 1)) /\ (\A k \in K : ~(k <= 0))
  BY <1>2
<1>6. 0 = Upto(K, 0) + Upto(S, 0) + (IF 0 \in G THEN 1 ELSE 0)
  BY <1>1, <1>2
<1>7. 1 \in {0, 0 + 1} /\ 1 # 0
  OBVIOUS
<1> QED BY <1>2, <1>3, <1>4, <1>5, <1>6, <1>7 DEF SplitAt

(* What parse_line knows of the character it looks at.                       *)
LEMMA AtNext ==
  ASSUME LInv, pc \in {"parse", "skip"}
  PROVE  /\ line \in Seq(Text) /\ Len(line) \in Nat
         /\ Divided(line, KeepersIn(line), StartsIn(line), GapsIn(line))
         /\ in \in Nat /\ in \in 0 .. Len(line) /\ o \in Index
         /\ input \in [Index -> Text \cup {NUL}] /\ argv \in Seq(Index)
         /\ input[in] # NUL => /\ in < Len(line) /\ in + 1 \in 1 .. Len(line)
                               /\ input[in] = line[in + 1]
         /\ input[in] = NUL => in = Len(line)
<1>1. line \in Seq(Text) /\ Len(line) \in Nat /\ argv \in Seq(Index)
  BY DEF LInv, TypeOK
<1>2. /\ in \in Nat /\ in <= Len(line) /\ o \in Index
      /\ input \in [Index -> Text \cup {NUL}]
      /\ \A k \in in + 1 .. Len(line) : input[k - 1] = line[k]
      /\ input[in] # NUL => in < Len(line)
  BY AtIn
<1>3. in < Len(line) => /\ in + 1 \in in + 1 .. Len(line) /\ in + 1 \in 1 .. Len(line)
                        /\ (in + 1) - 1 = in
  BY <1>1, <1>2
<1>4. in < Len(line) => input[in] = line[in + 1] /\ line[in + 1] \in Text
  BY <1>1, <1>2, <1>3
<1>5. NUL \notin Text
  BY LineAssumption DEF Text, NUL, Blank, Quote
<1>6. input[in] = NUL => in = Len(line)
  BY <1>1, <1>2, <1>4, <1>5
<1>7. in \in 0 .. Len(line)
  BY <1>1, <1>2
<1> QED BY <1>1, <1>2, <1>3, <1>4, <1>6, <1>7, LineDivided

(* A character in the sets of the line.                                      *)
LEMMA InSets ==
  ASSUME NEW w \in Seq(Text), NEW k \in 1 .. Len(w)
  PROVE  /\ k \in GapsIn(w) <=> w[k] = Blank /\ ~QuotedIn(w, k)
         /\ k \in KeepersIn(w) <=> ~(w[k] = Blank /\ ~QuotedIn(w, k)) /\ w[k] # Quote
  BY DEF GapsIn, KeepersIn, GapIn

(* The line is ready to be split.                                            *)
LEMMA SplitReadDone == ASSUME LInv, ReadDone PROVE SplitInv'
<1>1. CASE line = <<>> /\ NextLine
  BY <1>1 DEF NextLine, SplitInv
<1>2. CASE line # <<>> /\ Terminate /\ pc' = "parse" /\ argv' = <<0>> /\ in' = 0 /\ o' = 0
           /\ in_quote' = FALSE /\ UNCHANGED <<pos, line>>
  <2>1. line' \in Seq(Text)
    BY <1>2 DEF LInv, TypeOK
  <2>2. Divided(line', KeepersIn(line'), StartsIn(line'), GapsIn(line'))
    BY <2>1, LineDivided
  <2>3. SplitAt(KeepersIn(line'), StartsIn(line'), GapsIn(line'), line', input', argv', 0, 0, 1)
    <3>1. Len(argv') = 1 /\ argv'[1] = 0
      BY <1>2
    <3> QED BY <2>2, <3>1, BeginSplit
  <2>4. ~QuotedIn(line', 1)
    BY QuotedFirst
  <2>5. in_quote' <=> QuotedIn(line', in' + 1)
    <3>1. in' + 1 = 1
      BY <1>2
    <3> QED BY <1>2, <2>4, <3>1
  <2>6. (IF pc' = "skip" THEN in' ELSE in' + 1) = 1 /\ in' = 0 /\ o' = 0 /\ pc' # "run"
    BY <1>2
  <2> QED BY <2>3, <2>5, <2>6 DEF SplitInv
<1> QED BY <1>1, <1>2 DEF ReadDone

(* A quote is dropped.                                                       *)
LEMMA SplitQuote == ASSUME LInv, SplitInv, ParseQuote PROVE SplitInv'
<1>1. /\ pc = "parse" /\ input[in] = Quote /\ in' = in + 1
      /\ pc' = pc /\ input' = input /\ argv' = argv /\ o' = o /\ line' = line
  BY DEF ParseQuote
<1>2. in_quote' <=> ~in_quote
  BY DEF ParseQuote
<1>3. /\ line \in Seq(Text) /\ Len(line) \in Nat
      /\ Divided(line, KeepersIn(line), StartsIn(line), GapsIn(line))
      /\ in \in Nat /\ in < Len(line) /\ in + 1 \in 1 .. Len(line) /\ input[in] = line[in + 1]
  BY <1>1, AtNext DEF Quote, NUL
<1>4. SplitAt(KeepersIn(line), StartsIn(line), GapsIn(line), line, input, argv, in, o, in + 1)
  BY <1>1 DEF SplitInv
<1>5. in_quote <=> QuotedIn(line, in + 1)
  BY <1>1 DEF SplitInv
<1>6. PICK j : j = in + 1 /\ j \in 1 .. Len(line) /\ line[j] = Quote
  BY <1>1, <1>3
<1>7. j \notin GapsIn(line) /\ j \notin KeepersIn(line)
  BY <1>3, <1>6, InSets DEF Quote, Blank
<1>8. o = o + (IF in + 1 \in KeepersIn(line) THEN 1 ELSE 0)
  <2>1. o \in Nat
    BY <1>1, AtIn
  <2> QED BY <1>6, <1>7, <2>1
<1>9. SplitAt(KeepersIn(line), StartsIn(line), GapsIn(line), line, input, argv, in + 1, o, in + 2)
  BY <1>3, <1>4, <1>6, <1>7, <1>8, KeepOrDrop
<1>10. QuotedIn(line, j + 1) <=> ~QuotedIn(line, j)
  BY <1>3, <1>6, QuotedNext
<1>11. in_quote' <=> QuotedIn(line', in' + 1)
  <2>1. in' + 1 = j + 1 /\ line' = line
    BY <1>1, <1>6
  <2> QED BY <1>2, <1>5, <1>6, <1>10, <2>1
<1>12. (IF pc' = "skip" THEN in' ELSE in' + 1) = in + 2 /\ pc' # "run"
  BY <1>1, <1>3
<1> QED BY <1>1, <1>9, <1>11, <1>12 DEF SplitInv

(* A character of an argument moves to out.                                  *)
LEMMA SplitChar == ASSUME LInv, SplitInv, ParseChar PROVE SplitInv'
<1>1. /\ pc = "parse" /\ input[in] # NUL /\ input[in] # Quote /\ in' = in + 1
      /\ pc' = pc /\ argv' = argv /\ o' = o + 1 /\ line' = line
      /\ input' = [input EXCEPT ![o] = input[in]]
  BY DEF ParseChar
<1>2. (in_quote' <=> in_quote) /\ (input[in] # Blank \/ in_quote)
  BY DEF ParseChar, Separates
<1>3. /\ line \in Seq(Text) /\ Len(line) \in Nat
      /\ Divided(line, KeepersIn(line), StartsIn(line), GapsIn(line))
      /\ in \in Nat /\ in < Len(line) /\ in + 1 \in 1 .. Len(line) /\ input[in] = line[in + 1]
      /\ in \in 0 .. Len(line) /\ o \in Index /\ input \in [Index -> Text \cup {NUL}]
  BY <1>1, AtNext
<1>4. SplitAt(KeepersIn(line), StartsIn(line), GapsIn(line), line, input, argv, in, o, in + 1)
  BY <1>1 DEF SplitInv
<1>5. in_quote <=> QuotedIn(line, in + 1)
  BY <1>1 DEF SplitInv
<1>6. PICK j : j = in + 1 /\ j \in 1 .. Len(line) /\ line[j] = input[in]
  BY <1>1, <1>3
<1>7. j \notin GapsIn(line) /\ j \in KeepersIn(line)
  BY <1>1, <1>2, <1>3, <1>5, <1>6, InSets
<1>8. o + 1 = o + (IF in + 1 \in KeepersIn(line) THEN 1 ELSE 0)
  BY <1>6, <1>7
<1>9. SplitAt(KeepersIn(line), StartsIn(line), GapsIn(line), line, input', argv, in, o, in + 1)
  BY <1>1, <1>3, <1>4, Overwrites
<1>10. input'[o] = line[in + 1]
  BY <1>1, <1>3
<1>11. SplitAt(KeepersIn(line), StartsIn(line), GapsIn(line), line, input', argv, in + 1, o + 1, in + 2)
  BY <1>3, <1>6, <1>7, <1>8, <1>9, <1>10, KeepOrDrop
<1>12. QuotedIn(line, j + 1) <=> QuotedIn(line, j)
  BY <1>1, <1>3, <1>6, QuotedNext
<1>13. in_quote' <=> QuotedIn(line', in' + 1)
  <2>1. in' + 1 = j + 1 /\ line' = line
    BY <1>1, <1>6
  <2> QED BY <1>2, <1>5, <1>6, <1>12, <2>1
<1>14. (IF pc' = "skip" THEN in' ELSE in' + 1) = in + 2 /\ pc' # "run"
  BY <1>1, <1>3
<1> QED BY <1>1, <1>11, <1>13, <1>14 DEF SplitInv

(* A blank that separates becomes the NUL of the argument before it.         *)
LEMMA SplitBlank == ASSUME LInv, SplitInv, ParseBlank PROVE SplitInv'
<1>1. /\ pc = "parse" /\ input[in] = Blank /\ in' = in + 1
      /\ pc' = "skip" /\ argv' = argv /\ o' = o + 1 /\ line' = line
      /\ input' = [input EXCEPT ![o] = NUL]
  BY DEF ParseBlank, Separates
<1>2. (in_quote' <=> in_quote) /\ ~in_quote
  BY DEF ParseBlank, Separates
<1>3. /\ line \in Seq(Text) /\ Len(line) \in Nat
      /\ Divided(line, KeepersIn(line), StartsIn(line), GapsIn(line))
      /\ in \in Nat /\ in < Len(line) /\ in + 1 \in 1 .. Len(line) /\ input[in] = line[in + 1]
      /\ in \in 0 .. Len(line) /\ o \in Index /\ input \in [Index -> Text \cup {NUL}]
  BY <1>1, AtNext DEF Blank, NUL
<1>4. SplitAt(KeepersIn(line), StartsIn(line), GapsIn(line), line, input, argv, in, o, in + 1)
  BY <1>1 DEF SplitInv
<1>5. in_quote <=> QuotedIn(line, in + 1)
  BY <1>1 DEF SplitInv
<1>6. PICK j : j = in + 1 /\ j \in 1 .. Len(line) /\ line[j] = Blank
  BY <1>1, <1>3
<1>7. j \in GapsIn(line)
  BY <1>2, <1>3, <1>5, <1>6, InSets
<1>9. SplitAt(KeepersIn(line), StartsIn(line), GapsIn(line), line, input', argv, in, o, in + 1)
  BY <1>1, <1>3, <1>4, Overwrites
<1>10. input'[o] = NUL
  BY <1>1, <1>3
<1>11. SplitAt(KeepersIn(line), StartsIn(line), GapsIn(line), line, input', argv, in + 1, o + 1, in + 1)
  BY <1>3, <1>6, <1>7, <1>9, <1>10, EndArgument
<1>12. QuotedIn(line, j + 1) <=> QuotedIn(line, j)
  BY <1>3, <1>6, QuotedNext DEF Blank, Quote
<1>13. in_quote' <=> QuotedIn(line', in' + 1)
  <2>1. in' + 1 = j + 1 /\ line' = line
    BY <1>1, <1>6
  <2> QED BY <1>2, <1>5, <1>6, <1>12, <2>1
<1>14. (IF pc' = "skip" THEN in' ELSE in' + 1) = in + 1 /\ pc' # "run"
  BY <1>1, <1>3
<1> QED BY <1>1, <1>11, <1>13, <1>14 DEF SplitInv

(* A blank behind a blank that separates: it is not quoted either.           *)
LEMMA SplitSkip == ASSUME LInv, SplitInv, Skip PROVE SplitInv'
<1>1. /\ pc = "skip" /\ input[in] = Blank /\ in' = in + 1
      /\ pc' = "skip" /\ argv' = argv /\ o' = o /\ line' = line /\ input' = input
  BY DEF Skip
<1>2. in_quote' <=> in_quote
  BY DEF Skip
<1>3. /\ line \in Seq(Text) /\ Len(line) \in Nat
      /\ Divided(line, KeepersIn(line), StartsIn(line), GapsIn(line))
      /\ in \in Nat /\ in < Len(line) /\ in + 1 \in 1 .. Len(line) /\ input[in] = line[in + 1]
  BY <1>1, AtNext DEF Blank, NUL
<1>4. SplitAt(KeepersIn(line), StartsIn(line), GapsIn(line), line, input, argv, in, o, in)
  BY <1>1 DEF SplitInv
<1>5. in_quote <=> QuotedIn(line, in + 1)
  BY <1>1 DEF SplitInv
<1>6. PICK j : j = in + 1 /\ j \in 1 .. Len(line) /\ line[j] = Blank
  BY <1>1, <1>3
<1>7. in \in GapsIn(line) /\ in \in 1 .. Len(line)
  <2>1. in \in GapsIn(line)
    BY <1>4 DEF SplitAt
  <2> QED BY <2>1 DEF GapsIn
<1>8. ~QuotedIn(line, in + 1)
  <2>1. line[in] = Blank /\ ~QuotedIn(line, in)
    BY <1>3, <1>7, InSets
  <2> QED BY <1>3, <1>7, <2>1, QuotedNext DEF Blank, Quote
<1>9. j \in GapsIn(line)
  BY <1>3, <1>6, <1>8, InSets
<1>10. SplitAt(KeepersIn(line), StartsIn(line), GapsIn(line), line, input, argv, in + 1, o, in + 1)
  BY <1>3, <1>4, <1>6, <1>9, PassGap
<1>12. QuotedIn(line, j + 1) <=> QuotedIn(line, j)
  BY <1>3, <1>6, QuotedNext DEF Blank, Quote
<1>13. in_quote' <=> QuotedIn(line', in' + 1)
  <2>1. in' + 1 = j + 1 /\ line' = line
    BY <1>1, <1>6
  <2> QED BY <1>2, <1>5, <1>6, <1>12, <2>1
<1>14. (IF pc' = "skip" THEN in' ELSE in' + 1) = in + 1 /\ pc' # "run"
  BY <1>1, <1>3
<1> QED BY <1>1, <1>10, <1>13, <1>14 DEF SplitInv

(* The blanks are over.                                                      *)
LEMMA SplitSkipDone == ASSUME LInv, SplitInv, SkipDone PROVE SplitInv'
<1>1. /\ pc = "skip" /\ input[in] # Blank /\ in' = in
      /\ pc' = "parse" /\ o' = o /\ line' = line /\ input' = input
  BY DEF SkipDone
<1>2. in_quote' <=> in_quote
  BY DEF SkipDone
<1>3. /\ line \in Seq(Text) /\ Len(line) \in Nat
      /\ Divided(line, KeepersIn(line), StartsIn(line), GapsIn(line))
      /\ in \in Nat /\ o \in Index /\ argv \in Seq(Index)
      /\ input[in] = NUL => in = Len(line)
      /\ input[in] # NUL => /\ in < Len(line) /\ in + 1 \in 1 .. Len(line)
                            /\ input[in] = line[in + 1]
  BY <1>1, AtNext
<1>4. SplitAt(KeepersIn(line), StartsIn(line), GapsIn(line), line, input, argv, in, o, in)
  BY <1>1 DEF SplitInv
<1>5. in_quote <=> QuotedIn(line, in + 1)
  BY <1>1 DEF SplitInv
<1>6. SplitAt(KeepersIn(line), StartsIn(line), GapsIn(line), line, input, argv', in, o, in + 1)
  <2>1. CASE input[in] = NUL
    <3>1. argv' = argv /\ in = Len(line)
      BY <1>3, <2>1 DEF SkipDone
    <3> QED BY <1>3, <1>4, <3>1, BeginNothing
  <2>2. CASE input[in] # NUL
    <3>1. argv' = IF Len(argv) < MAX_ARGS - 1 THEN Append(argv, o) ELSE argv
      BY <2>2 DEF SkipDone, ArgRoom
    <3>2. PICK j : j = in + 1 /\ j \in 1 .. Len(line) /\ line[j] # Blank
      BY <1>1, <1>3, <2>2
    <3>3. j \notin GapsIn(line)
      BY <1>3, <3>2, InSets
    <3> QED BY <1>3, <1>4, <2>2, <3>1, <3>2, <3>3, BeginArgument
  <2> QED BY <2>1, <2>2
<1>7. in_quote' <=> QuotedIn(line', in' + 1)
  BY <1>1, <1>2, <1>5
<1>8. (IF pc' = "skip" THEN in' ELSE in' + 1) = in + 1 /\ pc' # "run"
  BY <1>1
<1> QED BY <1>1, <1>6, <1>7, <1>8 DEF SplitInv

(* The last argument ends with the line.                                     *)
LEMMA SplitParseDone == ASSUME LInv, SplitInv, ParseDone PROVE SplitInv'
<1>1. /\ pc = "parse" /\ input[in] = NUL /\ in' = in /\ pc' = "run"
      /\ argv' = argv /\ o' = o /\ line' = line /\ input' = [input EXCEPT ![o] = NUL]
  BY DEF ParseDone
<1>2. in_quote' <=> in_quote
  BY DEF ParseDone
<1>3. /\ line \in Seq(Text) /\ Len(line) \in Nat /\ in = Len(line)
      /\ Divided(line, KeepersIn(line), StartsIn(line), GapsIn(line))
      /\ in \in 0 .. Len(line) /\ o \in Index /\ input \in [Index -> Text \cup {NUL}]
  BY <1>1, AtNext
<1>4. SplitAt(KeepersIn(line), StartsIn(line), GapsIn(line), line, input, argv, in, o, in + 1)
  BY <1>1 DEF SplitInv
<1>5. in_quote <=> QuotedIn(line, in + 1)
  BY <1>1 DEF SplitInv
<1>6. SplitAt(KeepersIn(line), StartsIn(line), GapsIn(line), line, input', argv, in, o, in + 1)
  BY <1>1, <1>3, <1>4, Overwrites
<1>7. input'[o] = NUL
  BY <1>1, <1>3
<1>8. in_quote' <=> QuotedIn(line', in' + 1)
  BY <1>1, <1>2, <1>5
<1>9. (IF pc' = "skip" THEN in' ELSE in' + 1) = in + 1
  BY <1>1
<1>10. in' = Len(line') /\ input'[o'] = NUL
  BY <1>1, <1>3, <1>7
<1> QED BY <1>1, <1>6, <1>8, <1>9, <1>10 DEF SplitInv

(* Every step keeps the invariant of the split.                              *)
LEMMA NextSplitInv == LInv /\ SplitInv /\ [Next]_vars => SplitInv'
<1> SUFFICES ASSUME LInv, SplitInv, [Next]_vars PROVE SplitInv'
  OBVIOUS
<1>1. ASSUME NEW c \in Text, Read(c) PROVE SplitInv'
  BY <1>1 DEF Read, SplitInv
<1>2. CASE ReadEnd
  BY <1>2 DEF ReadEnd, SplitInv
<1>3. CASE ReadDone
  BY <1>3, SplitReadDone
<1>4. CASE ParseQuote
  BY <1>4, SplitQuote
<1>5. CASE ParseBlank
  BY <1>5, SplitBlank
<1>6. CASE Skip
  BY <1>6, SplitSkip
<1>7. CASE SkipDone
  BY <1>7, SplitSkipDone
<1>8. CASE ParseChar
  BY <1>8, SplitChar
<1>9. CASE ParseDone
  BY <1>9, SplitParseDone
<1>10. CASE RunDone
  BY <1>10 DEF RunDone, NextLine, SplitInv
<1>11. CASE UNCHANGED vars
  <2>1. pc' = pc /\ line' = line /\ input' = input /\ argv' = argv /\ in' = in /\ o' = o
        /\ in_quote' = in_quote
    BY <1>11 DEF vars
  <2> QED BY <2>1 DEF SplitInv
<1> QED BY <1>1, <1>2, <1>3, <1>4, <1>5, <1>6, <1>7, <1>8, <1>9, <1>10, <1>11 DEF Next, Step

-----------------------------------------------------------------------------
(* The arguments of a line that has been split.                              *)

(* M is the part of K from t to before u.                                    *)
Between(K, t, u, M) == M = {k \in K : t <= k /\ k < u}

(* M is the part of K behind i - 1 members of S.                             *)
OfArgument(K, S, i, M) == M = {k \in K : Upto(S, k) = i - 1}

(* The kept characters between two positions.                                *)
LEMMA Slice ==
  ASSUME NEW n, NEW K, Among(K, n), NEW t \in Nat, NEW u \in Nat, t >= 1, t <= u,
         NEW M, Between(K, t, u, M)
  PROVE  /\ Among(M, n)
         /\ Upto(K, t - 1) \in Nat /\ Upto(K, u - 1) \in Nat
         /\ Cardinality(M) = Upto(K, u - 1) - Upto(K, t - 1) /\ Cardinality(M) \in Nat
         /\ \A k \in M : Upto(M, k) = Upto(K, k) - Upto(K, t - 1)
<1> USE DEF Between
<1>1. n \in Nat /\ K \in SUBSET (1 .. n) /\ \A k \in K : k \in Nat
  BY DEF Among
<1>2. Among(M, n)
  BY <1>1 DEF Among
<1>3. IsFiniteSet(K) /\ IsFiniteSet(M)
  <2>1. IsFiniteSet(1 .. n)
    BY <1>1, FS_Interval
  <2>2. M \in SUBSET (1 .. n)
    BY <1>1
  <2> QED BY <1>1, <2>1, <2>2, FS_Subset
<1>4. ASSUME NEW k \in Nat, t - 1 <= k, k < u
      PROVE  Upto(K, k) = Upto(K, t - 1) + Upto(M, k) /\ Upto(M, k) \in Nat
  <2>1. PICK A : A = {j \in K : j <= t - 1}
    OBVIOUS
  <2>2. PICK B : B = {j \in M : j <= k}
    OBVIOUS
  <2>3. A \in SUBSET K /\ B \in SUBSET M
    BY <2>1, <2>2
  <2>4. IsFiniteSet(A) /\ IsFiniteSet(B)
    BY <1>3, <2>3, FS_Subset
  <2>5. \A j \in K : j <= k <=> j <= t - 1 \/ (j \in M /\ j <= k)
    BY <1>1, <1>4
  <2>6. {j \in K : j <= k} = A \cup B
    <3>1. \A j \in M : j \in K
      OBVIOUS
    <3> QED BY <2>1, <2>2, <2>5, <3>1, Zenon
  <2>7. A \cap B = {}
    <3>1. \A j \in M : ~(j <= t - 1)
      BY <1>1
    <3> QED BY <2>1, <2>2, <3>1, Zenon
  <2>8. Cardinality(A \cup B) = Cardinality(A) + Cardinality(B)
    <3>1. Cardinality(A \cup B) = Cardinality(A) + Cardinality(B) - Cardinality(A \cap B)
      BY <2>4, FS_Union
    <3>2. Cardinality(A \cap B) = 0
      BY <2>7, FS_EmptySet
    <3>3. Cardinality(A) \in Nat /\ Cardinality(B) \in Nat
      BY <2>4, FS_CardinalityType
    <3> QED BY <3>1, <3>2, <3>3
  <2>9. Cardinality(B) \in Nat
    BY <2>4, FS_CardinalityType
  <2>10. Upto(K, t - 1) = Cardinality(A) /\ Upto(M, k) = Cardinality(B)
    BY <2>1, <2>2 DEF Upto
  <2> QED BY <2>6, <2>8, <2>9, <2>10 DEF Upto
<1>5. t - 1 \in Nat /\ u - 1 \in Nat /\ t - 1 <= u - 1 /\ u - 1 < u
  OBVIOUS
<1>6. Upto(K, t - 1) \in Nat /\ Upto(K, u - 1) \in Nat
  BY <1>5, UptoFacts
<1>7. Cardinality(M) = Upto(M, u - 1)
  <2>1. \A j \in M : j <= u - 1
    BY <1>1
  <2>2. {j \in M : j <= u - 1} = M
    BY <2>1, Zenon
  <2> QED BY <2>2 DEF Upto
<1>8. Upto(K, u - 1) = Upto(K, t - 1) + Upto(M, u - 1) /\ Upto(M, u - 1) \in Nat
  BY <1>4, <1>5
<1>9. ASSUME NEW k \in M PROVE Upto(M, k) = Upto(K, k) - Upto(K, t - 1)
  <2>1. k \in Nat /\ t - 1 <= k /\ k < u
    BY <1>1
  <2>2. Upto(K, k) = Upto(K, t - 1) + Upto(M, k) /\ Upto(M, k) \in Nat
    BY <1>4, <2>1
  <2> QED BY <1>6, <2>2
<1> QED BY <1>2, <1>6, <1>7, <1>8, <1>9

(* A whole line of n characters has been split, and out is at y.             *)
Split(w, K, S, G, buf, av, y) ==
  /\ Divided(w, K, S, G) /\ SplitAt(K, S, G, w, buf, av, Len(w), y, Len(w) + 1)
  /\ buf[y] = NUL /\ y \in Index

(* Where the i-th argument begins.                                           *)
LEMMA ArgumentBegins ==
  ASSUME NEW w, NEW K, NEW S, NEW G, NEW buf, NEW av, NEW y,
         Split(w, K, S, G, buf, av, y), NEW i \in 1 .. Len(av), i <= Cardinality(S) + 1
  PROVE  \E t \in Nat :
           /\ t >= 1 /\ t <= Len(w) + 1 /\ av[i] = Upto(K, t - 1) + i - 1
           /\ Upto(S, t) = i - 1
           /\ \A k \in K : t <= k <=> Upto(S, k) >= i - 1
<1>1. Divided(w, K, S, G) /\ SplitAt(K, S, G, w, buf, av, Len(w), y, Len(w) + 1)
  BY DEF Split
<1>2. Len(w) \in Nat /\ i \in Nat /\ i >= 1
  <2>1. Len(w) \in Nat
    BY <1>1, Positions
  <2> QED BY <2>1
<1>3. CASE i = 1
  <2>1. Upto(K, 0) = 0 /\ Upto(S, 1) = 0
    BY <1>1, Counting
  <2>2. av[1] = 0
    BY <1>1 DEF SplitAt
  <2>3. ASSUME NEW k \in K PROVE 1 <= k /\ Upto(S, k) >= 0
    <3>1. k \in Nat /\ 1 <= k
      BY <1>1 DEF Divided
    <3>2. Upto(S, k) \in Nat
      BY <1>1, <3>1, Counting
    <3> QED BY <3>1, <3>2
  <2>4. 1 \in Nat /\ 1 >= 1 /\ 1 <= Len(w) + 1 /\ i - 1 = 0 /\ 1 - 1 = 0
    BY <1>2, <1>3
  <2>5. av[i] = Upto(K, 1 - 1) + i - 1
    BY <1>3, <2>1, <2>2
  <2>6. \A k \in K : 1 <= k <=> Upto(S, k) >= i - 1
    BY <2>3, <2>4
  <2> QED BY <2>1, <2>4, <2>5, <2>6
<1>4. CASE i # 1
  <2>0. Among(S, Len(w))
    BY <1>1, Counting
  <2>1. i - 1 \in 1 .. Cardinality(S)
    <3>1. Cardinality(S) \in Nat
      <4>1. Upto(S, Len(w)) = Cardinality(S) /\ Upto(S, Len(w)) \in Nat
        BY <1>2, <2>0, UptoFacts
      <4> QED BY <4>1
    <3> QED BY <1>2, <1>4, <3>1
  <2>2. PICK t \in S : Upto(S, t) = i - 1
    BY <2>0, <2>1, Ranked
  <2>3. /\ t \in Nat /\ t >= 1 /\ t <= Len(w) /\ t - 1 \in Nat
        /\ Upto(S, t) = Upto(S, t - 1) + 1 /\ Upto(S, t - 1) \in Nat
    BY <2>0, UptoFacts
  <2>4. t <= Len(w) + 1
    BY <1>2, <2>3
  <2>5. Upto(S, t) < Len(av) => av[Upto(S, t) + 1] = Upto(K, t - 1) + Upto(S, t)
    BY <1>1, <2>4 DEF SplitAt
  <2>6. i - 1 < Len(av) /\ (i - 1) + 1 = i
    BY <1>2
  <2>7. av[i] = Upto(K, t - 1) + (i - 1)
    <3>1. PICK j \in Nat : j = i - 1 /\ j + 1 = i
      BY <1>2
    <3>2. Upto(S, t) = j /\ j < Len(av)
      BY <2>2, <2>6, <3>1
    <3> QED BY <2>5, <3>1, <3>2
  <2>8. Upto(K, t - 1) \in Nat
    BY <1>1, <2>3, Counting
  <2>9. av[i] = Upto(K, t - 1) + i - 1
    BY <1>2, <2>7, <2>8
  <2>10. ASSUME NEW k \in K PROVE t <= k <=> Upto(S, k) >= i - 1
    <3>1. k \in Nat
      BY <1>1, Positions
    <3>2. Upto(S, k) \in Nat
      BY <1>1, <3>1, Counting
    <3>3. CASE t <= k
      <4>1. Upto(S, t) <= Upto(S, k)
        BY <2>0, <2>3, <3>1, <3>3, UptoFacts
      <4> QED BY <1>2, <2>2, <3>2, <3>3, <4>1
    <3>4. CASE ~(t <= k)
      <4>1. k <= t - 1
        BY <2>3, <3>1, <3>4
      <4>2. Upto(S, k) <= Upto(S, t - 1)
        BY <2>0, <2>3, <3>1, <4>1, UptoFacts
      <4>3. Upto(S, k) < i - 1
        BY <1>2, <2>2, <2>3, <3>2, <4>2
      <4> QED BY <1>2, <3>2, <3>4, <4>3
    <3> QED BY <3>3, <3>4
  <2> QED BY <2>2, <2>3, <2>4, <2>9, <2>10
<1> QED BY <1>3, <1>4

(* Where the i-th argument ends: at a NUL of its own.                        *)
LEMMA ArgumentEnds ==
  ASSUME NEW w, NEW K, NEW S, NEW G, NEW buf, NEW av, NEW y,
         Split(w, K, S, G, buf, av, y), NEW i \in 1 .. Len(av), i <= Cardinality(S) + 1
  PROVE  \E u \in Nat :
           /\ u >= 1 /\ Upto(K, u - 1) \in Nat
           /\ buf[Upto(K, u - 1) + i - 1] = NUL
           /\ Upto(K, u - 1) + i - 1 \in Index
           /\ \A k \in K : k < u <=> Upto(S, k) <= i - 1
           /\ u = Len(w) + 1 \/ Upto(S, u) = i
<1>1. /\ Divided(w, K, S, G) /\ SplitAt(K, S, G, w, buf, av, Len(w), y, Len(w) + 1)
      /\ buf[y] = NUL /\ y \in Index
  BY DEF Split
<1>2. Len(w) \in Nat /\ i \in Nat /\ i >= 1 /\ MAX_INPUT \in Nat /\ Len(w) \in 0 .. Len(w)
  <2>1. Len(w) \in Nat
    BY <1>1, Positions
  <2> QED BY <2>1, LineAssumption
<1>3. Among(S, Len(w)) /\ Cardinality(S) = Upto(S, Len(w)) /\ Cardinality(S) \in Nat
  <2>1. Among(S, Len(w))
    BY <1>1, Counting
  <2>2. Upto(S, Len(w)) = Cardinality(S) /\ Upto(S, Len(w)) \in Nat
    BY <1>2, <2>1, UptoFacts
  <2> QED BY <2>1, <2>2
<1>4. CASE i = Cardinality(S) + 1
  <2>1. Upto(K, Len(w)) \in Nat /\ (Len(w) + 1) - 1 = Len(w)
    BY <1>1, <1>2, Counting
  <2>2. y = Upto(K, Len(w)) + Cardinality(S) + (IF Len(w) \in G THEN 1 ELSE 0)
    BY <1>1, <1>3 DEF SplitAt
  <2>3. PICK z : z = Upto(K, Len(w)) + i - 1
    OBVIOUS
  <2>4. z = Upto(K, Len(w)) + Cardinality(S) /\ z \in Nat
    BY <1>3, <1>4, <2>1, <2>3
  <2>5. buf[z] = NUL /\ z \in Index
    <3>1. CASE Len(w) \in G
      <4>1. buf[y - 1] = NUL
        BY <1>1, <3>1 DEF SplitAt
      <4>2. z = y - 1
        BY <1>3, <2>1, <2>2, <2>4, <3>1
      <4>3. z \in Index
        BY <1>1, <1>2, <2>4, <4>2 DEF Index
      <4> QED BY <4>1, <4>2, <4>3
    <3>2. CASE Len(w) \notin G
      <4>1. z = y
        BY <1>3, <2>1, <2>2, <2>4, <3>2
      <4> QED BY <1>1, <4>1
    <3> QED BY <3>1, <3>2
  <2>6. ASSUME NEW k \in K PROVE k < Len(w) + 1 /\ Upto(S, k) <= i - 1
    <3>1. k \in Nat /\ k <= Len(w)
      BY <1>1 DEF Divided
    <3>2. Upto(S, k) <= Upto(S, Len(w))
      BY <1>2, <1>3, <3>1, UptoFacts
    <3> QED BY <1>2, <1>3, <1>4, <3>1, <3>2
  <2>7. PICK u \in Nat : u = Len(w) + 1 /\ u - 1 = Len(w) /\ u >= 1
    BY <1>2
  <2>8. \A k \in K : k < u <=> Upto(S, k) <= i - 1
    BY <2>6, <2>7
  <2> QED BY <2>1, <2>3, <2>5, <2>7, <2>8
<1>5. CASE i # Cardinality(S) + 1
  <2>1. i \in 1 .. Cardinality(S)
    BY <1>2, <1>3, <1>5
  <2>2. PICK u \in S : Upto(S, u) = i
    BY <1>3, <2>1, Ranked
  <2>3. /\ u \in Nat /\ u >= 1 /\ u <= Len(w) /\ u - 1 \in Nat
        /\ Upto(S, u) = Upto(S, u - 1) + 1 /\ Upto(S, u - 1) \in Nat
    BY <1>3, UptoFacts
  <2>4. u <= Len(w) + 1
    BY <1>2, <2>3
  <2>5. Upto(K, u - 1) \in Nat
    BY <1>1, <2>3, Counting
  <2>6. PICK z : z = Upto(K, u - 1) + Upto(S, u) - 1
    OBVIOUS
  <2>7. buf[z] = NUL
    BY <1>1, <2>4, <2>6 DEF SplitAt
  <2>8. z \in 0 .. y - 1
    BY <1>1, <1>2, <2>4, <2>6, PlacedBelow
  <2>9. z \in Index
    BY <1>1, <1>2, <2>8 DEF Index
  <2>10. z = Upto(K, u - 1) + i - 1
    BY <2>2, <2>6
  <2>11. ASSUME NEW k \in K PROVE k < u <=> Upto(S, k) <= i - 1
    <3>1. k \in Nat
      BY <1>1, Positions
    <3>2. Upto(S, k) \in Nat
      BY <1>1, <3>1, Counting
    <3>3. CASE k < u
      <4>1. k <= u - 1
        BY <2>3, <3>1, <3>3
      <4>2. Upto(S, k) <= Upto(S, u - 1)
        BY <1>3, <2>3, <3>1, <4>1, UptoFacts
      <4>3. Upto(S, k) <= i - 1
        BY <1>2, <2>2, <2>3, <3>2, <4>2
      <4> QED BY <3>3, <4>3
    <3>4. CASE ~(k < u)
      <4>1. u <= k
        BY <2>3, <3>1, <3>4
      <4>2. Upto(S, u) <= Upto(S, k)
        BY <1>3, <2>3, <3>1, <4>1, UptoFacts
      <4>3. ~(Upto(S, k) <= i - 1)
        BY <1>2, <2>2, <3>2, <4>2
      <4> QED BY <3>4, <4>3
    <3> QED BY <3>3, <3>4
  <2> QED BY <2>2, <2>3, <2>5, <2>7, <2>9, <2>10, <2>11
<1> QED BY <1>4, <1>5

(* The i-th argument, M: its characters in order, from where argv says, and  *)
(* a NUL.                                                                    *)
LEMMA ArgumentAt ==
  ASSUME NEW w, NEW K, NEW S, NEW G, NEW buf, NEW av, NEW y,
         Split(w, K, S, G, buf, av, y), NEW i \in 1 .. Len(av), i <= Cardinality(S) + 1,
         NEW M, OfArgument(K, S, i, M)
  PROVE  /\ Among(M, Len(w)) /\ Cardinality(M) \in Nat
         /\ av[i] \in Nat /\ av[i] + Cardinality(M) \in Index
         /\ buf[av[i] + Cardinality(M)] = NUL
         /\ \A k \in M : buf[av[i] + Upto(M, k) - 1] = w[k]
<1>1. Divided(w, K, S, G) /\ SplitAt(K, S, G, w, buf, av, Len(w), y, Len(w) + 1)
  BY DEF Split
<1>2. Len(w) \in Nat /\ i \in Nat /\ i >= 1
  <2>1. Len(w) \in Nat
    BY <1>1, Positions
  <2> QED BY <2>1
<1>3. PICK t \in Nat :
        /\ t >= 1 /\ t <= Len(w) + 1 /\ av[i] = Upto(K, t - 1) + i - 1
        /\ Upto(S, t) = i - 1
        /\ \A k \in K : t <= k <=> Upto(S, k) >= i - 1
  BY ArgumentBegins
<1>4. PICK u \in Nat :
        /\ u >= 1 /\ Upto(K, u - 1) \in Nat
        /\ buf[Upto(K, u - 1) + i - 1] = NUL
        /\ Upto(K, u - 1) + i - 1 \in Index
        /\ \A k \in K : k < u <=> Upto(S, k) <= i - 1
        /\ u = Len(w) + 1 \/ Upto(S, u) = i
  BY ArgumentEnds
<1>5. Among(K, Len(w)) /\ Among(S, Len(w))
  BY <1>1, Counting
<1>6. t <= u
  <2>1. CASE u = Len(w) + 1
    BY <1>3, <2>1
  <2>2. CASE Upto(S, u) = i
    <3>1. u <= t => Upto(S, u) <= Upto(S, t)
      BY <1>5, UptoFacts
    <3>2. ~(u <= t)
      BY <1>2, <1>3, <2>2, <3>1
    <3> QED BY <3>2
  <2> QED BY <1>4, <2>1, <2>2
<1>7. \A k \in K : Upto(S, k) \in Nat
  <2>1. \A k \in K : k \in Nat
    BY <1>1, Positions
  <2> QED BY <1>5, <2>1, UptoFacts
<1>8. \A k \in K : Upto(S, k) = i - 1 <=> t <= k /\ k < u
  BY <1>2, <1>3, <1>4, <1>7
<1>0. M = {k \in K : Upto(S, k) = i - 1}
  BY DEF OfArgument
<1>9. Between(K, t, u, M)
  BY <1>0, <1>8, Zenon DEF Between
<1>10. /\ Among(M, Len(w))
       /\ Upto(K, t - 1) \in Nat /\ Upto(K, u - 1) \in Nat
       /\ Cardinality(M) = Upto(K, u - 1) - Upto(K, t - 1) /\ Cardinality(M) \in Nat
       /\ \A k \in M : Upto(M, k) = Upto(K, k) - Upto(K, t - 1)
  BY <1>3, <1>5, <1>6, <1>9, Slice
<1>11. av[i] \in Nat
  BY <1>2, <1>3, <1>10
<1>12. av[i] + Cardinality(M) = Upto(K, u - 1) + i - 1
  BY <1>2, <1>3, <1>10
<1>13. ASSUME NEW k \in M PROVE buf[av[i] + Upto(M, k) - 1] = w[k]
  <2>1. k \in K /\ Upto(S, k) = i - 1
    BY <1>0
  <2>2. /\ k \in Nat /\ k <= Len(w) /\ Upto(K, k) = Upto(K, k - 1) + 1 /\ Upto(K, k - 1) \in Nat
    BY <1>5, <2>1, UptoFacts
  <2>3. buf[Upto(K, k - 1) + Upto(S, k)] = w[k]
    BY <1>1, <2>1, <2>2 DEF SplitAt
  <2>4. Upto(M, k) = Upto(K, k) - Upto(K, t - 1)
    BY <1>10
  <2>5. av[i] + Upto(M, k) - 1 = Upto(K, k - 1) + Upto(S, k)
    BY <1>2, <1>3, <1>10, <2>1, <2>2, <2>4, SMTT(30)
  <2> QED BY <2>3, <2>5
<1> QED BY <1>4, <1>10, <1>11, <1>12, <1>13

(* The string at a ends at its first NUL.                                    *)
LEMMA StringEnds ==
  ASSUME NEW a \in Nat, NEW m \in Nat, a + m \in Index, input[a + m] = NUL,
         \A j \in 1 .. m : input[a + j - 1] # NUL
  PROVE  StringAt(a) = [j \in 1 .. m |-> input[a + j - 1]]
<1> DEFINE Ends(e) == input[e] = NUL /\ \A z \in a .. e - 1 : input[z] # NUL
<1>1. a + m \in a .. MAX_INPUT - 1 /\ MAX_INPUT \in Nat
  BY LineAssumption DEF Index
<1>2. \A z \in a .. (a + m) - 1 : input[z] # NUL
  <2>1. TAKE z \in a .. (a + m) - 1
  <2>2. PICK j : j = z - a + 1
    OBVIOUS
  <2>3. j \in 1 .. m /\ a + j - 1 = z
    BY <2>2
  <2> QED BY <2>3
<1>3. ASSUME NEW e \in a .. MAX_INPUT - 1, Ends(e) PROVE e = a + m
  <2>1. CASE e < a + m
    <3>1. e \in a .. (a + m) - 1
      BY <2>1
    <3> QED BY <1>2, <1>3, <3>1
  <2>2. CASE e > a + m
    <3>1. a + m \in a .. e - 1
      BY <2>2
    <3> QED BY <1>3, <3>1
  <2> QED BY <2>1, <2>2
<1>4. (CHOOSE e \in a .. MAX_INPUT - 1 : Ends(e)) = a + m
  <2>1. Ends(a + m)
    BY <1>2
  <2> HIDE DEF Ends
  <2>2. \A e \in a .. MAX_INPUT - 1 : Ends(e) => e = a + m
    BY <1>3
  <2> QED BY <1>1, <2>1, <2>2
<1>5. (CHOOSE e \in a .. MAX_INPUT - 1 :
         input[e] = NUL /\ \A z \in a .. e - 1 : input[z] # NUL) = a + m
  BY <1>4
<1>6. (a + m) - a = m
  OBVIOUS
<1> QED BY <1>5, <1>6 DEF StringAt

(* What the definitions of the split are, of the line that was read.         *)
LEMMA InTheLine ==
  /\ Starts = StartsIn(line)
  /\ \A n : Members(n) = {k \in KeepersIn(line) : 1 + Upto(StartsIn(line), k) = n}
<1>1. \A k : Quoted(k) <=> QuotedIn(line, k)
  BY DEF Quoted, QuotedIn
<1>2. \A k : Gap(k) <=> GapIn(line, k)
  BY <1>1 DEF Gap, GapIn
<1>3. Starts = StartsIn(line)
  BY <1>2, Zenon DEF Starts, StartsIn
<1>4. \A k : Argument(k) = 1 + Upto(StartsIn(line), k)
  BY <1>3 DEF Argument, Upto
<1>5. \A k, n : /\ k \in 1 .. Len(line) /\ Argument(k) = n /\ ~Gap(k) /\ line[k] # Quote
                <=> k \in KeepersIn(line) /\ 1 + Upto(StartsIn(line), k) = n
  BY <1>2, <1>4 DEF KeepersIn
<1>6. ASSUME NEW n
      PROVE  Members(n) = {k \in KeepersIn(line) : 1 + Upto(StartsIn(line), k) = n}
  BY <1>5, Zenon DEF Members
<1> QED BY <1>3, <1>6

(* A command runs when its line has been split as it should be.              *)
LEMMA RunsWhenSplit == LInv /\ SplitInv => SplitRight
<1> SUFFICES ASSUME LInv, SplitInv, pc = "run"
             PROVE  /\ Len(argv) = IF Cardinality(Starts) + 1 < MAX_ARGS THEN Cardinality(Starts) + 1
                                   ELSE MAX_ARGS - 1
                    /\ \A n \in 1 .. Len(argv) : StringAt(argv[n]) = ArgText(n)
  BY DEF SplitRight
<1>1. PICK K, S, G : K = KeepersIn(line) /\ S = StartsIn(line) /\ G = GapsIn(line)
  OBVIOUS
<1>2. line \in Seq(Text) /\ o \in Index /\ argv \in Seq(Index) /\ Len(line) \in Nat
      /\ MAX_ARGS \in Nat /\ MAX_ARGS > 1
  BY LineAssumption DEF LInv, TypeOK
<1>3. Divided(line, K, S, G)
  BY <1>1, <1>2, LineDivided
<1>4. in = Len(line) /\ input[o] = NUL
  BY DEF SplitInv
<1>5. SplitAt(K, S, G, line, input, argv, Len(line), o, Len(line) + 1)
  <2>1. (IF pc = "skip" THEN in ELSE in + 1) = Len(line) + 1
    BY <1>4
  <2> QED BY <1>1, <1>4, <2>1 DEF SplitInv
<1>6. Split(line, K, S, G, input, argv, o)
  BY <1>2, <1>3, <1>4, <1>5 DEF Split
<1>7. Upto(S, Len(line) + 1) = Cardinality(S) /\ Cardinality(S) \in Nat
  <2>1. Among(S, Len(line))
    BY <1>3, Counting
  <2>2. Len(line) + 1 \in Nat /\ Len(line) + 1 >= Len(line)
    BY <1>2
  <2>3. Upto(S, Len(line) + 1) = Cardinality(S)
    BY <2>1, <2>2, UptoFacts
  <2>4. Upto(S, Len(line) + 1) \in Nat
    BY <2>1, <2>2, UptoFacts
  <2> QED BY <2>3, <2>4
<1>8. Len(argv) = IF Cardinality(S) + 1 < MAX_ARGS THEN Cardinality(S) + 1 ELSE MAX_ARGS - 1
  <2>1. Len(argv) = IF Upto(S, Len(line) + 1) + 1 < MAX_ARGS THEN Upto(S, Len(line) + 1) + 1
                    ELSE MAX_ARGS - 1
    BY <1>5 DEF SplitAt
  <2> QED BY <1>7, <2>1
<1>9. ASSUME NEW i \in 1 .. Len(argv) PROVE StringAt(argv[i]) = ArgText(i)
  <2>0. i \in Nat /\ i >= 1 /\ i <= Cardinality(S) + 1
    BY <1>2, <1>7, <1>8
  <2>1. PICK M : M = Members(i)
    OBVIOUS
  <2>2. OfArgument(K, S, i, M)
    <3>1. \A k \in K : Upto(S, k) \in Nat
      <4>1. \A k \in K : k \in Nat
        BY <1>3, Positions
      <4>2. Among(S, Len(line))
        BY <1>3, Counting
      <4> QED BY <4>1, <4>2, UptoFacts
    <3>2. \A k \in K : 1 + Upto(S, k) = i <=> Upto(S, k) = i - 1
      BY <2>0, <3>1
    <3>3. M = {k \in K : 1 + Upto(S, k) = i}
      BY <1>1, <2>1, InTheLine
    <3> QED BY <3>2, <3>3, Zenon DEF OfArgument
  <2>3. /\ Among(M, Len(line)) /\ Cardinality(M) \in Nat
        /\ argv[i] \in Nat /\ argv[i] + Cardinality(M) \in Index
        /\ input[argv[i] + Cardinality(M)] = NUL
        /\ \A k \in M : input[argv[i] + Upto(M, k) - 1] = line[k]
    BY <1>6, <2>0, <2>2, ArgumentAt
  <2>4. PICK a \in Nat, m \in Nat : a = argv[i] /\ m = Cardinality(M)
    BY <2>3
  <2> DEFINE At(j) == CHOOSE k \in M : Upto(M, k) = j
  <2>5. ASSUME NEW j \in 1 .. m
        PROVE  input[a + j - 1] = line[At(j)] /\ input[a + j - 1] # NUL
    <3>1. \E k \in M : Upto(M, k) = j
      BY <2>3, <2>4, Ranked
    <3>2. PICK k : k = At(j)
      OBVIOUS
    <3>3. k \in M /\ Upto(M, k) = j
      BY <3>1, <3>2
    <3>4. input[a + j - 1] = line[k]
      BY <2>3, <2>4, <3>3
    <3>5. line[k] # NUL
      <4>1. k \in 1 .. Len(line)
        BY <2>3, <3>3 DEF Among
      <4>2. NUL \notin Text
        BY LineAssumption DEF Text, NUL, Blank, Quote
      <4> QED BY <1>2, <4>1, <4>2
    <3> QED BY <3>2, <3>4, <3>5
  <2>6. StringAt(a) = [j \in 1 .. m |-> input[a + j - 1]]
    BY <2>3, <2>4, <2>5, StringEnds
  <2>7. ArgText(i) = [j \in 1 .. m |-> line[At(j)]]
    BY <2>1, <2>4 DEF ArgText, Upto
  <2>8. \A j \in 1 .. m : input[a + j - 1] = line[At(j)]
    BY <2>5
  <2> HIDE DEF At
  <2>9. [j \in 1 .. m |-> input[a + j - 1]] = [j \in 1 .. m |-> line[At(j)]]
    BY <2>8
  <2> QED BY <2>4, <2>6, <2>7, <2>9
<1>10. S = Starts
  BY <1>1, InTheLine
<1> QED BY <1>8, <1>9, <1>10

(* Whatever the line, and whatever the sizes of the buffer and of argv: the  *)
(* arguments of a command that runs are those of the line, shell.c:115-157.  *)
THEOREM SplitsRight == Spec => []SplitRight
<1>1. Init => LInv /\ SplitInv
  <2>1. Init => SplitInv
    BY DEF Init, SplitInv
  <2> QED BY <2>1, InitLInv
<1>2. LInv /\ SplitInv /\ [Next]_vars => (LInv /\ SplitInv)'
  BY NextLInv, NextSplitInv
<1>3. LInv /\ SplitInv => SplitRight
  BY RunsWhenSplit
<1> QED BY <1>1, <1>2, <1>3, PTL DEF Spec

=============================================================================
