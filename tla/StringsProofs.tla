---------------------------- MODULE StringsProofs ---------------------------
(* Theorems about the byte loops of string.c, for memories of every size,    *)
(* every alphabet and every legal call.                                      *)
EXTENDS Strings, TLAPS

(* Memory is a function on the addresses; arguments are numbers.             *)
Shape ==
  /\ mem = [x \in Addr |-> mem[x]] /\ old = [x \in Addr |-> old[x]]
  /\ a \in 0 .. N /\ b \in Nat /\ n \in 0 .. N /\ i \in Nat

(* The bytes of [l, h) come from [l - a + b, h - a + b), all others are old.  *)
CopiedRange(l, h) ==
  \A x \in Addr : mem[x] = IF x \in l .. h - 1 THEN old[b + (x - a)] ELSE old[x]

(* memcpy, and memmove upwards: below i all is copied.                       *)
UpInv ==
  In({"memcpy", "memmove"}) =>
    /\ i <= n /\ a + n <= N /\ b + n <= N
    /\ a < b \/ Apart(a, n, b, n)
    /\ CopiedRange(a, a + i)

(* memmove downwards: from i on all is copied.                               *)
DownInv ==
  pc = "down" =>
    /\ op = "memmove" /\ b < a /\ i <= n /\ a + n <= N
    /\ CopiedRange(a + i, a + n)

(* memset: below i all is filled.                                            *)
SetInv ==
  In({"memset"}) =>
    /\ i <= n /\ a + n <= N
    /\ \A x \in Addr : mem[x] = IF x \in a .. a + i - 1 THEN b ELSE old[x]

(* e is the end of the string strcpy copies, or strlen measures.             *)
CpyInv ==
  In({"strcpy"}) =>
    \E e \in Addr : /\ EndsAt(old, b, e) /\ b + i <= e
                    /\ a + (e - b) < N /\ Apart(a, e - b + 1, b, e - b + 1)
                    /\ CopiedRange(a, a + i)

(* strlen: the NUL has not been passed.                                      *)
LenInv ==
  In({"strlen"}) =>
    \E e \in Addr : EndsAt(mem, a, e) /\ a + i <= e

(* The inductive invariant of the functions that write, and of strlen.       *)
SInv ==
  /\ Shape /\ UpInv /\ DownInv /\ SetInv /\ CpyInv /\ LenInv
  /\ Copied /\ Filled /\ StringCopied /\ Measured

-----------------------------------------------------------------------------
(* A call starts in a state in which its loop invariant holds.               *)
LEMMA CallSInv == SInv /\ Call => SInv'
<1> SUFFICES ASSUME SInv, Call PROVE SInv'
  OBVIOUS
<1>0. N \in Nat /\ Shape
  BY StringsAssumption DEF SInv
<1>1. CASE \E x, y \in 0 .. N, k \in 0 .. N : Memcpy(x, y, k)
  <2>1. PICK x, y \in 0 .. N, k \in 0 .. N : Memcpy(x, y, k)
    BY <1>1
  <2> QED BY <2>1, <1>0 DEF Memcpy, Begin, SInv, Shape, UpInv, DownInv, SetInv, CpyInv, LenInv,
        Copied, Filled, StringCopied, Measured, CopiedRange, In, Fits
<1>2. CASE \E x, y \in 0 .. N, k \in 0 .. N : Memmove(x, y, k)
  <2>1. PICK x, y \in 0 .. N, k \in 0 .. N : Memmove(x, y, k)
    BY <1>2
  <2>2. CASE x < y
    BY <2>1, <2>2, <1>0 DEF Memmove, Begin, SInv, Shape, UpInv, DownInv, SetInv, CpyInv, LenInv,
        Copied, Filled, StringCopied, Measured, CopiedRange, In, Fits
  <2>3. CASE x > y
    BY <2>1, <2>3, <1>0 DEF Memmove, Begin, SInv, Shape, UpInv, DownInv, SetInv, CpyInv, LenInv,
        Copied, Filled, StringCopied, Measured, CopiedRange, In, Fits
  <2>4. CASE x = y
    BY <2>1, <2>4, <1>0 DEF Memmove, Begin, SInv, Shape, UpInv, DownInv, SetInv, CpyInv, LenInv,
        Copied, Filled, StringCopied, Measured, CopiedRange, In, Fits
  <2> QED BY <2>2, <2>3, <2>4
<1>3. CASE \E x, y \in 0 .. N, k \in 0 .. N : Memcmp(x, y, k)
  BY <1>3, <1>0 DEF Memcmp, Begin, SInv, Shape, UpInv, DownInv, SetInv, CpyInv, LenInv,
        Copied, Filled, StringCopied, Measured, CopiedRange, In, Fits
<1>4. CASE \E x \in 0 .. N, k \in 0 .. N, c \in Fills : Memset(x, c, k)
  <2>1. PICK x \in 0 .. N, k \in 0 .. N, c \in Fills : Memset(x, c, k)
    BY <1>4
  <2>2. c % 256 \in Nat
    BY StringsAssumption
  <2> QED BY <2>1, <2>2, <1>0 DEF Memset, Begin, SInv, Shape, UpInv, DownInv, SetInv, CpyInv, LenInv,
        Copied, Filled, StringCopied, Measured, CopiedRange, In, Fits
<1>5. CASE \E x \in Addr : Strlen(x)
  <2>1. PICK x \in Addr : Strlen(x)
    BY <1>5
  <2>2. PICK e \in Addr : EndsAt(mem, x, e)
    BY <2>1 DEF Strlen, IsString
  <2>3. x \in 0 .. N /\ x + 0 <= e
    BY <2>2, <1>0 DEF EndsAt, Addr
  <2>4. EndsAt(mem', x, e)
    BY <2>1, <2>2 DEF Strlen, Begin, EndsAt
  <2> QED BY <2>1, <2>3, <2>4, <1>0 DEF Strlen, Begin, SInv, Shape, UpInv, DownInv, SetInv, CpyInv,
        LenInv, Copied, Filled, StringCopied, Measured, CopiedRange, In
<1>6. CASE \E x, y \in Addr : Strcmp(x, y)
  BY <1>6, <1>0 DEF Strcmp, Begin, SInv, Shape, UpInv, DownInv, SetInv, CpyInv, LenInv,
        Copied, Filled, StringCopied, Measured, CopiedRange, In, Fits, Addr
<1>7. CASE \E x, y \in Addr : Strcpy(x, y)
  <2>1. PICK x \in Addr, y \in Addr : Strcpy(x, y)
    BY <1>7
  <2>2. PICK e \in Addr : /\ EndsAt(mem, y, e) /\ Fits(x, e - y + 1)
                          /\ Apart(x, e - y + 1, y, e - y + 1)
    BY <2>1 DEF Strcpy
  <2>3. y \in Nat /\ y + 0 <= e /\ x + (e - y) < N /\ x \in 0 .. N
    BY <2>2, <1>0 DEF EndsAt, Fits, Addr
  <2> QED BY <2>1, <2>2, <2>3, <1>0 DEF Strcpy, Begin, SInv, Shape, UpInv, DownInv, SetInv, CpyInv,
        LenInv, Copied, Filled, StringCopied, Measured, CopiedRange, In
<1> QED BY <1>1, <1>2, <1>3, <1>4, <1>5, <1>6, <1>7 DEF Call

(* memcpy and memmove with the destination below: the byte about to be read  *)
(* has not been overwritten.                                                 *)
LEMMA CopyUpSInv == SInv /\ CopyUp => SInv'
<1> SUFFICES ASSUME SInv, CopyUp PROVE SInv'
  OBVIOUS
<1>1. /\ N \in Nat /\ a \in 0 .. N /\ b \in Nat /\ n \in 0 .. N /\ i \in Nat
      /\ mem = [x \in Addr |-> mem[x]] /\ old = [x \in Addr |-> old[x]]
      /\ pc = "loop" /\ op \in {"memcpy", "memmove"} /\ i < n
      /\ a + n <= N /\ b + n <= N /\ (a < b \/ Apart(a, n, b, n))
  BY StringsAssumption DEF SInv, Shape, UpInv, CopyUp, In
<1>2. /\ mem' = [mem EXCEPT ![a + i] = mem[b + i]] /\ i' = i + 1
      /\ op' = op /\ a' = a /\ b' = b /\ n' = n /\ pc' = pc /\ old' = old
  BY DEF CopyUp, args
<1>3. a + i \in Addr /\ b + i \in Addr
  BY <1>1 DEF Addr
<1>4. \A x \in Addr : mem[x] = IF x \in a .. a + i - 1 THEN old[b + (x - a)] ELSE old[x]
  <2>1. CopiedRange(a, a + i)
    BY <1>1 DEF SInv, UpInv, In
  <2> QED BY <2>1, <1>1 DEF CopiedRange
<1>5. b + i \notin a .. a + i - 1
  BY <1>1 DEF Apart
<1>6. mem[b + i] = old[b + i]
  BY <1>3, <1>4, <1>5
<1>7. ASSUME NEW x \in Addr
      PROVE  mem'[x] = IF x \in a .. (a + (i + 1)) - 1 THEN old[b + (x - a)] ELSE old[x]
  <2>1. CASE x = a + i
    <3>1. mem'[x] = old[b + i]
      BY <2>1, <1>1, <1>2, <1>3, <1>6
    <3>2. x \in a .. (a + (i + 1)) - 1 /\ b + (x - a) = b + i
      BY <2>1, <1>1
    <3> QED BY <3>1, <3>2
  <2>2. CASE x # a + i
    <3>1. mem'[x] = mem[x]
      BY <2>2, <1>1, <1>2
    <3>2. x \in Int /\ a \in Int /\ i \in Int /\ n \in Int /\ i <= n
      BY <1>1 DEF Addr
    <3>3. x \in a .. (a + (i + 1)) - 1 <=> x \in a .. a + i - 1
      BY <2>2, <3>2
    <3> QED BY <3>1, <3>3, <1>4
  <2> QED BY <2>1, <2>2
<1>8. CopiedRange(a, a + i)'
  <2>1. \A x \in Addr : mem'[x] = IF x \in a' .. (a' + i') - 1 THEN old'[b' + (x - a')] ELSE old'[x]
    BY <1>2, <1>7, Zenon
  <2> QED BY <2>1, Zenon DEF CopiedRange
<1> QED BY <1>1, <1>2, <1>8
    DEF SInv, Shape, UpInv, DownInv, SetInv, CpyInv, LenInv,
        Copied, Filled, StringCopied, Measured, In, Apart

(* memmove with the destination above: the same, from the other end.         *)
LEMMA CopyDownSInv == SInv /\ CopyDown => SInv'
<1> SUFFICES ASSUME SInv, CopyDown PROVE SInv'
  OBVIOUS
<1>1. /\ N \in Nat /\ a \in 0 .. N /\ b \in Nat /\ n \in 0 .. N /\ i \in Nat
      /\ mem = [x \in Addr |-> mem[x]] /\ old = [x \in Addr |-> old[x]]
      /\ pc = "down" /\ op = "memmove" /\ i > 0 /\ i <= n
      /\ a + n <= N /\ b < a
  BY StringsAssumption DEF SInv, Shape, DownInv, CopyDown
<1>2. /\ mem' = [mem EXCEPT ![a + i - 1] = mem[b + i - 1]] /\ i' = i - 1
      /\ op' = op /\ a' = a /\ b' = b /\ n' = n /\ pc' = pc /\ old' = old
  BY DEF CopyDown, args
<1>3. a + i - 1 \in Addr /\ b + i - 1 \in Addr
  BY <1>1 DEF Addr
<1>4. \A x \in Addr : mem[x] = IF x \in a + i .. a + n - 1 THEN old[b + (x - a)] ELSE old[x]
  BY <1>1 DEF SInv, DownInv, CopiedRange
<1>5. b + i - 1 \notin a + i .. a + n - 1
  BY <1>1
<1>6. mem[b + i - 1] = old[b + i - 1]
  BY <1>3, <1>4, <1>5
<1>7. ASSUME NEW x \in Addr
      PROVE  mem'[x] = IF x \in a + (i - 1) .. (a + n) - 1 THEN old[b + (x - a)] ELSE old[x]
  <2>1. CASE x = a + i - 1
    <3>1. mem'[x] = old[b + i - 1]
      BY <2>1, <1>1, <1>2, <1>3, <1>6
    <3>2. x \in a + (i - 1) .. (a + n) - 1 /\ b + (x - a) = b + i - 1
      BY <2>1, <1>1
    <3> QED BY <3>1, <3>2
  <2>2. CASE x # a + i - 1
    <3>1. mem'[x] = mem[x]
      BY <2>2, <1>1, <1>2
    <3>2. x \in Int /\ a \in Int /\ i \in Int /\ n \in Int /\ i <= n
      BY <1>1 DEF Addr
    <3>3. x \in a + (i - 1) .. (a + n) - 1 <=> x \in a + i .. a + n - 1
      BY <2>2, <3>2
    <3> QED BY <3>1, <3>3, <1>4
  <2> QED BY <2>1, <2>2
<1>8. CopiedRange(a + i, a + n)'
  <2>1. \A x \in Addr :
          mem'[x] = IF x \in a' + i' .. (a' + n') - 1 THEN old'[b' + (x - a')] ELSE old'[x]
    BY <1>2, <1>7, Zenon
  <2> QED BY <2>1, Zenon DEF CopiedRange
<1> QED BY <1>1, <1>2, <1>8
    DEF SInv, Shape, UpInv, DownInv, SetInv, CpyInv, LenInv,
        Copied, Filled, StringCopied, Measured, In

(* memset fills one byte after the other.                                    *)
LEMMA SetByteSInv == SInv /\ SetByte => SInv'
<1> SUFFICES ASSUME SInv, SetByte PROVE SInv'
  OBVIOUS
<1>1. /\ N \in Nat /\ a \in 0 .. N /\ b \in Nat /\ n \in 0 .. N /\ i \in Nat
      /\ mem = [x \in Addr |-> mem[x]] /\ old = [x \in Addr |-> old[x]]
      /\ pc = "loop" /\ op = "memset" /\ i < n /\ a + n <= N
  BY StringsAssumption DEF SInv, Shape, SetInv, SetByte, In
<1>2. /\ mem' = [mem EXCEPT ![a + i] = b] /\ i' = i + 1
      /\ op' = op /\ a' = a /\ b' = b /\ n' = n /\ pc' = pc /\ old' = old
  BY DEF SetByte, args
<1>3. \A x \in Addr : mem[x] = IF x \in a .. a + i - 1 THEN b ELSE old[x]
  BY <1>1 DEF SInv, SetInv, In
<1>4. ASSUME NEW x \in Addr
      PROVE  mem'[x] = IF x \in a .. (a + (i + 1)) - 1 THEN b ELSE old[x]
  <2>1. x \in Int /\ a \in Int /\ i \in Int /\ a + i \in Addr
    BY <1>1 DEF Addr
  <2>2. CASE x = a + i
    BY <2>1, <2>2, <1>1, <1>2
  <2>3. CASE x # a + i
    <3>1. x \in a .. (a + (i + 1)) - 1 <=> x \in a .. a + i - 1
      BY <2>1, <2>3
    <3>2. mem'[x] = mem[x]
      BY <2>3, <1>1, <1>2
    <3> QED BY <3>1, <3>2, <1>3
  <2> QED BY <2>2, <2>3
<1>5. \A x \in Addr : mem'[x] = IF x \in a' .. a' + i' - 1 THEN b' ELSE old'[x]
  <2>1. a + (i + 1) - 1 = (a + (i + 1)) - 1
    BY <1>1
  <2> QED BY <2>1, <1>2, <1>4
<1> QED BY <1>1, <1>2, <1>5
    DEF SInv, Shape, UpInv, DownInv, SetInv, CpyInv, LenInv,
        Copied, Filled, StringCopied, Measured, In

(* strcpy: the byte it reads is the one the string had, and it stops at the  *)
(* string's own NUL.                                                         *)
LEMMA CopyStringSInv == SInv /\ CopyString => SInv'
<1> SUFFICES ASSUME SInv, CopyString PROVE SInv'
  OBVIOUS
<1>1. /\ N \in Nat /\ a \in 0 .. N /\ b \in Nat /\ n \in 0 .. N /\ i \in Nat
      /\ mem = [x \in Addr |-> mem[x]] /\ old = [x \in Addr |-> old[x]]
      /\ pc = "loop" /\ op = "strcpy"
  BY StringsAssumption DEF SInv, Shape, CopyString, In
<1>2. /\ mem' = [mem EXCEPT ![a + i] = mem[b + i]]
      /\ op' = op /\ a' = a /\ b' = b /\ n' = n /\ old' = old
      /\ \/ mem[b + i] # 0 /\ i' = i + 1 /\ pc' = pc
         \/ mem[b + i] = 0 /\ i' = i /\ pc' = "done"
  BY DEF CopyString, args, Done
<1>3. PICK e \in Addr : /\ EndsAt(old, b, e) /\ b + i <= e
                        /\ a + (e - b) < N /\ Apart(a, e - b + 1, b, e - b + 1)
                        /\ CopiedRange(a, a + i)
  BY <1>1 DEF SInv, CpyInv, In
<1>4. e \in Nat /\ e < N /\ a \in Int /\ i \in Int /\ b \in Int
  BY <1>1 DEF Addr
<1>5. a + i \in Addr /\ b + i \in Addr /\ b + i \notin a .. (a + i) - 1
  BY <1>1, <1>3, <1>4 DEF Addr, Apart
<1>6. \A x \in Addr : mem[x] = IF x \in a .. (a + i) - 1 THEN old[b + (x - a)] ELSE old[x]
  BY <1>3, Zenon DEF CopiedRange
<1>7. mem[b + i] = old[b + i]
  BY <1>5, <1>6
<1>8. ASSUME NEW x \in Addr
      PROVE  mem'[x] = IF x \in a .. (a + (i + 1)) - 1 THEN old[b + (x - a)] ELSE old[x]
  <2>1. x \in Int
    BY DEF Addr, StringsAssumption
  <2>2. CASE x = a + i
    <3>1. mem'[x] = old[b + i]
      BY <2>2, <1>1, <1>2, <1>5, <1>7
    <3>2. x \in a .. (a + (i + 1)) - 1 /\ b + (x - a) = b + i
      BY <2>2, <1>4, <1>1
    <3> QED BY <3>1, <3>2
  <2>3. CASE x # a + i
    <3>1. x \in a .. (a + (i + 1)) - 1 <=> x \in a .. (a + i) - 1
      BY <2>1, <2>3, <1>4
    <3>2. mem'[x] = mem[x]
      BY <2>3, <1>1, <1>2
    <3> QED BY <3>1, <3>2, <1>6
  <2> QED BY <2>2, <2>3
<1>9. mem' = [x \in Addr |-> mem'[x]]
  BY <1>1, <1>2
<1>10. CASE mem[b + i] # 0
  <2>1. i' = i + 1 /\ pc' = pc
    BY <1>2, <1>10
  <2>2. b + i # e
    BY <1>3, <1>7, <1>10 DEF EndsAt
  <2>3. b + (i + 1) <= e
    BY <2>2, <1>3, <1>4
  <2>4. CopiedRange(a, a + i)'
    BY <2>1, <1>2, <1>8, Zenon DEF CopiedRange
  <2>5. EndsAt(old', b', e) /\ b' + i' <= e /\ a' + (e - b') < N
        /\ Apart(a', e - b' + 1, b', e - b' + 1)
    BY <1>2, <1>3, <2>1, <2>3
  <2> QED BY <2>1, <2>4, <2>5, <1>1, <1>2, <1>9
    DEF SInv, Shape, UpInv, DownInv, SetInv, CpyInv, LenInv,
        Copied, Filled, StringCopied, Measured, In
<1>11. CASE mem[b + i] = 0
  <2>1. i' = i /\ pc' = "done"
    BY <1>2, <1>11
  <2>2. b + i = e
    <3>1. b + i \in b .. e - 1 => old[b + i] # 0
      BY <1>3 DEF EndsAt
    <3>2. b + i # e => b + i \in b .. e - 1
      BY <1>1, <1>3, <1>4
    <3> QED BY <3>1, <3>2, <1>7, <1>11
  <2>3. i = e - b /\ (a + (i + 1)) - 1 = a + (e - b)
    BY <2>2, <1>4
  <2>4. \A x \in Addr : mem'[x] = IF x \in a .. a + (e - b) THEN old[b + (x - a)] ELSE old[x]
    BY <2>3, <1>8
  <2>5. StringCopied'
    BY <2>4, <1>2, <1>3 DEF StringCopied
  <2> QED BY <2>1, <2>5, <1>1, <1>2, <1>9
    DEF SInv, Shape, UpInv, DownInv, SetInv, CpyInv, LenInv,
        Copied, Filled, Measured, In
<1> QED BY <1>10, <1>11

(* strlen stops at the first NUL.                                            *)
LEMMA ScanSInv == SInv /\ Scan => SInv'
<1> SUFFICES ASSUME SInv, Scan PROVE SInv'
  OBVIOUS
<1>1. /\ N \in Nat /\ Shape /\ pc = "loop" /\ op = "strlen"
      /\ a \in Nat /\ i \in Nat
  BY StringsAssumption DEF SInv, Shape, Scan, In
<1>2. /\ UNCHANGED <<mem, op, a, b, n, old>>
      /\ \/ mem[a + i] # 0 /\ i' = i + 1 /\ pc' = pc /\ ret' = ret
         \/ mem[a + i] = 0 /\ i' = i /\ pc' = "done" /\ ret' = i
  BY DEF Scan, args, Done
<1>3. PICK e \in Addr : EndsAt(mem, a, e) /\ a + i <= e
  BY <1>1 DEF SInv, LenInv, In
<1>4. e \in Nat /\ (a + i = e <=> mem[a + i] = 0)
  BY <1>1, <1>3 DEF EndsAt, Addr
<1>5. CASE mem[a + i] # 0
  <2>1. a + (i + 1) <= e /\ EndsAt(mem', a', e)
    BY <1>1, <1>2, <1>3, <1>4, <1>5
  <2> QED BY <2>1, <1>1, <1>2, <1>5
    DEF SInv, Shape, UpInv, DownInv, SetInv, CpyInv, LenInv,
        Copied, Filled, StringCopied, Measured, In
<1>6. CASE mem[a + i] = 0
  <2>1. EndsAt(mem', a', a' + ret')
    BY <1>2, <1>3, <1>4, <1>6
  <2> QED BY <2>1, <1>1, <1>2, <1>6
    DEF SInv, Shape, UpInv, DownInv, SetInv, CpyInv, LenInv,
        Copied, Filled, StringCopied, Measured, In
<1> QED BY <1>5, <1>6

(* A loop that has run out has done its work; the comparisons write nothing. *)
LEMMA OtherSInv == SInv /\ (LoopEnds \/ Agree \/ Disagree \/ Return) => SInv'
<1>1. SInv /\ Agree => SInv'
  BY DEF SInv, Shape, Agree, In, args, UpInv, DownInv, SetInv, CpyInv, LenInv, CopiedRange,
         Copied, Filled, StringCopied, Measured
<1>2. SInv /\ Disagree => SInv'
  BY DEF SInv, Shape, Disagree, Done, In, args, UpInv, DownInv, SetInv, CpyInv, LenInv, CopiedRange,
         Copied, Filled, StringCopied, Measured
<1>3. SInv /\ Return => SInv'
  BY StringsAssumption
     DEF SInv, Shape, Return, In, UpInv, DownInv, SetInv, CpyInv, LenInv, CopiedRange,
         Copied, Filled, StringCopied, Measured
<1>4. ASSUME SInv, LoopEnds PROVE SInv'
  <2>1. /\ Shape /\ pc' = "done" /\ UNCHANGED <<mem, op, a, b, n, i, old>>
        /\ op \in {"memcpy", "memmove", "memset", "memcmp"} \/ op = "memmove"
    BY <1>4 DEF LoopEnds, Done, args, SInv, DownInv, In
  <2>2. CASE In({"memcpy", "memmove"}) /\ i = n
    <3>1. a \in Int /\ n \in Int /\ (a + n) - 1 = a + n - 1
      BY <2>1, <2>2 DEF Shape
    <3>2. CopiedRange(a, a + n)
      <4>1. CopiedRange(a, a + i)
        BY <2>2, <1>4 DEF SInv, UpInv, LoopEnds
      <4> QED BY <4>1, <2>2
    <3>3. \A x \in Addr : mem[x] = IF x \in a .. a + n - 1 THEN old[b + (x - a)] ELSE old[x]
      BY <3>1, <3>2 DEF CopiedRange
    <3>4. Copied'
      <4>1. mem' = mem /\ op' = op /\ a' = a /\ b' = b /\ n' = n /\ old' = old
        BY <2>1
      <4> QED BY <4>1, <3>3, Zenon DEF Copied
    <3> QED BY <2>1, <2>2, <3>4
      DEF SInv, Shape, UpInv, DownInv, SetInv, CpyInv, LenInv, Filled, StringCopied, Measured, In
  <2>3. CASE pc = "down" /\ i = 0
    <3>1. a + i = a /\ a \in Int /\ n \in Int /\ (a + n) - 1 = a + n - 1
      BY <2>1, <2>3 DEF Shape
    <3>2. CopiedRange(a, a + n)
      BY <2>3, <3>1, <1>4 DEF SInv, DownInv
    <3>3. \A x \in Addr : mem[x] = IF x \in a .. a + n - 1 THEN old[b + (x - a)] ELSE old[x]
      BY <3>1, <3>2 DEF CopiedRange
    <3>4. Copied'
      <4>1. mem' = mem /\ op' = op /\ a' = a /\ b' = b /\ n' = n /\ old' = old
        BY <2>1
      <4> QED BY <4>1, <3>3, Zenon DEF Copied
    <3> QED BY <2>1, <2>3, <1>4, <3>4
      DEF SInv, Shape, UpInv, DownInv, SetInv, CpyInv, LenInv, Filled, StringCopied, Measured, In
  <2>4. CASE In({"memset"}) /\ i = n
    <3>1. Filled'
      BY <2>1, <2>4, <1>4 DEF SInv, SetInv, Filled, Shape
    <3> QED BY <2>1, <2>4, <3>1
      DEF SInv, Shape, UpInv, DownInv, SetInv, CpyInv, LenInv, Copied, StringCopied, Measured, In
  <2>5. CASE In({"memcmp"}) /\ i = n
    BY <2>1, <2>5
    DEF SInv, Shape, UpInv, DownInv, SetInv, CpyInv, LenInv, Copied, Filled, StringCopied, Measured, In
  <2> QED BY <1>4, <2>2, <2>3, <2>4, <2>5 DEF LoopEnds, In
<1> QED BY <1>1, <1>2, <1>3, <1>4

-----------------------------------------------------------------------------
(* The loop invariants hold throughout.                                      *)
THEOREM LoopInvariant == Spec => []SInv
<1>1. Init => SInv
  BY StringsAssumption
     DEF Init, SInv, Shape, UpInv, DownInv, SetInv, CpyInv, LenInv,
         Copied, Filled, StringCopied, Measured, In
<1>2. SInv /\ UNCHANGED vars => SInv'
  BY DEF vars, args, SInv, Shape, UpInv, DownInv, SetInv, CpyInv, LenInv, CopiedRange,
         Copied, Filled, StringCopied, Measured, In
<1>3. SInv /\ [Next]_vars => SInv'
  BY <1>2, CallSInv, CopyUpSInv, CopyDownSInv, SetByteSInv, CopyStringSInv, ScanSInv, OtherSInv
     DEF Next, Step
<1> QED BY <1>1, <1>3, PTL DEF Spec

(* memcpy, memmove, memset and strcpy write what C says they write, for every *)
(* overlap memmove accepts, and touch nothing else.                          *)
THEOREM WritesCorrectly == Spec => []Written
<1>1. SInv => Written
  BY DEF SInv, Written
<1> QED BY LoopInvariant, <1>1, PTL

(* strlen finds the first NUL.                                               *)
THEOREM MeasuresStrings == Spec => []Measured
<1>1. SInv => Measured
  BY DEF SInv
<1> QED BY LoopInvariant, <1>1, PTL
-----------------------------------------------------------------------------
(* What memcmp and strcmp have found out so far: all bytes before i agree,   *)
(* and neither operand has been left.                                        *)
Agreed == \A j \in 0 .. i - 1 : mem[a + j] = mem[b + j]

(* memcmp: below i both sides agree.                                         *)
MemcmpInv == In({"memcmp"}) => i <= n /\ a + n <= N /\ b + n <= N /\ Agreed

(* strcmp: below i both sides agree, and neither NUL has been passed.        *)
StrcmpInv ==
  In({"strcmp"}) =>
    \E e, f \in Addr : /\ EndsAt(mem, a, e) /\ EndsAt(mem, b, f)
                       /\ a + i <= e /\ b + i <= f /\ Agreed

(* memset has reduced its argument to a byte.                                *)
FillInv == In({"memset"}) => b \in Byte

(* The inductive invariant of the functions that compare.                    *)
AInv == TypeOK /\ MemcmpInv /\ StrcmpInv /\ FillInv /\ Compared

(* A call begins with arguments of the right kind.                           *)
LEMMA BeginTyped ==
  ASSUME TypeOK, NEW f \in {"memcpy", "memmove", "memset", "memcmp", "strlen", "strcmp", "strcpy"},
         NEW x \in 0 .. N, NEW y \in Nat, NEW k \in 0 .. N, NEW start \in Nat,
         NEW at \in {"loop", "down", "done"}, Begin(f, x, y, k, start, at)
  PROVE  TypeOK'
BY StringsAssumption DEF TypeOK, Begin

(* A call begins with nothing compared.                                      *)
LEMMA CallAInv == ASSUME SInv, AInv, Call PROVE AInv'
<1>1. /\ N \in Nat /\ TypeOK /\ 0 \in 0 .. N /\ 0 \in Nat /\ 0 .. N \subseteq Nat
      /\ Addr \subseteq 0 .. N /\ Addr \subseteq Nat
  BY StringsAssumption DEF AInv, Addr
<1>2. ASSUME NEW f \in {"memcpy", "memmove"}, NEW x \in 0 .. N, NEW y \in 0 .. N, NEW k \in 0 .. N,
             NEW start \in Nat, NEW at \in {"loop", "down", "done"}, Begin(f, x, y, k, start, at)
      PROVE  AInv'
  <2>1. TypeOK'
    BY <1>1, <1>2, BeginTyped
  <2> QED BY <1>2, <2>1 DEF Begin, AInv, MemcmpInv, StrcmpInv, FillInv, Compared, In
<1>3. ASSUME NEW x \in 0 .. N, NEW y \in 0 .. N, NEW k \in 0 .. N,
             Memcpy(x, y, k) \/ Memmove(x, y, k)
      PROVE  AInv'
  BY <1>1, <1>2, <1>3 DEF Memcpy, Memmove
<1>4. ASSUME NEW x \in 0 .. N, NEW y \in 0 .. N, NEW k \in 0 .. N, Memcmp(x, y, k) PROVE AInv'
  <2>1. Begin("memcmp", x, y, k, 0, "loop") /\ Fits(x, k) /\ Fits(y, k)
    BY <1>4 DEF Memcmp
  <2>2. TypeOK'
    BY <1>1, <2>1, BeginTyped
  <2>3. MemcmpInv'
    BY <1>1, <2>1 DEF Begin, MemcmpInv, Agreed, Fits
  <2> QED BY <2>1, <2>2, <2>3 DEF Begin, AInv, StrcmpInv, FillInv, Compared, In
<1>5. ASSUME NEW x \in 0 .. N, NEW k \in 0 .. N, NEW c \in Fills, Memset(x, c, k) PROVE AInv'
  <2>1. c % 256 \in Byte /\ c % 256 \in Nat
    BY StringsAssumption DEF Byte
  <2>2. Begin("memset", x, c % 256, k, 0, "loop")
    BY <1>5 DEF Memset
  <2>3. TypeOK'
    BY <1>1, <2>1, <2>2, BeginTyped
  <2> QED BY <2>1, <2>2, <2>3 DEF Begin, AInv, MemcmpInv, StrcmpInv, FillInv, Compared, In
<1>6. ASSUME NEW x \in Addr, Strlen(x) PROVE AInv'
  <2>1. Begin("strlen", x, 0, 0, 0, "loop")
    BY <1>6 DEF Strlen
  <2>2. TypeOK'
    BY <1>1, <2>1, BeginTyped
  <2> QED BY <2>1, <2>2 DEF Begin, AInv, MemcmpInv, StrcmpInv, FillInv, Compared, In
<1>7. ASSUME NEW x \in Addr, NEW y \in Addr, Strcmp(x, y) PROVE AInv'
  <2>1. Begin("strcmp", x, y, 0, 0, "loop") /\ IsString(x) /\ IsString(y)
    BY <1>7 DEF Strcmp
  <2>2. TypeOK'
    BY <1>1, <2>1, BeginTyped
  <2>3. PICK e, f \in Addr : EndsAt(mem, x, e) /\ EndsAt(mem, y, f)
    BY <2>1 DEF IsString
  <2>4. x + 0 <= e /\ y + 0 <= f
    BY <1>1, <2>3 DEF EndsAt
  <2>5. a' = x /\ b' = y /\ i' = 0 /\ mem' = mem /\ op' = "strcmp" /\ pc' = "loop"
    BY <2>1 DEF Begin
  <2>6. Agreed'
    BY <2>5 DEF Agreed
  <2>7. EndsAt(mem', a', e) /\ EndsAt(mem', b', f)
    BY <2>3, <2>5
  <2>8. StrcmpInv'
    BY <2>4, <2>5, <2>6, <2>7 DEF StrcmpInv, Addr
  <2> QED BY <2>2, <2>5, <2>8 DEF AInv, MemcmpInv, FillInv, Compared, In
<1>8. ASSUME NEW x \in Addr, NEW y \in Addr, Strcpy(x, y) PROVE AInv'
  <2>1. Begin("strcpy", x, y, 0, 0, "loop")
    BY <1>8 DEF Strcpy
  <2>2. TypeOK'
    BY <1>1, <2>1, BeginTyped
  <2> QED BY <2>1, <2>2 DEF Begin, AInv, MemcmpInv, StrcmpInv, FillInv, Compared, In
<1> QED BY <1>3, <1>4, <1>5, <1>6, <1>7, <1>8 DEF Call

(* A step that writes a byte leaves memory full of bytes.                    *)
LEMMA WriteTyped ==
  ASSUME TypeOK, NEW p \in Int, NEW v \in Byte, mem' = [mem EXCEPT ![p] = v],
         UNCHANGED <<args, old>>, i' \in Nat, pc' \in {"idle", "loop", "down", "done"},
         ret' \in -255 .. N + 255
  PROVE  TypeOK'
<1>1. mem' \in [Addr -> Byte]
  BY DEF TypeOK
<1> QED BY <1>1 DEF TypeOK, args

(* The functions that write compare nothing; the bytes they store are those  *)
(* of a range that lies in memory.                                           *)
LEMMA WriteAInv ==
  ASSUME SInv, AInv, CopyUp \/ CopyDown \/ SetByte \/ CopyString PROVE AInv'
<1>1. /\ N \in Nat /\ TypeOK /\ a \in Int /\ b \in Int /\ n \in Int /\ i \in Nat /\ i \in Int
      /\ mem \in [Addr -> Byte] /\ a <= N /\ 0 <= a /\ 0 <= b
      /\ ret \in -255 .. N + 255 /\ 0 \in -255 .. N + 255
  BY StringsAssumption DEF AInv, TypeOK
<1>2. CASE CopyUp
  <2>1. /\ In({"memcpy", "memmove"}) /\ i < n /\ mem' = [mem EXCEPT ![a + i] = mem[b + i]]
        /\ i' = i + 1 /\ UNCHANGED <<args, pc, ret, old>>
    BY <1>2 DEF CopyUp
  <2>2. b + n <= N
    BY <2>1 DEF SInv, UpInv
  <2>3. b + i \in Addr /\ a + i \in Int
    BY <1>1, <2>1, <2>2 DEF Addr
  <2>4. TypeOK'
    <3>1. mem[b + i] \in Byte /\ i' \in Nat
      BY <1>1, <2>1, <2>3
    <3>2. pc' \in {"idle", "loop", "down", "done"} /\ ret' \in -255 .. N + 255
      BY <1>1, <2>1 DEF In
    <3> QED BY <1>1, <2>1, <2>3, <3>1, <3>2, WriteTyped, Zenon
  <2> QED BY <2>1, <2>4 DEF AInv, MemcmpInv, StrcmpInv, FillInv, Compared, In, args
<1>3. CASE CopyDown
  <2>1. /\ pc = "down" /\ i > 0 /\ mem' = [mem EXCEPT ![a + i - 1] = mem[b + i - 1]]
        /\ i' = i - 1 /\ UNCHANGED <<args, pc, ret, old>>
    BY <1>3 DEF CopyDown
  <2>2. op = "memmove" /\ b < a /\ i <= n /\ a + n <= N
    BY <2>1 DEF SInv, DownInv
  <2>3. b + i - 1 \in Addr /\ a + i - 1 \in Int /\ i - 1 \in Nat
    BY <1>1, <2>1, <2>2 DEF Addr
  <2>4. TypeOK'
    <3>1. mem[b + i - 1] \in Byte /\ i' \in Nat
      BY <1>1, <2>1, <2>3
    <3>2. pc' \in {"idle", "loop", "down", "done"} /\ ret' \in -255 .. N + 255
      BY <1>1, <2>1
    <3> QED BY <1>1, <2>1, <2>3, <3>1, <3>2, WriteTyped, Zenon
  <2> QED BY <2>1, <2>2, <2>4 DEF AInv, MemcmpInv, StrcmpInv, FillInv, Compared, In, args
<1>4. CASE SetByte
  <2>1. /\ In({"memset"}) /\ i < n /\ mem' = [mem EXCEPT ![a + i] = b]
        /\ i' = i + 1 /\ UNCHANGED <<args, pc, ret, old>>
    BY <1>4 DEF SetByte
  <2>2. b \in Byte
    BY <2>1 DEF AInv, FillInv
  <2>3. TypeOK'
    <3>1. a + i \in Int /\ i' \in Nat
      BY <1>1, <2>1
    <3>2. pc' \in {"idle", "loop", "down", "done"} /\ ret' \in -255 .. N + 255
      BY <1>1, <2>1 DEF In
    <3> QED BY <1>1, <2>1, <2>2, <3>1, <3>2, WriteTyped, Zenon
  <2> QED BY <2>1, <2>2, <2>3 DEF AInv, MemcmpInv, StrcmpInv, FillInv, Compared, In, args
<1>5. CASE CopyString
  <2>1. /\ In({"strcpy"}) /\ mem' = [mem EXCEPT ![a + i] = mem[b + i]]
        /\ UNCHANGED <<args, old>>
        /\ \/ mem[b + i] # 0 /\ i' = i + 1 /\ UNCHANGED <<pc, ret>>
           \/ mem[b + i] = 0 /\ Done(0) /\ UNCHANGED i
    BY <1>5 DEF CopyString
  <2>2. PICK e \in Addr : b + i <= e
    BY <2>1 DEF SInv, CpyInv
  <2>3. b + i \in Addr /\ a + i \in Int
    BY <1>1, <2>2 DEF Addr
  <2>4. i' \in Nat /\ ret' \in -255 .. N + 255 /\ pc' \in {"idle", "loop", "down", "done"}
    BY <1>1, <2>1 DEF Done, In
  <2>5. TypeOK'
    BY <1>1, <2>1, <2>3, <2>4, WriteTyped
  <2>6. op' = "strcpy" /\ pc' \in {"loop", "done"}
    BY <2>1 DEF In, Done, args
  <2> QED BY <2>5, <2>6 DEF AInv, MemcmpInv, StrcmpInv, FillInv, Compared, In
<1> QED BY <1>2, <1>3, <1>4, <1>5

(* memcmp that reaches the end has found all bytes equal.                    *)
LEMMA LoopEndsAInv == ASSUME SInv, AInv, LoopEnds PROVE AInv'
<1>1. /\ pc' = "done" /\ ret' = 0 /\ UNCHANGED <<mem, op, a, b, n, i, old>>
      /\ op = "memcmp" => In({"memcmp"}) /\ i = n
      /\ op # "strcmp"
  BY DEF LoopEnds, Done, args, In, SInv, DownInv
<1>2. N \in Nat /\ TypeOK
  BY StringsAssumption DEF AInv
<1>3. TypeOK'
  BY <1>1, <1>2 DEF TypeOK
<1>4. Compared'
  <2>1. CASE op = "memcmp"
    <3>1. \A j \in 0 .. n - 1 : mem[a + j] = mem[b + j]
      BY <1>1, <2>1 DEF AInv, MemcmpInv, Agreed
    <3> QED BY <1>1, <2>1, <3>1 DEF Compared
  <2>2. CASE op # "memcmp"
    BY <1>1, <2>2 DEF Compared
  <2> QED BY <2>1, <2>2
<1> QED BY <1>1, <1>3, <1>4 DEF AInv, MemcmpInv, StrcmpInv, FillInv, In

(* One more pair of bytes agrees.                                            *)
LEMMA AgreeAInv == ASSUME SInv, AInv, Agree PROVE AInv'
<1>1. /\ N \in Nat /\ TypeOK /\ a \in Int /\ b \in Int /\ n \in Int /\ i \in Nat /\ i \in Int
      /\ 0 <= a /\ 0 <= b
  BY StringsAssumption DEF AInv, TypeOK
<1>2. /\ mem[a + i] = mem[b + i] /\ i' = i + 1 /\ UNCHANGED <<mem, op, a, b, n, pc, ret, old>>
  BY DEF Agree, args
<1>3. TypeOK'
  BY <1>1, <1>2 DEF TypeOK
<1>4. ASSUME Agreed PROVE Agreed'
  <2>1. ASSUME NEW j \in 0 .. (i + 1) - 1 PROVE mem[a + j] = mem[b + j]
    <3>1. j = i \/ j \in 0 .. i - 1
      BY <1>1
    <3> QED BY <1>2, <1>4, <3>1 DEF Agreed
  <2> QED BY <1>2, <2>1 DEF Agreed
<1>5. CASE In({"memcmp"}) /\ i < n
  <2>1. i + 1 <= n /\ a + n <= N /\ b + n <= N /\ Agreed
    BY <1>1, <1>5 DEF AInv, MemcmpInv
  <2>2. MemcmpInv'
    BY <1>2, <1>4, <2>1 DEF MemcmpInv
  <2> QED BY <1>2, <1>3, <1>5, <2>2 DEF AInv, StrcmpInv, FillInv, Compared, In
<1>6. CASE In({"strcmp"}) /\ mem[a + i] # 0
  <2>1. PICK e, f \in Addr : /\ EndsAt(mem, a, e) /\ EndsAt(mem, b, f)
                             /\ a + i <= e /\ b + i <= f /\ Agreed
    BY <1>6 DEF AInv, StrcmpInv
  <2>2. e \in Int /\ f \in Int
    BY <1>1 DEF Addr
  <2>3. a + i # e /\ b + i # f
    BY <1>2, <1>6, <2>1 DEF EndsAt
  <2>4. a + (i + 1) <= e /\ b + (i + 1) <= f
    BY <1>1, <2>1, <2>2, <2>3
  <2>5. EndsAt(mem', a', e) /\ EndsAt(mem', b', f)
    BY <1>2, <2>1
  <2>6. Agreed'
    BY <1>4, <2>1
  <2>7. StrcmpInv'
    BY <1>2, <2>4, <2>5, <2>6 DEF StrcmpInv
  <2> QED BY <1>2, <1>3, <1>6, <2>7 DEF AInv, MemcmpInv, FillInv, Compared, In
<1> QED BY <1>5, <1>6 DEF Agree

(* The difference of two bytes has the sign of their order.                  *)
LEMMA DiffSign ==
  ASSUME NEW x \in Byte, NEW y \in Byte
  PROVE  /\ Diff(x, y) \in -255 .. 255 /\ (Diff(x, y) < 0 <=> x < y)
         /\ (Diff(x, y) = 0 <=> x = y)
BY DEF Byte, Diff

(* The comparison stops where the operands differ for the first time, or at  *)
(* the end that two equal strings share.                                     *)
LEMMA DisagreeAInv == ASSUME SInv, AInv, Disagree PROVE AInv'
<1>1. /\ N \in Nat /\ TypeOK /\ a \in Int /\ b \in Int /\ n \in Int /\ i \in Nat /\ i \in Int
      /\ 0 <= a /\ 0 <= b /\ mem \in [Addr -> Byte]
  BY StringsAssumption DEF AInv, TypeOK
<1>2. /\ UNCHANGED <<mem, op, a, b, n, i, old>> /\ pc' = "done"
      /\ ret' = Diff(mem[a + i], mem[b + i])
  BY DEF Disagree, Done, args
<1>3. ASSUME a + i \in Addr, b + i \in Addr
      PROVE  /\ TypeOK' /\ (ret' < 0 <=> mem[a + i] < mem[b + i])
             /\ (ret' = 0 <=> mem[a + i] = mem[b + i])
  <2>1. mem[a + i] \in Byte /\ mem[b + i] \in Byte
    BY <1>1, <1>3
  <2>2. ret' \in -255 .. 255
    BY <1>2, <2>1, DiffSign
  <2>3. ret' \in -255 .. N + 255
    BY <1>1, <2>2
  <2>4. TypeOK'
    BY <1>1, <1>2, <2>3 DEF TypeOK
  <2> QED BY <1>2, <2>1, <2>4, DiffSign
<1>4. CASE In({"memcmp"}) /\ i < n /\ mem[a + i] # mem[b + i]
  <2>1. a + n <= N /\ b + n <= N /\ Agreed
    BY <1>4 DEF AInv, MemcmpInv
  <2>2. a + i \in Addr /\ b + i \in Addr /\ i \in 0 .. n - 1
    BY <1>1, <1>4, <2>1 DEF Addr
  <2>3. TypeOK' /\ (ret' < 0 <=> mem[a + i] < mem[b + i]) /\ ret' # 0
    BY <1>3, <1>4, <2>2
  <2>4. FirstDifference(i)
    BY <1>4, <2>1 DEF FirstDifference, Agreed
  <2>5. \E k \in 0 .. n' - 1 :
          FirstDifference(k)' /\ (ret' < 0 <=> mem'[a' + k] < mem'[b' + k]) /\ ret' # 0
    BY <1>2, <2>2, <2>3, <2>4 DEF FirstDifference
  <2>6. \E k \in 0 .. n' - 1 : mem'[a' + k] # mem'[b' + k]
    BY <1>2, <1>4, <2>2
  <2>7. op' = "memcmp" /\ pc' = "done"
    BY <1>2, <1>4 DEF In
  <2>8. Compared'
    BY <2>5, <2>6, <2>7, Zenon DEF Compared
  <2> QED BY <2>3, <2>7, <2>8 DEF AInv, MemcmpInv, StrcmpInv, FillInv, In
<1>5. CASE In({"strcmp"}) /\ (mem[a + i] # mem[b + i] \/ mem[a + i] = 0)
  <2>1. PICK e, f \in Addr : /\ EndsAt(mem, a, e) /\ EndsAt(mem, b, f)
                             /\ a + i <= e /\ b + i <= f /\ Agreed
    BY <1>5 DEF AInv, StrcmpInv
  <2>2. e \in Int /\ f \in Int /\ e < N /\ f < N
    BY <1>1 DEF Addr
  <2>3. a + i \in Addr /\ b + i \in Addr /\ i \in 0 .. e - a
    BY <1>1, <2>1, <2>2 DEF Addr
  <2>4. TypeOK' /\ (ret' < 0 <=> mem[a + i] < mem[b + i]) /\ (ret' = 0 <=> mem[a + i] = mem[b + i])
    BY <1>3, <2>3
  <2>5. op' = "strcmp" /\ pc' = "done"
    BY <1>2, <1>5 DEF In
  <2>6. CASE mem[a + i] # mem[b + i]
    <3>1. FirstDifference(i) /\ ret' # 0
      BY <2>1, <2>4, <2>6 DEF FirstDifference, Agreed
    <3>2. EndsAt(mem', a', e)
      BY <1>2, <2>1
    <3>3. ~ \A j \in 0 .. e - a' : mem'[a' + j] = mem'[b' + j]
      BY <1>2, <2>3, <2>6
    <3>4. \E k \in 0 .. e - a' :
            FirstDifference(k)' /\ (ret' < 0 <=> mem'[a' + k] < mem'[b' + k]) /\ ret' # 0
      BY <1>2, <2>3, <2>4, <3>1 DEF FirstDifference
    <3>5. Compared'
      BY <2>5, <3>2, <3>3, <3>4, Zenon DEF Compared
    <3> QED BY <2>4, <2>5, <3>5 DEF AInv, MemcmpInv, StrcmpInv, FillInv, In
  <2>7. CASE mem[a + i] = mem[b + i]
    <3>1. mem[a + i] = 0 /\ mem[b + i] = 0
      BY <1>5, <2>7
    <3>2. a + i = e
      <4>1. a + i \in a .. e - 1 => mem[a + i] # 0
        BY <2>1 DEF EndsAt
      <4>2. a + i # e => a + i \in a .. e - 1
        BY <1>1, <2>1, <2>2
      <4> QED BY <3>1, <4>1, <4>2
    <3>3. b + i = f
      <4>1. b + i \in b .. f - 1 => mem[b + i] # 0
        BY <2>1 DEF EndsAt
      <4>2. b + i # f => b + i \in b .. f - 1
        BY <1>1, <2>1, <2>2
      <4> QED BY <3>1, <4>1, <4>2
    <3>4. b + (e - a) = f
      BY <1>1, <2>2, <3>2, <3>3
    <3>5. \A j \in 0 .. e - a : mem[a + j] = mem[b + j]
      <4>1. TAKE j \in 0 .. e - a
      <4>2. j = i \/ j \in 0 .. i - 1
        BY <1>1, <2>2, <3>2
      <4> QED BY <2>1, <2>7, <4>2 DEF Agreed
    <3>6. ret' = 0
      BY <2>4, <2>7
    <3>7. EndsAt(mem', a', e) /\ EndsAt(mem', b', b' + (e - a'))
      BY <1>2, <2>1, <3>4
    <3>8. \A j \in 0 .. e - a' : mem'[a' + j] = mem'[b' + j]
      BY <1>2, <3>5
    <3>9. Compared'
      BY <2>5, <3>6, <3>7, <3>8, Zenon DEF Compared
    <3> QED BY <2>4, <2>5, <3>9 DEF AInv, MemcmpInv, StrcmpInv, FillInv, In
  <2> QED BY <2>6, <2>7
<1> QED BY <1>4, <1>5 DEF Disagree

(* strlen, and the return of any function.                                   *)
LEMMA ScanReturnAInv == ASSUME SInv, AInv, Scan \/ Return PROVE AInv'
<1>1. /\ N \in Nat /\ TypeOK /\ a \in Int /\ i \in Nat /\ i \in Int /\ 0 <= a
      /\ ret \in -255 .. N + 255 /\ pc \in {"idle", "loop", "down", "done"}
  BY StringsAssumption DEF AInv, TypeOK
<1>2. CASE Scan
  <2>1. /\ In({"strlen"}) /\ UNCHANGED <<mem, op, a, b, n, old>>
        /\ \/ i' = i + 1 /\ UNCHANGED <<pc, ret>>
           \/ pc' = "done" /\ ret' = i /\ UNCHANGED i
    BY <1>2 DEF Scan, Done, args
  <2>2. PICK e \in Addr : a + i <= e
    BY <2>1 DEF SInv, LenInv
  <2>3. i \in -255 .. N + 255
    BY <1>1, <2>2 DEF Addr
  <2>4. i' \in Nat /\ ret' \in -255 .. N + 255 /\ pc' \in {"idle", "loop", "down", "done"}
    BY <1>1, <2>1, <2>3
  <2>5. TypeOK'
    BY <1>1, <2>1, <2>4 DEF TypeOK
  <2>6. op' = "strlen" /\ op = "strlen"
    BY <2>1 DEF In
  <2> QED BY <2>5, <2>6 DEF AInv, MemcmpInv, StrcmpInv, FillInv, Compared, In
<1>3. CASE Return
  <2>1. TypeOK'
    BY <1>1, <1>3 DEF TypeOK, Return
  <2> QED BY <1>3, <2>1 DEF Return, AInv, MemcmpInv, StrcmpInv, FillInv, Compared, In
<1> QED BY <1>2, <1>3

(* What the comparisons know holds throughout.                               *)
THEOREM ComparisonInvariant == Spec => []AInv
<1>1. Init => AInv
  <2>1. SUFFICES ASSUME Init PROVE AInv
    OBVIOUS
  <2>2. mem \in [Addr -> Byte] /\ old = mem
    <3>1. Bytes \subseteq Byte /\ mem \in [Addr -> Bytes] /\ old = mem
      BY <2>1, StringsAssumption DEF Init
    <3> QED BY <3>1
  <2>3. TypeOK
    BY <2>1, <2>2, StringsAssumption DEF Init, TypeOK
  <2> QED BY <2>1, <2>3 DEF Init, AInv, MemcmpInv, StrcmpInv, FillInv, Compared, In
<1>2. AInv /\ UNCHANGED vars => AInv'
  <2> SUFFICES ASSUME AInv, UNCHANGED vars PROVE AInv'
    OBVIOUS
  <2>1. UNCHANGED <<mem, op, a, b, n, i, pc, ret, old>>
    BY DEF vars, args
  <2>2. TypeOK' /\ MemcmpInv' /\ FillInv'
    BY <2>1 DEF AInv, TypeOK, MemcmpInv, FillInv, In, Agreed
  <2>3. StrcmpInv'
    BY <2>1, Zenon DEF AInv, StrcmpInv, In, Agreed, EndsAt
  <2>4. Compared'
    BY <2>1, Zenon DEF AInv, Compared, EndsAt, FirstDifference
  <2> QED BY <2>2, <2>3, <2>4 DEF AInv
<1>3. SInv /\ AInv /\ [Next]_vars => AInv'
  BY <1>2, CallAInv, WriteAInv, LoopEndsAInv, AgreeAInv, DisagreeAInv, ScanReturnAInv
     DEF Next, Step
<1> QED BY <1>1, <1>3, LoopInvariant, PTL DEF Spec

(* Memory holds bytes, arguments are in range and results fit an int.        *)
THEOREM StringsTyped == Spec => []TypeOK
<1>1. AInv => TypeOK
  BY DEF AInv
<1> QED BY ComparisonInvariant, <1>1, PTL

(* strlen, memcmp and strcmp give the result C says, with bytes compared as  *)
(* unsigned numbers.                                                         *)
THEOREM AnswersCorrectly == Spec => []Answered
<1>1. SInv /\ AInv => Answered
  BY DEF SInv, AInv, Answered
<1> QED BY LoopInvariant, ComparisonInvariant, <1>1, PTL
=============================================================================
