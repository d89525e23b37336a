----------------------------- MODULE DemoProofs -----------------------------
(* Theorems about examples/posix-demo.c, for any number of descriptors and   *)
(* any of them open when it starts.                                          *)
EXTENDS Demo, TLAPS

-----------------------------------------------------------------------------
(* Where each kind of statement stands in main.                              *)

(* The statements by the number that pc gives them.                          *)
LEMMA MainAt ==
  /\ \A k \in 1 .. 26 : Main[k] = "puts" <=> k \in {1, 4, 5, 10, 18, 23, 24}
  /\ \A k \in 1 .. 26 : Main[k] = "printf" <=> k \in {2, 3, 7, 11, 13, 15, 20, 21}
  /\ \A k \in 1 .. 26 : Main[k] = "open" <=> k = 6
  /\ \A k \in 1 .. 26 : Main[k] = "write" <=> k = 8
  /\ \A k \in 1 .. 26 : Main[k] = "close" <=> k = 9
  /\ \A k \in 1 .. 26 : Main[k] = "getcwd" <=> k = 12
  /\ \A k \in 1 .. 26 : Main[k] = "pipe" <=> k = 14
  /\ \A k \in 1 .. 26 : Main[k] = "close0" <=> k = 16
  /\ \A k \in 1 .. 26 : Main[k] = "close1" <=> k = 17
  /\ \A k \in 1 .. 26 : Main[k] = "fork" <=> k = 19
  /\ \A k \in 1 .. 26 : Main[k] = "waitpid" <=> k = 22
  /\ \A k \in 1 .. 26 : Main[k] = "return" <=> k = 25
BY DEF Main

-----------------------------------------------------------------------------
(* The inductive invariant.                                                  *)

(* What main has opened and not yet closed at statement k, if its variables  *)
(* are f and e: a file, a pipe, its write end, or nothing.                   *)
Opened(k, f, e) ==
  IF k \in 7 .. 9 THEN {f}
  ELSE IF k \in {15, 16} THEN {e[1], e[2]}
  ELSE IF k = 17 THEN {e[2]} ELSE {}

Kind(k) == IF k \in 7 .. 9 THEN "file" ELSE "pipe"

(* A table with the descriptors that were inherited and those of S.          *)
Holds(table, inherited, S, kind) ==
  \A d \in Fds : table[d] = IF d \in inherited THEN "tty"
                            ELSE IF d \in S THEN kind ELSE "none"

(* What main opens was free before, and the ends of a pipe are two.          *)
Fresh(k, f, e, inherited) ==
  /\ Opened(k, f, e) \subseteq Fds /\ Opened(k, f, e) \cap inherited = {}
  /\ k \in {15, 16} => e[1] # e[2]

TableAt(k, table, f, e, inherited) ==
  Holds(table, inherited, Opened(k, f, e), Kind(k)) /\ Fresh(k, f, e, inherited)

TablesInv ==
  /\ pc["parent"] # 26 => TableAt(pc["parent"], fds["parent"], fd, ends, std)
  /\ pc["child"] \in {20, 25} => TableAt(20, fds["child"], fd, ends, std)

(* While there is a child the parent prints nothing that takes two writes.   *)
FamilyInv == pc["child"] \in {0, 26} \/ pc["parent"] \in {21, 22, 26}

HalfInv == \A p \in half : Doing(p, "puts")

(* The file is written by one statement, and no printf goes into it.         *)
FileInv ==
  1 \in std \/ 0 \notin std =>
    /\ file \in {<<>>, <<"hello">>}
    /\ pc["parent"] <= 8 => file = <<>>
    /\ pc["parent"] \in 7 .. 9 => fd # 1

DInv == TypeOK /\ TablesInv /\ FamilyInv /\ HalfInv /\ FileInv

-----------------------------------------------------------------------------
(* Lemmas on the statements.                                                 *)

(* Where a process is when it is doing something.                            *)
LEMMA Positions ==
  ASSUME TypeOK, NEW p \in Procs, pc[p] > 0
  PROVE  /\ pc[p] \in 1 .. 26
         /\ p = "child" => pc[p] \in {20, 25, 26}
         /\ p = "parent" \/ p = "child"
<1>1. pc \in [Procs -> 0 .. 26] /\ pc["child"] \in {0, 20, 25, 26}
  BY DEF TypeOK, ChildCode, Return, Ended
<1>2. pc[p] \in 0 .. 26
  BY <1>1, Zenon
<1>3. pc[p] \in 1 .. 26
  BY <1>2
<1>4. p = "child" => pc[p] \in {20, 25, 26}
  BY <1>1, <1>3
<1>5. p = "parent" \/ p = "child"
  BY DEF Procs
<1> QED BY <1>3, <1>4, <1>5

(* Only a puts is between its two writes.                                    *)
LEMMA NotHalf ==
  ASSUME DInv, NEW p \in Procs, NEW what, what # "puts", Main[pc[p]] = what
  PROVE  p \notin half
<1>1. HalfInv
  BY Zenon DEF DInv
<1> QED BY <1>1, Zenon DEF HalfInv, Doing

(* Where main goes on.                                                       *)
LEMMA AfterFacts ==
  ASSUME NEW k \in 1 .. 25
  PROVE  After(k) = IF k = 10 THEN 12 ELSE IF k \in {20, 23} THEN 25 ELSE k + 1
BY DEF After, OpenFailed, Cwd, ParentCode, ForkFailed, Return

(* Statements between which main opens and closes nothing.                   *)
Bare == (1 .. 6) \cup (10 .. 14) \cup (18 .. 25)

Between(k, j) ==
  (k \in Bare /\ j \in Bare) \/ (k \in 7 .. 9 /\ j \in 7 .. 9) \/ (k \in {15, 16} /\ j \in {15, 16})

(* Between two such statements a table is as right as it was.                *)
LEMMA SameTable ==
  ASSUME NEW k \in 1 .. 25, NEW j \in 1 .. 25, Between(k, j), NEW t, NEW f, NEW e, NEW I,
         TableAt(k, t, f, e, I)
  PROVE  TableAt(j, t, f, e, I)
<1>1. Opened(k, f, e) = Opened(j, f, e)
  BY DEF Between, Bare, Opened
<1>2. Kind(k) = Kind(j) \/ Opened(j, f, e) = {}
  BY DEF Between, Bare, Kind, Opened
<1>3. j \in {15, 16} => k \in {15, 16}
  BY DEF Between, Bare
<1> QED BY <1>1, <1>2, <1>3 DEF TableAt, Holds, Fresh

(* The invariant holds when main begins.                                     *)
LEMMA InitDInv == Init => DInv
<1> SUFFICES ASSUME Init PROVE DInv
  OBVIOUS
<1>1. pc["parent"] = 1 /\ pc["child"] = 0 /\ pc \in [Procs -> 0 .. 26]
  BY DEF Init, Procs
<1>2. \A d \in Fds : fds["parent"][d] = IF d \in std THEN "tty" ELSE "none"
  BY DEF Init, Procs
<1>3. fds \in [Procs -> [Fds -> {"none", "tty", "file", "pipe"}]]
  BY DEF Init
<1>4. std \subseteq Fds /\ fd = -1 /\ ends = <<-1, -1>> /\ file = <<>> /\ half = {}
  BY DEF Init
<1>5. file \in Seq({"text", "hello"})
  BY <1>4
<1>6. TypeOK
  BY <1>1, <1>3, <1>4, <1>5 DEF TypeOK, Ended, Return, ChildCode
<1>7. TablesInv
  BY <1>1, <1>2 DEF TablesInv, TableAt, Holds, Fresh, Opened
<1> QED BY <1>1, <1>4, <1>6, <1>7 DEF DInv, FamilyInv, HalfInv, FileInv

(* A step that moves p to k and leaves the tables, half and the file alone.  *)
LEMMA MoveStep ==
  ASSUME DInv, NEW p \in Procs, pc[p] > 0, pc[p] # 26, NEW k \in 1 .. 26, Goto(p, k),
         UNCHANGED <<fds, fd, ends, std>>,
         k = 26 \/ Between(pc[p], k), p = "child" => k \in {25, 26}
  PROVE  pc' \in [Procs -> 0 .. 26] /\ pc'["parent"] # 0 /\ pc'["child"] \in {0, 20, 25, 26}
         /\ TablesInv'
<1>0. TypeOK /\ TablesInv
  BY DEF DInv
<1>1. /\ \A q \in Procs : pc'[q] = IF q = p THEN k ELSE pc[q]
      /\ pc' \in [Procs -> 0 .. 26]
  BY <1>0 DEF Goto, TypeOK, Ended
<1>2. pc[p] \in 1 .. 25 /\ (p = "parent" \/ p = "child")
  BY <1>0, Positions
<1>3. "parent" \in Procs /\ "child" \in Procs /\ "parent" # "child"
  BY DEF Procs
<1>4. pc'["parent"] # 0 /\ pc'["child"] \in {0, 20, 25, 26}
  BY <1>0, <1>1, <1>2, <1>3 DEF TypeOK, ChildCode, Return, Ended
<1>5. pc'["parent"] # 26 => TableAt(pc'["parent"], fds'["parent"], fd', ends', std')
  <2> HAVE pc'["parent"] # 26
  <2>1. CASE p = "parent"
    BY <2>1, <1>0, <1>1, <1>2, <1>3, SameTable DEF TablesInv
  <2>2. CASE p = "child"
    BY <2>2, <1>0, <1>1, <1>3 DEF TablesInv
  <2> QED BY <1>2, <2>1, <2>2
<1>6. pc'["child"] \in {20, 25} => TableAt(20, fds'["child"], fd', ends', std')
  <2>1. CASE p = "parent"
    BY <2>1, <1>0, <1>1, <1>3 DEF TablesInv
  <2>2. CASE p = "child"
    <3>1. pc["child"] \in {20, 25}
      BY <2>2, <1>0, Positions
    <3> QED BY <3>1, <1>0 DEF TablesInv
  <2> QED BY <1>2, <2>1, <2>2
<1> QED BY <1>1, <1>4, <1>5, <1>6 DEF TablesInv

(* What printf and puts write is no text of the file's, if the program was   *)
(* started with its output open or its input closed.                         *)
LEMMA WriteOut ==
  ASSUME DInv, NEW p \in Procs, pc[p] > 0, pc[p] # 26, Write(p, 1, "text")
  PROVE  /\ file' \in Seq({"text", "hello"})
         /\ 1 \in std \/ 0 \notin std => file' = file
<1>0. TypeOK /\ TablesInv /\ FileInv
  BY DEF DInv
<1>1. file' \in Seq({"text", "hello"})
  <2>1. file \in Seq({"text", "hello"})
    BY <1>0 DEF TypeOK
  <2>2. Append(file, "text") \in Seq({"text", "hello"})
    BY <2>1
  <2> QED BY <2>1, <2>2 DEF Write
<1>2. ASSUME 1 \in std \/ 0 \notin std PROVE fds[p][1] # "file"
  <2>1. 1 \in Fds
    BY DemoAssumption DEF Fds
  <2>2. CASE p = "parent"
    <3>1. TableAt(pc["parent"], fds["parent"], fd, ends, std)
      BY <2>2, <1>0 DEF TablesInv
    <3>2. pc["parent"] \in 7 .. 9 => fd # 1
      BY <1>0, <1>2 DEF FileInv
    <3>3. pc["parent"] \in 7 .. 9 => 1 \notin Opened(pc["parent"], fd, ends)
      BY <3>2 DEF Opened
    <3>4. 1 \in Opened(pc["parent"], fd, ends) => Kind(pc["parent"]) = "pipe"
      BY <3>3 DEF Kind
    <3> QED BY <2>1, <2>2, <3>1, <3>4 DEF TableAt, Holds
  <2>3. CASE p = "child"
    <3>1. pc["child"] \in {20, 25}
      BY <1>0, <2>3, Positions
    <3>2. TableAt(20, fds["child"], fd, ends, std)
      BY <1>0, <3>1 DEF TablesInv
    <3>3. Opened(20, fd, ends) = {}
      BY DEF Opened
    <3> QED BY <2>1, <2>3, <3>2, <3>3 DEF TableAt, Holds
  <2> QED BY <1>0, Positions, <2>2, <2>3
<1> QED BY <1>1, <1>2 DEF Write

(* What comes before an early statement is early.                            *)
LEMMA Later == ASSUME NEW i \in 1 .. 26, NEW k \in 1 .. 26, k > i, k <= 8 PROVE i <= 8
OBVIOUS

(* The other parts of the invariant when p moves on to k.                    *)
LEMMA MoveRest ==
  ASSUME DInv, NEW p \in Procs, pc[p] > 0, pc[p] # 26, NEW k \in 1 .. 26, Goto(p, k),
         k > pc[p], UNCHANGED std,
         half' = half \ {p} \/ (half' = half /\ p \notin half),
         file' \in Seq({"text", "hello"}),
         1 \in std \/ 0 \notin std => file' = file,
         pc'["parent"] \in 7 .. 9 => fd' = fd /\ pc["parent"] \in 7 .. 9,
         p = "parent" /\ pc[p] \in {21, 22} => k \in {22, 26} \/ pc["child"] = 26,
         p = "child" => k \in {25, 26}
  PROVE  FamilyInv' /\ HalfInv' /\ FileInv'
<1>0. TypeOK /\ FamilyInv /\ HalfInv /\ FileInv
  BY DEF DInv
<1>1. \A q \in Procs : pc'[q] = IF q = p THEN k ELSE pc[q]
  BY <1>0 DEF Goto, TypeOK
<1>2. "parent" \in Procs /\ "child" \in Procs /\ "parent" # "child" /\ (p = "parent" \/ p = "child")
  BY DEF Procs
<1>3. pc["child"] \in {0, 20, 25, 26} /\ pc["parent"] \in 1 .. 26 /\ pc["child"] \in 0 .. 26
  BY <1>0, <1>2 DEF TypeOK, ChildCode, Return, Ended
<1>4. FamilyInv'
  <2>1. CASE p = "parent"
    BY <2>1, <1>0, <1>1, <1>2, <1>3 DEF FamilyInv
  <2>2. CASE p = "child"
    BY <2>2, <1>0, <1>1, <1>2, <1>3 DEF FamilyInv
  <2> QED BY <1>2, <2>1, <2>2
<1>5. HalfInv'
  BY <1>0, <1>1 DEF HalfInv, Doing, TypeOK
<1>6. FileInv'
  <2> SUFFICES ASSUME 1 \in std' \/ 0 \notin std'
               PROVE  /\ file' \in {<<>>, <<"hello">>}
                      /\ pc'["parent"] <= 8 => file' = <<>>
                      /\ pc'["parent"] \in 7 .. 9 => fd' # 1
    BY DEF FileInv
  <2>1. file' = file
    OBVIOUS
  <2>2. /\ file \in {<<>>, <<"hello">>}
        /\ pc["parent"] <= 8 => file = <<>>
        /\ pc["parent"] \in 7 .. 9 => fd # 1
    BY <1>0 DEF FileInv
  <2>3. pc'["parent"] <= 8 => pc["parent"] <= 8
    <3>1. CASE p = "parent"
      <4>1. pc'["parent"] = k /\ pc[p] = pc["parent"]
        BY <3>1, <1>1, <1>2, Zenon
      <4>2. k > pc["parent"]
        BY <4>1, Zenon
      <4> QED BY <1>3, <4>1, <4>2, Later, Zenon
    <3>2. CASE p = "child"
      BY <3>2, <1>1, <1>2, Zenon
    <3> QED BY <1>2, <3>1, <3>2, Zenon
  <2> QED BY <2>1, <2>2, <2>3
<1> QED BY <1>4, <1>5, <1>6

-----------------------------------------------------------------------------
(* One lemma for each statement.                                             *)

(* printf writes and moves on.                                               *)
LEMMA PrintfStep == ASSUME DInv, NEW p \in Procs, Printf(p) PROVE DInv'
<1>0. TypeOK /\ TablesInv /\ HalfInv
  BY DEF DInv
<1> DEFINE k == After(pc[p])
<1>1. pc[p] > 0 /\ Main[pc[p]] = "printf" /\ Goto(p, k) /\ Write(p, 1, "text")
      /\ UNCHANGED <<half, fds, fd, ends, std>>
  BY DEF Printf, Doing
<1>2. pc[p] \in {2, 3, 7, 11, 13, 15, 20, 21} /\ (p = "child" => pc[p] = 20)
  BY <1>0, <1>1, Positions, MainAt
<1>3. k = IF pc[p] = 20 THEN 25 ELSE pc[p] + 1
  BY <1>2, AfterFacts
<1>4. k \in 1 .. 26 /\ k > pc[p] /\ Between(pc[p], k) /\ (p = "child" => k \in {25, 26})
  BY <1>2, <1>3 DEF Between, Bare
<1>5. p \notin half
  BY <1>1, NotHalf
<1>6. /\ file' \in Seq({"text", "hello"})
      /\ 1 \in std \/ 0 \notin std => file' = file
  BY <1>1, <1>2, WriteOut
<1>7. pc'["parent"] \in 7 .. 9 => fd' = fd /\ pc["parent"] \in 7 .. 9
  <2>1. fd' = fd
    BY <1>1, Zenon
  <2>2. pc'["parent"] = IF p = "parent" THEN k ELSE pc["parent"]
    BY <1>0, <1>1 DEF Goto, TypeOK, Procs
  <2> QED BY <1>2, <1>3, <2>1, <2>2
<1> HIDE DEF k
<1>8. pc' \in [Procs -> 0 .. 26] /\ pc'["parent"] # 0 /\ pc'["child"] \in {0, 20, 25, 26} /\ TablesInv'
  BY <1>1, <1>2, <1>4, MoveStep
<1>9. FamilyInv' /\ HalfInv' /\ FileInv'
  <2>1. p = "parent" /\ pc[p] \in {21, 22} => k \in {22, 26} \/ pc["child"] = 26
    BY <1>2, <1>3
  <2>2. pc[p] > 0 /\ pc[p] # 26
    BY <1>2
  <2>3. UNCHANGED std /\ (half' = half \ {p} \/ (half' = half /\ p \notin half))
    BY <1>1, <1>5, Zenon
  <2>4. Goto(p, k) /\ k \in 1 .. 26 /\ k > pc[p] /\ (p = "child" => k \in {25, 26})
    BY <1>1, <1>4, Zenon
  <2> QED BY <1>6, <1>7, <2>1, <2>2, <2>3, <2>4, MoveRest, Zenon
<1> QED BY <1>0, <1>1, <1>6, <1>8, <1>9 DEF DInv, TypeOK, ChildCode, Return, Ended

(* puts writes the text and is half done.                                    *)
LEMMA PutsTextStep == ASSUME DInv, NEW p \in Procs, PutsText(p) PROVE DInv'
<1>0. TypeOK /\ TablesInv /\ HalfInv /\ FamilyInv /\ FileInv
  BY DEF DInv
<1>1. pc[p] > 0 /\ Main[pc[p]] = "puts" /\ Write(p, 1, "text") /\ half' = half \cup {p}
      /\ UNCHANGED <<pc, fds, fd, ends, std>>
  BY DEF PutsText, Doing
<1>2. pc[p] # 26
  BY <1>0, <1>1, Positions, MainAt
<1>3. /\ file' \in Seq({"text", "hello"})
      /\ 1 \in std \/ 0 \notin std => file' = file
  BY <1>1, <1>2, WriteOut
<1>4. TypeOK'
  BY <1>0, <1>1, <1>3 DEF TypeOK
<1>5. TablesInv' /\ FamilyInv'
  BY <1>0, <1>1 DEF TablesInv, FamilyInv
<1>6. HalfInv'
  BY <1>0, <1>1 DEF HalfInv, Doing
<1>7. FileInv'
  BY <1>0, <1>1, <1>3 DEF FileInv
<1> QED BY <1>4, <1>5, <1>6, <1>7 DEF DInv

(* puts writes the newline and moves on.                                     *)
LEMMA PutsNewlineStep == ASSUME DInv, NEW p \in Procs, PutsNewline(p) PROVE DInv'
<1>0. TypeOK /\ TablesInv /\ FamilyInv
  BY DEF DInv
<1> DEFINE k == After(pc[p])
<1>1. pc[p] > 0 /\ Main[pc[p]] = "puts" /\ Goto(p, k) /\ Write(p, 1, "text")
      /\ half' = half \ {p} /\ UNCHANGED <<fds, fd, ends, std>>
  BY DEF PutsNewline, Doing
<1>2. pc[p] \in {1, 4, 5, 10, 18, 23, 24} /\ p = "parent"
  BY <1>0, <1>1, Positions, MainAt
<1>3. k = IF pc[p] = 10 THEN 12 ELSE IF pc[p] = 23 THEN 25 ELSE pc[p] + 1
  BY <1>2, AfterFacts
<1>4. k \in 1 .. 26 /\ k > pc[p] /\ Between(pc[p], k)
  BY <1>2, <1>3 DEF Between, Bare
<1>5. /\ file' \in Seq({"text", "hello"})
      /\ 1 \in std \/ 0 \notin std => file' = file
  BY <1>1, <1>2, WriteOut
<1>6. ~(pc'["parent"] \in 7 .. 9)
  BY <1>0, <1>1, <1>2, <1>3 DEF Goto, TypeOK, Procs
<1> HIDE DEF k
<1>7. pc' \in [Procs -> 0 .. 26] /\ pc'["parent"] # 0 /\ pc'["child"] \in {0, 20, 25, 26} /\ TablesInv'
  BY <1>1, <1>2, <1>4, MoveStep
<1>8. FamilyInv' /\ HalfInv' /\ FileInv'
  <2>1. pc[p] > 0 /\ pc[p] # 26
    BY <1>2
  <2>2. (p = "parent" /\ pc[p] \in {21, 22} => k \in {22, 26} \/ pc["child"] = 26)
        /\ (p = "child" => k \in {25, 26})
    BY <1>2
  <2>3. UNCHANGED std /\ (half' = half \ {p} \/ (half' = half /\ p \notin half))
    BY <1>1, Zenon
  <2> QED BY <1>1, <1>4, <1>5, <1>6, <2>1, <2>2, <2>3, MoveRest
<1> QED BY <1>0, <1>1, <1>5, <1>7, <1>8 DEF DInv, TypeOK, ChildCode, Return, Ended

(* open takes a number that is free: not the output's, if that is open, and  *)
(* the input's, if that is closed.                                           *)
LEMMA LowestFacts ==
  ASSUME NEW p \in Procs, NEW I, NEW d \in Lowest(p, -1), Holds(fds[p], I, {}, "pipe")
  PROVE  d \in Fds /\ d \notin I /\ (0 \notin I => d = 0)
<1>1. d \in Fds /\ fds[p][d] = "none" /\ \A e \in 0 .. d - 1 : fds[p][e] # "none" \/ e = -1
  BY DEF Lowest
<1>2. 0 \in Fds /\ (d # 0 => 0 \in 0 .. d - 1)
  BY <1>1, DemoAssumption DEF Fds
<1> QED BY <1>1, <1>2 DEF Holds

(* The table of the parent where main has nothing open.                      *)
LEMMA BareTable ==
  ASSUME NEW k \in Bare, NEW t, NEW f, NEW e, NEW I
  PROVE  TableAt(k, t, f, e, I) <=> Holds(t, I, {}, "pipe")
<1>1. Opened(k, f, e) = {} /\ ~(k \in {15, 16}) /\ Kind(k) = "pipe"
  BY DEF Bare, Opened, Kind
<1> QED BY <1>1 DEF TableAt, Fresh

(* open: a number, or an error.                                              *)
LEMMA OpenStep == ASSUME DInv, NEW p \in Procs, Open(p) PROVE DInv'
<1>0. TypeOK /\ TablesInv /\ HalfInv /\ FamilyInv /\ FileInv
  BY DEF DInv
<1>1. pc[p] > 0 /\ Main[pc[p]] = "open" /\ UNCHANGED <<half, ends, file, std>>
  BY DEF Open, Doing
<1>2. pc[p] = 6 /\ p = "parent" /\ "parent" \in Procs /\ "child" \in Procs
  BY <1>0, <1>1, Positions, MainAt DEF Procs
<1>3. file \in Seq({"text", "hello"}) /\ p \notin half
  <2>1. p \notin half
    BY <1>1, NotHalf
  <2> QED BY <1>0, <2>1, Zenon DEF TypeOK
<1>4. CASE Goto(p, OpenFailed) /\ UNCHANGED <<fds, fd>>
  <2>1. Goto(p, 11) /\ Between(pc[p], 11)
    BY <1>2, <1>4 DEF OpenFailed, Between, Bare
  <2>2. ~(pc'["parent"] \in 7 .. 9)
    BY <1>0, <1>2, <2>1 DEF Goto, TypeOK
  <2>3. pc' \in [Procs -> 0 .. 26] /\ pc'["parent"] # 0 /\ pc'["child"] \in {0, 20, 25, 26} /\ TablesInv'
    BY <1>1, <1>2, <1>4, <2>1, MoveStep
  <2>4. FamilyInv' /\ HalfInv' /\ FileInv'
    BY <1>1, <1>2, <1>3, <2>1, <2>2, MoveRest
  <2> QED BY <1>0, <1>1, <1>4, <2>3, <2>4 DEF DInv, TypeOK, ChildCode, Return, Ended
<1>5. CASE /\ fd' \in Lowest(p, -1) /\ Goto(p, pc[p] + 1)
           /\ fds' = [fds EXCEPT ![p][fd'] = "file"]
  <2>0. PICK g : g = fd'
    OBVIOUS
  <2>1. /\ pc'["parent"] = 7 /\ pc'["child"] = pc["child"] /\ pc' \in [Procs -> 0 .. 26]
        /\ pc["child"] \in {0, 20, 25, 26}
    BY <1>0, <1>2, <1>5 DEF Goto, TypeOK, Ended, ChildCode, Return
  <2>2. Holds(fds[p], std, {}, "pipe")
    <3>1. TableAt(6, fds[p], fd, ends, std)
      BY <1>0, <1>2 DEF TablesInv
    <3>2. 6 \in Bare
      BY DEF Bare
    <3> QED BY <3>1, <3>2, BareTable
  <2>3. g \in Fds /\ g \notin std /\ (0 \notin std => g = 0)
    BY <1>2, <1>5, <2>0, <2>2, LowestFacts
  <2>4. /\ fds' \in [Procs -> [Fds -> {"none", "tty", "file", "pipe"}]]
        /\ fds'["child"] = fds["child"]
        /\ \A d \in Fds : fds'["parent"][d] = IF d = g THEN "file" ELSE fds["parent"][d]
    BY <1>0, <1>2, <1>5, <2>0, <2>3 DEF TypeOK
  <2>5. TypeOK'
    BY <1>0, <1>1, <2>0, <2>1, <2>3, <2>4 DEF TypeOK, Ended, ChildCode, Return
  <2>6. TableAt(7, fds'["parent"], g, ends', std')
    <3>1. Opened(7, g, ends) = {g} /\ Kind(7) = "file"
      BY DEF Opened, Kind
    <3>2. Fresh(7, g, ends, std)
      BY <2>3, <3>1 DEF Fresh
    <3>3. Holds(fds'["parent"], std, {g}, "file")
      BY <1>2, <2>2, <2>3, <2>4 DEF Holds
    <3> QED BY <1>1, <3>1, <3>2, <3>3 DEF TableAt
  <2>7. pc["child"] = 0 \/ pc["child"] = 26
    BY <1>0, <1>2 DEF FamilyInv
  <2>8. TablesInv'
    BY <2>0, <2>1, <2>6, <2>7 DEF TablesInv
  <2>9. FamilyInv' /\ HalfInv'
    <3>1. \A q \in half : q # p /\ q \in Procs
      BY <1>0, <1>3 DEF TypeOK
    <3>2. \A q \in Procs : q # p => pc'[q] = pc[q]
      BY <1>0, <1>5 DEF Goto, TypeOK
    <3> QED BY <1>0, <1>1, <2>1, <2>7, <3>1, <3>2 DEF FamilyInv, HalfInv, Doing
  <2>10. FileInv'
    BY <1>0, <1>1, <1>2, <2>0, <2>1, <2>3 DEF FileInv
  <2> QED BY <2>5, <2>8, <2>9, <2>10 DEF DInv
<1> QED BY <1>4, <1>5 DEF Open

(* A step of the parent to k keeps the parts about half.                     *)
LEMMA ParentMoves ==
  ASSUME DInv, NEW k \in 1 .. 26, Goto("parent", k), half' = half, "parent" \notin half,
         pc["child"] \in {0, 26} \/ k \in {21, 22, 26}
  PROVE  /\ pc'["parent"] = k /\ pc'["child"] = pc["child"] /\ pc' \in [Procs -> 0 .. 26]
         /\ FamilyInv' /\ HalfInv'
<1>0. TypeOK /\ HalfInv
  BY DEF DInv
<1>1. \A q \in Procs : pc'[q] = IF q = "parent" THEN k ELSE pc[q]
  BY <1>0 DEF Goto, TypeOK
<1>2. pc'["parent"] = k /\ pc'["child"] = pc["child"] /\ pc' \in [Procs -> 0 .. 26]
  BY <1>0, <1>1 DEF Goto, TypeOK, Procs, Ended
<1>3. HalfInv'
  BY <1>0, <1>1 DEF HalfInv, Doing, TypeOK
<1> QED BY <1>2, <1>3 DEF FamilyInv

(* write puts the greeting into the file, or the disk is full.               *)
LEMMA WriteFileStep == ASSUME DInv, NEW p \in Procs, WriteFile(p) PROVE DInv'
<1>0. TypeOK /\ TablesInv /\ HalfInv /\ FamilyInv /\ FileInv
  BY DEF DInv
<1>1. pc[p] > 0 /\ Main[pc[p]] = "write" /\ UNCHANGED <<half, fds, fd, ends, std>>
      /\ Goto(p, After(pc[p])) /\ file' \in {file, Append(file, "hello")}
  BY DEF WriteFile, Doing, Write
<1>2. pc[p] = 8 /\ p = "parent" /\ "parent" \in Procs
  <2>1. pc[p] = 8
    BY <1>0, <1>1, Positions, MainAt
  <2> QED BY <1>0, <1>1, <2>1, Positions DEF Procs
<1>3. Goto(p, 9) /\ Between(8, 9)
  BY <1>1, <1>2, AfterFacts DEF Between
<1>4. file' \in Seq({"text", "hello"})
  <2>1. file \in Seq({"text", "hello"})
    BY <1>0 DEF TypeOK
  <2>2. Append(file, "hello") \in Seq({"text", "hello"})
    BY <2>1
  <2> QED BY <1>1, <2>1, <2>2
<1>5. pc' \in [Procs -> 0 .. 26] /\ pc'["parent"] # 0 /\ pc'["child"] \in {0, 20, 25, 26} /\ TablesInv'
  BY <1>1, <1>2, <1>3, MoveStep
<1>6. p \notin half /\ pc["child"] \in {0, 26}
  BY <1>0, <1>2, MainAt DEF HalfInv, Doing, FamilyInv
<1>7. pc'["parent"] = 9 /\ FamilyInv' /\ HalfInv'
  BY <1>1, <1>2, <1>3, <1>6, ParentMoves
<1>8. FileInv'
  <2> SUFFICES ASSUME 1 \in std \/ 0 \notin std
               PROVE  file' \in {<<>>, <<"hello">>} /\ fd' # 1
    BY <1>1, <1>7 DEF FileInv
  <2>1. file = <<>> /\ fd # 1
    BY <1>0, <1>2 DEF FileInv
  <2> QED BY <1>1, <2>1
<1> QED BY <1>0, <1>1, <1>4, <1>5, <1>7, <1>8 DEF DInv, TypeOK, ChildCode, Return, Ended

(* close takes one descriptor out of the table.                              *)
LEMMA Closes ==
  ASSUME NEW t, NEW u, NEW I, NEW S, NEW c \in S, NEW T, NEW kind, NEW other, S \cap I = {}, T = S \ {c},
         Holds(t, I, S, kind), T = {} \/ kind = other,
         \A d \in Fds : u[d] = IF d = c THEN "none" ELSE t[d]
  PROVE  Holds(u, I, T, other)
BY DEF Holds

(* What main has open before and behind each of its three close statements.  *)
LEMMA CloseFacts ==
  ASSUME NEW k \in {9, 16, 17}, NEW f, NEW e, NEW I, Fresh(k, f, e, I)
  PROVE  LET c == IF k = 9 THEN f ELSE IF k = 16 THEN e[1] ELSE e[2] IN
         /\ c \in Opened(k, f, e) /\ c \in Fds
         /\ Opened(k + 1, f, e) = Opened(k, f, e) \ {c}
         /\ Opened(k + 1, f, e) = {} \/ Kind(k) = Kind(k + 1)
         /\ Fresh(k + 1, f, e, I)
<1>1. CASE k = 9
  BY <1>1 DEF Opened, Kind, Fresh
<1>2. CASE k = 16
  BY <1>2 DEF Opened, Kind, Fresh
<1>3. CASE k = 17
  BY <1>3 DEF Opened, Kind, Fresh
<1> QED BY <1>1, <1>2, <1>3

(* close, of the file and of either end of the pipe.                         *)
LEMMA CloseStep == ASSUME DInv, NEW p \in Procs, Close(p) PROVE DInv'
<1>0. TypeOK /\ TablesInv /\ HalfInv /\ FamilyInv /\ FileInv
  BY DEF DInv
<1>1. /\ pc[p] > 0 /\ Main[pc[p]] \in {"close", "close0", "close1"}
      /\ UNCHANGED <<half, fd, ends, file, std>>
      /\ Goto(p, After(pc[p])) /\ fds' = [fds EXCEPT ![p][Closing(p)] = "none"]
  BY DEF Close, Doing
<1>2. pc[p] \in {9, 16, 17} /\ p = "parent" /\ "parent" \in Procs /\ "child" \in Procs
  BY <1>0, <1>1, Positions, MainAt DEF Procs
<1>3. Goto("parent", pc["parent"] + 1)
  BY <1>1, <1>2, AfterFacts
<1>4. "parent" \notin half /\ pc["child"] \in {0, 26}
  BY <1>0, <1>2, MainAt DEF HalfInv, Doing, FamilyInv
<1>5. /\ pc'["parent"] = pc["parent"] + 1 /\ pc'["child"] = pc["child"]
      /\ pc' \in [Procs -> 0 .. 26] /\ FamilyInv' /\ HalfInv'
  BY <1>1, <1>2, <1>3, <1>4, ParentMoves
<1>6. Closing(p) = IF pc[p] = 9 THEN fd ELSE IF pc[p] = 16 THEN ends[1] ELSE ends[2]
  BY <1>2, MainAt DEF Closing, Doing
<1> DEFINE k == pc["parent"]
<1>7. TableAt(k, fds["parent"], fd, ends, std)
  BY <1>0, <1>2 DEF TablesInv
<1>8. PICK c : c = Closing(p)
  OBVIOUS
<1>9. /\ c \in Opened(k, fd, ends) /\ c \in Fds
      /\ Opened(k + 1, fd, ends) = Opened(k, fd, ends) \ {c}
      /\ Opened(k + 1, fd, ends) = {} \/ Kind(k) = Kind(k + 1)
      /\ Fresh(k + 1, fd, ends, std)
  <2>1. Fresh(k, fd, ends, std)
    BY <1>7 DEF TableAt
  <2> QED BY <1>2, <1>6, <1>8, <2>1, CloseFacts
<1>10. /\ fds' \in [Procs -> [Fds -> {"none", "tty", "file", "pipe"}]]
       /\ \A d \in Fds : fds'["parent"][d] = IF d = c THEN "none" ELSE fds["parent"][d]
  BY <1>0, <1>1, <1>2, <1>8, <1>9 DEF TypeOK
<1>11. Holds(fds'["parent"], std, Opened(k + 1, fd, ends), Kind(k + 1))
  <2>1. Holds(fds["parent"], std, Opened(k, fd, ends), Kind(k)) /\ Opened(k, fd, ends) \cap std = {}
    BY <1>7 DEF TableAt, Fresh
  <2> HIDE DEF k
  <2> QED BY <1>9, <1>10, <2>1, Closes
<1>12. TablesInv'
  BY <1>1, <1>4, <1>5, <1>9, <1>11 DEF TablesInv, TableAt
<1>13. FileInv'
  BY <1>0, <1>1, <1>2, <1>5 DEF FileInv
<1>14. TypeOK'
  BY <1>0, <1>1, <1>2, <1>4, <1>5, <1>10 DEF TypeOK, ChildCode, Return, Ended
<1> QED BY <1>5, <1>12, <1>13, <1>14 DEF DInv

(* A step of the parent that writes nothing and opens or closes nothing.     *)
LEMMA QuietStep ==
  ASSUME DInv, NEW k \in 1 .. 25, Goto("parent", k), pc["parent"] \in 1 .. 25, k > pc["parent"],
         Between(pc["parent"], k), ~(k \in 7 .. 9), Main[pc["parent"]] # "puts",
         UNCHANGED <<half, fds, fd, ends, file, std>>,
         pc["child"] \in {0, 26} \/ k = 22
  PROVE  DInv'
<1>0. TypeOK /\ HalfInv /\ FileInv /\ "parent" \in Procs
  BY DEF DInv, Procs
<1>1. "parent" \notin half
  BY <1>0 DEF HalfInv, Doing
<1>2. pc' \in [Procs -> 0 .. 26] /\ pc'["parent"] # 0 /\ pc'["child"] \in {0, 20, 25, 26} /\ TablesInv'
  BY <1>0, MoveStep
<1>3. pc'["parent"] = k /\ FamilyInv' /\ HalfInv'
  BY <1>1, ParentMoves
<1>4. FileInv'
  BY <1>0, <1>3 DEF FileInv
<1> QED BY <1>0, <1>2, <1>3, <1>4 DEF DInv, TypeOK, ChildCode, Return, Ended

(* getcwd: the name, or an error, which skips a line.                        *)
LEMMA GetcwdStep == ASSUME DInv, NEW p \in Procs, Getcwd(p) PROVE DInv'
<1>0. TypeOK /\ FamilyInv
  BY DEF DInv
<1>1. pc[p] > 0 /\ Main[pc[p]] = "getcwd" /\ UNCHANGED <<half, fds, fd, ends, file, std>>
  BY DEF Getcwd, Doing
<1>2. pc[p] = 12 /\ p = "parent"
  BY <1>0, <1>1, Positions, MainAt
<1>3. PICK k \in {13, 14} : Goto("parent", k)
  BY <1>2 DEF Getcwd, Pipe
<1>4. Between(12, k) /\ pc["child"] \in {0, 26}
  BY <1>0, <1>2, <1>3 DEF Between, Bare, FamilyInv
<1> QED BY <1>1, <1>2, <1>3, <1>4, QuietStep

(* pipe: two numbers, or an error.                                           *)
LEMMA MakePipeStep == ASSUME DInv, NEW p \in Procs, MakePipe(p) PROVE DInv'
<1>0. TypeOK /\ TablesInv /\ HalfInv /\ FamilyInv /\ FileInv
  BY DEF DInv
<1>1. pc[p] > 0 /\ Main[pc[p]] = "pipe" /\ UNCHANGED <<half, fd, file, std>>
  BY DEF MakePipe, Doing
<1>2. pc[p] = 14 /\ p = "parent" /\ "parent" \in Procs /\ "child" \in Procs
  BY <1>0, <1>1, Positions, MainAt DEF Procs
<1>3. "parent" \notin half /\ pc["child"] \in {0, 26}
  BY <1>0, <1>2, MainAt DEF HalfInv, Doing, FamilyInv
<1>4. CASE Goto(p, ForkTest) /\ UNCHANGED <<fds, ends>>
  <2>1. Goto("parent", 18) /\ Between(14, 18)
    BY <1>2, <1>4 DEF ForkTest, Between, Bare
  <2> QED BY <1>1, <1>2, <1>3, <1>4, <2>1, QuietStep
<1>5. ASSUME NEW r \in Lowest(p, -1), NEW w \in Lowest(p, r) \ {r},
             ends' = <<r, w>>, Goto(p, pc[p] + 1),
             fds' = [fds EXCEPT ![p][r] = "pipe", ![p][w] = "pipe"]
      PROVE  DInv'
  <2>1. Goto("parent", 15)
    BY <1>2, <1>5
  <2>2. /\ pc'["parent"] = 15 /\ pc'["child"] = pc["child"]
        /\ pc' \in [Procs -> 0 .. 26] /\ FamilyInv' /\ HalfInv'
    BY <1>1, <1>3, <2>1, ParentMoves
  <2>3. Holds(fds["parent"], std, {}, "pipe")
    <3>1. TableAt(14, fds["parent"], fd, ends, std) /\ 14 \in Bare
      BY <1>0, <1>2 DEF TablesInv, Bare
    <3> QED BY <3>1, BareTable
  <2>4. r \in Fds /\ w \in Fds /\ r # w /\ r \notin std /\ w \notin std
    BY <1>2, <2>3 DEF Lowest, Holds
  <2>5. /\ fds' \in [Procs -> [Fds -> {"none", "tty", "file", "pipe"}]]
        /\ \A d \in Fds : fds'["parent"][d] = IF d \in {r, w} THEN "pipe" ELSE fds["parent"][d]
    BY <1>0, <1>2, <1>5, <2>4 DEF TypeOK
  <2>6. ends' \in (Fds \cup {-1}) \X (Fds \cup {-1}) /\ ends'[1] = r /\ ends'[2] = w
    BY <1>5, <2>4
  <2>7. TypeOK'
    BY <1>0, <1>1, <2>2, <2>5, <2>6 DEF TypeOK, ChildCode, Return, Ended
  <2>8. Opened(15, fd', ends') = {r, w} /\ Kind(15) = "pipe"
    BY <2>6 DEF Opened, Kind
  <2>9. Holds(fds'["parent"], std, {r, w}, "pipe")
    BY <2>3, <2>4, <2>5 DEF Holds
  <2>10. Fresh(15, fd', ends', std)
    BY <2>4, <2>6, <2>8 DEF Fresh
  <2>11. TablesInv'
    BY <1>1, <1>3, <2>2, <2>8, <2>9, <2>10 DEF TablesInv, TableAt
  <2>12. FileInv'
    BY <1>0, <1>1, <1>2, <2>2 DEF FileInv
  <2> QED BY <2>2, <2>7, <2>11, <2>12 DEF DInv
<1> QED BY <1>4, <1>5 DEF MakePipe

(* fork: the child gets a copy of the table, or there is none.               *)
LEMMA ForkStep == ASSUME DInv, NEW p \in Procs, Fork(p) PROVE DInv'
<1>0. TypeOK /\ TablesInv /\ HalfInv /\ FamilyInv /\ FileInv
  BY DEF DInv
<1>1. pc[p] > 0 /\ Main[pc[p]] = "fork" /\ UNCHANGED <<half, fd, ends, file, std>>
  BY DEF Fork, Doing
<1>2. pc[p] = 19 /\ p = "parent" /\ "parent" \in Procs /\ "child" \in Procs
  BY <1>0, <1>1, Positions, MainAt DEF Procs
<1>3. \A q \in half : q = "child"
  <2>1. "parent" \notin half
    BY <1>1, <1>2, NotHalf
  <2>2. half \subseteq {"parent", "child"}
    BY <1>0, Zenon DEF TypeOK, Procs
  <2> QED BY <2>1, <2>2, Zenon
<1>4. pc["child"] \in {0, 26} /\ half = {}
  BY <1>0, <1>2, <1>3, MainAt DEF HalfInv, Doing, FamilyInv
<1>5. CASE Goto(p, ForkFailed) /\ UNCHANGED fds
  <2>1. Goto("parent", 24) /\ Between(19, 24)
    BY <1>2, <1>5 DEF ForkFailed, Between, Bare
  <2>2. Main[19] # "puts"
    BY MainAt
  <2> QED BY <1>1, <1>2, <1>4, <1>5, <2>1, <2>2, QuietStep
<1>6. CASE /\ pc' = [pc EXCEPT ![p] = ParentCode, !["child"] = ChildCode]
           /\ fds' = [fds EXCEPT !["child"] = fds[p]]
  <2>1. pc' \in [Procs -> 0 .. 26] /\ pc'["parent"] = 21 /\ pc'["child"] = 20
    BY <1>0, <1>2, <1>6 DEF TypeOK, ParentCode, ChildCode, Ended, Procs
  <2>2. /\ fds' \in [Procs -> [Fds -> {"none", "tty", "file", "pipe"}]]
        /\ fds'["child"] = fds["parent"] /\ fds'["parent"] = fds["parent"]
    BY <1>0, <1>2, <1>6 DEF TypeOK, Procs
  <2>3. TableAt(19, fds["parent"], fd, ends, std) /\ Between(19, 21) /\ Between(19, 20)
    BY <1>0, <1>2 DEF TablesInv, Between, Bare
  <2>4. TableAt(21, fds["parent"], fd, ends, std) /\ TableAt(20, fds["parent"], fd, ends, std)
    BY <2>3, SameTable
  <2>5. TypeOK'
    BY <1>0, <1>1, <2>1, <2>2 DEF TypeOK, ChildCode, Return, Ended
  <2>6. TablesInv'
    BY <1>1, <2>1, <2>2, <2>4 DEF TablesInv
  <2>7. FamilyInv' /\ HalfInv' /\ FileInv'
    BY <1>0, <1>1, <1>4, <2>1 DEF FamilyInv, HalfInv, FileInv
  <2> QED BY <2>5, <2>6, <2>7 DEF DInv
<1> QED BY <1>5, <1>6 DEF Fork

(* waitpid: the child has ended.                                             *)
LEMMA WaitpidStep == ASSUME DInv, NEW p \in Procs, Waitpid(p) PROVE DInv'
<1>0. TypeOK /\ FamilyInv
  BY DEF DInv
<1>1. pc[p] > 0 /\ Main[pc[p]] = "waitpid" /\ UNCHANGED <<half, fds, fd, ends, file, std>>
      /\ pc["child"] = 26 /\ Goto(p, After(pc[p]))
  BY DEF Waitpid, Doing, Ended
<1>2. pc[p] = 22 /\ p = "parent"
  BY <1>0, <1>1, Positions, MainAt
<1>3. Goto("parent", 23) /\ Between(22, 23)
  BY <1>1, <1>2, AfterFacts DEF Between, Bare
<1>4. Main[22] # "puts"
  BY MainAt
<1> QED BY <1>1, <1>2, <1>3, <1>4, QuietStep

(* A process ends, at its end or at any moment.                              *)
LEMMA EndStep == ASSUME DInv, NEW p \in Procs, End(p) PROVE DInv'
<1>0. TypeOK
  BY DEF DInv
<1>1. pc[p] > 0 /\ pc[p] # 26 /\ Goto(p, 26) /\ half' = half \ {p} /\ UNCHANGED <<fds, fd, ends, file, std>>
  <2>1. pc[p] \in 0 .. 26
    BY <1>0 DEF Ended, TypeOK
  <2>2. pc[p] \notin {0, 26} /\ Goto(p, 26) /\ half' = half \ {p} /\ UNCHANGED <<fds, fd, ends, file, std>>
    BY Zenon DEF End, Ended
  <2> QED BY <2>1, <2>2
<1>2. pc[p] \in 1 .. 25 /\ (p = "parent" \/ p = "child") /\ "parent" \in Procs
  BY <1>0, <1>1, Positions DEF Procs
<1>3. pc' \in [Procs -> 0 .. 26] /\ pc'["parent"] # 0 /\ pc'["child"] \in {0, 20, 25, 26} /\ TablesInv'
  BY <1>1, MoveStep
<1>4. file' \in Seq({"text", "hello"})
  BY <1>0, <1>1 DEF TypeOK
<1>5. pc'["parent"] \in 7 .. 9 => fd' = fd /\ pc["parent"] \in 7 .. 9
  BY <1>0, <1>1, <1>2 DEF Goto, TypeOK
<1>6. FamilyInv' /\ HalfInv' /\ FileInv'
  <2>1. 26 \in 1 .. 26 /\ 26 > pc[p]
    BY <1>2
  <2>2. (p = "parent" /\ pc[p] \in {21, 22} => 26 \in {22, 26} \/ pc["child"] = 26)
        /\ (p = "child" => 26 \in {25, 26})
    OBVIOUS
  <2>3. UNCHANGED std /\ (half' = half \ {p} \/ (half' = half /\ p \notin half))
    BY <1>1, Zenon
  <2>4. 1 \in std \/ 0 \notin std => file' = file
    BY <1>1, Zenon
  <2> QED BY <1>1, <1>4, <1>5, <2>1, <2>2, <2>3, <2>4, MoveRest
<1> QED BY <1>0, <1>1, <1>3, <1>6 DEF DInv, TypeOK, ChildCode, Return, Ended

-----------------------------------------------------------------------------
(* The theorems.                                                             *)

(* Every step keeps the invariant.                                           *)
LEMMA NextDInv == DInv /\ [Next]_vars => DInv'
<1> SUFFICES ASSUME DInv, [Next]_vars PROVE DInv'
  OBVIOUS
<1>1. CASE UNCHANGED vars
  BY <1>1 DEF vars, DInv, TypeOK, TablesInv, FamilyInv, HalfInv, FileInv, Doing
<1>2. CASE Next
  <2> PICK p \in Procs :
        \/ Printf(p) \/ PutsText(p) \/ PutsNewline(p) \/ Open(p) \/ WriteFile(p) \/ Close(p)
        \/ Getcwd(p) \/ MakePipe(p) \/ Fork(p) \/ Waitpid(p) \/ End(p)
    BY <1>2 DEF Next
  <2> QED BY PrintfStep, PutsTextStep, PutsNewlineStep, OpenStep, WriteFileStep, CloseStep,
             GetcwdStep, MakePipeStep, ForkStep, WaitpidStep, EndStep
<1> QED BY <1>1, <1>2

(* The invariant, and types with it.                                         *)
LEMMA DemoInvariant == Spec => []DInv
<1> QED BY InitDInv, NextDInv, PTL DEF Spec

(* Positions and descriptors stay in range, whatever fails.                  *)
THEOREM DemoTyped == Spec => []TypeOK
<1>1. DInv => TypeOK
  BY DEF DInv
<1> QED BY <1>1, DemoInvariant, PTL

(* The file holds the greeting, once, or nothing, unless the program was     *)
(* started with its output closed and its input open.                        *)
THEOREM FileHoldsGreeting == Spec => []HelloOnly
<1>1. DInv => HelloOnly
  BY DEF DInv, FileInv, HelloOnly
<1> QED BY <1>1, DemoInvariant, PTL

(* main returns with the descriptors it was started with, in both processes. *)
THEOREM ReturnsClosed == Spec => []ClosedAtEnd
<1>1. ASSUME DInv, NEW p \in Procs, Doing(p, "return"), NEW d \in Fds
      PROVE  fds[p][d] = IF d \in std THEN "tty" ELSE "none"
  <2>1. TypeOK /\ TablesInv
    BY <1>1 DEF DInv
  <2>2. pc[p] = 25 /\ (p = "parent" \/ p = "child")
    BY <1>1, <2>1, Positions, MainAt DEF Doing
  <2>3. TableAt(25, fds[p], fd, ends, std) \/ TableAt(20, fds[p], fd, ends, std)
    BY <2>1, <2>2 DEF TablesInv
  <2>4. 20 \in Bare /\ 25 \in Bare
    BY DEF Bare
  <2>5. Holds(fds[p], std, {}, "pipe")
    BY <2>3, <2>4, BareTable
  <2> QED BY <1>1, <2>5 DEF Holds
<1>2. DInv => ClosedAtEnd
  BY <1>1 DEF ClosedAtEnd
<1> QED BY <1>2, DemoInvariant, PTL

(* No line of one process is printed into a line of the other.               *)
THEOREM LinesStayWhole == Spec => LinesWhole
<1>1. ASSUME DInv, [Next]_vars
      PROVE  \A p, q \in Procs : p # q /\ p \in half => ~Prints(q)
  <2> SUFFICES ASSUME NEW p \in Procs, NEW q \in Procs, p # q, p \in half PROVE ~Prints(q)
    OBVIOUS
  <2>0. TypeOK /\ HalfInv /\ FamilyInv
    BY <1>1 DEF DInv
  <2>1. DInv'
    BY <1>1, NextDInv
  <2>2. Doing(p, "puts")
    BY <2>0 DEF HalfInv
  <2>3. pc[p] \in {1, 4, 5, 10, 18, 23, 24} /\ p = "parent" /\ q = "child"
    BY <2>0, <2>2, Positions, MainAt DEF Doing, Procs
  <2>4. pc["child"] \in {0, 26}
    BY <2>0, <2>3 DEF FamilyInv
  <2>5. ~Doing("child", "printf")
    BY <2>4, MainAt DEF Doing
  <2>6. "child" \notin half
    BY <2>0, <2>4, MainAt DEF HalfInv, Doing
  <2>7. pc'["child"] \in {0, 20, 25, 26} /\ HalfInv'
    BY <2>1 DEF DInv, TypeOK, ChildCode, Return, Ended
  <2>8. "child" \notin half'
    BY <2>7, MainAt DEF HalfInv, Doing
  <2> QED BY <2>3, <2>5, <2>6, <2>8 DEF Prints
<1> QED BY <1>1, DemoInvariant, PTL DEF Spec, LinesWhole
=============================================================================
