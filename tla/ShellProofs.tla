---------------------------- MODULE ShellProofs -----------------------------
(* Theorems about the processes of toysh: any number of processes, any       *)
(* search path, any directories.                                             *)
EXTENDS Shell, SequenceTheorems, TLAPS

(* The set of processes of Shell!TypeOK.                                     *)
Process ==
  [at : {"free", "prompt", "run", "exec", "wait", "program", "zombie"},
   cmd : Commands \cup {Nothing}, i : 0 .. 1 + Len(path_dirs), cwd : Dirs \cup {NoDir},
   parent : Procs, pid : Procs, status : {0, 127, 128}, ran : Dirs \cup {NoDir}]

(* Candidates as a function of a process alone.                              *)
Cands(x) == IF x.cmd.dir # NoDir THEN <<x.cmd.dir>> ELSE <<x.cwd>> \o path_dirs

(* None of the first k candidates has the command, where b has it.           *)
NoneOf(x, k, b) == \A j \in 1 .. k : Cands(x)[j] \notin b

(* The search has got past k candidates and has found nothing.               *)
Searched(x, k, b) == k <= Len(Cands(x)) /\ NoneOf(x, k, b)

(* What is true of every process by itself.                                  *)
Alone(x, b) ==
  /\ x \in Process
  /\ x.at # "free" => x.cwd \in Dirs
  /\ x.at \in {"prompt", "run", "wait"} => x.i = 0
  /\ x.at \in {"run", "exec", "program"} => x.cmd \in Commands
  /\ x.at = "exec" => Searched(x, x.i, b)
  /\ x.at = "program" => /\ x.i < Len(Cands(x)) /\ NoneOf(x, x.i, b)
                         /\ x.ran = Cands(x)[x.i + 1] /\ x.ran \in b
  /\ x.at = "zombie" /\ x.status = 127 => x.i = Len(Cands(x)) /\ Searched(x, x.i, b)

(* Only the first shell reads commands; the others are its children.         *)
Roles ==
  /\ proc[sh].at \in {"prompt", "run", "wait", "zombie"}
  /\ \A p \in Procs : proc[p].parent = sh
  /\ \A p \in Procs \ {sh} :
       /\ proc[p].at \in {"free", "exec", "program", "zombie"}
       /\ proc[p].at # "free" => proc[p].cwd = proc[sh].cwd

(* There is a child only while the shell waits, and it is the one the shell  *)
(* waits for, or when the shell is gone.                                     *)
OneChild ==
  /\ proc[sh].at \in {"prompt", "run"} => \A p \in Procs \ {sh} : proc[p].at = "free"
  /\ proc[sh].at = "wait" =>
       /\ proc[sh].pid # sh /\ proc[proc[sh].pid].at # "free"
       /\ \A p \in Procs \ {sh, proc[sh].pid} : proc[p].at = "free"

(* The inductive invariant.                                                  *)
SInv ==
  /\ proc = [p \in Procs |-> proc[p]] /\ bin \subseteq Dirs
  /\ \A p \in Procs : Alone(proc[p], bin)
  /\ Roles /\ OneChild
-----------------------------------------------------------------------------
(* The candidates are one directory, or the current one and the search path. *)
LEMMA CandFacts ==
  ASSUME NEW x, x.cwd \in Dirs \cup {NoDir}, x.cmd.dir \in Dirs \cup {NoDir}
  PROVE  /\ Len(path_dirs) \in Nat
         /\ Len(Cands(x)) = IF x.cmd.dir # NoDir THEN 1 ELSE 1 + Len(path_dirs)
         /\ Cands(x)[1] = IF x.cmd.dir # NoDir THEN x.cmd.dir ELSE x.cwd
         /\ x.cmd.dir = NoDir => \A k \in 1 .. Len(path_dirs) : Cands(x)[k + 1] = path_dirs[k]
<1>1. path_dirs \in Seq(Dirs \cup {NoDir}) /\ Len(path_dirs) \in Nat
  BY ShellAssumption
<1>2. CASE x.cmd.dir # NoDir
  BY <1>1, <1>2 DEF Cands
<1>3. CASE x.cmd.dir = NoDir
  <2>1. Cands(x) = <<x.cwd>> \o path_dirs /\ <<x.cwd>> \in Seq(Dirs \cup {NoDir})
        /\ Len(<<x.cwd>>) = 1 /\ <<x.cwd>>[1] = x.cwd
    BY <1>3 DEF Cands
  <2>2. /\ Len(Cands(x)) = 1 + Len(path_dirs)
        /\ \A k \in 1 .. 1 + Len(path_dirs) :
             Cands(x)[k] = IF k <= 1 THEN <<x.cwd>>[k] ELSE path_dirs[k - 1]
    BY <1>1, <2>1, ConcatProperties
  <2> QED BY <1>1, <1>3, <2>1, <2>2
<1> QED BY <1>2, <1>3

(* The commands and their directories.                                       *)
LEMMA CommandFacts ==
  ASSUME NEW x \in Process
  PROVE  x.cmd.dir \in Dirs \cup {NoDir} /\ x.cwd \in Dirs \cup {NoDir} /\ x.i \in Nat
<1>1. x.cmd \in Commands \cup {Nothing} /\ x.cwd \in Dirs \cup {NoDir}
      /\ x.i \in 0 .. 1 + Len(path_dirs)
  BY DEF Process
<1>2. \A c \in Commands : c.dir \in Dirs \cup {NoDir}
  BY DEF Commands
<1>3. Nothing.dir = NoDir
  BY DEF Nothing
<1>4. Len(path_dirs) \in Nat
  BY ShellAssumption
<1>5. x.i \in Nat
  BY <1>1, <1>4
<1> QED BY <1>1, <1>2, <1>3, <1>5

(* The shell that has read a line.                                           *)
LEMMA RunFacts ==
  ASSUME NEW x \in Process, NEW c \in Commands, NEW r, r = [x EXCEPT !.at = "run", !.cmd = c]
  PROVE  r \in Process
BY DEF Process

(* A process that has not begun to search.                                   *)
LEMMA QuietAlone ==
  ASSUME NEW b, NEW x \in Process, x.at \in {"prompt", "run", "wait"}, x.cwd \in Dirs,
         x.i = 0, x.at = "run" => x.cmd \in Commands
  PROVE  Alone(x, b)
  BY DEF Alone

(* Only what a process does next, its child and its parent change.           *)
LEMMA SameSearch ==
  ASSUME NEW x, NEW y, y.cmd = x.cmd, y.cwd = x.cwd
  PROVE  Cands(y) = Cands(x)
  BY DEF Cands

(* A process that has ended claims nothing of the others.                    *)
LEMMA ZombieAlone ==
  ASSUME NEW b, NEW x, Alone(x, b), x.at # "free", NEW code \in {0, 127, 128},
         code = 127 => x.at = "exec" /\ x.i = Len(Cands(x))
  PROVE  Alone([x EXCEPT !.at = "zombie", !.status = code], b)
<1> DEFINE y == [x EXCEPT !.at = "zombie", !.status = code]
<1>1. /\ y \in Process /\ y.at = "zombie" /\ y.status = code
      /\ y.cmd = x.cmd /\ y.cwd = x.cwd /\ y.i = x.i
  BY ZenonT(60) DEF Alone, Process
<1>2. Cands(y) = Cands(x)
  BY <1>1, SameSearch, ZenonT(60)
<1>3. y.cwd \in Dirs
  BY <1>1 DEF Alone
<1>4. ASSUME y.status = 127 PROVE y.i = Len(Cands(y)) /\ Searched(y, y.i, b)
  BY <1>1, <1>2, <1>4 DEF Alone, Searched, NoneOf
<1> HIDE DEF y
<1>5. Alone(y, b)
  BY <1>1, <1>3, <1>4 DEF Alone
<1> QED BY <1>5 DEF y

(* Nor does a free entry.                                                    *)
LEMMA FreeAlone == ASSUME NEW b PROVE Alone(Free, b) /\ Free.at = "free" /\ Free.parent = sh
<1>1. 0 \in 0 .. 1 + Len(path_dirs) /\ sh \in Procs
  BY ShellAssumption
<1>2. Shell(NoDir, sh) \in Process /\ Shell(NoDir, sh).parent = sh
  BY <1>1 DEF Shell, Process
<1>3. Free \in Process
  BY <1>2 DEF Free, Process
<1>4. Free.at = "free" /\ Free.parent = sh
  BY <1>2 DEF Free, Process
<1> QED BY <1>3, <1>4 DEF Alone
-----------------------------------------------------------------------------
(* The shell goes on by itself: it has no child.                             *)
LEMMA ShellMoves ==
  ASSUME SInv, NEW r, Becomes(sh, r), bin' = bin, Alone(r, bin), r.parent = sh,
         r.at \in {"prompt", "run"}, proc[sh].at \in {"prompt", "run"}
  PROVE  SInv'
<1>1. proc' = [p \in Procs |-> IF p = sh THEN r ELSE proc[p]] /\ sh \in Procs
  BY ShellAssumption DEF SInv, Becomes
<1>2. proc'[sh] = r /\ \A p \in Procs \ {sh} : proc'[p] = proc[p] /\ proc[p].at = "free"
  BY <1>1 DEF SInv, OneChild
<1>3. \A p \in Procs : Alone(proc'[p], bin')
  BY <1>2 DEF SInv
<1>4. Roles'
  BY <1>2 DEF SInv, Roles
<1>5. OneChild'
  BY <1>2 DEF OneChild
<1>6. proc' = [p \in Procs |-> proc'[p]]
  BY <1>1
<1> QED BY <1>3, <1>4, <1>5, <1>6 DEF SInv

(* A child goes on.                                                          *)
LEMMA ChildMoves ==
  ASSUME SInv, NEW p \in Procs \ {sh}, NEW r, Becomes(p, r), bin' = bin, Alone(r, bin),
         r.parent = sh, r.cwd = proc[p].cwd, r.at \in {"exec", "program"}, At(p, "exec")
  PROVE  SInv'
<1>1. proc' = [q \in Procs |-> IF q = p THEN r ELSE proc[q]] /\ sh \in Procs
  BY ShellAssumption DEF SInv, Becomes
<1>2. proc'[sh] = proc[sh] /\ proc'[p] = r /\ \A q \in Procs \ {p} : proc'[q] = proc[q]
  BY <1>1
<1>3. \A q \in Procs : Alone(proc'[q], bin')
  BY <1>2 DEF SInv
<1>4. Roles'
  BY <1>2 DEF SInv, Roles, At
<1>5. OneChild'
  BY <1>2 DEF SInv, Roles, OneChild, At
<1>6. proc' = [q \in Procs |-> proc'[q]]
  BY <1>1
<1> QED BY <1>3, <1>4, <1>5, <1>6 DEF SInv

(* A process ends.                                                           *)
LEMMA EndsKept ==
  ASSUME SInv, NEW p \in Procs, NEW code \in {0, 127, 128}, Ends(p, code), bin' = bin,
         proc[p].at \notin {"free", "zombie"},
         code = 127 => proc[p].at = "exec" /\ proc[p].i = Len(Cands(proc[p]))
  PROVE  SInv'
<1> DEFINE z == [proc[p] EXCEPT !.at = "zombie", !.status = code]
<1>1. Alone(z, bin)
  <2>1. Alone(proc[p], bin) /\ proc[p].at # "free"
    BY Zenon DEF SInv
  <2> HIDE DEF z
  <2>2. Alone([proc[p] EXCEPT !.at = "zombie", !.status = code], bin)
    BY <2>1, ZombieAlone, ZenonT(60)
  <2> QED BY <2>2, Zenon DEF z
<1>2. z.at = "zombie" /\ z.parent = sh /\ z.cwd = proc[p].cwd
  BY DEF SInv, Roles, Alone, Process
<1> HIDE DEF z
<1>3. proc' = [q \in Procs |->
        IF q = p /\ (p = sh \/ ~At(proc[p].parent, "zombie")) THEN z
        ELSE IF q = p \/ (q # sh /\ At(q, "zombie") /\ proc[q].parent = p) THEN Free
        ELSE proc[q]]
  BY DEF Ends, z
<1>4. \A q \in Procs : \/ q = p /\ proc'[q] = z
                       \/ q # sh /\ proc'[q] = Free
                       \/ q # p /\ proc'[q] = proc[q]
  BY <1>3
<1>5. Free.at = "free" /\ Free.parent = sh /\ Alone(Free, bin) /\ sh \in Procs
  BY FreeAlone, ShellAssumption
<1>6. \A q \in Procs : Alone(proc'[q], bin')
  BY <1>1, <1>4, <1>5 DEF SInv
<1>7. proc'[sh].at = (IF p = sh THEN "zombie" ELSE proc[sh].at)
      /\ proc'[sh].cwd = proc[sh].cwd /\ (p # sh => proc'[sh] = proc[sh])
  BY <1>2, <1>4, <1>5
<1>8. Roles'
  <2>1. proc'[sh].at \in {"prompt", "run", "wait", "zombie"}
    BY <1>7 DEF SInv, Roles
  <2>2. \A q \in Procs : proc'[q].parent = sh
    BY <1>2, <1>4, <1>5 DEF SInv, Roles
  <2>3. ASSUME NEW q \in Procs \ {sh}
        PROVE  /\ proc'[q].at \in {"free", "exec", "program", "zombie"}
               /\ proc'[q].at # "free" => proc'[q].cwd = proc'[sh].cwd
    BY <1>2, <1>4, <1>5, <1>7 DEF SInv, Roles
  <2> QED BY <2>1, <2>2, <2>3 DEF Roles
<1>9. OneChild'
  <2>1. CASE p = sh
    BY <2>1, <1>7 DEF OneChild
  <2>2. CASE p # sh /\ proc[sh].at \in {"wait"}
    <3>1. p = proc[sh].pid
      BY <2>2 DEF SInv, OneChild
    <3>2. proc'[p] = z
      BY <1>3, <2>2 DEF At, SInv, Roles
    <3>3. \A q \in Procs \ {sh, p} : proc'[q].at = "free"
      BY <1>4, <1>5, <2>2, <3>1 DEF SInv, OneChild
    <3> QED BY <1>2, <1>7, <2>2, <3>1, <3>2, <3>3 DEF OneChild
  <2>3. CASE p # sh /\ proc[sh].at \in {"prompt", "run"}
    BY <2>3 DEF SInv, OneChild
  <2>4. CASE p # sh /\ proc[sh].at = "zombie"
    BY <2>4, <1>7 DEF OneChild
  <2> QED BY <2>1, <2>2, <2>3, <2>4 DEF SInv, Roles
<1>10. proc' = [q \in Procs |-> proc'[q]]
  BY <1>3
<1> QED BY <1>6, <1>8, <1>9, <1>10 DEF SInv
-----------------------------------------------------------------------------
(* Candidates is what Cands says.                                            *)
LEMMA SameCandidates ==
  ASSUME NEW p \in Procs
  PROVE  Candidates(p) = Cands(proc[p])
  BY DEF Candidates, Cands

(* One try of the search, after an execve that failed or succeeded.          *)
LEMMA TryFacts ==
  ASSUME NEW x, NEW b, Alone(x, b), x.at = "exec", x.i < Len(Cands(x))
  PROVE  /\ x \in Process /\ x.i \in Nat /\ x.i + 1 <= 1 + Len(path_dirs)
         /\ Len(Cands(x)) \in Nat /\ Len(path_dirs) \in Nat
         /\ NoneOf(x, x.i, b)
<1>1. x \in Process /\ NoneOf(x, x.i, b)
  BY DEF Alone, Searched
<1>2. x.i \in Nat /\ Len(path_dirs) \in Nat
      /\ Len(Cands(x)) = IF x.cmd.dir # NoDir THEN 1 ELSE 1 + Len(path_dirs)
  BY <1>1, CommandFacts, CandFacts
<1> QED BY <1>1, <1>2

(* The directory that is tried does not have the program.                    *)
LEMMA FailedAlone ==
  ASSUME NEW x, NEW b, Alone(x, b), x.at = "exec", x.i < Len(Cands(x)),
         Cands(x)[x.i + 1] \notin b
  PROVE  Alone([x EXCEPT !.i = @ + 1], b)
<1> DEFINE y == [x EXCEPT !.i = @ + 1]
<1>1. /\ x \in Process /\ x.i \in Nat /\ x.i + 1 <= 1 + Len(path_dirs)
      /\ Len(Cands(x)) \in Nat /\ Len(path_dirs) \in Nat
      /\ NoneOf(x, x.i, b)
  BY TryFacts
<1>2. x.i + 1 \in 0 .. 1 + Len(path_dirs)
  BY <1>1
<1>3. y \in Process
  BY <1>1, <1>2 DEF Process
<1>4. y.at = "exec" /\ y.cmd = x.cmd /\ y.cwd = x.cwd /\ y.i = x.i + 1
  BY <1>1 DEF Process
<1> HIDE DEF y
<1>5. Cands(y) = Cands(x)
  BY <1>4, SameSearch
<1>6. Searched(y, y.i, b)
  BY <1>1, <1>4, <1>5 DEF Searched, NoneOf
<1>7. y.cwd \in Dirs /\ y.cmd \in Commands
  BY <1>4 DEF Alone
<1>8. Alone(y, b)
  BY <1>3, <1>4, <1>6, <1>7 DEF Alone
<1> QED BY <1>8 DEF y

(* The directory that is tried has the program.                              *)
LEMMA FoundAlone ==
  ASSUME NEW x, NEW b \in SUBSET Dirs, Alone(x, b), x.at = "exec", x.i < Len(Cands(x)),
         Cands(x)[x.i + 1] \in b
  PROVE  Alone([x EXCEPT !.at = "program", !.ran = Cands(x)[x.i + 1]], b)
<1> DEFINE d == Cands(x)[x.i + 1]
           y == [x EXCEPT !.at = "program", !.ran = d]
<1>1. x \in Process /\ x.i \in Nat /\ Len(Cands(x)) \in Nat /\ NoneOf(x, x.i, b)
  BY TryFacts
<1>2. d \in Dirs /\ d \in b
  OBVIOUS
<1>3. y \in Process
  BY <1>1, <1>2 DEF Process
<1>4. y.at = "program" /\ y.cmd = x.cmd /\ y.cwd = x.cwd /\ y.i = x.i /\ y.ran = d
  BY <1>1 DEF Process
<1> HIDE DEF y
<1>5. Cands(y) = Cands(x)
  BY <1>4, SameSearch
<1>6. y.i < Len(Cands(y)) /\ NoneOf(y, y.i, b) /\ y.ran = Cands(y)[y.i + 1] /\ y.ran \in b
  BY <1>1, <1>2, <1>4, <1>5 DEF NoneOf
<1>7. y.cwd \in Dirs /\ y.cmd \in Commands
  BY <1>4 DEF Alone
<1>8. Alone(y, b)
  BY <1>3, <1>4, <1>6, <1>7 DEF Alone
<1> QED BY <1>8 DEF y, d
-----------------------------------------------------------------------------
(* Where a process is tells which one it is.                                 *)
LEMMA WhoIsWhere ==
  ASSUME SInv, NEW p \in Procs
  PROVE  /\ proc[p].at \in {"prompt", "run", "wait"} => p = sh
         /\ proc[p].at \in {"exec", "program"} => p \in Procs \ {sh}
         /\ Alone(proc[p], bin) /\ proc[p] \in Process /\ proc[p].parent = sh
         /\ bin \in SUBSET Dirs
  BY DEF SInv, Roles, Alone

(* Reading a line.                                                           *)
LEMMA ReadLineKept ==
  ASSUME SInv, NEW p \in Procs, ReadLine(p) PROVE SInv'
<1>1. PICK c \in Commands : Becomes(p, [proc[p] EXCEPT !.at = "run", !.cmd = c])
  BY DEF ReadLine
<1> DEFINE r == [proc[p] EXCEPT !.at = "run", !.cmd = c]
<1>2. p = sh /\ proc[p].at = "prompt" /\ Alone(proc[p], bin) /\ proc[p].parent = sh /\ bin' = bin
      /\ proc[p] \in Process
  <2>1. proc[p].at = "prompt" /\ bin' = bin
    BY Zenon DEF ReadLine, At
  <2>2. proc[p].at \in {"prompt", "run", "wait"}
    BY <2>1, Zenon
  <2> QED BY <2>1, <2>2, WhoIsWhere, Zenon
<1>3. r \in Process
  BY <1>2, RunFacts, Zenon
<1>4. r.at = "run" /\ r.cmd = c /\ r.cwd = proc[p].cwd /\ r.i = proc[p].i
      /\ r.parent = sh
  BY <1>2 DEF Process
<1>5. r.i = 0 /\ r.cwd \in Dirs
  BY <1>2, <1>4 DEF Alone
<1> HIDE DEF r
<1>6. Alone(r, bin)
  BY <1>3, <1>4, <1>5, QuietAlone
<1>7. Becomes(sh, r)
  BY <1>1, <1>2 DEF r
<1> QED BY <1>2, <1>4, <1>6, <1>7, ShellMoves

(* The shell in directory d that waits for q, prompting again.               *)
Prompter(p, d, q) == [Prompting(p) EXCEPT !.cwd = d, !.pid = q]

(* Such a shell is as it should be.                                          *)
LEMMA PromptingFacts ==
  ASSUME SInv, NEW p \in Procs, proc[p].at \in {"run", "wait"}, NEW d \in Dirs, NEW q \in Procs
  PROVE  /\ Alone(Prompter(p, d, q), bin) /\ Prompter(p, d, q).parent = sh
         /\ Prompter(p, d, q).at = "prompt" /\ Prompter(p, d, q).cwd = d
<1> DEFINE r == Prompter(p, d, q)
<1>1. Alone(proc[p], bin) /\ proc[p].parent = sh /\ proc[p] \in Process
  BY WhoIsWhere
<1>2. r \in Process
  BY <1>1 DEF Process, Prompting, Prompter
<1>3. r.at = "prompt" /\ r.cwd = d /\ r.i = proc[p].i /\ r.parent = sh
  BY <1>1 DEF Process, Prompting, Prompter
<1>4. r.i = 0
  BY <1>1, <1>3 DEF Alone
<1>5. Alone(r, bin)
  BY <1>2, <1>3, <1>4, QuietAlone
<1> QED BY <1>3, <1>5

(* A built-in command is done, and cd may have changed the directory.        *)
LEMMA PromptKept ==
  ASSUME SInv, NEW p \in Procs, proc[p].at = "run", bin' = bin, NEW d \in Dirs,
         \/ Becomes(p, Prompting(p))
         \/ Becomes(p, [Prompting(p) EXCEPT !.cwd = d])
  PROVE  SInv'
<1>1. p = sh /\ Alone(proc[p], bin) /\ proc[p] \in Process
  BY WhoIsWhere
<1>2. proc[p].cwd \in Dirs /\ proc[p].pid \in Procs
  BY <1>1 DEF Alone, Process
<1>3. PICK e \in Dirs : Becomes(p, Prompter(p, e, proc[p].pid))
  <2>1. \A e : Prompter(p, e, proc[p].pid) = [Prompting(p) EXCEPT !.cwd = e]
    BY <1>1 DEF Process, Prompting, Prompter
  <2>2. Prompter(p, proc[p].cwd, proc[p].pid) = Prompting(p)
    BY <1>1 DEF Process, Prompting, Prompter
  <2> QED BY <1>2, <2>1, <2>2
<1> DEFINE r == Prompter(p, e, proc[p].pid)
<1>4. Alone(r, bin) /\ r.parent = sh /\ r.at = "prompt"
  BY <1>2, PromptingFacts
<1> QED BY <1>1, <1>3, <1>4, ShellMoves

(* The child is a copy, and the parent goes to its wait.                     *)
LEMMA ForkKept ==
  ASSUME SInv, NEW p \in Procs, NEW c \in Procs, Fork(p, c) PROVE SInv'
<1> DEFINE w == [proc[p] EXCEPT !.at = "wait", !.pid = c]
           x == [proc[p] EXCEPT !.at = "exec", !.parent = p]
<1>1. p = sh /\ proc[p].at = "run" /\ Alone(proc[p], bin) /\ proc[p] \in Process
      /\ proc[p].parent = sh /\ bin' = bin /\ proc[c].at = "free" /\ c # sh
  <2>1. proc[p].at = "run" /\ bin' = bin /\ proc[c].at = "free"
    BY Zenon DEF Fork, Runs, At
  <2>2. proc[p].at \in {"prompt", "run", "wait"}
    BY <2>1, Zenon
  <2>3. p = sh /\ Alone(proc[p], bin) /\ proc[p] \in Process /\ proc[p].parent = sh
    BY <2>2, WhoIsWhere, Zenon
  <2>4. c # sh
    BY <2>1, <2>3
  <2> QED BY <2>1, <2>3, <2>4, Zenon
<1>2. \A q \in Procs \ {sh} : proc[q].at = "free"
  BY <1>1 DEF SInv, OneChild
<1>3. proc' = [q \in Procs |-> IF q = c THEN x ELSE IF q = p THEN w ELSE proc[q]]
  BY <1>1 DEF Fork, SInv
<1> HIDE DEF w, x
<1>4. /\ w \in Process /\ w.at = "wait" /\ w.pid = c /\ w.parent = sh
      /\ w.cwd = proc[p].cwd /\ w.i = proc[p].i
  <2>1. PICK y \in Process : y = proc[p]
    BY <1>1, Zenon
  <2>2. w = [y EXCEPT !.at = "wait", !.pid = c]
    BY <2>1, Zenon DEF w
  <2>3. /\ w \in Process /\ w.at = "wait" /\ w.pid = c /\ w.parent = y.parent
        /\ w.cwd = y.cwd /\ w.i = y.i
    BY <2>2 DEF Process
  <2> QED BY <1>1, <2>1, <2>3, Zenon
<1>5. /\ x \in Process /\ x.at = "exec" /\ x.parent = sh /\ x.cmd = proc[p].cmd
      /\ x.cwd = proc[p].cwd /\ x.i = proc[p].i
  <2>1. PICK y \in Process : y = proc[p]
    BY <1>1, Zenon
  <2>2. x = [y EXCEPT !.at = "exec", !.parent = p]
    BY <2>1, Zenon DEF x
  <2>3. /\ x \in Process /\ x.at = "exec" /\ x.parent = p /\ x.cmd = y.cmd
        /\ x.cwd = y.cwd /\ x.i = y.i
    BY <2>2 DEF Process
  <2>4. x.parent = sh
    BY <1>1, <2>3, Zenon
  <2> QED BY <2>1, <2>3, <2>4, Zenon
<1>6. proc[p].i = 0 /\ proc[p].cwd \in Dirs /\ proc[p].cmd \in Commands
  BY <1>1 DEF Alone
<1>7. Alone(w, bin)
  BY <1>4, <1>6, QuietAlone
<1>8. Alone(x, bin)
  <2>1. 0 <= Len(Cands(x)) /\ NoneOf(x, 0, bin)
    BY <1>5, CandFacts, CommandFacts DEF NoneOf
  <2>2. Searched(x, x.i, bin)
    BY <1>5, <1>6, <2>1 DEF Searched
  <2> QED BY <1>5, <1>6, <2>2 DEF Alone
<1>9. proc'[sh] = w /\ proc'[c] = x /\ \A q \in Procs \ {sh, c} : proc'[q] = proc[q]
  BY <1>1, <1>3
<1>10. \A q \in Procs : Alone(proc'[q], bin')
  BY <1>1, <1>7, <1>8, <1>9 DEF SInv
<1>11. Roles'
  BY <1>1, <1>2, <1>4, <1>5, <1>9 DEF SInv, Roles
<1>12. OneChild'
  BY <1>1, <1>2, <1>4, <1>5, <1>9 DEF OneChild
<1>13. proc' = [q \in Procs |-> proc'[q]]
  BY <1>3
<1> QED BY <1>1, <1>10, <1>11, <1>12, <1>13 DEF SInv

(* Collecting a child.                                                       *)
LEMMA WaitKept ==
  ASSUME SInv, NEW p \in Procs, Wait(p) PROVE SInv'
<1> DEFINE c == proc[p].pid
           r == Prompter(p, proc[p].cwd, sh)
<1>1. p = sh /\ proc[p].at = "wait" /\ Alone(proc[p], bin) /\ proc[p] \in Process
      /\ bin' = bin /\ proc[c].at = "zombie" /\ sh \in Procs
  BY WhoIsWhere DEF Wait, At
<1>2. c \in Procs /\ c # sh /\ \A q \in Procs \ {sh, c} : proc[q].at = "free"
  BY <1>1 DEF SInv, OneChild, Process
<1>3. proc[p].cwd \in Dirs
  BY <1>1 DEF Alone
<1>4. Alone(r, bin) /\ r.parent = sh /\ r.at = "prompt" /\ r.cwd = proc[p].cwd
  BY <1>1, <1>3, PromptingFacts
<1>5. r = [Prompting(p) EXCEPT !.pid = sh]
  BY <1>1 DEF Process, Prompting, Prompter
<1>6. proc' = [proc EXCEPT ![p] = r, ![c] = Free]
  BY <1>5 DEF Wait
<1> HIDE DEF r, c
<1>7. proc' = [q \in Procs |-> IF q = c THEN Free ELSE IF q = p THEN r ELSE proc[q]]
  BY <1>1, <1>2, <1>6 DEF SInv
<1>8. Free.at = "free" /\ Free.parent = sh /\ Alone(Free, bin)
  BY FreeAlone
<1>9. proc'[sh] = r /\ proc'[c] = Free /\ \A q \in Procs \ {sh, c} : proc'[q] = proc[q]
  BY <1>1, <1>2, <1>7
<1>10. \A q \in Procs : Alone(proc'[q], bin')
  BY <1>1, <1>4, <1>8, <1>9 DEF SInv
<1>11. Roles'
  BY <1>1, <1>2, <1>4, <1>8, <1>9 DEF SInv, Roles
<1>12. OneChild'
  BY <1>2, <1>4, <1>8, <1>9 DEF OneChild
<1>13. proc' = [q \in Procs |-> proc'[q]]
  BY <1>7
<1> QED BY <1>1, <1>10, <1>11, <1>12, <1>13 DEF SInv

(* One more directory is tried.                                              *)
LEMMA SearchKept ==
  ASSUME SInv, NEW p \in Procs, Exec(p) \/ ExecFails(p) PROVE SInv'
<1> DEFINE x == proc[p]
<1>1. /\ p \in Procs \ {sh} /\ x.at = "exec" /\ Alone(x, bin) /\ x \in Process
      /\ x.parent = sh /\ bin' = bin /\ bin \in SUBSET Dirs
      /\ x.i < Len(Cands(x))
  BY WhoIsWhere, SameCandidates DEF Exec, ExecFails, Trying, At
<1>2. CASE Exec(p)
  <2> DEFINE r == [x EXCEPT !.at = "program", !.ran = Cands(x)[x.i + 1]]
  <2>1. Cands(x)[x.i + 1] \in bin /\ Becomes(p, r)
    BY <1>2, SameCandidates DEF Exec, Trying
  <2>2. Alone(r, bin)
    BY <1>1, <2>1, FoundAlone
  <2>3. r.at = "program" /\ r.parent = sh /\ r.cwd = x.cwd
    BY <1>1 DEF Process
  <2> HIDE DEF r
  <2> QED BY <1>1, <2>1, <2>2, <2>3, ChildMoves DEF At
<1>3. CASE ExecFails(p)
  <2> DEFINE r == [x EXCEPT !.i = @ + 1]
  <2>1. Cands(x)[x.i + 1] \notin bin /\ Becomes(p, r)
    BY <1>3, SameCandidates DEF ExecFails, Trying
  <2>2. Alone(r, bin)
    BY <1>1, <2>1, FailedAlone
  <2>3. r.at = "exec" /\ r.parent = sh /\ r.cwd = x.cwd
    BY <1>1 DEF Process
  <2> HIDE DEF r
  <2> QED BY <1>1, <2>1, <2>2, <2>3, ChildMoves DEF At
<1> QED BY <1>2, <1>3
-----------------------------------------------------------------------------
(* A process that is killed, or ends by itself, leaves the invariant intact. *)
LEMMA EndingKept ==
  ASSUME SInv, NEW p \in Procs,
         ReadEnd(p) \/ Exit(p) \/ NotFound(p) \/ ProgramEnds(p) \/ Killed(p)
  PROVE  SInv'
<1>1. CASE NotFound(p)
  <2>1. proc[p].at = "exec" /\ proc[p].i = Len(Cands(proc[p])) /\ Ends(p, 127) /\ bin' = bin
    BY <1>1, SameCandidates DEF NotFound, At
  <2> QED BY <2>1, EndsKept
<1>2. CASE ReadEnd(p) \/ Exit(p) \/ ProgramEnds(p) \/ Killed(p)
  <2>1. PICK code \in {0, 128} : Ends(p, code) /\ bin' = bin
    BY <1>2 DEF ReadEnd, Exit, ProgramEnds, Killed
  <2>2. proc[p].at \notin {"free", "zombie"}
    BY <1>2 DEF ReadEnd, Exit, Runs, ProgramEnds, Killed, At
  <2>3. code \in {0, 127, 128} /\ code # 127
    OBVIOUS
  <2> QED BY <2>1, <2>2, <2>3, EndsKept
<1> QED BY <1>1, <1>2

(* The shell begins alone.                                                   *)
LEMMA InitInv == ASSUME Init PROVE SInv
<1>1. PICK d \in Dirs : proc = [p \in Procs |-> IF p = sh THEN Shell(d, sh) ELSE Free]
  BY DEF Init
<1>2. sh \in Procs /\ 0 \in 0 .. 1 + Len(path_dirs)
  BY ShellAssumption
<1>3. /\ Shell(d, sh) \in Process /\ Shell(d, sh).at = "prompt" /\ Shell(d, sh).cwd = d
      /\ Shell(d, sh).i = 0 /\ Shell(d, sh).parent = sh
  BY <1>2 DEF Shell, Process
<1>4. Alone(Shell(d, sh), bin)
  BY <1>3, QuietAlone
<1>5. Alone(Free, bin) /\ Free.at = "free" /\ Free.parent = sh
  BY FreeAlone
<1>6. proc[sh] = Shell(d, sh) /\ \A p \in Procs \ {sh} : proc[p] = Free
  BY <1>1, <1>2
<1>7. \A p \in Procs : Alone(proc[p], bin)
  BY <1>4, <1>5, <1>6
<1>8. Roles
  BY <1>3, <1>5, <1>6 DEF Roles
<1>9. OneChild
  BY <1>3, <1>5, <1>6 DEF OneChild
<1> QED BY <1>1, <1>7, <1>8, <1>9 DEF SInv, Init

(* Every step keeps the invariant.                                           *)
LEMMA NextInv == ASSUME SInv, [Next]_vars PROVE SInv'
<1>1. CASE UNCHANGED vars
  BY <1>1 DEF vars, SInv, Roles, OneChild
<1>2. ASSUME NEW p \in Procs, ReadBlank(p) PROVE SInv'
  BY <1>1, <1>2 DEF ReadBlank
<1>3. ASSUME NEW p \in Procs, ReadLine(p) PROVE SInv'
  BY <1>3, ReadLineKept
<1>4. ASSUME NEW p \in Procs,
             ReadEnd(p) \/ Exit(p) \/ NotFound(p) \/ ProgramEnds(p) \/ Killed(p)
      PROVE  SInv'
  BY <1>4, EndingKept
<1>5. ASSUME NEW p \in Procs, Cd(p) PROVE SInv'
  <2>1. proc[p].at = "run" /\ bin' = bin /\ proc[p] \in Process
    BY <1>5, WhoIsWhere DEF Cd, Runs, At
  <2>2. proc[p].cmd.dir \in Dirs \cup {NoDir} /\ proc[p].cwd \in Dirs
    BY <2>1, CommandFacts, WhoIsWhere DEF Alone
  <2>3. CASE Becomes(p, Prompting(p))
    BY <2>1, <2>2, <2>3, PromptKept
  <2>4. CASE /\ proc[p].cmd.dir # NoDir
             /\ Becomes(p, [Prompting(p) EXCEPT !.cwd = proc[p].cmd.dir])
    BY <2>1, <2>2, <2>4, PromptKept
  <2> QED BY <1>5, <2>3, <2>4 DEF Cd
<1>6. ASSUME NEW p \in Procs, Report(p) \/ ForkFails(p) PROVE SInv'
  <2>1. proc[p].at = "run" /\ bin' = bin /\ Becomes(p, Prompting(p))
    BY <1>6 DEF Report, ForkFails, Runs, At
  <2>2. proc[p].cwd \in Dirs
    BY <2>1, WhoIsWhere DEF Alone
  <2> QED BY <2>1, <2>2, PromptKept
<1>7. ASSUME NEW p \in Procs, NEW c \in Procs, Fork(p, c) PROVE SInv'
  BY <1>7, ForkKept
<1>8. ASSUME NEW p \in Procs, Exec(p) \/ ExecFails(p) PROVE SInv'
  BY <1>8, SearchKept
<1>9. ASSUME NEW p \in Procs, Wait(p) PROVE SInv'
  BY <1>9, WaitKept
<1> QED BY <1>1, <1>2, <1>3, <1>4, <1>5, <1>6, <1>7, <1>8, <1>9 DEF Next, Step

(* The inductive invariant of toysh's processes: who may be where, that there *)
(* is one child at most, and what a child has found so far.                  *)
THEOREM ShellInvariant == Spec => []SInv
BY InitInv, NextInv, PTL DEF Spec

(* Every process is a process.                                               *)
THEOREM ShellTyped == Spec => []TypeOK
<1>1. SInv => TypeOK
  <2> SUFFICES ASSUME SInv PROVE TypeOK
    OBVIOUS
  <2>1. proc = [p \in Procs |-> proc[p]] /\ \A p \in Procs : proc[p] \in Process
    BY DEF SInv, Alone
  <2>2. proc \in [Procs -> Process] /\ bin \subseteq Dirs
    BY <2>1 DEF SInv
  <2> QED BY <2>2 DEF TypeOK, Process
<1> QED BY <1>1, ShellInvariant, PTL

(* Only one process reads commands, and while it does nobody else runs.      *)
THEOREM OneReaderAlways == Spec => []OneReader
<1>1. SInv => OneReader
  BY WhoIsWhere DEF SInv, OneChild, OneReader
<1> QED BY <1>1, ShellInvariant, PTL

(* The shell that prompts has waited for its children.                       *)
THEOREM NoZombieAlways == Spec => []NoZombieAtPrompt
<1>1. SInv => NoZombieAtPrompt
  BY DEF SInv, OneChild, NoZombieAtPrompt, At
<1> QED BY <1>1, ShellInvariant, PTL

(* What a process that has found its program has found.                      *)
LEMMA ProgramFacts ==
  ASSUME SInv, NEW p \in Procs, At(p, "program")
  PROVE  LET d == proc[p].ran here == proc[proc[p].parent].cwd IN
         /\ d \in bin
         /\ IF proc[p].cmd.dir # NoDir THEN d = proc[p].cmd.dir
            ELSE \/ d = here
                 \/ here \notin bin /\ \E k \in DOMAIN path_dirs : d = path_dirs[k] /\ NotBefore(k)
<1> DEFINE x == proc[p]
<1>1. /\ x \in Process /\ x.ran \in bin /\ x.ran = Cands(x)[x.i + 1] /\ x.i < Len(Cands(x))
      /\ NoneOf(x, x.i, bin) /\ x.i \in Nat
  BY WhoIsWhere, CommandFacts DEF Alone, At
<1>2. proc[x.parent].cwd = x.cwd
  BY WhoIsWhere DEF SInv, Roles, At
<1>3. /\ Len(path_dirs) \in Nat
      /\ Len(Cands(x)) = IF x.cmd.dir # NoDir THEN 1 ELSE 1 + Len(path_dirs)
      /\ Cands(x)[1] = IF x.cmd.dir # NoDir THEN x.cmd.dir ELSE x.cwd
      /\ x.cmd.dir = NoDir => \A k \in 1 .. Len(path_dirs) : Cands(x)[k + 1] = path_dirs[k]
  BY <1>1, CommandFacts, CandFacts
<1>4. CASE x.i = 0
  BY <1>1, <1>2, <1>3, <1>4
<1>5. CASE x.i # 0
  <2>1. x.cmd.dir = NoDir /\ x.i \in 1 .. Len(path_dirs)
    BY <1>1, <1>3, <1>5
  <2>2. x.ran = path_dirs[x.i]
    BY <1>1, <1>3, <2>1
  <2>3. 1 \in 1 .. x.i /\ x.cwd \notin bin
    BY <1>1, <1>3, <2>1 DEF NoneOf
  <2>4. ASSUME NEW j \in 1 .. x.i - 1 PROVE path_dirs[j] \notin bin
    <3>1. j + 1 \in 1 .. x.i /\ j \in 1 .. Len(path_dirs)
      BY <1>3, <2>1
    <3> QED BY <1>1, <1>3, <2>1, <3>1 DEF NoneOf
  <2>5. x.i \in DOMAIN path_dirs
    BY <2>1, ShellAssumption
  <2> QED BY <1>1, <1>2, <2>1, <2>2, <2>3, <2>4, <2>5 DEF NotBefore
<1> QED BY <1>4, <1>5

(* The first program on the way runs, and 127 means that there is none.      *)
THEOREM SearchRightAlways == Spec => []SearchRight
<1>1. ASSUME SInv, NEW p \in Procs \ {sh}, At(p, "zombie"), proc[p].status = 127
      PROVE  IF proc[p].cmd.dir # NoDir THEN proc[p].cmd.dir \notin bin
             ELSE proc[p].cwd \notin bin /\ NotBefore(Len(path_dirs) + 1)
  <2> DEFINE x == proc[p]
  <2>1. x \in Process /\ x.i = Len(Cands(x)) /\ NoneOf(x, Len(Cands(x)), bin)
    BY <1>1, WhoIsWhere DEF Alone, Searched, At
  <2>2. /\ Len(path_dirs) \in Nat
        /\ Len(Cands(x)) = IF x.cmd.dir # NoDir THEN 1 ELSE 1 + Len(path_dirs)
        /\ Cands(x)[1] = IF x.cmd.dir # NoDir THEN x.cmd.dir ELSE x.cwd
        /\ x.cmd.dir = NoDir => \A k \in 1 .. Len(path_dirs) : Cands(x)[k + 1] = path_dirs[k]
    BY <2>1, CommandFacts, CandFacts
  <2>3. Cands(x)[1] \notin bin
    BY <2>1, <2>2 DEF NoneOf
  <2>4. ASSUME x.cmd.dir = NoDir, NEW j \in 1 .. Len(path_dirs) PROVE path_dirs[j] \notin bin
    <3>1. j + 1 \in 1 .. Len(Cands(x)) /\ Cands(x)[j + 1] = path_dirs[j]
      BY <2>2, <2>4
    <3> QED BY <2>1, <3>1 DEF NoneOf
  <2>5. 1 .. Len(path_dirs) + 1 - 1 = 1 .. Len(path_dirs)
    BY <2>2
  <2> QED BY <2>2, <2>3, <2>4, <2>5 DEF NotBefore
<1>2. SInv => SearchRight
  BY <1>1, ProgramFacts DEF SearchRight
<1> QED BY <1>2, ShellInvariant, PTL
-----------------------------------------------------------------------------
(* The process that waitpid waits for can still go on to its end by itself.  *)
Awaited(c) ==
  /\ c \in Procs \ {sh} /\ proc[c].parent = sh
  /\ \/ At(c, "zombie") \/ At(c, "program")
     \/ At(c, "exec") /\ proc[c].i <= Len(Candidates(c))

(* The shell never waits in vain: whenever it is inside waitpid (run_command, *)
(* shell.c), the pid that fork gave it is a child of its own that it has not *)
(* waited for, and that child has ended, or runs another program, or is     *)
(* still somewhere on its way through try_exec.  What PromptsAgain adds is   *)
(* that such a child gets on.                                               *)
THEOREM NeverWaitsInVain == Spec => [](At(sh, "wait") => Awaited(proc[sh].pid))
<1>1. ASSUME SInv, At(sh, "wait") PROVE Awaited(proc[sh].pid)
  <2> DEFINE c == proc[sh].pid
  <2>1. sh \in Procs /\ Alone(proc[sh], bin)
    BY <1>1, ShellAssumption DEF SInv
  <2>2. c \in Procs
    BY <2>1 DEF Alone, Process
  <2>3. c # sh /\ proc[c].at # "free"
    BY <1>1 DEF SInv, OneChild, At
  <2>4. proc[c].parent = sh /\ proc[c].at \in {"free", "exec", "program", "zombie"}
    BY <1>1, <2>2, <2>3 DEF SInv, Roles
  <2>5. Alone(proc[c], bin) /\ Cands(proc[c]) = Candidates(c)
    BY <1>1, <2>2 DEF SInv, Cands, Candidates
  <2>6. proc[c].at = "exec" => proc[c].i <= Len(Candidates(c))
    BY <2>5 DEF Alone, Searched
  <2> QED BY <2>2, <2>3, <2>4, <2>6 DEF Awaited, At
<1> QED BY <1>1, ShellInvariant, PTL
=============================================================================
