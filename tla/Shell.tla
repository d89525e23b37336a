------------------------------- MODULE Shell --------------------------------
(***************************************************************************)
(* examples/shell.c: the processes of toysh.  The shell reads a line, runs *)
(* a built-in command itself or forks; the child, still in the shell's     *)
(* program, tries one execve after the other and exits with 127 when all   *)
(* have failed; the shell waits for it.                                    *)
(*                                                                         *)
(* Every process has its own copy of the shell's variables, as fork makes  *)
(* it.  How a line becomes a command is module Line's subject; here a line *)
(* is the command it stands for.  try_exec builds its paths in a buffer of  *)
(* 256 bytes and checks no length: here every path fits.  fork, execve,     *)
(* waitpid and the end of a process are the kernel's, as far as the shell  *)
(* relies on them.                                                         *)
(***************************************************************************)
EXTENDS Integers, Sequences

CONSTANTS
  Procs,       (* Process identifiers.                                      *)
  sh,          (* The shell that was started.                               *)
  Dirs,        (* The directories of the file system.                       *)
  NoDir,       (* "" in path_dirs; a missing argument; no directory.        *)
  path_dirs    (* The search path.                                          *)

ASSUME ShellAssumption ==
  /\ sh \in Procs /\ NoDir \notin Dirs
  /\ path_dirs \in Seq(Dirs \cup {NoDir})

VARIABLES
  proc,    (* The processes.                                                *)
  bin      (* The directories that hold the external command.               *)

vars == <<proc, bin>>

(* A command and the directory it names: where cd goes, or the directory of *)
(* an external command typed with a slash.                                  *)
Commands == [name : {"cd", "pwd", "help", "exit", "external"}, dir : {NoDir}]
            \cup [name : {"cd", "external"}, dir : Dirs]

(* What argv holds when no command runs: nothing that is read again.        *)
Nothing == [name |-> "", dir |-> NoDir]

(* A process: where it is ("program" once another program has replaced the  *)
(* shell's), argv, the loop variable of try_exec, counted from "./", the    *)
(* working directory, the parent, the child that is waited for, the exit    *)
(* status, and (for checking only) where its program was found.             *)
Shell(d, from) ==
  [at |-> "prompt", cmd |-> Nothing, i |-> 0, cwd |-> d, parent |-> from,
   pid |-> sh, status |-> 0, ran |-> NoDir]

Free == [Shell(NoDir, sh) EXCEPT !.at = "free"]

Init ==
  /\ \E d \in Dirs : proc = [p \in Procs |-> IF p = sh THEN Shell(d, sh) ELSE Free]
  /\ bin \in SUBSET Dirs

At(p, where) == proc[p].at = where

(* Process p goes on as r.                                                  *)
Becomes(p, r) == proc' = [proc EXCEPT ![p] = r]

Prompting(p) == [proc[p] EXCEPT !.at = "prompt", !.cmd = Nothing]

(* p ends.  A zombie stays until its parent waits for it or ends as well;   *)
(* the process that started the first shell is not modelled.                *)
Ends(p, code) ==
  proc' = [q \in Procs |->
    IF q = p /\ (p = sh \/ ~At(proc[p].parent, "zombie"))
    THEN [proc[p] EXCEPT !.at = "zombie", !.status = code]
    ELSE IF q = p \/ (q # sh /\ At(q, "zombie") /\ proc[q].parent = p) THEN Free
    ELSE proc[q]]

-----------------------------------------------------------------------------
(* An empty line, or one whose first argument is empty.                     *)
ReadBlank(p) == At(p, "prompt") /\ UNCHANGED vars

ReadLine(p) ==
  /\ At(p, "prompt")
  /\ \E c \in Commands : Becomes(p, [proc[p] EXCEPT !.at = "run", !.cmd = c])
  /\ UNCHANGED bin

(* EOF or a failed read: main returns and _start calls exit.                *)
ReadEnd(p) == At(p, "prompt") /\ Ends(p, 0) /\ UNCHANGED bin

Runs(p, name) == At(p, "run") /\ proc[p].cmd.name = name

(* chdir may fail; the shell prompts again either way.                      *)
Cd(p) ==
  /\ Runs(p, "cd")
  /\ \/ /\ proc[p].cmd.dir # NoDir
        /\ Becomes(p, [Prompting(p) EXCEPT !.cwd = proc[p].cmd.dir])
     \/ Becomes(p, Prompting(p))
  /\ UNCHANGED bin

(* pwd and help.                                                            *)
Report(p) ==
  /\ \E name \in {"pwd", "help"} : Runs(p, name)
  /\ Becomes(p, Prompting(p)) /\ UNCHANGED bin

Exit(p) == Runs(p, "exit") /\ Ends(p, 0) /\ UNCHANGED bin

(* The child goes on where the parent was, with a copy of its variables.    *)
Fork(p, c) ==
  /\ Runs(p, "external") /\ At(c, "free")
  /\ proc' = [proc EXCEPT ![p].at = "wait", ![p].pid = c,
                          ![c] = [proc[p] EXCEPT !.at = "exec", !.parent = p]]
  /\ UNCHANGED bin

ForkFails(p) == Runs(p, "external") /\ Becomes(p, Prompting(p)) /\ UNCHANGED bin

(* The directories try_exec looks into, in order.                           *)
Candidates(p) ==
  IF proc[p].cmd.dir # NoDir THEN <<proc[p].cmd.dir>> ELSE <<proc[p].cwd>> \o path_dirs

Trying(p, hit) ==
  /\ At(p, "exec") /\ proc[p].i < Len(Candidates(p))
  /\ hit <=> Candidates(p)[proc[p].i + 1] \in bin

(* An execve that succeeds does not return.                                 *)
Exec(p) ==
  /\ Trying(p, TRUE)
  /\ Becomes(p, [proc[p] EXCEPT !.at = "program", !.ran = Candidates(p)[proc[p].i + 1]])
  /\ UNCHANGED bin

(* Slip: two directories are passed over.                                   *)
BadExecFails(p) ==
  /\ Trying(p, FALSE)
  /\ Becomes(p, [proc[p] EXCEPT !.i = IF @ + 2 > Len(Candidates(p)) THEN @ + 1 ELSE @ + 2])
  /\ UNCHANGED bin

(* Slip: the loop variable is not counted up.                               *)
EndlessExecFails(p) == Trying(p, FALSE) /\ UNCHANGED vars

(* One that fails, and the entry of path_dirs that is skipped.              *)
ExecFails(p) ==
  /\ Trying(p, FALSE)
  /\ Becomes(p, [proc[p] EXCEPT !.i = @ + 1])
  /\ UNCHANGED bin

(* Slip: the child returns from run_command.                                *)
BadNotFound(p) ==
  /\ At(p, "exec") /\ proc[p].i = Len(Candidates(p))
  /\ Becomes(p, Prompting(p)) /\ UNCHANGED bin

(* Slip: the result of try_exec becomes the exit status.                    *)
BadStatus(p) ==
  /\ At(p, "exec") /\ proc[p].i = Len(Candidates(p))
  /\ Ends(p, -1) /\ UNCHANGED bin

NotFound(p) ==
  /\ At(p, "exec") /\ proc[p].i = Len(Candidates(p))
  /\ Ends(p, 127) /\ UNCHANGED bin

(* Slip: nobody waits.                                                      *)
BadWait(p) == At(p, "wait") /\ Becomes(p, Prompting(p)) /\ UNCHANGED bin

(* waitpid(pid) returns once that child has ended, and frees its entry.     *)
Wait(p) ==
  LET c == proc[p].pid IN
  /\ At(p, "wait") /\ At(c, "zombie")
  /\ proc' = [proc EXCEPT ![p] = [Prompting(p) EXCEPT !.pid = sh], ![c] = Free]
  /\ UNCHANGED bin

(* The other program ends by itself.                                        *)
ProgramEnds(p) == At(p, "program") /\ Ends(p, 0) /\ UNCHANGED bin

(* A signal kills a process, at any moment.                                 *)
Killed(p) == proc[p].at \notin {"free", "zombie"} /\ Ends(p, 128) /\ UNCHANGED bin

(* The steps of a process in the shell's program, waiting for input apart.  *)
Step(p) ==
  \/ Cd(p) \/ Report(p) \/ Exit(p) \/ ForkFails(p) \/ (\E c \in Procs : Fork(p, c))
  \/ Exec(p) \/ ExecFails(p) \/ NotFound(p) \/ Wait(p)

Next ==
  \E p \in Procs :
    ReadBlank(p) \/ ReadLine(p) \/ ReadEnd(p) \/ Step(p) \/ ProgramEnds(p) \/ Killed(p)

Spec == Init /\ [][Next]_vars

(* The kernel runs every process; nobody promises that the user types, nor  *)
(* that the other program ends.                                             *)
FairSpec == Spec /\ \A p \in Procs : WF_vars(Step(p))

-----------------------------------------------------------------------------
(* Properties.                                                              *)

TypeOK ==
  /\ proc \in [Procs ->
       [at : {"free", "prompt", "run", "exec", "wait", "program", "zombie"},
        cmd : Commands \cup {Nothing}, i : 0 .. 1 + Len(path_dirs), cwd : Dirs \cup {NoDir},
        parent : Procs, pid : Procs, status : {0, 127, 128}, ran : Dirs \cup {NoDir}]]
  /\ bin \subseteq Dirs

(* Standard input has one reader: while a command runs the shell does not    *)
(* prompt, and no child ever comes back to the shell's loop.                *)
OneReader ==
  \A p, q \in Procs :
    proc[p].at \in {"prompt", "run"} /\ proc[q].at \in {"prompt", "run", "exec", "program"}
      => p = q

(* When the shell prompts it has waited for every child it ever had.         *)
NoZombieAtPrompt ==
  proc[sh].at \in {"prompt", "run"} => \A p \in Procs \ {sh} : At(p, "free")

(* Nowhere on the way to directory number k is there such a command.         *)
NotBefore(k) == \A j \in 1 .. k - 1 : path_dirs[j] \notin bin

(* The program that runs is the first one on the way: the one typed with a   *)
(* slash, or the one in the directory the user went to, or the one in the   *)
(* first directory of the search path that has it.  A child ends with 127   *)
(* only if the command is nowhere to be found.                              *)
SearchRight ==
  /\ \A p \in Procs : At(p, "program") =>
       LET d == proc[p].ran here == proc[proc[p].parent].cwd IN
       /\ d \in bin
       /\ IF proc[p].cmd.dir # NoDir THEN d = proc[p].cmd.dir
          ELSE \/ d = here
               \/ here \notin bin /\ \E k \in DOMAIN path_dirs : d = path_dirs[k] /\ NotBefore(k)
  /\ \A p \in Procs \ {sh} : At(p, "zombie") /\ proc[p].status = 127 =>
       IF proc[p].cmd.dir # NoDir THEN proc[p].cmd.dir \notin bin
       ELSE proc[p].cwd \notin bin /\ NotBefore(Len(path_dirs) + 1)

(* The shell prompts again, or is killed, unless the program goes on forever. *)
PromptsAgain ==
  At(sh, "wait") ~>
    \/ proc[sh].at \in {"prompt", "zombie"}
    \/ \E p \in Procs : At(p, "program")
=============================================================================
