-------------------------------- MODULE Demo --------------------------------
(***************************************************************************)
(* examples/posix-demo.c: a parent and a child that share standard output, *)
(* a file, a pipe, fork and waitpid.  main is the list of its statements.  *)
(* printf is one write, since its texts are shorter than its buffer; puts  *)
(* is two.  Every call may fail, and nobody looks at what was printed.     *)
(***************************************************************************)
EXTENDS Integers, Sequences

CONSTANT MAXFD   (* The largest descriptor the kernel hands out.            *)

(* Descriptor 1, which printf and puts write to, is a number like any other. *)
ASSUME DemoAssumption == MAXFD \in Nat /\ MAXFD >= 1

Procs == {"parent", "child"}

VARIABLES
  pc,      (* The statement each process is at; 0 for a child not yet born. *)
  half,    (* Who is between the two writes of a puts.                      *)
  fds,     (* The descriptors of each process.                              *)
  fd, ends,    (* Variables of main: the file and the two ends of the pipe. *)
  file,    (* What has been written to the file.                            *)
  std      (* The descriptors the parent was started with.                  *)

vars == <<pc, half, fds, fd, ends, file, std>>

Fds == 0 .. MAXFD

(* The statements of main from line 9 on that print or change something.    *)
Main == <<"puts", "printf", "printf", "puts", "puts",
          "open", "printf", "write", "close", "puts", "printf",
          "getcwd", "printf", "pipe", "printf", "close0", "close1",
          "puts", "fork", "printf", "printf", "waitpid", "puts", "puts", "return", "ended">>

OpenFailed == 11
Cwd        == 12
Pipe       == 14
ForkTest   == 18
ChildCode  == 20
ParentCode == 21
ForkFailed == 24
Return     == 25
Ended      == 26

Doing(p, what) == pc[p] > 0 /\ Main[pc[p]] = what

(* Slip: the branches of an if run into each other.                         *)
BadAfter(k) == k + 1

(* The end of a branch of an if.                                            *)
After(k) == IF k + 1 = OpenFailed THEN Cwd
            ELSE IF k + 1 \in {ParentCode, ForkFailed} THEN Return ELSE k + 1

Goto(p, k) == pc' = [pc EXCEPT ![p] = k]

Init ==
  /\ pc = [p \in Procs |-> IF p = "parent" THEN 1 ELSE 0]
  /\ half = {} /\ fd = -1 /\ ends = <<-1, -1>> /\ file = <<>> /\ std \in SUBSET Fds
  /\ fds = [p \in Procs |-> [d \in Fds |-> IF p = "parent" /\ d \in std THEN "tty" ELSE "none"]]

-----------------------------------------------------------------------------
(* write(d, text): a file takes it or is full; the rest is out of sight.    *)
Write(p, d, text) ==
  file' \in {file, IF fds[p][d] = "file" THEN Append(file, text) ELSE file}

Printf(p) ==
  /\ Doing(p, "printf") /\ Write(p, 1, "text") /\ Goto(p, After(pc[p]))
  /\ UNCHANGED <<half, fds, fd, ends, std>>

PutsText(p) ==
  /\ Doing(p, "puts") /\ p \notin half /\ Write(p, 1, "text") /\ half' = half \cup {p}
  /\ UNCHANGED <<pc, fds, fd, ends, std>>

PutsNewline(p) ==
  /\ Doing(p, "puts") /\ p \in half /\ Write(p, 1, "text") /\ half' = half \ {p}
  /\ Goto(p, After(pc[p]))
  /\ UNCHANGED <<fds, fd, ends, std>>

(* The kernel hands out the lowest number that is free.                     *)
Lowest(p, n) == {d \in Fds : fds[p][d] = "none" /\ \A e \in 0 .. d - 1 : fds[p][e] # "none" \/ e = n}

Open(p) ==
  /\ Doing(p, "open")
  /\ \/ Goto(p, OpenFailed) /\ UNCHANGED <<fds, fd>>
     \/ /\ fd' \in Lowest(p, -1) /\ Goto(p, pc[p] + 1)
        /\ fds' = [fds EXCEPT ![p][fd'] = "file"]
  /\ UNCHANGED <<half, ends, file, std>>

(* Slip: a write that has taken the text is tried again.                    *)
BadWriteFile(p) ==
  /\ Doing(p, "write") /\ Write(p, fd, "hello")
  /\ \E k \in {pc[p], After(pc[p])} : Goto(p, k)
  /\ UNCHANGED <<half, fds, fd, ends, std>>

WriteFile(p) ==
  /\ Doing(p, "write") /\ Write(p, fd, "hello") /\ Goto(p, After(pc[p]))
  /\ UNCHANGED <<half, fds, fd, ends, std>>

(* Slip: the read end is closed twice.                                      *)
BadClosing(p) == CASE Doing(p, "close") -> fd [] OTHER -> ends[1]

Closing(p) ==
  CASE Doing(p, "close") -> fd [] Doing(p, "close0") -> ends[1] [] OTHER -> ends[2]

Close(p) ==
  /\ \E what \in {"close", "close0", "close1"} : Doing(p, what)
  /\ fds' = [fds EXCEPT ![p][Closing(p)] = "none"] /\ Goto(p, After(pc[p]))
  /\ UNCHANGED <<half, fd, ends, file, std>>

Getcwd(p) ==
  /\ Doing(p, "getcwd") /\ \E k \in {pc[p] + 1, Pipe} : Goto(p, k)
  /\ UNCHANGED <<half, fds, fd, ends, file, std>>

MakePipe(p) ==
  /\ Doing(p, "pipe")
  /\ \/ Goto(p, ForkTest) /\ UNCHANGED <<fds, ends>>
     \/ \E r \in Lowest(p, -1) : \E w \in Lowest(p, r) \ {r} :
          /\ ends' = <<r, w>> /\ Goto(p, pc[p] + 1)
          /\ fds' = [fds EXCEPT ![p][r] = "pipe", ![p][w] = "pipe"]
  /\ UNCHANGED <<half, fd, file, std>>

Fork(p) ==
  /\ Doing(p, "fork")
  /\ \/ Goto(p, ForkFailed) /\ UNCHANGED fds
     \/ /\ pc' = [pc EXCEPT ![p] = ParentCode, !["child"] = ChildCode]
        /\ fds' = [fds EXCEPT !["child"] = fds[p]]
  /\ UNCHANGED <<half, fd, ends, file, std>>

(* Slip: the parent does not wait.                                          *)
BadWaitpid(p) ==
  /\ Doing(p, "waitpid") /\ Goto(p, After(pc[p]))
  /\ UNCHANGED <<half, fds, fd, ends, file, std>>

(* waitpid, whose result is not looked at, returns when the child has ended. *)
Waitpid(p) ==
  /\ Doing(p, "waitpid") /\ pc["child"] = Ended /\ Goto(p, After(pc[p]))
  /\ UNCHANGED <<half, fds, fd, ends, file, std>>

(* main returns to _start, which calls exit; or a signal kills the process. *)
End(p) ==
  /\ pc[p] \notin {0, Ended} /\ Goto(p, Ended) /\ half' = half \ {p}
  /\ UNCHANGED <<fds, fd, ends, file, std>>

Next ==
  \E p \in Procs :
    \/ Printf(p) \/ PutsText(p) \/ PutsNewline(p) \/ Open(p) \/ WriteFile(p) \/ Close(p)
    \/ Getcwd(p) \/ MakePipe(p) \/ Fork(p) \/ Waitpid(p) \/ End(p)

Spec == Init /\ [][Next]_vars

-----------------------------------------------------------------------------
(* Properties.                                                              *)

TypeOK ==
  /\ pc \in [Procs -> 0 .. Ended]
  /\ pc["parent"] # 0 /\ pc["child"] \in {0, ChildCode, Return, Ended}
  /\ half \subseteq Procs /\ std \subseteq Fds
  /\ fds \in [Procs -> [Fds -> {"none", "tty", "file", "pipe"}]]
  /\ fd \in Fds \cup {-1} /\ ends \in (Fds \cup {-1}) \X (Fds \cup {-1})
  /\ file \in Seq({"text", "hello"})

(* p's step is a write to standard output.                                  *)
Prints(p) ==
  \/ Doing(p, "printf") /\ pc'[p] = After(pc[p])
  \/ pc'[p] # Ended /\ (p \in half <=> p \notin half')

(* Although puts needs two writes, a line of one process is never printed   *)
(* into a line of the other.                                                *)
LinesWhole == [][\A p, q \in Procs : p # q /\ p \in half => ~Prints(q)]_vars

(* The file never holds anything but the greeting, once, unless the program *)
(* was started with its standard output, but not its input, closed: then    *)
(* open returns 1 and printf writes into the file.                          *)
HelloOnly == 1 \in std \/ 0 \notin std => file \in {<<>>, <<"hello">>}

(* Whatever failed on the way, main returns with the descriptors it was     *)
(* started with, in the parent and in the child.                            *)
ClosedAtEnd ==
  \A p \in Procs : Doing(p, "return") =>
    \A d \in Fds : fds[p][d] = IF d \in std THEN "tty" ELSE "none"
=============================================================================
