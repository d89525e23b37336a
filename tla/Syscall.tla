------------------------------- MODULE Syscall ------------------------------
(***************************************************************************)
(* The system call wrappers of syscall.c, proc.c, fs.c, pipe.c, signal.c   *)
(* and time.c: which register each operand of the inline assembly is in    *)
(* when the syscall instruction runs, and what the kernel takes from there.*)
(*                                                                         *)
(* A wrapper is its constraint letters and operands.  "D", "S" and "d" name*)
(* a register each; where an operand with "r" goes is the compiler's       *)
(* choice, made once for a build (place).  A register that no operand is in*)
(* holds whatever earlier code left there.  An argument is a small number; *)
(* which one matters only where wait4 and rt_sigaction look at it.         *)
(***************************************************************************)
EXTENDS Integers, Sequences

CONSTANT Stale   (* What earlier code may leave in a register.              *)

NULL     == 0
AT_FDCWD == -100
WNOHANG  == 1
SIG_DFL  == 0
Child    == 1    (* The process id of the child.                            *)
Act      == 2    (* The address of a struct toylibc_sigaction.              *)
Object   == 9    (* The address of an object of the program.                *)
EINVAL   == -22
EAGAIN   == -11
ECHILD   == -10
EFAULT   == -14

ASSUME SyscallAssumption == Stale \subseteq Nat

VARIABLES
  place,     (* The register of each operand that has the constraint "r".   *)
  child,     (* "none", "running" or "zombie".                              *)
  handler,   (* The disposition of the signal the program cares about.      *)
  spoiled,   (* TRUE once the kernel has stored resource usage over Object. *)
  last       (* The last call, the arguments the kernel saw, the result.    *)

kernel == <<child, handler>>
vars   == <<place, kernel, spoiled, last>>

-----------------------------------------------------------------------------
(* The wrappers.                                                            *)

Asm(nr, con, val) == [nr |-> nr, con |-> con, val |-> val]

toylibc_read(fd, buf, count)         == Asm(0, <<"D", "S", "d">>, <<fd, buf, count>>)
toylibc_write(fd, buf, count)        == Asm(1, <<"D", "S", "d">>, <<fd, buf, count>>)
toylibc_brk(addr)                    == Asm(12, <<"D">>, <<addr>>)
toylibc_munmap(addr, length)         == Asm(11, <<"D", "S">>, <<addr, length>>)
toylibc_exit(status)                 == Asm(60, <<"D">>, <<status>>)
toylibc_fork                         == Asm(57, <<>>, <<>>)
toylibc_execve(path, argv, envp)     == Asm(59, <<"D", "S", "d">>, <<path, argv, envp>>)
toylibc_getpid                       == Asm(39, <<>>, <<>>)
toylibc_getppid                      == Asm(110, <<>>, <<>>)
toylibc_open(path, flags, mode)      == Asm(2, <<"D", "S", "d">>, <<path, flags, mode>>)
toylibc_close(fd)                    == Asm(3, <<"D">>, <<fd>>)
toylibc_lseek(fd, offset, whence)    == Asm(8, <<"D", "S", "d">>, <<fd, offset, whence>>)
toylibc_getcwd(buf, size)            == Asm(79, <<"D", "S">>, <<buf, size>>)
toylibc_chdir(path)                  == Asm(80, <<"D">>, <<path>>)
toylibc_pipe(fds)                    == Asm(22, <<"D">>, <<fds>>)
toylibc_dup(oldfd)                   == Asm(32, <<"D">>, <<oldfd>>)
toylibc_dup2(oldfd, newfd)           == Asm(33, <<"D", "S">>, <<oldfd, newfd>>)
toylibc_kill(pid, sig)               == Asm(62, <<"D", "S">>, <<pid, sig>>)
toylibc_nanosleep(req, rem)          == Asm(35, <<"D", "S">>, <<req, rem>>)
toylibc_gettimeofday(tv, tz)         == Asm(96, <<"D", "S">>, <<tv, tz>>)
toylibc_stat(path, st)               == Asm(262, <<"D", "S", "d", "r">>, <<AT_FDCWD, path, st, 0>>)

toylibc_waitpid(pid, status, options) ==
  Asm(61, <<"D", "S", "d", "r">>, <<pid, status, options, 0>>)

(* Slip: the first two operands are swapped.                                *)
BadSigaction(signum, act, oldact) ==
  Asm(13, <<"D", "S", "d", "r">>, <<act, signum, oldact, 8>>)

toylibc_sigaction(signum, act, oldact) ==
  Asm(13, <<"D", "S", "d", "r">>, <<signum, act, oldact, 8>>)

(* Slip: the fourth argument in rcx, as for a function of C.                *)
BadMmap(addr, length, prot, flags, fd, offset) ==
  Asm(9, <<"D", "S", "d", "c", "r", "r">>, <<addr, length, prot, flags, fd, offset>>)

toylibc_mmap(addr, length, prot, flags, fd, offset) ==
  Asm(9, <<"D", "S", "d", "r", "r", "r">>, <<addr, length, prot, flags, fd, offset>>)

(* What a program calls; the k-th argument is the number k where nothing    *)
(* depends on it.                                                           *)
Calls ==
  {toylibc_read(1, 2, 3), toylibc_write(1, 2, 3), toylibc_brk(1), toylibc_munmap(1, 2),
   toylibc_exit(1), toylibc_fork, toylibc_execve(1, 2, 3), toylibc_getpid, toylibc_getppid,
   toylibc_open(1, 2, 3), toylibc_close(1), toylibc_lseek(1, 2, 3), toylibc_getcwd(1, 2),
   toylibc_chdir(1), toylibc_pipe(1), toylibc_dup(1), toylibc_dup2(1, 2), toylibc_kill(1, 2),
   toylibc_nanosleep(1, 2), toylibc_gettimeofday(1, 2), toylibc_stat(1, 2),
   toylibc_waitpid(Child, 2, 0), toylibc_waitpid(Child, 2, WNOHANG),
   toylibc_sigaction(1, Act, 3), toylibc_sigaction(1, NULL, 3),
   toylibc_mmap(1, 2, 3, 4, 5, 6)}

-----------------------------------------------------------------------------
(* The registers when the syscall instruction runs.                         *)

(* The fixed constraint letters.                                            *)
Fixed == [D |-> "rdi", S |-> "rsi", d |-> "rdx", c |-> "rcx"]

(* What is left for "r": rcx and r11 are clobbered, rax, rdi, rsi and rdx   *)
(* taken.  rbx stands for all the registers the call does not read, so two  *)
(* operands may be in it; one that the call reads holds one operand.        *)
FreeRegs == {"r8", "r9", "r10", "rbx"}

(* The operands with "r", by system call and position.                      *)
ROperands == {<<9, 4>>, <<9, 5>>, <<9, 6>>, <<13, 4>>, <<61, 4>>, <<262, 4>>}

Register(c, k) == IF c.con[k] = "r" THEN place[<<c.nr, k>>] ELSE Fixed[c.con[k]]

(* Where the kernel looks for its arguments, and how many it takes.         *)
Order == <<"rdi", "rsi", "rdx", "r10", "r8", "r9">>

Arity(nr) ==
  IF nr \in {39, 57, 110} THEN 0
  ELSE IF nr \in {3, 12, 22, 32, 60, 80} THEN 1
  ELSE IF nr \in {11, 33, 35, 62, 79, 96} THEN 2
  ELSE IF nr \in {0, 1, 2, 8, 59} THEN 3
  ELSE IF nr \in {13, 61, 262} THEN 4 ELSE 6

Reads(nr) == {Order[k] : k \in 1 .. Arity(nr)}

Loaded(c) == {Register(c, k) : k \in DOMAIN c.val}

(* The arguments the kernel may see: a register with no operand is stale.   *)
Seen(c) ==
  LET Unset == Reads(c.nr) \ Loaded(c) IN
  {[k \in 1 .. Arity(c.nr) |->
      IF Order[k] \in Unset THEN old[Order[k]]
      ELSE c.val[CHOOSE j \in DOMAIN c.val : Register(c, j) = Order[k]]] : old \in [Unset -> Stale]}

-----------------------------------------------------------------------------
(* What the kernel does with them.  All calls but these leave alone what is *)
(* modelled here, and their results are the business of other modules.      *)

Fork(ret) ==
  \/ child = "none" /\ child' = "running" /\ ret = Child /\ UNCHANGED <<handler, spoiled>>
  \/ ret = EAGAIN /\ UNCHANGED <<kernel, spoiled>>

(* wait4 has collected the child before it stores the resource usage.       *)
Wait4(pid, options, rusage, ret) ==
  \/ /\ pid = Child /\ child = "zombie" /\ child' = "none"
     /\ ret = IF rusage \in {NULL, Object} THEN Child ELSE EFAULT
     /\ spoiled' = (spoiled \/ rusage = Object) /\ UNCHANGED handler
  \/ /\ pid = Child /\ child = "running" /\ options = WNOHANG
     /\ ret = 0 /\ UNCHANGED <<kernel, spoiled>>
  \/ /\ pid # Child \/ child = "none"
     /\ ret = ECHILD /\ UNCHANGED <<kernel, spoiled>>

(* rt_sigaction; a null act only asks.                                      *)
Sigaction(act, sigsetsize, ret) ==
  /\ ret = IF sigsetsize = 8 THEN 0 ELSE EINVAL
  /\ handler' = IF sigsetsize = 8 /\ act # NULL THEN act ELSE handler
  /\ UNCHANGED <<child, spoiled>>

Kernel(nr, x, ret) ==
  \/ nr = 57 /\ Fork(ret)
  \/ nr = 61 /\ Wait4(x[1], x[3], x[4], ret)
  \/ nr = 13 /\ Sigaction(x[2], x[4], ret)
  \/ nr \notin {13, 57, 61} /\ ret = 0 /\ UNCHANGED <<kernel, spoiled>>

Results == {0, Child, EINVAL, EAGAIN, ECHILD, EFAULT}

Init ==
  /\ place \in {f \in [ROperands -> FreeRegs] :
                  /\ \A p \in ROperands : f[p] \in {"rbx"} \cup Reads(p[1])
                  /\ \A p, q \in ROperands : f[p] = f[q] /\ f[p] # "rbx" /\ p[1] = q[1] => p = q}
  /\ child = "none" /\ handler = SIG_DFL /\ spoiled = FALSE
  /\ last = [call |-> toylibc_getpid, got |-> <<>>, ret |-> 0]

(* toylibc_exit does not return.                                            *)
Invoke(c) ==
  /\ last.call.nr # 60
  /\ \E x \in Seen(c), ret \in Results :
       Kernel(c.nr, x, ret) /\ last' = [call |-> c, got |-> x, ret |-> ret]
  /\ UNCHANGED place

ChildEnds ==
  /\ child = "running" /\ child' = "zombie"
  /\ UNCHANGED <<place, handler, spoiled, last>>

Next == (\E c \in Calls : Invoke(c)) \/ ChildEnds

Spec == Init /\ [][Next]_vars

-----------------------------------------------------------------------------
(* Properties.                                                              *)

TypeOK ==
  /\ place \in [ROperands -> FreeRegs]
  /\ child \in {"none", "running", "zombie"} /\ handler \in {SIG_DFL, Act}
  /\ spoiled \in BOOLEAN
  /\ last.call \in Calls /\ last.got \in Seq(Int) /\ last.ret \in Results

(* A wrapper passes as many arguments as the kernel reads, and each arrives  *)
(* in its place unless it is one of the operands with the constraint "r"    *)
(* and the compiler has put it elsewhere.                                   *)
Delivered ==
  LET c == last.call IN
  /\ Len(last.got) = Len(c.val)
  /\ \A k \in DOMAIN c.val :
       \/ last.got[k] = c.val[k]
       \/ <<c.nr, k>> \in ROperands /\ place[<<c.nr, k>>] # Order[k]

-----------------------------------------------------------------------------
(* A claim of the comments that the code does not keep.                     *)

(* proc.c:78 and 94, "r10 = rusage = NULL": the kernel does not store the   *)
(* child's resource usage, so it writes over no object of the program.      *)
StoresNoUsage == ~spoiled
=============================================================================
