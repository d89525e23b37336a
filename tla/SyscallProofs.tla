--------------------------- MODULE SyscallProofs ----------------------------
(* Theorems about the system call wrappers: whatever registers the compiler  *)
(* chooses for the operands with the constraint "r", and whatever values     *)
(* earlier code has left in the registers that no operand is in.             *)
EXTENDS Syscall, TLAPS

(* The constraint letters of a wrapper, as many as it has operands.          *)
Letters == <<"D", "S", "d", "r", "r", "r">>

(* The operands with "r" come fourth and later; a wrapper has as many        *)
(* operands as the kernel reads registers.                                   *)
Wrapper(c) ==
  /\ Arity(c.nr) \in 0 .. 6
  /\ Len(c.val) = Arity(c.nr) /\ c.val \in Seq(Int)
  /\ \A k \in 1 .. Arity(c.nr) : c.con[k] = Letters[k]
  /\ \A k \in 4 .. Arity(c.nr) : <<c.nr, k>> \in ROperands

(* What Init says of the build: a register the call reads holds one operand. *)
Placed ==
  /\ place \in [ROperands -> FreeRegs]
  /\ \A p, q \in ROperands : place[p] = place[q] /\ place[p] # "rbx" /\ p[1] = q[1] => p = q

(* The inductive invariant.                                                  *)
CInv == TypeOK /\ Placed /\ Delivered
-----------------------------------------------------------------------------
(* Every wrapper of the library is one.                                      *)
LEMMA NoOperands ==
  \A nr \in {39, 57, 110} : Wrapper(Asm(nr, <<>>, <<>>))
BY DEF Wrapper, Asm, Arity

(* Wrappers with one operand.                                                *)
LEMMA OneOperand ==
  \A nr \in {3, 12, 22, 32, 60, 80}, a \in Int : Wrapper(Asm(nr, <<"D">>, <<a>>))
BY DEF Wrapper, Asm, Arity, Letters

(* Wrappers with two operands.                                               *)
LEMMA TwoOperands ==
  \A nr \in {11, 33, 35, 62, 79, 96}, a, b \in Int : Wrapper(Asm(nr, <<"D", "S">>, <<a, b>>))
BY DEF Wrapper, Asm, Arity, Letters

(* Wrappers with three operands.                                             *)
LEMMA ThreeOperands ==
  \A nr \in {0, 1, 2, 8, 59}, a, b, d \in Int :
    Wrapper(Asm(nr, <<"D", "S", "d">>, <<a, b, d>>))
BY DEF Wrapper, Asm, Arity, Letters

(* Wrappers with four operands.                                              *)
LEMMA FourOperands ==
  \A nr \in {13, 61, 262}, a, b, d, e \in Int :
    Wrapper(Asm(nr, <<"D", "S", "d", "r">>, <<a, b, d, e>>))
BY DEF Wrapper, Asm, Arity, Letters, ROperands

(* Wrappers with six operands.                                               *)
LEMMA SixOperands ==
  \A a, b, d, e, f, g \in Int :
    Wrapper(Asm(9, <<"D", "S", "d", "r", "r", "r">>, <<a, b, d, e, f, g>>))
BY DEF Wrapper, Asm, Arity, Letters, ROperands

(* Every call a program makes goes through a wrapper; the actions given to   *)
(* sigaction.                                                                *)
LEMMA CallFacts ==
  ASSUME NEW c \in Calls
  PROVE  /\ Wrapper(c)
         /\ c.nr = 13 => c.val[2] \in {NULL, Act}
<1>1. CASE c \in {toylibc_fork, toylibc_getpid, toylibc_getppid}
  <2>1. c.nr \in {39, 57, 110} /\ c = Asm(c.nr, <<>>, <<>>)
    BY <1>1 DEF toylibc_fork, toylibc_getpid, toylibc_getppid, Asm
  <2> QED BY <2>1, NoOperands
<1>2. CASE c \in {toylibc_brk(1), toylibc_exit(1), toylibc_close(1), toylibc_chdir(1),
                  toylibc_pipe(1), toylibc_dup(1)}
  <2>1. c.nr \in {3, 12, 22, 32, 60, 80} /\ c = Asm(c.nr, <<"D">>, <<1>>)
    BY <1>2 DEF toylibc_brk, toylibc_exit, toylibc_close, toylibc_chdir, toylibc_pipe,
                toylibc_dup, Asm
  <2>2. Wrapper(Asm(c.nr, <<"D">>, <<1>>))
    BY <2>1, OneOperand
  <2> QED BY <2>1, <2>2
<1>3. CASE c \in {toylibc_munmap(1, 2), toylibc_getcwd(1, 2), toylibc_dup2(1, 2),
                  toylibc_kill(1, 2), toylibc_nanosleep(1, 2), toylibc_gettimeofday(1, 2)}
  <2>1. c.nr \in {11, 33, 35, 62, 79, 96} /\ c = Asm(c.nr, <<"D", "S">>, <<1, 2>>)
    BY <1>3 DEF toylibc_munmap, toylibc_getcwd, toylibc_dup2, toylibc_kill,
                toylibc_nanosleep, toylibc_gettimeofday, Asm
  <2>2. Wrapper(Asm(c.nr, <<"D", "S">>, <<1, 2>>))
    BY <2>1, TwoOperands
  <2> QED BY <2>1, <2>2
<1>4. CASE c \in {toylibc_read(1, 2, 3), toylibc_write(1, 2, 3), toylibc_execve(1, 2, 3),
                  toylibc_open(1, 2, 3), toylibc_lseek(1, 2, 3)}
  <2>1. c.nr \in {0, 1, 2, 8, 59} /\ c = Asm(c.nr, <<"D", "S", "d">>, <<1, 2, 3>>)
    BY <1>4 DEF toylibc_read, toylibc_write, toylibc_execve, toylibc_open, toylibc_lseek, Asm
  <2>2. Wrapper(Asm(c.nr, <<"D", "S", "d">>, <<1, 2, 3>>))
    BY <2>1, ThreeOperands
  <2> QED BY <2>1, <2>2
<1>5. CASE c \in {toylibc_stat(1, 2), toylibc_waitpid(Child, 2, 0),
                  toylibc_waitpid(Child, 2, WNOHANG), toylibc_sigaction(1, Act, 3),
                  toylibc_sigaction(1, NULL, 3)}
  <2>1. PICK a, b, d, e \in Int : c = Asm(c.nr, <<"D", "S", "d", "r">>, <<a, b, d, e>>)
    BY <1>5 DEF toylibc_stat, toylibc_waitpid, toylibc_sigaction, Asm, Child, WNOHANG, Act,
                NULL, AT_FDCWD
  <2>2. c.nr \in {13, 61, 262}
    BY <1>5 DEF toylibc_stat, toylibc_waitpid, toylibc_sigaction, Asm
  <2>3. Wrapper(Asm(c.nr, <<"D", "S", "d", "r">>, <<a, b, d, e>>))
    BY <2>2, FourOperands
  <2>4. Wrapper(c)
    BY <2>1, <2>3
  <2>5. c.nr = 13 => c.val[2] \in {NULL, Act}
    BY <1>5 DEF toylibc_stat, toylibc_waitpid, toylibc_sigaction, Asm
  <2> QED BY <2>4, <2>5
<1>6. CASE c = toylibc_mmap(1, 2, 3, 4, 5, 6)
  <2>1. c.nr = 9 /\ c = Asm(9, <<"D", "S", "d", "r", "r", "r">>, <<1, 2, 3, 4, 5, 6>>)
    BY <1>6 DEF toylibc_mmap, Asm
  <2>2. Wrapper(Asm(9, <<"D", "S", "d", "r", "r", "r">>, <<1, 2, 3, 4, 5, 6>>))
    BY SixOperands
  <2> QED BY <2>1, <2>2
<1> QED BY <1>1, <1>2, <1>3, <1>4, <1>5, <1>6 DEF Calls

(* The action is sigaction's second argument.                                *)
LEMMA ActionArgument ==
  ASSUME NEW c \in Calls, c.nr = 13
  PROVE  2 \in DOMAIN c.val
<1>1. Arity(c.nr) = 4
  BY DEF Arity
<1>2. Len(c.val) = 4 /\ c.val \in Seq(Int)
  BY <1>1, CallFacts DEF Wrapper
<1> QED BY <1>2

(* The registers the kernel reads are different ones.                        *)
LEMMA OrderFacts ==
  /\ \A j, k \in 1 .. 6 : Order[j] = Order[k] => j = k
  /\ \A k \in 1 .. 6 : Order[k] # "rbx"
  /\ \A k \in 1 .. 3 : Letters[k] # "r" /\ Fixed[Letters[k]] = Order[k] /\ Order[k] \notin FreeRegs
  /\ \A k \in 4 .. 6 : Letters[k] = "r"
BY DEF Order, Letters, Fixed, FreeRegs

(* Where each operand of a call is.                                          *)
LEMMA RegisterFacts ==
  ASSUME Placed, NEW c, Wrapper(c), NEW k \in 1 .. Arity(c.nr)
  PROVE  /\ k \in DOMAIN c.val /\ k \in 1 .. 6
         /\ k <= 3 => Register(c, k) = Order[k] /\ Order[k] \notin FreeRegs
         /\ k > 3 => /\ <<c.nr, k>> \in ROperands /\ Register(c, k) = place[<<c.nr, k>>]
                     /\ place[<<c.nr, k>>] \in FreeRegs
<1>1. Arity(c.nr) \in 0 .. 6 /\ DOMAIN c.val = 1 .. Arity(c.nr) /\ c.con[k] = Letters[k]
  BY DEF Wrapper
<1>2. k \in 1 .. 6 /\ k \in DOMAIN c.val /\ (k <= 3 => k \in 1 .. 3)
      /\ (k > 3 => k \in 4 .. 6 /\ k \in 4 .. Arity(c.nr))
  BY <1>1
<1>3. k <= 3 => Register(c, k) = Order[k] /\ Order[k] \notin FreeRegs
  BY <1>1, <1>2, OrderFacts DEF Register
<1>4. k > 3 => <<c.nr, k>> \in ROperands /\ Register(c, k) = place[<<c.nr, k>>]
  BY <1>1, <1>2, OrderFacts DEF Register, Wrapper
<1> QED BY <1>2, <1>3, <1>4 DEF Placed

(* No two operands of a call are in one of the registers it reads.           *)
LEMMA NoneTwice ==
  ASSUME Placed, NEW c, Wrapper(c), NEW j \in 1 .. Arity(c.nr), NEW k \in 1 .. Arity(c.nr),
         Register(c, j) = Register(c, k), Register(c, j) # "rbx"
  PROVE  j = k
<1>1. j \in 1 .. 6 /\ k \in 1 .. 6
  BY RegisterFacts
<1>2. CASE j <= 3 /\ k <= 3
  <2>1. Register(c, j) = Order[j] /\ Register(c, k) = Order[k]
    BY <1>2, RegisterFacts
  <2> QED BY <1>1, <2>1, OrderFacts
<1>3. CASE j > 3 /\ k > 3
  <2>1. /\ <<c.nr, j>> \in ROperands /\ <<c.nr, k>> \in ROperands
        /\ place[<<c.nr, j>>] = place[<<c.nr, k>>] /\ place[<<c.nr, j>>] # "rbx"
    BY <1>3, RegisterFacts
  <2> QED BY <2>1 DEF Placed
<1>4. CASE (j <= 3 /\ k > 3) \/ (j > 3 /\ k <= 3)
  <2>1. \/ Register(c, j) \notin FreeRegs /\ Register(c, k) \in FreeRegs
        \/ Register(c, j) \in FreeRegs /\ Register(c, k) \notin FreeRegs
    BY <1>4, RegisterFacts
  <2> QED BY <2>1
<1> QED BY <1>1, <1>2, <1>3, <1>4

(* What the kernel sees: an operand that is in its register arrives.         *)
LEMMA SeenFacts ==
  ASSUME Placed, NEW c, Wrapper(c), NEW x \in Seen(c)
  PROVE  /\ x \in Seq(Int) /\ Len(x) = Arity(c.nr)
         /\ \A k \in 1 .. Arity(c.nr) : Register(c, k) = Order[k] => x[k] = c.val[k]
<1> DEFINE n == Arity(c.nr)
           Unset == Reads(c.nr) \ Loaded(c)
           Arrives(k) == CHOOSE j \in DOMAIN c.val : Register(c, j) = Order[k]
<1>1. n \in 0 .. 6 /\ DOMAIN c.val = 1 .. n /\ \A k \in 1 .. n : c.val[k] \in Int
  BY DEF Wrapper
<1>2. PICK old \in [Unset -> Stale] :
        x = [k \in 1 .. n |-> IF Order[k] \in Unset THEN old[Order[k]] ELSE c.val[Arrives(k)]]
  BY DEF Seen
<1>3. ASSUME NEW k \in 1 .. n, Order[k] \notin Unset
      PROVE  Arrives(k) \in 1 .. n /\ Register(c, Arrives(k)) = Order[k]
  <2>1. Order[k] \in Loaded(c)
    BY <1>3 DEF Reads
  <2>2. \E j \in DOMAIN c.val : Register(c, j) = Order[k]
    BY <2>1 DEF Loaded
  <2> QED BY <1>1, <2>2
<1>4. ASSUME NEW k \in 1 .. n PROVE x[k] \in Int
  <2> HIDE DEF Unset, Arrives, n
  <2>1. CASE Order[k] \in Unset
    <3>1. x[k] = old[Order[k]]
      BY <1>2, <1>4, <2>1
    <3>2. x[k] \in Stale
      BY <2>1, <3>1
    <3>3. Stale \subseteq Int
      BY SyscallAssumption
    <3> QED BY <3>2, <3>3, Zenon
  <2>2. CASE Order[k] \notin Unset
    <3>1. x[k] = c.val[Arrives(k)]
      BY <1>2, <1>4, <2>2
    <3>2. Arrives(k) \in 1 .. n
      BY <1>3, <1>4, <2>2
    <3>3. \A i \in 1 .. n : c.val[i] \in Int
      BY <1>1
    <3> QED BY <3>1, <3>2, <3>3, Zenon
  <2> QED BY <2>1, <2>2
<1>5. x \in Seq(Int) /\ Len(x) = n
  <2>1. x \in [1 .. n -> Int] /\ n \in Nat
    BY <1>1, <1>2, <1>4
  <2> QED BY <2>1
<1>6. ASSUME NEW k \in 1 .. n, Register(c, k) = Order[k] PROVE x[k] = c.val[k]
  <2>1. Order[k] \notin Unset
    BY <1>1, <1>6 DEF Loaded
  <2>2. Arrives(k) = k
    <3>1. Order[k] # "rbx"
      BY <1>1, <1>6, OrderFacts
    <3> QED BY <1>3, <1>6, <2>1, <3>1, NoneTwice
  <2>3. x[k] = c.val[Arrives(k)]
    BY <1>2, <1>6, <2>1
  <2> QED BY <2>2, <2>3
<1> QED BY <1>5, <1>6

(* What a call delivers.                                                     *)
LEMMA CallDelivers ==
  ASSUME Placed, NEW c \in Calls, NEW x \in Seen(c)
  PROVE  /\ x \in Seq(Int) /\ Len(x) = Len(c.val)
         /\ \A k \in DOMAIN c.val : k <= 3 => x[k] = c.val[k]
         /\ \A k \in DOMAIN c.val :
              \/ x[k] = c.val[k]
              \/ <<c.nr, k>> \in ROperands /\ place[<<c.nr, k>>] # Order[k]
<1>1. Wrapper(c) /\ DOMAIN c.val = 1 .. Arity(c.nr) /\ Len(c.val) = Arity(c.nr)
  BY CallFacts DEF Wrapper
<1>2. /\ x \in Seq(Int) /\ Len(x) = Len(c.val)
      /\ \A k \in DOMAIN c.val : Register(c, k) = Order[k] => x[k] = c.val[k]
  BY <1>1, SeenFacts
<1>3. ASSUME NEW k \in DOMAIN c.val
      PROVE  /\ k <= 3 => x[k] = c.val[k]
             /\ \/ x[k] = c.val[k]
                \/ <<c.nr, k>> \in ROperands /\ place[<<c.nr, k>>] # Order[k]
  <2>1. k \in 1 .. 6 /\ (k <= 3 => Register(c, k) = Order[k])
        /\ (k > 3 => <<c.nr, k>> \in ROperands /\ Register(c, k) = place[<<c.nr, k>>])
    BY <1>1, <1>3, RegisterFacts
  <2>2. k <= 3 \/ k > 3
    BY <2>1
  <2> QED BY <1>2, <1>3, <2>1, <2>2
<1> QED BY <1>2, <1>3
-----------------------------------------------------------------------------
(* A call that the kernel answers.                                           *)
LEMMA InvokeKept ==
  ASSUME CInv, NEW c \in Calls, Invoke(c) PROVE CInv'
<1>1. PICK x \in Seen(c), ret \in Results :
        Kernel(c.nr, x, ret) /\ last' = [call |-> c, got |-> x, ret |-> ret]
  BY DEF Invoke
<1>2. last'.call = c /\ last'.got = x /\ last'.ret = ret /\ place' = place
  BY <1>1 DEF Invoke
<1>3. /\ x \in Seq(Int) /\ Len(x) = Len(c.val)
      /\ \A k \in DOMAIN c.val : k <= 3 => x[k] = c.val[k]
      /\ \A k \in DOMAIN c.val :
           \/ x[k] = c.val[k]
           \/ <<c.nr, k>> \in ROperands /\ place[<<c.nr, k>>] # Order[k]
  BY CallDelivers DEF CInv
<1>4. Placed'
  BY <1>2 DEF CInv, Placed
<1>5. Delivered'
  BY <1>2, <1>3 DEF Delivered
<1>6. child' \in {"none", "running", "zombie"}
  BY <1>1 DEF Kernel, Fork, Wait4, Sigaction, kernel, CInv, TypeOK
<1>7. handler' \in {SIG_DFL, Act}
  <2>1. CASE c.nr = 13
    <3>1. x[2] \in {NULL, Act}
      <4>1. c.val[2] \in {NULL, Act} /\ 2 \in DOMAIN c.val
        BY <2>1, CallFacts, ActionArgument
      <4> QED BY <1>3, <4>1
    <3>2. Sigaction(x[2], x[4], ret)
      BY <1>1, <2>1 DEF Kernel
    <3> QED BY <3>1, <3>2 DEF Sigaction, CInv, TypeOK
  <2>2. CASE c.nr # 13
    BY <1>1, <2>2 DEF Kernel, Fork, Wait4, kernel, CInv, TypeOK
  <2> QED BY <2>1, <2>2
<1>8. spoiled' \in BOOLEAN
  <2>1. spoiled' = spoiled \/ \E b \in BOOLEAN : spoiled' = (spoiled \/ b)
    <3>1. spoiled' = spoiled \/ spoiled' = (spoiled \/ x[4] = Object)
      BY <1>1 DEF Kernel, Fork, Wait4, Sigaction, kernel
    <3> QED BY <3>1
  <2> QED BY <2>1 DEF CInv, TypeOK
<1>9. TypeOK'
  BY <1>2, <1>3, <1>4, <1>6, <1>7, <1>8 DEF TypeOK, Placed
<1> QED BY <1>4, <1>5, <1>9 DEF CInv

(* A child that ends touches nothing that belongs to a call.                 *)
LEMMA ChildEndsKept == ASSUME CInv, ChildEnds PROVE CInv'
BY DEF ChildEnds, CInv, TypeOK, Placed, Delivered

(* At first no wrapper runs.                                                 *)
LEMMA InitInv == ASSUME Init PROVE CInv
<1>1. Placed
  BY DEF Init, Placed
<1>2. toylibc_getpid \in Calls
  BY DEF Calls
<1>3. last.call = toylibc_getpid /\ last.got = <<>> /\ last.ret = 0
  BY DEF Init
<1>4. TypeOK
  <2>1. spoiled \in BOOLEAN /\ child \in {"none", "running", "zombie"}
    BY DEF Init
  <2>2. handler \in {SIG_DFL, Act}
    BY DEF Init
  <2>3. last.got \in Seq(Int) /\ last.ret \in Results
    BY <1>3 DEF Results
  <2> QED BY <1>1, <1>2, <1>3, <2>1, <2>2, <2>3 DEF TypeOK, Placed
<1>5. Delivered
  BY <1>3 DEF Delivered, toylibc_getpid, Asm
<1> QED BY <1>1, <1>4, <1>5 DEF CInv

(* The inductive invariant of the system calls.                              *)
THEOREM SyscallInvariant == Spec => []CInv
<1>1. ASSUME CInv, [Next]_vars PROVE CInv'
  <2>1. CASE UNCHANGED vars
    BY <1>1, <2>1 DEF vars, kernel, CInv, TypeOK, Placed, Delivered
  <2>2. CASE Next
    BY <1>1, <2>2, InvokeKept, ChildEndsKept DEF Next
  <2> QED BY <1>1, <2>1, <2>2
<1> QED BY <1>1, InitInv, PTL DEF Spec

(* What the model of the system calls may hold.                              *)
THEOREM SyscallTyped == Spec => []TypeOK
<1>1. CInv => TypeOK
  BY DEF CInv
<1> QED BY <1>1, SyscallInvariant, PTL

(* Every argument arrives, an operand with "r" that the compiler has put     *)
(* elsewhere excepted, in every build and with any leftovers in registers.   *)
THEOREM DeliveredAlways == Spec => []Delivered
<1>1. CInv => Delivered
  BY DEF CInv
<1> QED BY <1>1, SyscallInvariant, PTL

=============================================================================
