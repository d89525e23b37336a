------------------------------ MODULE Strings -------------------------------
(***************************************************************************)
(* src/string.c: the byte loops, one step per byte.                        *)
(*                                                                         *)
(* A call starts only where C gives it a meaning: ranges lie in memory,    *)
(* strings end in a NUL, memcpy and strcpy get operands that do not        *)
(* overlap and strcpy a destination that is large enough.                  *)
(***************************************************************************)
EXTENDS Integers

CONSTANTS
  N,       (* Memory has the addresses 0 .. N - 1.                          *)
  Bytes,   (* The unsigned bytes it may hold, NUL among them.               *)
  Fills    (* Arguments c of memset, an int.                                *)

Addr == 0 .. N - 1
Byte == 0 .. 255

ASSUME StringsAssumption ==
  N \in Nat /\ Bytes \subseteq Byte /\ 0 \in Bytes /\ Fills \subseteq Int

VARIABLES
  mem,
  op,        (* The function that runs, or "none".                          *)
  a, b, n,   (* Its arguments; memset has the byte in b.                    *)
  i,         (* The loop variable.                                          *)
  pc,        (* "idle", "loop", "down" or "done".                           *)
  ret,       (* The result of strlen, strcmp and memcmp.                    *)
  old        (* History: memory when the call began.                        *)

args == <<op, a, b, n>>
vars == <<mem, args, i, pc, ret, old>>

(* Ranges [x, x + k) of memory.                                             *)
Fits(x, k)           == x \in 0 .. N /\ x + k <= N
Apart(x, k, y, l)    == x + k <= y \/ y + l <= x

(* The string at x ends at e.                                               *)
EndsAt(m, x, e) == e \in x .. N - 1 /\ m[e] = 0 /\ \A y \in x .. e - 1 : m[y] # 0

IsString(x) == \E e \in Addr : EndsAt(mem, x, e)

-----------------------------------------------------------------------------
Init ==
  /\ mem \in [Addr -> Bytes] /\ old = mem
  /\ op = "none" /\ a = 0 /\ b = 0 /\ n = 0 /\ i = 0 /\ pc = "idle" /\ ret = 0

Begin(f, x, y, k, start, at) ==
  /\ pc = "idle"
  /\ op' = f /\ a' = x /\ b' = y /\ n' = k /\ i' = start /\ pc' = at
  /\ ret' = 0 /\ old' = mem /\ UNCHANGED mem

Memcpy(d, s, k) ==
  /\ Fits(d, k) /\ Fits(s, k) /\ Apart(d, k, s, k)
  /\ Begin("memcpy", d, s, k, 0, "loop")

(* Slip: the directions are swapped.                                        *)
BadMemmove(d, s, k) ==
  /\ Fits(d, k) /\ Fits(s, k)
  /\ \/ d > s /\ Begin("memmove", d, s, k, 0, "loop")
     \/ d < s /\ Begin("memmove", d, s, k, k, "down")
     \/ d = s /\ Begin("memmove", d, s, k, 0, "done")

Memmove(d, s, k) ==
  /\ Fits(d, k) /\ Fits(s, k)
  /\ \/ d < s /\ Begin("memmove", d, s, k, 0, "loop")
     \/ d > s /\ Begin("memmove", d, s, k, k, "down")
     \/ d = s /\ Begin("memmove", d, s, k, 0, "done")

(* Slip: the int is stored as it is.                                        *)
BadMemset(d, c, k) == Fits(d, k) /\ Begin("memset", d, c, k, 0, "loop")

Memset(d, c, k) == Fits(d, k) /\ Begin("memset", d, c % 256, k, 0, "loop")

Memcmp(x, y, k) ==
  Fits(x, k) /\ Fits(y, k) /\ Begin("memcmp", x, y, k, 0, "loop")

Strlen(s) == IsString(s) /\ Begin("strlen", s, 0, 0, 0, "loop")

Strcmp(x, y) == IsString(x) /\ IsString(y) /\ Begin("strcmp", x, y, 0, 0, "loop")

Strcpy(d, s) ==
  /\ \E e \in Addr : LET k == e - s + 1 IN
       EndsAt(mem, s, e) /\ Fits(d, k) /\ Apart(d, k, s, k)
  /\ Begin("strcpy", d, s, 0, 0, "loop")

-----------------------------------------------------------------------------
In(fs) == pc = "loop" /\ op \in fs

Done(r) == pc' = "done" /\ ret' = r

(* d[i] = s[i], upwards.                                                    *)
CopyUp ==
  /\ In({"memcpy", "memmove"}) /\ i < n
  /\ mem' = [mem EXCEPT ![a + i] = mem[b + i]] /\ i' = i + 1
  /\ UNCHANGED <<args, pc, ret, old>>

CopyDown ==
  /\ pc = "down" /\ i > 0
  /\ mem' = [mem EXCEPT ![a + i - 1] = mem[b + i - 1]] /\ i' = i - 1
  /\ UNCHANGED <<args, pc, ret, old>>

SetByte ==
  /\ In({"memset"}) /\ i < n
  /\ mem' = [mem EXCEPT ![a + i] = b] /\ i' = i + 1
  /\ UNCHANGED <<args, pc, ret, old>>

(* The loop of a function with a length has run out.                        *)
LoopEnds ==
  /\ \/ In({"memcpy", "memmove", "memset", "memcmp"}) /\ i = n
     \/ pc = "down" /\ i = 0
  /\ Done(0)
  /\ UNCHANGED <<mem, args, i, old>>

(* Slip: plain char is signed.                                              *)
BadDiff(x, y) == ((x + 128) % 256) - ((y + 128) % 256)

(* Bytes compare as unsigned char.                                          *)
Diff(x, y) == x - y

(* memcmp and strcmp go on while the bytes agree, strcmp not past a NUL.    *)
Agree ==
  /\ \/ In({"memcmp"}) /\ i < n
     \/ In({"strcmp"}) /\ mem[a + i] # 0
  /\ mem[a + i] = mem[b + i]
  /\ i' = i + 1
  /\ UNCHANGED <<mem, args, pc, ret, old>>

Disagree ==
  /\ \/ In({"memcmp"}) /\ i < n /\ mem[a + i] # mem[b + i]
     \/ In({"strcmp"}) /\ (mem[a + i] # mem[b + i] \/ mem[a + i] = 0)
  /\ Done(Diff(mem[a + i], mem[b + i]))
  /\ UNCHANGED <<mem, args, i, old>>

(* strlen: the distance to the NUL.                                         *)
Scan ==
  /\ In({"strlen"})
  /\ \/ mem[a + i] # 0 /\ i' = i + 1 /\ UNCHANGED <<pc, ret>>
     \/ mem[a + i] = 0 /\ Done(i) /\ UNCHANGED i
  /\ UNCHANGED <<mem, args, old>>

(* strcpy: the bytes up to the NUL, then the NUL.                           *)
CopyString ==
  /\ In({"strcpy"})
  /\ mem' = [mem EXCEPT ![a + i] = mem[b + i]]
  /\ \/ mem[b + i] # 0 /\ i' = i + 1 /\ UNCHANGED <<pc, ret>>
     \/ mem[b + i] = 0 /\ Done(0) /\ UNCHANGED i
  /\ UNCHANGED <<args, old>>

Return ==
  /\ pc = "done" /\ pc' = "idle"
  /\ op' = "none" /\ a' = 0 /\ b' = 0 /\ n' = 0 /\ i' = 0 /\ ret' = 0
  /\ old' = mem /\ UNCHANGED mem

Step ==
  \/ CopyUp \/ CopyDown \/ SetByte \/ LoopEnds \/ Agree \/ Disagree
  \/ Scan \/ CopyString \/ Return

Call ==
  \/ \E x, y \in 0 .. N, k \in 0 .. N : Memcpy(x, y, k) \/ Memmove(x, y, k) \/ Memcmp(x, y, k)
  \/ \E x \in 0 .. N, k \in 0 .. N, c \in Fills : Memset(x, c, k)
  \/ \E x \in Addr : Strlen(x) \/ \E y \in Addr : Strcmp(x, y) \/ Strcpy(x, y)

Next == Call \/ Step

Spec == Init /\ [][Next]_vars

-----------------------------------------------------------------------------
(* Properties.                                                              *)

TypeOK ==
  /\ mem \in [Addr -> Byte] /\ old \in [Addr -> Byte]
  /\ op \in {"none", "memcpy", "memmove", "memset", "memcmp", "strlen", "strcmp", "strcpy"}
  /\ a \in 0 .. N /\ b \in Nat /\ n \in 0 .. N /\ i \in Nat
  /\ pc \in {"idle", "loop", "down", "done"} /\ ret \in -255 .. N + 255

(* memcpy and memmove leave in the destination what the source held when    *)
(* the call began, however the two overlap, and nothing else changes.       *)
Copied ==
  pc = "done" /\ op \in {"memcpy", "memmove"} =>
    \A x \in Addr : mem[x] = IF x \in a .. a + n - 1 THEN old[b + (x - a)] ELSE old[x]

(* memset stores the low byte of its argument, in the range only.           *)
Filled ==
  pc = "done" /\ op = "memset" =>
    \A x \in Addr : mem[x] = IF x \in a .. a + n - 1 THEN b ELSE old[x]

(* strcpy copies the string with its NUL and nothing else.                  *)
StringCopied ==
  pc = "done" /\ op = "strcpy" =>
    \E e \in Addr : /\ EndsAt(old, b, e)
                    /\ \A x \in Addr : mem[x] = IF x \in a .. a + (e - b) THEN old[b + (x - a)]
                                                ELSE old[x]

(* The functions that write: every byte of memory is what C says, those      *)
(* outside the destination included.                                        *)
Written == Copied /\ Filled /\ StringCopied

(* strlen counts up to the first NUL.                                       *)
Measured == pc = "done" /\ op = "strlen" => EndsAt(mem, a, a + ret)

(* What the result of memcmp and strcmp means: the first position at which  *)
(* the operands differ decides, with bytes as unsigned numbers; strings that *)
(* agree up to a NUL are equal, and a proper prefix comes first.            *)
FirstDifference(k) == mem[a + k] # mem[b + k] /\ \A j \in 0 .. k - 1 : mem[a + j] = mem[b + j]

Compared ==
  /\ pc = "done" /\ op = "memcmp" =>
       IF \E k \in 0 .. n - 1 : mem[a + k] # mem[b + k]
       THEN \E k \in 0 .. n - 1 : FirstDifference(k) /\ (ret < 0 <=> mem[a + k] < mem[b + k])
                                                     /\ ret # 0
       ELSE ret = 0
  /\ pc = "done" /\ op = "strcmp" =>
       \E e \in Addr : EndsAt(mem, a, e) /\
         IF EndsAt(mem, b, b + (e - a)) /\ \A j \in 0 .. e - a : mem[a + j] = mem[b + j]
         THEN ret = 0
         ELSE \E k \in 0 .. e - a : FirstDifference(k) /\ (ret < 0 <=> mem[a + k] < mem[b + k])
                                                       /\ ret # 0

(* The functions that answer: the result is what C says.                     *)
Answered == Measured /\ Compared
=============================================================================
