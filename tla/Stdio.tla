------------------------------- MODULE Stdio --------------------------------
(***************************************************************************)
(* src/stdio.c: printf, which formats into a buffer of BUF bytes on its    *)
(* stack and hands it to write whenever it is full, and puts, which writes *)
(* directly.                                                               *)
(*                                                                         *)
(* A format is a number of directives, each chosen when printf comes to    *)
(* it.  Integers are taken modulo WORD where C does.  The system call      *)
(* write takes any part of what it is given, or fails.                     *)
(***************************************************************************)
EXTENDS Integers, Sequences

CONSTANTS
  BUF,       (* PRINTF_BUF_SIZE.                                            *)
  WORD,      (* An unsigned int is below WORD.                              *)
  Char,      (* The characters, as strings of length one.                   *)
  Ints,      (* Arguments of %d, %i, %u, %x and %p.                         *)
  Strings,   (* Arguments of %s and puts, the null pointer not among them.  *)
  MaxFmt     (* A format has at most so many directives.                    *)

ASSUME StdioAssumption ==
  /\ BUF \in Nat /\ BUF > 1 /\ WORD \in Nat /\ WORD > 0 /\ MaxFmt \in Nat
  /\ Ints \subseteq - WORD .. WORD - 1
  /\ {"0", "1", "2", "3", "4", "5", "6", "7", "8", "9", "a", "b", "c", "d", "e", "f",
      "-", "x", "(", "n", "u", "l", ")", "%", "q", ".", "\n"} \subseteq Char
  /\ \A s \in Strings : s \in Seq(Char)

VARIABLES
  pc,           (* Where the running call is; "idle" when there is none.    *)
  left,         (* How many directives of the format are still to come.     *)
  buf, total,   (* printf_ctx_t; pos is the length of buf.                  *)
  val, base,    (* The number being converted: what is left of it, and how. *)
  num, l, r,    (* Its digits; start and end of str_reverse.                *)
  todo,         (* Characters formatted but not yet buffered or written.    *)
  ret,          (* The result of the call; in puts, ret1 on the way.        *)
  out,          (* What stdout received during the call.                    *)
  text, lost,   (* History: what was formatted, how many bytes were dropped.*)
  arg           (* History: the number under conversion.                    *)

conv == <<val, base, num, l, r, arg>>
ctx  == <<buf, total>>
io   == <<ctx, out, lost>>
vars == <<pc, left, io, conv, todo, ret, text>>

Init ==
  /\ pc = "idle" /\ left = 0 /\ buf = <<>> /\ total = 0
  /\ val = 0 /\ base = 10 /\ num = <<>> /\ l = 1 /\ r = 0 /\ arg = 0
  /\ todo = <<>> /\ ret = 0 /\ out = <<>> /\ text = <<>> /\ lost = 0

(* write(1, s, len) returns k: -errno, or the number of bytes it took.      *)
Writes(s, k) ==
  /\ out' = out \o SubSeq(s, 1, k)
  /\ lost' = lost + Len(s) - (IF k > 0 THEN k ELSE 0)

-----------------------------------------------------------------------------
Printf ==
  /\ pc = "idle" /\ pc' = "fmt" /\ left' \in 0 .. MaxFmt
  /\ buf' = <<>> /\ total' = 0 /\ ret' = 0
  /\ out' = <<>> /\ text' = <<>> /\ lost' = 0
  /\ UNCHANGED <<conv, todo>>

Directive == pc = "fmt" /\ left > 0 /\ left' = left - 1

(* Characters that need no conversion go to printf_putc one by one.         *)
Emit(s) ==
  /\ Directive /\ pc' = "emit" /\ todo' = s /\ text' = text \o s
  /\ UNCHANGED <<io, conv, ret>>

NullText == <<"(", "n", "u", "l", "l", ")">>

Text ==
  \/ \E s \in Strings : Emit(s)
  \/ Emit(NullText)                            (* %s of a null pointer.     *)
  \/ Emit(<<"%">>)                             (* %%                        *)
  \/ Emit(<<"%", "q">>)                        (* A directive not supported.*)
  \/ Emit(<<".">>)                             (* %c, or no directive.      *)

(* The digits of v, after a prefix, for the number x.                       *)
Number(prefix, v, b, x) ==
  /\ Directive /\ base' = b /\ arg' = x
  /\ todo' = prefix /\ text' = text \o prefix
  /\ IF v = 0 THEN pc' = "number" /\ num' = <<"0">> /\ val' = 0
              ELSE pc' = "digits" /\ num' = <<>> /\ val' = v
  /\ UNCHANGED <<io, l, r, ret>>

(* itoa: the absolute value of v < 0 is (unsigned) -(v + 1), plus 1.        *)
Signed(v) ==
  IF v < 0 THEN Number(<<"-">>, ((-(v + 1)) % WORD) + 1, 10, v) ELSE Number(<<>>, v, 10, v)

Numeric ==
  \E v \in Ints :
    LET u == v % WORD IN
    \/ Signed(v)                                               (* %d and %i *)
    \/ Number(<<>>, u, 10, u)                                  (* %u        *)
    \/ Number(<<>>, u, 16, u)                                  (* %x        *)
    \/ Number(<<"0", "x">>, u, 16, u)                          (* %p        *)

Glyphs == <<"0", "1", "2", "3", "4", "5", "6", "7", "8", "9",
            "a", "b", "c", "d", "e", "f">>

(* The loop of utoa and xtoa, lowest digit first.                           *)
Digit ==
  /\ pc = "digits" /\ val > 0
  /\ num' = Append(num, Glyphs[(val % base) + 1]) /\ val' = val \div base
  /\ UNCHANGED <<pc, left, io, base, l, r, arg, todo, ret, text>>

(* str_reverse(buf, buf + i), which begins with end--.                      *)
DigitsEnd ==
  /\ pc = "digits" /\ val = 0
  /\ pc' = "reverse" /\ l' = 1 /\ r' = Len(num)
  /\ UNCHANGED <<left, io, val, base, num, arg, todo, ret, text>>

(* Slip: end is not moved.                                                  *)
BadSwap ==
  /\ pc = "reverse" /\ l < r
  /\ num' = [num EXCEPT ![l] = num[r], ![r] = num[l]] /\ l' = l + 1
  /\ UNCHANGED <<pc, left, io, val, base, r, arg, todo, ret, text>>

Swap ==
  /\ pc = "reverse" /\ l < r
  /\ num' = [num EXCEPT ![l] = num[r], ![r] = num[l]] /\ l' = l + 1 /\ r' = r - 1
  /\ UNCHANGED <<pc, left, io, val, base, arg, todo, ret, text>>

(* The digits follow the prefix into printf_puts.                           *)
NumberDone ==
  /\ \/ pc = "number"
     \/ pc = "reverse" /\ l >= r
  /\ pc' = "emit" /\ todo' = todo \o num /\ text' = text \o num
  /\ UNCHANGED <<left, io, conv, ret>>

-----------------------------------------------------------------------------
Counted(k) == IF k > 0 THEN k ELSE 0

(* Slip: after a short write the whole buffer is kept, to be sent again.    *)
BadDrain(rest) ==
  \E k \in -1 .. Len(buf) :
    /\ Writes(buf, k) /\ total' = total + Counted(k)
    /\ buf' = IF k = Len(buf) THEN rest ELSE buf \o rest

(* printf_flush of a buffer that is not empty; rest is what it holds next.  *)
(* What write did not take is dropped.                                      *)
Drain(rest) ==
  \E k \in -1 .. Len(buf) :
    /\ Writes(buf, k) /\ total' = total + Counted(k) /\ buf' = rest

(* Slip: the buffer is full when there is no room left in what follows it.  *)
BadFull == Len(buf) > BUF

Full == Len(buf) >= BUF - 1

(* printf_putc.                                                             *)
Putc ==
  /\ pc = "emit" /\ todo # <<>>
  /\ todo' = Tail(todo)
  /\ \/ Full /\ Drain(<<Head(todo)>>)
     \/ ~Full /\ buf' = Append(buf, Head(todo)) /\ UNCHANGED <<total, out, lost>>
  /\ UNCHANGED <<pc, left, conv, ret, text>>

DirectiveEnds ==
  /\ pc = "emit" /\ todo = <<>> /\ pc' = "fmt"
  /\ num' = <<>> /\ l' = 1 /\ r' = 0 /\ base' = 10 /\ arg' = 0
  /\ UNCHANGED <<left, io, val, todo, ret, text>>

(* Slip: the last characters are not flushed.                               *)
BadPrintfEnds ==
  /\ pc = "fmt" /\ left = 0
  /\ ret' = total /\ pc' = "idle"
  /\ UNCHANGED <<left, io, conv, todo, text>>

(* The format is at its end, or a lone % is.                                *)
PrintfEnds ==
  /\ pc = "fmt" /\ left = 0
  /\ IF buf = <<>> THEN UNCHANGED io ELSE Drain(<<>>)
  /\ ret' = total' /\ pc' = "idle"
  /\ UNCHANGED <<left, conv, todo, text>>

-----------------------------------------------------------------------------
(* puts before its first write: stdout starts anew for this call.           *)
PutsWrites(s, k, rest) ==
  /\ k \in -1 .. Len(s)
  /\ out' = SubSeq(s, 1, k) /\ lost' = Len(s) - (IF k > 0 THEN k ELSE 0)
  /\ todo' = rest /\ text' = s \o rest
  /\ UNCHANGED <<left, ctx, conv>>

(* puts(NULL): the result of write is not looked at.                        *)
PutsNull ==
  LET s == NullText \o <<"\n">> IN
  /\ pc = "idle" /\ \E k \in -1 .. Len(s) : PutsWrites(s, k, <<>>)
  /\ ret' = 7 /\ UNCHANGED pc

Puts(s) ==
  /\ pc = "idle" /\ pc' = "newline"
  /\ \E k \in -1 .. Len(s) : PutsWrites(s, k, <<"\n">>) /\ ret' = k

(* Slip: only the second result is looked at.                               *)
BadPutsResult(ret1, ret2) == IF ret2 < 0 THEN -1 ELSE ret1 + ret2

PutsResult(ret1, ret2) == IF ret1 < 0 \/ ret2 < 0 THEN -1 ELSE ret1 + ret2

(* The newline is written even when the string was not.                     *)
PutsNewline ==
  /\ pc = "newline" /\ pc' = "idle" /\ todo' = <<>>
  /\ \E k \in -1 .. 1 : k # 0 /\ Writes(todo, k) /\ ret' = PutsResult(ret, k)
  /\ UNCHANGED <<left, ctx, conv, text>>

-----------------------------------------------------------------------------
Step ==
  \/ Text \/ Numeric \/ Digit \/ DigitsEnd \/ Swap \/ NumberDone
  \/ Putc \/ DirectiveEnds \/ PrintfEnds \/ PutsNewline

Next == Printf \/ PutsNull \/ (\E s \in Strings : Puts(s)) \/ Step

Spec == Init /\ [][Next]_vars

(* A call that has begun keeps running.                                     *)
FairSpec == Spec /\ WF_vars(Step)

-----------------------------------------------------------------------------
(* Properties.                                                              *)

Chars == Seq(Char)

TypeOK ==
  /\ pc \in {"idle", "fmt", "digits", "reverse", "number", "emit", "newline"}
  /\ left \in 0 .. MaxFmt
  /\ buf \in Chars /\ Len(buf) <= BUF /\ total \in Nat
  /\ val \in Nat /\ base \in {10, 16} /\ arg \in Int
  /\ num \in Chars /\ l \in Nat /\ r \in Nat
  /\ todo \in Chars /\ ret \in Int /\ ret >= -1 /\ out \in Chars /\ text \in Chars /\ lost \in Nat

(* As long as write takes all it is given, stdout receives what was          *)
(* formatted, in order and through every full buffer on the way.            *)
CompleteUnlessShort ==
  lost = 0 => out \o buf \o todo = text /\ (pc = "idle" => out = text)

(* printf, and puts unless it answers -1 or was given a null pointer,        *)
(* return how many bytes stdout received, short and failed writes included. *)
ReturnsWritten ==
  pc = "idle" /\ ret >= 0 /\ text # NullText \o <<"\n">> => ret = Len(out)

(* A number is printed so that it can be read back: the digits in order,     *)
(* without leading zeros, after a sign if it is negative.                   *)
Value ==
  LET DigitOf(g) == CHOOSE d \in 0 .. 15 : Glyphs[d + 1] = g
      V[k \in 0 .. Len(num)] == IF k = 0 THEN 0 ELSE V[k - 1] * base + DigitOf(num[k])
  IN  V[Len(num)]

NumbersReadBack ==
  pc = "emit" /\ num # <<>> =>
    /\ Value = IF arg < 0 THEN - arg ELSE arg
    /\ num[1] = "0" => Len(num) = 1
    /\ arg < 0 => text[Len(text) - Len(num)] = "-"

-----------------------------------------------------------------------------
Promise == INSTANCE Stream WITH running <- pc # "idle", offered <- Len(out) + lost

(* Through every full buffer, and whatever write answers, nothing is printed *)
(* twice, out of order or left in the buffer when the call returns, and it  *)
(* does return.                                                             *)
KeepsPromise == Promise!Spec
=============================================================================
