-------------------------------- MODULE Line --------------------------------
(***************************************************************************)
(* examples/shell.c: how toysh reads a line into a buffer of MAX_INPUT     *)
(* bytes and how parse_line splits it in place into at most MAX_ARGS - 1   *)
(* arguments.  in and o are parse_line's pointers input and out.           *)
(***************************************************************************)
EXTENDS Integers, Sequences, FiniteSets

CONSTANTS
  MAX_INPUT,   (* The size of the buffer.                                   *)
  MAX_ARGS,    (* The size of argv.                                         *)
  Plain        (* What the user types besides blanks, quotes and newlines.  *)

NUL     == "nul"
Blank   == "blank"
Quote   == "quote"
Newline == "newline"

ASSUME LineAssumption ==
  /\ MAX_INPUT \in Nat /\ MAX_INPUT > 1 /\ MAX_ARGS \in Nat /\ MAX_ARGS > 1
  /\ Plain \cap {NUL, Blank, Quote, Newline} = {}

Text == Plain \cup {Blank, Quote}

VARIABLES
  pc,        (* "read", "parse", "skip" (the inner loop), "run" or "exit".  *)
  input,     (* The buffer; what it holds at first is never read.           *)
  pos,       (* Where the next character goes.                              *)
  argv,      (* The pointers in argv, without the NULL behind the last.     *)
  in, o,     (* Pointers into input.                                        *)
  in_quote,
  line       (* History: what was read for this command.                    *)

vars == <<pc, input, pos, argv, in, o, in_quote, line>>

Init ==
  /\ pc = "read" /\ input = [k \in 0 .. MAX_INPUT - 1 |-> NUL] /\ pos = 0
  /\ argv = <<>> /\ in = 0 /\ o = 0 /\ in_quote = FALSE
  /\ line = <<>>

Room == pos < MAX_INPUT - 1

Read(c) ==
  /\ pc = "read" /\ Room
  /\ input' = [input EXCEPT ![pos] = c] /\ pos' = pos + 1
  /\ line' = Append(line, c)
  /\ UNCHANGED <<pc, argv, in, o, in_quote>>

(* EOF, or read failed: what has been read of the line is forgotten.        *)
ReadEnd ==
  /\ pc = "read" /\ Room /\ pc' = "exit"
  /\ UNCHANGED <<input, pos, argv, in, o, in_quote, line>>

(* The loop of main begins again.                                           *)
NextLine ==
  /\ pc' = "read" /\ pos' = 0
  /\ argv' = <<>> /\ in' = 0 /\ o' = 0 /\ in_quote' = FALSE /\ line' = <<>>
  /\ UNCHANGED input

(* Slip: the line is not terminated.                                        *)
BadTerminate == input' = input

Terminate == input' = [input EXCEPT ![pos] = NUL]

(* A newline has been read, or the buffer is full and what is left of the   *)
(* line will be the next command; parse_line begins, unless it is empty.    *)
ReadDone ==
  /\ pc = "read"
  /\ \/ /\ line = <<>> /\ NextLine
     \/ /\ line # <<>> /\ Terminate
        /\ pc' = "parse" /\ argv' = <<0>> /\ in' = 0 /\ o' = 0 /\ in_quote' = FALSE
        /\ UNCHANGED <<pos, line>>

ParseQuote ==
  /\ pc = "parse" /\ input[in] = Quote
  /\ in_quote' = ~in_quote /\ in' = in + 1
  /\ UNCHANGED <<pc, input, pos, argv, o, line>>

(* Slip: a quoted blank separates as well.                                  *)
BadSeparates == input[in] = Blank

Separates == input[in] = Blank /\ ~in_quote

ParseBlank ==
  /\ pc = "parse" /\ Separates
  /\ input' = [input EXCEPT ![o] = NUL] /\ o' = o + 1 /\ in' = in + 1
  /\ pc' = "skip"
  /\ UNCHANGED <<pos, argv, in_quote, line>>

(* The inner loop skips further blanks.                                     *)
Skip ==
  /\ pc = "skip" /\ input[in] = Blank /\ in' = in + 1
  /\ UNCHANGED <<pc, input, pos, argv, o, in_quote, line>>

(* Slip: the last entry of argv is not kept for NULL.                       *)
BadArgRoom == Len(argv) < MAX_ARGS + 1

ArgRoom == Len(argv) < MAX_ARGS - 1

(* An argument that begins and finds no room in argv is dropped.            *)
SkipDone ==
  /\ pc = "skip" /\ input[in] # Blank /\ pc' = "parse"
  /\ argv' = IF input[in] # NUL /\ ArgRoom THEN Append(argv, o) ELSE argv
  /\ UNCHANGED <<input, pos, in, o, in_quote, line>>

ParseChar ==
  /\ pc = "parse" /\ input[in] \notin {NUL, Quote} /\ ~Separates
  /\ input' = [input EXCEPT ![o] = input[in]] /\ o' = o + 1 /\ in' = in + 1
  /\ UNCHANGED <<pc, pos, argv, in_quote, line>>

ParseDone ==
  /\ pc = "parse" /\ input[in] = NUL
  /\ input' = [input EXCEPT ![o] = NUL] /\ pc' = "run"
  /\ UNCHANGED <<pos, argv, in, o, in_quote, line>>

(* run_command returns, and the rest of a line that was too long is next.   *)
RunDone == pc = "run" /\ NextLine

Step == ReadDone \/ ParseQuote \/ ParseBlank \/ Skip \/ SkipDone \/ ParseChar \/ ParseDone

Next == (\E c \in Text : Read(c)) \/ ReadEnd \/ Step \/ RunDone

Spec == Init /\ [][Next]_vars

-----------------------------------------------------------------------------
(* How a line ought to be split.                                            *)

Quoted(k) == Cardinality({j \in 1 .. k - 1 : line[j] = Quote}) % 2 = 1

Gap(k) == line[k] = Blank /\ ~Quoted(k)

(* Where an argument after the first begins.                                *)
Starts == {k \in 2 .. Len(line) : Gap(k - 1) /\ ~Gap(k)}

(* The argument that the character at k belongs to.                         *)
Argument(k) == 1 + Cardinality({s \in Starts : s <= k})

(* The characters of the n-th argument, and its text.                       *)
Members(n) == {k \in 1 .. Len(line) : Argument(k) = n /\ ~Gap(k) /\ line[k] # Quote}

ArgText(n) ==
  [i \in 1 .. Cardinality(Members(n)) |->
     line[CHOOSE k \in Members(n) : Cardinality({j \in Members(n) : j <= k}) = i]]

(* The string in the buffer at x.                                           *)
StringAt(x) ==
  LET e == CHOOSE y \in x .. MAX_INPUT - 1 :
             input[y] = NUL /\ \A z \in x .. y - 1 : input[z] # NUL
  IN  [k \in 1 .. e - x |-> input[x + k - 1]]

-----------------------------------------------------------------------------
(* Properties.                                                              *)

Index == 0 .. MAX_INPUT - 1

TypeOK ==
  /\ pc \in {"read", "parse", "skip", "run", "exit"}
  /\ input \in [Index -> Text \cup {NUL}] /\ pos \in Index
  /\ argv \in Seq(Index) /\ Len(argv) <= MAX_ARGS - 1
  /\ in \in Index /\ o \in Index /\ in_quote \in BOOLEAN
  /\ line \in Seq(Text)

(* Splitting in place never overwrites what has not been read yet: out stays *)
(* behind input, and from input on the line is as it was typed.             *)
UnreadIntact ==
  pc \in {"parse", "skip"} =>
    /\ o <= in /\ in <= Len(line) /\ input[Len(line)] = NUL
    /\ \A k \in in + 1 .. Len(line) : input[k - 1] = line[k]

(* The arguments are the parts of the line between unquoted blanks, quotes   *)
(* removed, up to the size of argv; each ends in a NUL of its own.          *)
SplitRight ==
  pc = "run" =>
    /\ Len(argv) = IF Cardinality(Starts) + 1 < MAX_ARGS THEN Cardinality(Starts) + 1
                   ELSE MAX_ARGS - 1
    /\ \A n \in 1 .. Len(argv) : StringAt(argv[n]) = ArgText(n)
=============================================================================
