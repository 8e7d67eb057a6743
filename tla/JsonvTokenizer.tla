---------------------------- MODULE JsonvTokenizer ----------------------------
(* The tokenizer of jsonv: tokens are matched in a buffer that is refilled from *)
(* a stream, kept and grown while a token may go on behind its end.  A text is  *)
(* a sequence of characters: brackets, colon, comma, "1" a digit, ".", "-",     *)
(* "e", "q" a quote, "b" a backslash, " ", "/", "*", the literals "tr", "fa"    *)
(* and "nu" of two letters each, "x" anything else, and "0" a byte that is 0.   *)
EXTENDS Integers, Sequences, SequencesExt

CONSTANTS
    Inputs,      \* records [text, min]: the text of the stream and min_buffer_size
    MaxCalls     \* bound: calls of next

VARIABLES
    input,
    rest,        \* what the stream has still to give
    fail,        \* the stream's failbit: a read got less than it asked for
    buffer, cap, \* _buffer and its capacity
    cur,         \* _current: [null, pos, len, kind], where its text is in the buffer
    nth,         \* nth_pass
    pc,          \* "idle", "loop", "match", "gone"
    given,       \* the tokens next returned: [text, kind]
    ends         \* how often next returned FALSE

vars == <<input, rest, fail, buffer, cap, cur, nth, pc, given, ends>>

Nul == "0"
Larger(a, b) == IF a > b THEN a ELSE b
Smaller(a, b) == IF a < b THEN a ELSE b
Slice(s, i, j) == [k \in 1 .. (IF j < i THEN 0 ELSE j - i + 1) |-> s[i + k - 1]]
Zeros(n) == [k \in 1 .. n |-> Nul]
Peek(s, i) == IF i <= Len(s) THEN s[i] ELSE "end"

------------------------------------------------------------------------------
(* Matching.  A result is complete, complete_eof, incomplete_eof or unmatched.  *)
Matched(result, kind, len) == [result |-> result, kind |-> kind, len |-> len]

(* match_literal: the first letter was seen, the second is its other one.       *)
MatchLiteral(s, i, kind, second) ==
    CASE Peek(s, i + 1) = "end" -> Matched("incomplete_eof", kind, 1)
      [] Peek(s, i + 1) = second -> Matched("complete", kind, 2)
      [] OTHER -> Matched("unmatched", kind, 1)

(* The states of the expression of a number, where it may end in four of them.  *)
NumberStep(state, c) ==
    CASE state = "start" /\ c = "-" -> "sign"
      [] state \in {"start", "sign", "int"} /\ c = "1" -> "int"
      [] state = "int" /\ c = "." -> "dot"
      [] state \in {"dot", "frac"} /\ c = "1" -> "frac"
      [] state \in {"int", "frac"} /\ c = "e" -> "e"
      [] state = "e" /\ c = "-" -> "esign"
      [] state \in {"e", "esign", "exp"} /\ c = "1" -> "exp"
      [] state = "exp" /\ c = "." -> "edot"
      [] state \in {"edot", "efrac"} /\ c = "1" -> "efrac"
      [] OTHER -> "none"

(* The lengths at which the characters from place i on are a number.            *)
NumberLens(s, i) ==
    LET digits == {n \in 0 .. Len(s) - i + 1 : \A k \in 0 .. n - 1 : s[i + k] \in {"1", ".", "-", "e"}}
        state[n \in digits] == IF n = 0 THEN "start" ELSE NumberStep(state[n - 1], s[i + n - 1])
    IN  {n \in digits : state[n] \in {"int", "frac", "exp", "efrac"}}

(* Mutant of MatchNumber: what stands behind the number is not looked at.       *)
MatchNumberGreedy(s, i) ==
    LET lens == NumberLens(s, i)
        n == CHOOSE n \in lens : \A m \in lens : m <= n
    IN  IF lens = {} THEN Matched("incomplete_eof", "number", 1)
        ELSE Matched("complete", "number", n)

(* match_number.  The expression of a truncated number matches every text, so   *)
(* what is no number is incomplete.                                             *)
MatchNumber(s, i) ==
    LET lens == NumberLens(s, i)
        n == CHOOSE n \in lens : \A m \in lens : m <= n
    IN  CASE lens = {} -> Matched("incomplete_eof", "number", 1)
          [] lens # {} /\ i + n > Len(s) -> Matched("complete_eof", "number", n)
          [] lens # {} /\ i + n <= Len(s) ->
               Matched(IF s[i + n] \in {".", "-", "e"} THEN "incomplete_eof" ELSE "complete", "number", n)

(* match_string: f[k] scans from the k-th character behind the first quote.     *)
MatchString(s, i) ==
    LET f[k \in 1 .. Len(s) + 2] ==
            CASE Peek(s, i + k) = "end" -> Matched("incomplete_eof", "string", k)
              [] Peek(s, i + k) = "q" -> Matched("complete", "string", k + 1)
              [] Peek(s, i + k) = "b" ->
                   IF i + k = Len(s) THEN Matched("incomplete_eof", "string", k) ELSE f[k + 2]
              [] OTHER -> f[k + 1]
    IN  f[1]

MatchWhitespace(s, i) ==
    LET n == CHOOSE n \in 1 .. Len(s) - i + 1 :
                 /\ \A k \in 0 .. n - 1 : s[i + k] = " "
                 /\ Peek(s, i + n) # " "
    IN  Matched(IF i + n > Len(s) THEN "complete_eof" ELSE "complete", "whitespace", n)

MatchComment(s, i) ==
    LET closed == {n \in 4 .. Len(s) - i + 1 : s[i + n - 2] = "*" /\ s[i + n - 1] = "/"}
    IN  CASE i = Len(s) -> Matched("incomplete_eof", "comment", 1)
          [] i < Len(s) /\ s[i + 1] # "*" -> Matched("unmatched", "comment", 1)
          [] i < Len(s) /\ s[i + 1] = "*" ->
               IF closed = {} THEN Matched("incomplete_eof", "comment", Len(s) - i + 1)
               ELSE Matched("complete", "comment", CHOOSE n \in closed : \A m \in closed : n <= m)

(* attempt_match at place i of s.                                               *)
Match(s, i) ==
    LET c == Peek(s, i)
    IN  CASE c = "end" -> Matched("incomplete_eof", "unknown", 0)
          [] c \in {"[", "]", "{", "}", ":", ","} -> Matched("complete", c, 1)
          [] c = "t" -> MatchLiteral(s, i, "boolean", "r")
          [] c = "f" -> MatchLiteral(s, i, "boolean", "a")
          [] c = "n" -> MatchLiteral(s, i, "null", "u")
          [] c \in {"-", "1"} -> MatchNumber(s, i)
          [] c = "q" -> MatchString(s, i)
          [] c = " " -> MatchWhitespace(s, i)
          [] c = "/" -> MatchComment(s, i)
          [] OTHER -> Matched("unmatched", "unknown", 1)

AtEof(m) == m.result \in {"complete_eof", "incomplete_eof"}

(* The kind with the error indicator.                                           *)
Erred(kind) == <<kind, "error">>
Plain(kind) == <<kind>>

------------------------------------------------------------------------------
NoText == [null |-> TRUE, pos |-> 0, len |-> 0, kind |-> <<"unknown">>]

Init ==
    /\ input \in Inputs
    /\ rest = input.text /\ fail = FALSE
    /\ buffer = <<>> /\ cap = input.min /\ cur = NoText
    /\ nth = FALSE /\ pc = "idle" /\ given = <<>> /\ ends = 0

Position == IF cur.null THEN 0 ELSE cur.pos

(* The place in the buffer that read_input keeps.                               *)
Kept == IF Position = Len(buffer) THEN 0 ELSE Position

(* Mutant of Reused: more is asked for than the buffer holds.                   *)
ReusedTwice == [size |-> 2 * cap, off |-> 0, cap |-> cap, buffer |-> buffer \o Zeros(cap - Len(buffer))]

(* Mutant of Grown: the buffer is filled from its start when it grows.          *)
GrownOver ==
    [size |-> input.min, off |-> 0, cap |-> Larger(cap, Len(buffer) + input.min),
     buffer |-> buffer \o Zeros(input.min)]

(* How the buffer grows or is used again: how many characters are asked for,    *)
(* from where on they are put, and the buffer before.                           *)
Grown ==
    [size |-> input.min, off |-> Len(buffer),
     cap |-> IF Len(buffer) + input.min <= cap THEN cap ELSE Len(buffer) + Larger(Len(buffer), input.min),
     buffer |-> buffer \o Zeros(input.min)]
Reused == [size |-> cap, off |-> 0, cap |-> cap, buffer |-> buffer \o Zeros(cap - Len(buffer))]

(* read_input.  Nothing read leaves the buffer as large as it was made.         *)
CanRead == rest # <<>>
ReadInput(r) ==
    LET n == Smaller(r.size, Len(rest))
    IN  /\ rest' = Slice(rest, n + 1, Len(rest))
        /\ fail' = (fail \/ n < r.size)
        /\ cap' = r.cap
        /\ IF CanRead
           THEN /\ buffer' = Slice(buffer, 1, r.off) \o Slice(rest, 1, n)
                /\ cur' = [cur EXCEPT !.null = FALSE, !.pos = Kept]
           ELSE buffer' = r.buffer

(* next: the text before is left behind.                                        *)
CallNext ==
    /\ pc = "idle" /\ Len(given) + ends < MaxCalls
    /\ cur' = [cur EXCEPT !.pos = @ + cur.len, !.len = 0]
    /\ nth' = FALSE /\ pc' = "loop"
    /\ UNCHANGED <<input, rest, fail, buffer, cap, given, ends>>

(* next returns FALSE: there is no current text.                                *)
Invalid ==
    /\ cur' = NoText /\ ends' = ends + 1 /\ pc' = "idle"

(* The top of its loop: the buffer is filled when all of it was used.           *)
Fill ==
    /\ pc = "loop"
    /\ IF buffer = <<>> \/ Position = Len(buffer)
       THEN /\ ReadInput(IF nth THEN Grown ELSE Reused)
            /\ IF CanRead THEN nth' = TRUE /\ pc' = "match" /\ UNCHANGED ends
               ELSE Invalid /\ UNCHANGED nth
       ELSE pc' = "match" /\ UNCHANGED <<rest, fail, buffer, cap, cur, nth, ends>>
    /\ UNCHANGED <<input, given>>

Valid(m, kind, b) ==
    /\ cur' = [null |-> FALSE, pos |-> Position, len |-> m.len, kind |-> kind]
    /\ given' = Append(given, [text |-> Slice(b, Position + 1, Position + m.len), kind |-> kind])
    /\ pc' = "idle"

(* Mutant of Attempt: an incomplete token is tried again at the end too.        *)
AttemptAgain ==
    /\ pc = "match"
    /\ LET m == Match(buffer, Position + cur.len + 1) IN
       CASE AtEof(m) /\ CanRead -> ReadInput(Grown) /\ pc' = "loop" /\ UNCHANGED given
         [] m.result = "incomplete_eof" /\ ~CanRead ->
              pc' = "loop" /\ UNCHANGED <<rest, fail, cap, buffer, cur, given>>
         [] OTHER ->
              /\ Valid(m, IF m.result = "unmatched" THEN Erred(m.kind) ELSE Plain(m.kind), buffer)
              /\ UNCHANGED <<rest, fail, buffer, cap>>
    /\ UNCHANGED <<input, nth, ends>>

(* ... and the rest of it.  A token that reaches the end of the buffer is       *)
(* matched again with more of the stream.                                       *)
Attempt ==
    /\ pc = "match"
    /\ LET m == Match(buffer, Position + cur.len + 1) IN
       CASE AtEof(m) /\ CanRead -> ReadInput(Grown) /\ pc' = "loop" /\ UNCHANGED given
         [] AtEof(m) /\ ~CanRead ->
              /\ rest' = rest /\ fail' = TRUE /\ cap' = Grown.cap /\ buffer' = Grown.buffer
              /\ Valid(m, IF m.result = "incomplete_eof" THEN Erred(m.kind) ELSE Plain(m.kind), buffer)
         [] OTHER ->
              /\ Valid(m, IF m.result = "unmatched" THEN Erred(m.kind) ELSE Plain(m.kind), buffer)
              /\ UNCHANGED <<rest, fail, buffer, cap>>
    /\ UNCHANGED <<input, nth, ends>>

(* The destructor puts characters of the buffer back, which a stream that       *)
(* failed does not take.                                                        *)
Destroy ==
    /\ pc = "idle" /\ pc' = "gone"
    /\ rest' = IF cur.len > 0 /\ buffer # <<>> /\ ~fail
               THEN Slice(buffer, Position + 2, Len(buffer)) \o rest ELSE rest
    /\ UNCHANGED <<input, fail, buffer, cap, cur, nth, given, ends>>

Next == CallNext \/ Fill \/ Attempt \/ Destroy
Spec == Init /\ [][Next]_vars /\ WF_vars(Fill \/ Attempt)

------------------------------------------------------------------------------
Text(s) == SelectSeq(s, LAMBDA c : c # Nul)
GivenText == FlattenSeq([k \in DOMAIN given |-> given[k].text])

(* The tokens of a text that is in the buffer as a whole.                       *)
Reference(s) ==
    LET f[i \in 1 .. Len(s) + 1] ==
            IF i > Len(s) THEN <<>>
            ELSE LET m == Match(s, i) IN
                 <<[text |-> Slice(s, i, i + m.len - 1),
                    kind |-> IF m.result \in {"unmatched", "incomplete_eof"} THEN Erred(m.kind) ELSE Plain(m.kind)]>>
                   \o f[i + m.len]
    IN  f[1]
Stripped(tokens) ==
    SelectSeq([k \in DOMAIN tokens |-> [text |-> Text(tokens[k].text), kind |-> tokens[k].kind]],
              LAMBDA t : t.text # <<>>)

(* The text of the current token is inside the buffer, as position_in_buffer    *)
(* asserts.                                                                     *)
TypeOK ==
    /\ ~cur.null => cur.pos + cur.len <= Len(buffer)
    /\ pc \in {"idle", "loop", "match", "gone"} /\ fail \in BOOLEAN /\ nth \in BOOLEAN
    /\ Len(buffer) <= cap
    /\ ends \in 0 .. MaxCalls

(* Until the end no character is lost or given twice: the tokens, what the      *)
(* buffer holds behind them and the stream are the text.                        *)
NothingLost ==
    ends = 0 /\ pc # "gone" =>
        Text(GivenText) \o Text(Slice(buffer, Position + cur.len + 1, Len(buffer))) \o rest = input.text

(* The tokens up to the first that is in error do not depend on where the       *)
(* buffer ended while they were read.                                           *)
BeforeError(tokens) ==
    Slice(tokens, 1, CHOOSE n \in 0 .. Len(tokens) :
                         /\ \A k \in 1 .. n : Len(tokens[k].kind) = 1
                         /\ n = Len(tokens) \/ Len(tokens[n + 1].kind) = 2)
SameTokens ==
    LET got == BeforeError(Stripped(given))
        due == BeforeError(Reference(input.text))
    IN  ends = 0 => /\ IsPrefix(got, due)
                    /\ pc = "idle" /\ Text(GivenText) = input.text => got = due

(* Every call of next returns.                                                  *)
NextReturns == (pc \in {"loop", "match"}) ~> (pc = "idle")

(* next returns TRUE for as many characters as the stream has, and never after  *)
(* its end.                                                                     *)
TrueMeansToken == Len(GivenText) <= Len(input.text)

(* The stream goes on behind the last token when the tokenizer is destroyed and *)
(* the stream takes characters back.                                            *)
PutsTheRestBack ==
    pc = "gone" /\ ~fail /\ cur.len > 0 => GivenText \o rest = input.text
==============================================================================
