------------------------------ MODULE JsonvParse ------------------------------
(* parse of jsonv: a parser that calls itself for the values inside a value and *)
(* takes tokens from a tokenizer, which begins with its old buffer again when   *)
(* it is asked on behind the end.  Tokens are names: brackets, "," and ":", the *)
(* strings "a" and "b", "bad" a string that does not decode, the numbers of     *)
(* NumberKind, "true", "null", "ws" white space, "c" a comment, "x" a token in  *)
(* error, and "nul" a byte that is 0.  A frame of stack is a call of            *)
(* parse_array or parse_object.                                                 *)
EXTENDS Integers, Sequences, FiniteSets, SequencesExt

CONSTANT Inputs    \* records [toks, opts], with the fields of parse_options in opts

VARIABLES
    input,
    at, again,     \* the tokens taken, and whether the buffer is read again
    tok,           \* the current token, "none" when there is none
    complete, character,
    stack, pc,
    ret,           \* what parse_generic returned: [ok, val]
    problems, successful,
    outcome        \* {} or what parse did: [kind, val]

vars == <<input, at, again, tok, complete, character, stack, pc, ret, problems, successful, outcome>>

opts == input.opts
Scalar(k) == [k |-> k, items |-> <<>>]
Null == Scalar("null")

(* The options of create_strict, and the ones a new parse_options has.          *)
create_strict ==
    [failure_mode |-> "fail_immediately", max_failures |-> 10, numbers |-> "strict",
     commas |-> "strict", max_structure_depth |-> 20, require_document |-> TRUE,
     complete_parse |-> TRUE, comments |-> FALSE]
create_default ==
    [failure_mode |-> "fail_immediately", max_failures |-> 10, numbers |-> "decimal",
     commas |-> "allow_trailing", max_structure_depth |-> 0, require_document |-> FALSE,
     complete_parse |-> TRUE, comments |-> TRUE]

(* Numbers: whether they begin with 0, and what the casts of parse_number make  *)
(* of them.  "over63" is cast to unsigned 64 bits and stored with its sign.     *)
NumberKind(t) ==
    CASE t \in {"1", "01", "-01"} -> "integer"
      [] t \in {"0.5", "1.5", "over64", "1e5"} -> "decimal"
      [] t = "over63" -> "negative"
      [] t = "1e5.5" -> "none"
Numbers == {"1", "01", "-01", "0.5", "1.5", "over64", "1e5", "over63", "1e5.5"}
BeginsWith0 == {"01", "0.5"}
Strings == {"a", "b", "bad"}
Skipped == {"ws", "c"}
Size(t) == IF t \in {"[", "]", "{", "}", ":", ",", "1", "x", "nul", "ws"} THEN 1 ELSE 3

(* The tokens of the buffer.  Zeros are behind them once a read got nothing,    *)
(* which it does before the end for a token that might go on.                   *)
Buffered ==
    IF again \/ (input.toks # <<>> /\ Last(input.toks) \in Numbers \cup {"ws"})
    THEN Append(input.toks, "nul") ELSE input.toks

Init ==
    /\ input \in Inputs
    /\ at = 0 /\ again = FALSE /\ tok = "none"
    /\ complete = FALSE /\ character = 0
    /\ stack = <<>> /\ pc = "generic" /\ ret = [ok |-> FALSE, val |-> Null]
    /\ problems = <<>> /\ successful = TRUE /\ outcome = {}

------------------------------------------------------------------------------
(* parse_context::next: the token that is neither blank nor a comment, whether  *)
(* there is one, and the comments that are complained about.                    *)
NextAt ==
    CHOOSE j \in at + 1 .. Len(Buffered) + 1 :
        /\ \A k \in at + 1 .. j - 1 : Buffered[k] \in Skipped
        /\ j > Len(Buffered) \/ Buffered[j] \notin Skipped
HasNext == NextAt <= Len(Buffered)
Token == IF HasNext THEN Buffered[NextAt] ELSE "none"

(* Mutant of Offset: a comment is not counted.                                  *)
OffsetNoComments(j) ==
    LET f[k \in 0 .. Len(Buffered)] ==
            IF k = 0 THEN 0 ELSE f[k - 1] + (IF Buffered[k] = "c" THEN 0 ELSE Size(Buffered[k]))
    IN  character + (IF complete THEN 0 ELSE f[j - 1] - f[IF at = 0 THEN 0 ELSE at - 1])

(* The character when token j is current.                                       *)
Offset(j) ==
    LET f[k \in 0 .. Len(Buffered)] == IF k = 0 THEN 0 ELSE f[k - 1] + Size(Buffered[k])
    IN  character + (IF complete THEN 0 ELSE f[j - 1] - f[IF at = 0 THEN 0 ELSE at - 1])

CommentErrors ==
    LET bad == SelectSeq([k \in 1 .. NextAt - 1 - at |-> at + k], LAMBDA j : Buffered[j] = "c")
    IN  IF opts.comments THEN <<>> ELSE [k \in DOMAIN bad |-> Offset(bad[k])]
Here == Offset(NextAt)

(* Mutant of Advance: the end of the input is not remembered.                   *)
AdvanceOn ==
    /\ tok' = Token
    /\ character' = Here
    /\ IF HasNext THEN at' = NextAt /\ UNCHANGED <<again, complete>>
       ELSE at' = 0 /\ complete' = TRUE /\ UNCHANGED again

Advance ==
    /\ tok' = Token
    /\ character' = Here
    /\ IF HasNext THEN at' = NextAt /\ UNCHANGED <<again, complete>>
       ELSE at' = 0 /\ again' = TRUE /\ complete' = TRUE
Stay == UNCHANGED <<at, again, tok, complete, character>>

(* Mutant of Cap: the list may be one longer.                                   *)
CapOff(list) == SubSeq(list, 1, IF Len(list) <= opts.max_failures + 1 THEN Len(list) ELSE opts.max_failures + 1)

Cap(list) == SubSeq(list, 1, IF Len(list) <= opts.max_failures THEN Len(list) ELSE opts.max_failures)

(* parse_error for each place of errors, in a step that goes on in s: the first *)
(* is thrown when the mode is to fail immediately.                              *)
Report(errors, s) ==
    IF errors # <<>> /\ opts.failure_mode = "fail_immediately"
    THEN /\ outcome' = {[kind |-> "throw", val |-> Null]} /\ pc' = "done"
         /\ UNCHANGED <<problems, successful>>
    ELSE /\ pc' = s
         /\ successful' = (successful /\ errors = <<>>)
         /\ problems' = Cap(problems \o errors)
         /\ UNCHANGED outcome

OneIf(test) == IF test THEN <<Here>> ELSE <<>>
Top == Last(stack)
Returns(ok, val) == ret' = [ok |-> ok, val |-> val]

(* Where the caller goes on: the frame below, or parse itself.                  *)
Caller(frames) ==
    IF frames = <<>> THEN "top" ELSE IF Last(frames).k = "array" THEN "element" ELSE "member"

(* A call of parse_array or parse_object returns.                               *)
Leave(ok, errors) ==
    /\ stack' = Front(stack)
    /\ Returns(ok, [k |-> Top.k, items |-> Top.items])
    /\ Report(errors, Caller(Front(stack)))

------------------------------------------------------------------------------
(* parse_generic that advances.                                                 *)
Generic ==
    /\ pc = "generic" /\ Advance
    /\ IF HasNext THEN Report(CommentErrors, "dispatch") /\ UNCHANGED ret
       ELSE Report(CommentErrors, Caller(stack)) /\ Returns(FALSE, Null)
    /\ UNCHANGED <<input, stack>>

ScalarOf(t) ==
    CASE t \in Numbers -> IF NumberKind(t) = "none" THEN Null ELSE Scalar(NumberKind(t))
      [] t \in Strings -> Scalar(t)
      [] OTHER -> Scalar(t)

(* parse_number: the complaint of a leading zero, and of text no cast takes.    *)
NumberErrors(t) ==
    (IF opts.numbers = "strict" /\ t \in BeginsWith0 THEN <<character>> ELSE <<>>)
      \o (IF NumberKind(t) = "none" THEN <<character>> ELSE <<>>)

(* Mutant of Dispatch: an invalid token is passed over and the value is null.   *)
DispatchPasses ==
    /\ pc = "dispatch"
    /\ IF tok \in {"[", "{"}
       THEN /\ stack' = Append(stack, [k |-> IF tok = "[" THEN "array" ELSE "object",
                                       trailing |-> FALSE, key |-> "none", items |-> <<>>])
            /\ pc' = IF tok = "[" THEN "array" ELSE "object"
            /\ UNCHANGED <<ret, problems, successful, outcome>>
       ELSE /\ Returns(TRUE, ScalarOf(tok)) /\ UNCHANGED stack
            /\ Report(IF tok \in Numbers THEN NumberErrors(tok) ELSE <<>>, Caller(stack))
    /\ Stay /\ UNCHANGED input

(* The switch of parse_generic.                                                 *)
Dispatch ==
    /\ pc = "dispatch"
    /\ CASE tok \in {"[", "{"} ->
              /\ stack' = Append(stack, [k |-> IF tok = "[" THEN "array" ELSE "object",
                                         trailing |-> FALSE, key |-> "none", items |-> <<>>])
              /\ pc' = IF tok = "[" THEN "array" ELSE "object"
              /\ UNCHANGED <<ret, problems, successful, outcome>>
         [] tok \in Numbers \cup Strings \cup {"true", "null"} ->
              /\ Returns(TRUE, ScalarOf(tok)) /\ UNCHANGED stack
              /\ Report(IF tok \in Numbers THEN NumberErrors(tok)
                        ELSE IF tok = "bad" THEN <<character>> ELSE <<>>, Caller(stack))
         [] tok \in {"]", "}", ":", ",", "x", "nul"} ->
              /\ Report(<<character>>, "forward") /\ UNCHANGED <<ret, stack>>
    /\ Stay /\ UNCHANGED input

Separators == {"[", "{", ":", "]", "}", ","}

(* Mutant of Forward: nothing is returned behind the end of the input.          *)
ForwardOn ==
    /\ pc = "forward" /\ Advance
    /\ IF Token \notin Separators
       THEN Report(CommentErrors, "forward") /\ UNCHANGED ret
       ELSE Report(CommentErrors, Caller(stack)) /\ Returns(HasNext, Null)
    /\ UNCHANGED <<input, stack>>

(* forward_to_separator: one token.                                             *)
Forward ==
    /\ pc = "forward" /\ Advance
    /\ IF HasNext /\ Token \notin Separators
       THEN Report(CommentErrors, "forward") /\ UNCHANGED ret
       ELSE Report(CommentErrors, Caller(stack)) /\ Returns(HasNext, Null)
    /\ UNCHANGED <<input, stack>>

(* parse_array: at an element or the end.                                       *)
Array ==
    /\ pc = "array" /\ Advance
    /\ CASE ~HasNext -> Leave(FALSE, CommentErrors \o <<Here>>)
         [] Token = "]" ->
              Leave(TRUE, CommentErrors \o OneIf(Top.trailing /\ opts.commas # "allow_trailing"))
         [] OTHER -> Report(CommentErrors, "dispatch") /\ UNCHANGED <<stack, ret>>
    /\ UNCHANGED input

Replaced(frame) == Front(stack) \o <<frame>>
Item(key, val) == <<[key |-> key, val |-> val]>>

(* ... and behind an element, which is there if it was parsed.                  *)
Element ==
    /\ pc = "element" /\ Advance
    /\ LET items == IF ret.ok THEN Top.items \o Item("none", ret.val) ELSE Top.items
           trailing == IF ret.ok THEN FALSE ELSE Top.trailing
       IN  IF HasNext /\ Token # "]"
           THEN /\ stack' = Replaced([Top EXCEPT !.items = items, !.trailing = (Token = ",") \/ trailing])
                /\ Report(CommentErrors \o OneIf(Token # ","), "array") /\ UNCHANGED ret
           ELSE /\ stack' = Front(stack) /\ Returns(HasNext, [k |-> "array", items |-> items])
                /\ Report(CommentErrors \o OneIf(~HasNext), Caller(Front(stack)))
    /\ UNCHANGED input

(* parse_object: at a key or the end.                                           *)
Object ==
    /\ pc = "object" /\ Advance
    /\ CASE ~HasNext -> Leave(FALSE, CommentErrors \o <<Here>>)
         [] Token = "}" ->
              Leave(TRUE, CommentErrors \o OneIf(Top.trailing /\ opts.commas # "allow_trailing"))
         [] OTHER ->
              /\ stack' = Replaced([Top EXCEPT !.key = Token, !.trailing = Token \notin Strings /\ @])
              /\ Report(CommentErrors \o OneIf(Token \notin {"a", "b"}), "delimiter")
              /\ UNCHANGED ret
    /\ UNCHANGED input

(* ... at the delimiter ...                                                     *)
Delimiter ==
    /\ pc = "delimiter" /\ Advance
    /\ IF HasNext
       THEN Report(CommentErrors \o OneIf(Token # ":"), "generic") /\ UNCHANGED <<stack, ret>>
       ELSE Leave(FALSE, CommentErrors \o <<Here>>)
    /\ UNCHANGED input

(* An insert, or the new value of a key that is there.                          *)
Put(items, key, val) ==
    IF \E i \in DOMAIN items : items[i].key = key
    THEN [i \in DOMAIN items |-> IF items[i].key = key THEN [items[i] EXCEPT !.val = val] ELSE items[i]]
    ELSE items \o Item(key, val)
Has(items, key) == \E i \in DOMAIN items : items[i].key = key

(* ... and behind the value of a member.                                        *)
Member ==
    /\ pc = "member"
    /\ IF ~ret.ok THEN Leave(FALSE, <<character>>) /\ Stay
       ELSE /\ Advance
            /\ LET items == Put(Top.items, Top.key, ret.val)
                   twice == IF Has(Top.items, Top.key) THEN <<character>> ELSE <<>>
               IN  IF HasNext /\ Token # "}"
                   THEN /\ stack' = Replaced([Top EXCEPT !.items = items, !.trailing = (Token = ",") \/ @])
                        /\ Report(twice \o CommentErrors \o OneIf(Token # ","), "object") /\ UNCHANGED ret
                   ELSE /\ stack' = Front(stack) /\ Returns(HasNext, [k |-> "object", items |-> items])
                        /\ Report(twice \o CommentErrors \o OneIf(~HasNext), Caller(Front(stack)))
    /\ UNCHANGED input

(* parse behind parse_generic.                                                  *)
Parsed ==
    /\ pc = "top"
    /\ Report(IF ret.ok THEN <<>> ELSE <<character>>, "rest")
    /\ Stay /\ UNCHANGED <<input, stack, ret>>

(* post_parse: what is behind the value may only be zeros.                      *)
Rest ==
    /\ pc = "rest"
    /\ IF successful /\ opts.complete_parse
       THEN Advance /\ Report(CommentErrors \o OneIf(HasNext /\ Token # "nul"), IF HasNext THEN "rest" ELSE "post")
       ELSE Stay /\ pc' = "post" /\ UNCHANGED <<problems, successful, outcome>>
    /\ UNCHANGED <<input, stack, ret>>

(* depth_checker: how often the depth comes to the maximum.                     *)
RECURSIVE Reached(_, _)
Reached(val, depth) ==
    IF val.k \notin {"array", "object"} THEN 0
    ELSE LET below == [i \in DOMAIN val.items |-> Reached(val.items[i].val, depth + 1)]
         IN  (IF depth + 1 = opts.max_structure_depth THEN 1 ELSE 0)
               + FoldLeft(LAMBDA x, y : x + y, 0, below)

(* The rest of post_parse.                                                      *)
Finish ==
    /\ pc = "post"
    /\ LET root == IF successful /\ opts.require_document /\ ret.val.k \notin {"array", "object"}
                   THEN <<character>> ELSE <<>>
           deep == IF opts.max_structure_depth > 0
                   THEN [i \in 1 .. Reached(ret.val, 0) |-> character] ELSE <<>>
           good == successful /\ root \o deep = <<>>
       IN  IF root \o deep # <<>> /\ opts.failure_mode = "fail_immediately"
           THEN Report(root \o deep, "done")
           ELSE /\ successful' = good
                /\ problems' = Cap(problems \o root \o deep)
                /\ outcome' = {[kind |-> IF good \/ opts.failure_mode = "ignore" THEN "value" ELSE "throw",
                                val |-> ret.val]}
    /\ pc' = "done" /\ Stay /\ UNCHANGED <<input, stack, ret>>

Next ==
    \/ Generic \/ Dispatch \/ Forward \/ Array \/ Element \/ Object \/ Delimiter \/ Member
    \/ Parsed \/ Rest \/ Finish
Spec == Init /\ [][Next]_vars /\ WF_vars(Next)

------------------------------------------------------------------------------
(* A reference: the values the tokens from i on may be, each with the place     *)
(* behind it, under the options.                                                *)
Written == SelectSeq(input.toks, LAMBDA t : t \notin Skipped)
Significant ==    \* zeros at the end are none of the text
    SubSeq(Written, 1, CHOOSE n \in 0 .. Len(Written) :
        /\ n = 0 \/ Written[n] # "nul"
        /\ \A k \in n + 1 .. Len(Written) : Written[k] = "nul")
T(i) == IF i <= Len(Significant) THEN Significant[i] ELSE "end"
GoodNumber(t) == NumberKind(t) # "none" /\ ~(opts.numbers = "strict" /\ t \in BeginsWith0)

RECURSIVE Values(_), Items(_, _, _)
Values(i) ==
    CASE T(i) \in {"a", "b", "true", "null"} -> {[val |-> Scalar(T(i)), next |-> i + 1]}
      [] T(i) \in Numbers -> IF GoodNumber(T(i)) THEN {[val |-> Scalar(NumberKind(T(i))), next |-> i + 1]} ELSE {}
      [] T(i) = "[" -> Items("array", i + 1, <<>>)
      [] T(i) = "{" -> Items("object", i + 1, <<>>)
      [] OTHER -> {}

(* ... of an array or object of which some items were read.                     *)
Items(k, i, items) ==
    LET close == IF k = "array" THEN "]" ELSE "}"
        first == IF k = "array" THEN i ELSE i + 2
        named == k = "array" \/ (T(i) \in {"a", "b"} /\ T(i + 1) = ":" /\ ~Has(items, T(i)))
        key == IF k = "array" THEN "none" ELSE T(i)
    IN  IF T(i) = close
        THEN IF items = <<>> \/ opts.commas = "allow_trailing"
             THEN {[val |-> [k |-> k, items |-> items], next |-> i + 1]} ELSE {}
        ELSE IF ~named THEN {}
        ELSE UNION {LET more == items \o Item(key, v.val) IN
                    CASE T(v.next) = close -> {[val |-> [k |-> k, items |-> more], next |-> v.next + 1]}
                      [] T(v.next) = "," -> Items(k, v.next + 1, more)
                      [] OTHER -> {} : v \in Values(first)}

RECURSIVE Depth(_)
Depth(val) ==
    IF val.k \notin {"array", "object"} THEN 0
    ELSE LET below == {Depth(val.items[i].val) : i \in DOMAIN val.items}
         IN  1 + CHOOSE d \in below \cup {0} : \A e \in below : e <= d

(* The value of the text, when the text is one.                                 *)
Right ==
    {v.val : v \in {v \in Values(1) :
        /\ opts.complete_parse => v.next = Len(Significant) + 1
        /\ opts.require_document => v.val.k \in {"array", "object"}
        /\ opts.max_structure_depth > 0 => Depth(v.val) < opts.max_structure_depth
        /\ opts.comments \/ \A k \in DOMAIN input.toks : input.toks[k] # "c"}}

TypeOK ==
    /\ at \in 0 .. Len(Buffered) /\ character \in Nat /\ successful \in BOOLEAN
    /\ (complete => again)
    /\ Cardinality(outcome) <= 1
    /\ pc = "done" <=> outcome # {}

(* A text is parsed into its value and no other text is, but when all errors    *)
(* are ignored.                                                                 *)
ParsesTheText ==
    \A o \in outcome :
        /\ Right # {} => o.kind = "value" /\ Right = {o.val}
        /\ Right = {} => o.kind = "throw" \/ opts.failure_mode = "ignore"

(* No more problems than asked for are collected, and a result is thrown        *)
(* exactly when there was one.                                                  *)
ProblemsCapped == Len(problems) <= opts.max_failures /\ (problems # <<>> => ~successful)

(* The character reported with a problem is the place of the current token in   *)
(* the text, blanks and comments counted.                                       *)
CharacterIsPlace ==
    ~complete /\ at > 0 =>
        character = FoldLeft(LAMBDA n, t : n + Size(t), 0, SubSeq(Buffered, 1, at - 1))

(* A text that ends too early is still answered.                                *)
ParseEnds == <>(pc = "done")

(* Some depth up to and including the maximum is taken.                         *)
MaximumDepthIsAllowed ==
    \A o \in outcome : o.kind = "throw" /\ opts.max_structure_depth > 0 =>
        \A v \in Values(1) : v.next = Len(Significant) + 1 => Depth(v.val) > opts.max_structure_depth

(* The casts of parse_number take every number token.                           *)
NumbersAreTaken == pc = "dispatch" /\ tok \in Numbers => NumberKind(tok) # "none"

(* A number without a leading zero is taken in strict mode.                     *)
StrictTakesNumbers ==
    \A o \in outcome : o.kind = "throw" => input.toks \notin {<<"[", n, "]">> : n \in {"1", "0.5", "1.5"}}

(* No token is taken any more when the greatest number of failures is there.    *)
FailuresEnd == [][Len(problems) = opts.max_failures /\ HasNext => at' = at]_vars
==============================================================================
