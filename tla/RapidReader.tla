------------------------------ MODULE RapidReader ------------------------------
(* The three ways rapidjson/reader.h parses a text and calls its handler: the   *)
(* recursive Parse (its calls are the frames of stack here), IterativeParse     *)
(* with its table of states, and IterativeParseNext, which a caller asks for    *)
(* one event after the other.  The same text is parsed by each in turn.         *)
(* A text is a sequence of "{", "}", "[", "]", ",", ":", of "s" a string, "S" a *)
(* string that has an error, "1" a number, "n" a literal name, "x" anything     *)
(* else, " " white space, "c" a whole comment and "/" a slash that begins none. *)
EXTENDS Naturals, Sequences, FiniteSets, SequencesExt

CONSTANTS
    Inputs,    \* records [text, flags, stop]: stop is the event the handler refuses, 0 for none
    Modes      \* the parsers, in the order they are run

VARIABLES
    input, mode,
    at,        \* the place in the text
    stack,     \* recursive: frames [kind, n]; else [state, n] of Transit
    state,     \* the place in the recursive parser, or the IterativeParsingState
    events,    \* the calls of the handler
    error,     \* {} or the one parse error [code, off]
    returned,  \* of IterativeParseNext: what the last call returned
    assertion, \* a RAPIDJSON_ASSERT failed
    results    \* per parser what it left

vars == <<input, mode, at, stack, state, events, error, returned, assertion, results>>

Flag(f) == f \in input.flags
Peek(i) == IF i <= Len(input.text) THEN input.text[i] ELSE "end"

(* Mutant of Skip: the character behind the blanks is taken too.                *)
SkipPast(i) ==
    LET j == CHOOSE j \in i .. Len(input.text) + 1 :
                 Peek(j) # " " /\ \A k \in i .. j - 1 : Peek(k) = " "
    IN  [at |-> j + 1, bad |-> FALSE]

(* SkipWhitespace and SkipWhitespaceAndComments: the place reached, and whether *)
(* a slash began no comment.                                                    *)
Skip(i) ==
    LET blank == {" "} \cup (IF Flag("comments") THEN {"c"} ELSE {})
        j == CHOOSE j \in i .. Len(input.text) + 1 :
                 Peek(j) \notin blank /\ \A k \in i .. j - 1 : Peek(k) \in blank
    IN  IF Flag("comments") /\ Peek(j) = "/" THEN [at |-> j + 1, bad |-> TRUE]
        ELSE [at |-> j, bad |-> FALSE]

Err(code, off) == {[code |-> code, off |-> off]}

(* One call of the handler, which may refuse to go on.                          *)
Refuses == Len(events) + 1 = input.stop
Call(name, n) == events' = Append(events, [name |-> name, n |-> n])

Init ==
    /\ input \in Inputs
    /\ mode = 1 /\ at = 1 /\ stack = <<>> /\ state = "start"
    /\ events = <<>> /\ error = {} /\ returned = TRUE /\ assertion = FALSE
    /\ results = <<>>

Is(m) == mode <= Len(Modes) /\ Modes[mode] = m

Fail(e) ==
    /\ error' = e /\ state' = "stopped"
    /\ assertion' = (assertion \/ error # {})
Continue(s) == state' = s /\ UNCHANGED <<error, assertion>>

(* Skip, and go on in s unless the comment is bad.                              *)
SkipTo(i, s) ==
    LET k == Skip(i) IN
    at' = k.at /\ IF k.bad THEN Fail(Err("UnspecificSyntaxError", k.at)) ELSE Continue(s)

Parse ==
    /\ Is("recursive") /\ state = "start"
    /\ LET k == Skip(at) IN
       /\ at' = k.at
       /\ CASE k.bad -> Fail(Err("UnspecificSyntaxError", k.at))
            [] Peek(k.at) = "end" -> Fail(Err("DocumentEmpty", k.at))
            [] OTHER -> Continue("value")
    /\ UNCHANGED <<input, mode, stack, events, returned, results>>

Scalars == {"s", "1", "n"}

(* ParseNull, ParseTrue, ParseFalse, ParseString and ParseNumber of a value.    *)
ParseScalar(s) ==
    IF Peek(at) \in Scalars
    THEN /\ Call("Value", 0) /\ at' = at + 1
         /\ IF Refuses THEN Fail(Err("Termination", at + 1)) ELSE Continue(s)
    ELSE /\ Fail(Err(IF Peek(at) = "S" THEN "String" ELSE "ValueInvalid", at))
         /\ UNCHANGED <<at, events>>

ParseValue ==
    /\ Is("recursive") /\ state = "value" /\ Peek(at) \notin {"{", "["}
    /\ ParseScalar("after")
    /\ UNCHANGED <<input, mode, stack, returned, results>>

(* ParseObject and ParseArray up to their first member or element.              *)
Open ==
    /\ Is("recursive") /\ state = "value" /\ Peek(at) \in {"{", "["}
    /\ LET object == Peek(at) = "{"
           k == Skip(at + 1)
       IN  /\ stack' = Append(stack, [kind |-> IF object THEN "object" ELSE "array", n |-> 0])
           /\ Call(IF object THEN "StartObject" ELSE "StartArray", 0)
           /\ at' = IF Refuses THEN at + 1 ELSE k.at
           /\ CASE Refuses -> Fail(Err("Termination", at + 1))
                [] k.bad -> Fail(Err("UnspecificSyntaxError", k.at))
                [] ~Refuses /\ ~k.bad /\ Peek(k.at) = (IF object THEN "}" ELSE "]") -> Continue("empty")
                [] OTHER -> Continue(IF object THEN "key" ELSE "value")
    /\ UNCHANGED <<input, mode, returned, results>>

Top == Last(stack)
End(kind) == IF kind = "object" THEN "EndObject" ELSE "EndArray"

(* Mutant of CloseEmpty: an empty array or object is counted as one element.    *)
CloseEmptyOne ==
    /\ Is("recursive") /\ state = "empty"
    /\ Call(End(Top.kind), 1) /\ at' = at + 1 /\ stack' = Front(stack)
    /\ IF Refuses THEN Fail(Err("Termination", at + 1)) ELSE Continue("after")
    /\ UNCHANGED <<input, mode, returned, results>>

CloseEmpty ==
    /\ Is("recursive") /\ state = "empty"
    /\ Call(End(Top.kind), 0) /\ at' = at + 1 /\ stack' = Front(stack)
    /\ IF Refuses THEN Fail(Err("Termination", at + 1)) ELSE Continue("after")
    /\ UNCHANGED <<input, mode, returned, results>>

(* A member's name, up to its colon.                                            *)
Name ==
    /\ Is("recursive") /\ state = "key"
    /\ IF Peek(at) # "s"
       THEN /\ Fail(Err(IF Peek(at) = "S" THEN "String" ELSE "ObjectMissName", at))
            /\ UNCHANGED <<at, events>>
       ELSE /\ Call("Key", 0)
            /\ IF Refuses THEN Fail(Err("Termination", at + 1)) /\ at' = at + 1
               ELSE SkipTo(at + 1, "colon")
    /\ UNCHANGED <<input, mode, stack, returned, results>>

Colon ==
    /\ Is("recursive") /\ state = "colon"
    /\ IF Peek(at) # ":" THEN Fail(Err("ObjectMissColon", at)) /\ UNCHANGED at
       ELSE SkipTo(at + 1, "value")
    /\ UNCHANGED <<input, mode, stack, events, returned, results>>

(* Behind a value: what ParseObject and ParseArray do when ParseValue returns.  *)
After ==
    /\ Is("recursive") /\ state = "after" /\ stack # <<>>
    /\ SkipTo(at, "separator")
    /\ stack' = [stack EXCEPT ![Len(stack)].n = @ + 1]
    /\ UNCHANGED <<input, mode, events, returned, results>>

Separator ==
    /\ Is("recursive") /\ state = "separator"
    /\ LET object == Top.kind = "object"
           close == IF object THEN "}" ELSE "]"
       IN  CASE Peek(at) = "," ->
                    SkipTo(at + 1, IF object THEN "next member" ELSE "next element")
                      /\ UNCHANGED <<events, stack>>
             [] Peek(at) = close ->
                    /\ Call(End(Top.kind), Top.n) /\ at' = at + 1 /\ stack' = Front(stack)
                    /\ IF Refuses THEN Fail(Err("Termination", at + 1)) ELSE Continue("after")
             [] OTHER ->
                    /\ Fail(Err(IF object THEN "ObjectMissCommaOrCurlyBracket"
                                ELSE "ArrayMissCommaOrSquareBracket", at))
                    /\ UNCHANGED <<at, events, stack>>
    /\ UNCHANGED <<input, mode, returned, results>>

(* Behind a comma: a bracket there closes when trailing commas are allowed.     *)
NextMember ==
    /\ Is("recursive") /\ state \in {"next member", "next element"}
    /\ IF Flag("trailing") /\ Peek(at) = (IF Top.kind = "object" THEN "}" ELSE "]")
       THEN /\ Call(End(Top.kind), Top.n) /\ stack' = Front(stack)
            /\ IF Refuses THEN Fail(Err("Termination", at)) /\ UNCHANGED at
               ELSE Continue("after") /\ at' = at + 1
       ELSE Continue(IF Top.kind = "object" THEN "key" ELSE "value") /\ UNCHANGED <<at, events, stack>>
    /\ UNCHANGED <<input, mode, returned, results>>

(* The end of Parse.                                                            *)
ParseEnd ==
    /\ Is("recursive") /\ state = "after" /\ stack = <<>>
    /\ LET k == Skip(at) IN
       IF Flag("stop when done") THEN Continue("stopped") /\ UNCHANGED at
       ELSE /\ at' = k.at
            /\ CASE k.bad -> Fail(Err("UnspecificSyntaxError", k.at))
                 [] Peek(k.at) # "end" -> Fail(Err("DocumentRootNotSingular", k.at))
                 [] OTHER -> Continue("stopped")
    /\ UNCHANGED <<input, mode, stack, events, returned, results>>

Recursive ==
    \/ Parse \/ ParseValue \/ Open \/ CloseEmpty \/ Name \/ Colon
    \/ After \/ Separator \/ NextMember \/ ParseEnd

------------------------------------------------------------------------------
(* The iterative parsers.                                                       *)
Tokenize(c) ==
    CASE c \in {"[", "]", "{", "}", ",", ":", "n"} -> c
      [] c \in {"s", "S"} -> "string"
      [] OTHER -> "number"

ValueToken(t) == t \in {"string", "n", "number"}

(* Mutant of Predict: a comma may not be the last thing in an object.           *)
PredictNoTrailing(s, t) ==
    CASE s = "start" /\ t = "[" -> "ArrayInitial"
      [] s = "start" /\ t = "{" -> "ObjectInitial"
      [] s = "start" /\ ValueToken(t) -> "Value"
      [] s = "MemberKey" /\ t = ":" -> "KeyValueDelimiter"
      [] s \in {"ObjectInitial", "MemberDelimiter"} /\ t = "string" -> "MemberKey"
      [] s \in {"ObjectInitial", "MemberValue"} /\ t = "}" -> "ObjectFinish"
      [] s = "MemberValue" /\ t = "," -> "MemberDelimiter"
      [] s \in {"ArrayInitial", "ElementDelimiter", "Element"} /\ t = "]" -> "ArrayFinish"
      [] s = "Element" /\ t = "," -> "ElementDelimiter"
      [] s \in {"ArrayInitial", "ElementDelimiter", "KeyValueDelimiter"} /\ t = "[" -> "ArrayInitial"
      [] s \in {"ArrayInitial", "ElementDelimiter", "KeyValueDelimiter"} /\ t = "{" -> "ObjectInitial"
      [] s \in {"ArrayInitial", "ElementDelimiter"} /\ ValueToken(t) -> "Element"
      [] s = "KeyValueDelimiter" /\ ValueToken(t) -> "MemberValue"
      [] OTHER -> "Error"

(* The table G: the state that follows a state and a token.                     *)
Predict(s, t) ==
    CASE s = "start" /\ t = "[" -> "ArrayInitial"
      [] s = "start" /\ t = "{" -> "ObjectInitial"
      [] s = "start" /\ ValueToken(t) -> "Value"
      [] s = "MemberKey" /\ t = ":" -> "KeyValueDelimiter"
      [] s \in {"ObjectInitial", "MemberDelimiter"} /\ t = "string" -> "MemberKey"
      [] s \in {"ObjectInitial", "MemberDelimiter", "MemberValue"} /\ t = "}" -> "ObjectFinish"
      [] s = "MemberValue" /\ t = "," -> "MemberDelimiter"
      [] s \in {"ArrayInitial", "ElementDelimiter", "Element"} /\ t = "]" -> "ArrayFinish"
      [] s = "Element" /\ t = "," -> "ElementDelimiter"
      [] s \in {"ArrayInitial", "ElementDelimiter", "KeyValueDelimiter"} /\ t = "[" -> "ArrayInitial"
      [] s \in {"ArrayInitial", "ElementDelimiter", "KeyValueDelimiter"} /\ t = "{" -> "ObjectInitial"
      [] s \in {"ArrayInitial", "ElementDelimiter"} /\ ValueToken(t) -> "Element"
      [] s = "KeyValueDelimiter" /\ ValueToken(t) -> "MemberValue"
      [] OTHER -> "Error"

(* What a step of Transit leaves: state, place, stack, events and error.        *)
Out(s, p, st, ev, e) == [state |-> s, at |-> p, stack |-> st, events |-> ev, error |-> e]

(* Transit: the step to the state the table gave, or to the one popped.  An     *)
(* error e that is set already stops a value behind its event, and a string     *)
(* before it.                                                                   *)
Transit(src, dst, p, e) ==
    LET ev(name, n) == Append(events, [name |-> name, n |-> n])
    IN CASE dst = "Error" -> Out("Error", p, stack, events, e)
         [] dst \in {"ObjectInitial", "ArrayInitial"} ->
              LET n == IF src \in {"ArrayInitial", "ElementDelimiter"} THEN "Element"
                       ELSE IF src = "KeyValueDelimiter" THEN "MemberValue" ELSE src
                  st == Append(stack, [kind |-> n, n |-> 0])
                  es == ev(IF dst = "ObjectInitial" THEN "StartObject" ELSE "StartArray", 0)
              IN  IF Refuses THEN Out("Error", p, st, es, Err("Termination", p))
                  ELSE Out(dst, p + 1, st, es, e)
         [] dst = "KeyValueDelimiter" -> Out(dst, p + 1, stack, events, e)
         [] dst \in {"MemberDelimiter", "ElementDelimiter"} ->
              Out(dst, p + 1, [stack EXCEPT ![Len(stack)].n = @ + 1], events, e)
         [] dst \in {"ObjectFinish", "ArrayFinish"} ->
              IF ~Flag("trailing") /\ src \in {"MemberDelimiter", "ElementDelimiter"}
              THEN Out("Error", p, stack, events,
                       Err(IF dst = "ObjectFinish" THEN "ObjectMissName" ELSE "ValueInvalid", p))
              ELSE LET n == Top.n + (IF src \in {"MemberValue", "Element"} THEN 1 ELSE 0)
                       to == IF Top.kind = "start" THEN "Finish" ELSE Top.kind
                       es == ev(IF dst = "ObjectFinish" THEN "EndObject" ELSE "EndArray", n)
                   IN  IF Refuses THEN Out("Error", p, Front(stack), es, Err("Termination", p))
                       ELSE Out(to, p + 1, Front(stack), es, e)
         [] OTHER ->
              IF Peek(p) \notin Scalars
              THEN Out("Error", p, stack, events, Err(IF Peek(p) = "S" THEN "String" ELSE "ValueInvalid", p))
              ELSE LET quiet == e # {} /\ Peek(p) = "s"
                       es == IF quiet THEN events ELSE ev(IF dst = "MemberKey" THEN "Key" ELSE "Value", 0)
                   IN  IF Refuses /\ ~quiet THEN Out("Error", p + 1, stack, es, Err("Termination", p + 1))
                       ELSE IF e # {} THEN Out("Error", p + 1, stack, es, e)
                       ELSE Out(IF dst = "Value" THEN "Finish" ELSE dst, p + 1, stack, es, e)

(* HandleError: the error a state stands for, unless one is set.                *)
HandleError(src, p, e) ==
    IF e # {} THEN e
    ELSE Err(CASE src = "start" -> "DocumentEmpty"
               [] src = "Finish" -> "DocumentRootNotSingular"
               [] src \in {"ObjectInitial", "MemberDelimiter"} -> "ObjectMissName"
               [] src = "MemberKey" -> "ObjectMissColon"
               [] src = "MemberValue" -> "ObjectMissCommaOrCurlyBracket"
               [] src \in {"KeyValueDelimiter", "ArrayInitial", "ElementDelimiter"} -> "ValueInvalid"
               [] src = "Element" -> "ArrayMissCommaOrSquareBracket", p)

(* One turn of IterativeParse: skip what is blank, then one token.              *)
IterativeParse ==
    /\ Is("iterative") /\ state \notin {"stopped", "Error"}
    /\ LET k == Skip(at) IN
       CASE Flag("stop when done") /\ state = "Finish" ->
              /\ Continue("stopped") /\ UNCHANGED <<at, stack, events>>
         [] ~(Flag("stop when done") /\ state = "Finish") /\ k.bad ->
              /\ Fail(Err("UnspecificSyntaxError", k.at)) /\ at' = k.at
              /\ UNCHANGED <<stack, events>>
         [] ~(Flag("stop when done") /\ state = "Finish") /\ ~k.bad /\ Peek(k.at) = "end" ->
              /\ at' = k.at /\ UNCHANGED <<stack, events, assertion>>
              /\ state' = "stopped"
              /\ error' = IF state = "Finish" THEN error ELSE HandleError(state, k.at, error)
         [] OTHER ->
              \E o \in {Transit(state, Predict(state, Tokenize(Peek(k.at))), k.at, error)} :
                 /\ at' = o.at /\ stack' = o.stack /\ events' = o.events
                 /\ error' = IF o.state = "Error" THEN HandleError(state, o.at, o.error) ELSE o.error
                 /\ state' = IF o.state = "Error" THEN "stopped" ELSE o.state
                 /\ UNCHANGED assertion
    /\ UNCHANGED <<input, mode, returned, results>>

(* One turn of the loop in IterativeParseNext, which the caller calls again     *)
(* until it returns false or IterativeParseComplete holds.  What is wrong in a  *)
(* comment sets the error, and the parser goes on.                              *)
IterativeParseNext ==
    /\ Is("next") /\ state # "stopped" /\ Peek(at) # "end"
    /\ \E k \in {Skip(at)} : \E e \in {IF k.bad THEN Err("UnspecificSyntaxError", k.at) ELSE error} :
       \E o \in {Transit(state, Predict(state, Tokenize(Peek(k.at))), k.at, e)} :
       LET rest == Skip(o.at)
           end == o.state = "Finish" /\ ~Flag("stop when done")
           found == IF end /\ rest.bad THEN Err("UnspecificSyntaxError", rest.at) ELSE o.error
       IN  /\ stack' = o.stack /\ events' = o.events
           /\ assertion' = (assertion \/ (k.bad /\ error # {}) \/ (e # {} /\ o.error # e)
                                      \/ (o.error # {} /\ found # o.error))
           /\ at' = IF end THEN rest.at ELSE o.at
           /\ returned' = (o.state # "Error" /\ (end => Peek(rest.at) = "end"))
           /\ error' = IF o.state = "Error" THEN HandleError(state, o.at, o.error)
                       ELSE IF end /\ Peek(rest.at) # "end" THEN HandleError("Finish", rest.at, found)
                       ELSE found
           /\ state' = IF o.state \in {"Error", "Finish"} THEN "stopped" ELSE o.state
    /\ UNCHANGED <<input, mode, results>>

(* Mutant of NextEnd: the end of the text is the end of the parse.              *)
NextEndTrue ==
    /\ Is("next") /\ state # "stopped" /\ Peek(at) = "end"
    /\ stack' = <<>> /\ returned' = TRUE /\ state' = "stopped"
    /\ UNCHANGED <<input, mode, at, events, error, assertion, results>>

(* The loop of IterativeParseNext ends with the text.                           *)
NextEnd ==
    /\ Is("next") /\ state # "stopped" /\ Peek(at) = "end"
    /\ stack' = <<>> /\ returned' = FALSE /\ state' = "stopped"
    /\ error' = HandleError(state, at, error)
    /\ UNCHANGED <<input, mode, at, events, assertion, results>>

(* Mutant of Return: the result of the parse before is not cleared.             *)
ReturnKeeps ==
    /\ mode <= Len(Modes) /\ state = "stopped"
    /\ results' = Append(results, [mode |-> Modes[mode], error |-> error, events |-> events,
                                   at |-> at, returned |-> returned])
    /\ mode' = mode + 1
    /\ at' = 1 /\ stack' = <<>> /\ state' = "start" /\ events' = <<>> /\ returned' = TRUE
    /\ UNCHANGED <<input, error, assertion>>

(* A parser has returned; the next one, which clears parseResult_ and starts    *)
(* with an empty stack, gets the same text.                                     *)
Return ==
    /\ mode <= Len(Modes) /\ state = "stopped"
    /\ results' = Append(results, [mode |-> Modes[mode], error |-> error, events |-> events,
                                   at |-> at, returned |-> returned])
    /\ mode' = mode + 1
    /\ at' = 1 /\ stack' = <<>> /\ state' = "start" /\ events' = <<>> /\ error' = {} /\ returned' = TRUE
    /\ UNCHANGED <<input, assertion>>

Next == Recursive \/ IterativeParse \/ IterativeParseNext \/ NextEnd \/ Return

Spec == Init /\ [][Next]_vars

------------------------------------------------------------------------------
TypeOK ==
    /\ mode \in 1 .. Len(Modes) + 1
    /\ at \in 1 .. Len(input.text) + 1
    /\ \A e \in error : e.off \in 1 .. Len(input.text) + 1
    /\ \A i \in DOMAIN stack : stack[i].n <= Len(input.text)

Starts == {"StartObject", "StartArray"}
Ends == {"EndObject", "EndArray"}
Count(i, j, names) == Len(SelectSeq(SubSeq(events, i, j), LAMBDA e : e.name \in names))

(* The Start that event i is directly inside of, 0 for none.                    *)
Opening(i) ==
    LET open == {j \in 1 .. i - 1 : /\ events[j].name \in Starts
                                    /\ \A k \in j .. i - 1 : Count(j, k, Starts) > Count(j, k, Ends)}
    IN  IF open = {} THEN 0 ELSE CHOOSE j \in open : \A k \in open : k <= j

Kind(i) == IF Opening(i) = 0 THEN "root" ELSE events[Opening(i)].name
IsValue(e) == e.name \in Starts \cup {"Value"}

(* The calls of the handler nest, at every moment of every parser: an End       *)
(* closes the last Start of its kind and gives the number of values that came   *)
(* directly inside, names only inside objects and before each value there.      *)
HandlerCallsNest ==
    \A i \in DOMAIN events :
        CASE events[i].name \in Ends ->
               /\ Kind(i) = IF events[i].name = "EndObject" THEN "StartObject" ELSE "StartArray"
               /\ LET o == Opening(i)
                      inside == {j \in o + 1 .. i - 1 : Opening(j) = o /\ IsValue(events[j])}
                  IN  events[i].n = Cardinality(inside)
          [] events[i].name = "Key" -> Kind(i) = "StartObject" /\ events[i - 1].name # "Key"
          [] Kind(i) = "StartObject" /\ IsValue(events[i]) -> events[i - 1].name = "Key"
          [] OTHER -> TRUE

ResultOf(m) == {results[i] : i \in {i \in DOMAIN results : results[i].mode = m}}

(* Parse and IterativeParse call the handler alike and accept the same texts;   *)
(* an error has the same code and place, except the place of a termination and  *)
(* the code for a text that begins with no value.                               *)
ParsersAgree ==
    \A r \in ResultOf("recursive"), i \in ResultOf("iterative") :
        /\ r.events = i.events
        /\ (r.error = {}) <=> (i.error = {})
        /\ r.error = {} => r.at = i.at
        /\ \A a \in r.error, b \in i.error :
              \/ a = b
              \/ a.code = "Termination" /\ b.code = "Termination"
              \/ a.code = "ValueInvalid" /\ b.code = "DocumentEmpty" /\ a.off = b.off /\ r.events = <<>>

(* Asking for one event after the other gives the events of the whole parse and *)
(* ends with true just when the whole parse succeeds, where no comment is bad.  *)
NextAgrees ==
    \A i \in ResultOf("iterative"), n \in ResultOf("next") :
        (i.error # Err("UnspecificSyntaxError", i.at)) =>
            /\ i.events = n.events
            /\ (i.error = {}) <=> n.returned
            /\ n.returned => n.error = {}

(* "Whether the parsing is successful" is what IterativeParseNext returns: the  *)
(* last call does not return true when an error was found.                      *)
NextReportsErrors == \A n \in ResultOf("next") : n.returned => n.error = {}

(* An error is never set over another, which the reader asserts, except in      *)
(* IterativeParseNext behind a slash that begins no comment.                    *)
ErrorsAreSetOnce ==
    assertion => Flag("comments") /\ "/" \in Range(input.text) /\ mode >= Len(Modes)
==============================================================================
