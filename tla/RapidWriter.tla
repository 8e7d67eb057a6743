----------------------------- MODULE RapidWriter -----------------------------
(* Writer and PrettyWriter of rapidjson/writer.h and rapidjson/prettywriter.h:  *)
(* a handler that puts the text of the calls it gets on a stream.  A text is a  *)
(* sequence of "{", "}", "[", "]", ",", ":", of a scalar's name, the opening    *)
(* quote of a string that was given up, and of white space: a new line, a blank *)
(* and "i", one character of indentation.  A call that fails an assertion is    *)
(* not made.                                                                    *)
EXTENDS Naturals, Sequences, SequencesExt, FiniteSetsExt

CONSTANTS
    Writers,       \* a subset of {"plain", "pretty"}
    Scalars,       \* a subset of AllScalars, the scalars that are written
    Careful,       \* whether the caller stops at a call that returns FALSE
    Indents,       \* what SetIndent may be given
    MaxCalls,      \* bound: calls of the handler on one stream
    MaxDepth       \* bound: open objects and arrays

VARIABLES
    writer,        \* which of the two it is
    levels,        \* level_stack_: records [count, inArray]
    hasRoot,
    places,        \* maxDecimalPlaces_
    indent,        \* indentCharCount_
    format,        \* formatOptions_: "lines" or "single"
    out,           \* the text on the stream
    flushed,       \* how much of it was flushed
    calls,         \* the calls of the handler since the stream was set
    failed         \* a call returned FALSE

vars == <<writer, levels, hasRoot, places, indent, format, out, flushed, calls, failed>>
settings == <<writer, places, indent, format>>

kDefaultMaxDecimalPlaces == 324
Blank == {"\n", " ", "i"}

(* The constructors.  The one of PrettyWriter that gets no stream leaves        *)
(* formatOptions_ uninitialized, so it may be either.                           *)
Init ==
    /\ writer \in Writers
    /\ levels = <<>> /\ hasRoot = FALSE
    /\ places = kDefaultMaxDecimalPlaces
    /\ indent = 4 /\ format \in {"lines", "single"}
    /\ out = <<>> /\ flushed = 0 /\ calls = <<>> /\ failed = FALSE

Level(inArray) == [count |-> 0, inArray |-> inArray]
Top == Last(levels)
InLevel == levels # <<>>
Pretty == writer = "pretty"

(* Mutant of WriteIndent: one indentation whatever the depth.                   *)
WriteIndentOnce(depth) == [k \in 1 .. (IF depth = 0 THEN 0 ELSE indent) |-> "i"]

WriteIndent(depth) == [k \in 1 .. depth * indent |-> "i"]

NewLine(depth) == <<"\n">> \o WriteIndent(depth)

(* Mutant of PlainPrefix: the separator is chosen by the count alone.           *)
PlainPrefixObject ==
    CASE Top.count = 0 -> <<>>
      [] Top.count > 0 -> IF Top.count % 2 = 0 THEN <<",">> ELSE <<":">>

(* The separators of Prefix.                                                    *)
PlainPrefix ==
    CASE Top.count = 0 -> <<>>
      [] Top.count > 0 /\ Top.inArray -> <<",">>
      [] Top.count > 0 /\ ~Top.inArray -> IF Top.count % 2 = 0 THEN <<",">> ELSE <<":">>

(* ... and of PrettyPrefix.                                                     *)
PrettyPrefix ==
    LET depth == Len(levels)
        comma == IF Top.count > 0 THEN <<",">> ELSE <<>>
    IN  CASE Top.inArray /\ format = "single" -> comma \o (IF Top.count > 0 THEN <<" ">> ELSE <<>>)
          [] Top.inArray /\ format = "lines" -> comma \o NewLine(depth)
          [] ~Top.inArray /\ Top.count % 2 = 0 -> comma \o NewLine(depth)
          [] ~Top.inArray /\ Top.count % 2 = 1 -> <<":", " ">>

(* The assertions of Prefix: a name where one is due, and one root.             *)
MayPrefix(type) ==
    IF InLevel THEN Top.inArray \/ Top.count % 2 = 1 \/ type = "str" ELSE ~hasRoot

Separators == IF ~InLevel THEN <<>> ELSE IF Pretty THEN PrettyPrefix ELSE PlainPrefix

(* Counts the value in its level, or makes it the root.                         *)
Counted ==
    IF InLevel THEN Front(levels) \o <<[Top EXCEPT !.count = @ + 1]>> ELSE levels

MayCall == Len(calls) < MaxCalls /\ ~(Careful /\ failed)

------------------------------------------------------------------------------
(* What WriteNull .. WriteString and WriteRawValue put for a scalar, and        *)
(* whether they succeed: a NaN or an infinity is refused, and a string in a     *)
(* wrong encoding after its opening quote.  RawNumber is written as a string.   *)
AllScalars == {"null", "bool", "num", "str", "raw", "nan", "badstr", "rawnum"}
Written(kind) ==
    CASE kind = "nan" -> <<>>
      [] kind = "badstr" -> <<"quote">>
      [] kind = "rawnum" -> <<"str">>
      [] OTHER -> <<kind>>
Succeeds(kind) == kind \notin {"nan", "badstr"}

(* The type that Prefix is told; a raw value may be told to be a string.        *)
TypeOf(kind) == IF kind \in {"str", "badstr"} THEN "str" ELSE "other"

(* Mutant of EndValue: the end of an inner object flushes too, the root's does not. *)
EndValueInner(text, left) == flushed' = IF left = <<>> THEN flushed ELSE Len(text)

(* EndValue: flushes at the end of the root.                                    *)
EndValue(text, left) == flushed' = IF left = <<>> THEN Len(text) ELSE flushed

(* Null, Bool, Int .. Double, RawNumber, String, Key and RawValue.  Those of    *)
(* PrettyWriter do not call EndValue.                                           *)
Scalar(kind) ==
    /\ MayCall /\ MayPrefix(TypeOf(kind))
    /\ levels' = Counted /\ hasRoot' = TRUE
    /\ out' = out \o Separators \o Written(kind)
    /\ calls' = Append(calls, kind)
    /\ failed' = (failed \/ ~Succeeds(kind))
    /\ IF Pretty THEN UNCHANGED flushed ELSE EndValue(out', levels)
    /\ UNCHANGED settings

(* Mutant of Start: the new level is not pushed for an object in an array.      *)
StartFlat(inArray) ==
    /\ MayCall /\ MayPrefix("other") /\ Len(levels) < MaxDepth
    /\ levels' = IF InLevel /\ Top.inArray /\ ~inArray THEN Counted ELSE Append(Counted, Level(inArray))
    /\ hasRoot' = TRUE
    /\ out' = out \o Separators \o <<IF inArray THEN "[" ELSE "{">>
    /\ calls' = Append(calls, IF inArray THEN "[" ELSE "{")
    /\ UNCHANGED <<settings, flushed, failed>>

(* StartObject and StartArray.                                                  *)
Start(inArray) ==
    /\ MayCall /\ MayPrefix("other") /\ Len(levels) < MaxDepth
    /\ levels' = Append(Counted, Level(inArray))
    /\ hasRoot' = TRUE
    /\ out' = out \o Separators \o <<IF inArray THEN "[" ELSE "{">>
    /\ calls' = Append(calls, IF inArray THEN "[" ELSE "{")
    /\ UNCHANGED <<settings, flushed, failed>>

(* EndObject and EndArray: of a level of this kind, an object with no name that *)
(* has no value.                                                                *)
End(inArray) ==
    /\ MayCall /\ InLevel
    /\ Top.inArray = inArray /\ (inArray \/ Top.count % 2 = 0)
    /\ LET line == Pretty /\ Top.count > 0 /\ ~(inArray /\ format = "single") IN
       out' = out \o (IF line THEN NewLine(Len(levels) - 1) ELSE <<>>) \o <<IF inArray THEN "]" ELSE "}">>
    /\ levels' = Front(levels)
    /\ calls' = Append(calls, IF inArray THEN "]" ELSE "}")
    /\ EndValue(out', Front(levels))
    /\ UNCHANGED <<settings, hasRoot, failed>>

(* Mutant of Reset: the levels of the text before are kept.                     *)
ResetKeepsLevels ==
    /\ out' = <<>> /\ flushed' = 0
    /\ hasRoot' = FALSE
    /\ calls' = <<>> /\ failed' = FALSE
    /\ UNCHANGED <<settings, levels>>

(* Reset: a new stream for the same writer.                                     *)
Reset ==
    /\ out' = <<>> /\ flushed' = 0
    /\ hasRoot' = FALSE /\ levels' = <<>>
    /\ calls' = <<>> /\ failed' = FALSE
    /\ UNCHANGED settings

Flush ==
    /\ flushed' = Len(out)
    /\ UNCHANGED <<settings, levels, hasRoot, out, calls, failed>>

SetMaxDecimalPlaces ==
    /\ places' = 3
    /\ UNCHANGED <<writer, levels, hasRoot, indent, format, out, flushed, calls, failed>>

SetIndent ==
    /\ Pretty /\ indent' \in Indents
    /\ UNCHANGED <<writer, levels, hasRoot, places, format, out, flushed, calls, failed>>

SetFormatOptions ==
    /\ Pretty /\ format' \in {"lines", "single"}
    /\ UNCHANGED <<writer, levels, hasRoot, places, indent, out, flushed, calls, failed>>

Next ==
    \/ \E kind \in Scalars : Scalar(kind)
    \/ \E inArray \in BOOLEAN : Start(inArray) \/ End(inArray)
    \/ Reset \/ Flush \/ SetMaxDecimalPlaces \/ SetIndent \/ SetFormatOptions

Spec == Init /\ [][Next]_vars

IsComplete == hasRoot /\ levels = <<>>

------------------------------------------------------------------------------
(* A reference reader of a text without its white space: the calls it makes     *)
(* from place i on, and the place behind; 0 when the text is not JSON.          *)
Tokens == SelectSeq(out, LAMBDA c : c \notin Blank)
Tok(t, i) == IF i <= Len(t) THEN t[i] ELSE "end"
ScalarTokens == {"null", "bool", "num", "str", "raw"}
Bad == [read |-> <<>>, next |-> 0]

RECURSIVE ReadValue(_, _), ReadRest(_, _, _)
ReadValue(t, i) ==
    CASE Tok(t, i) \in ScalarTokens -> [read |-> <<t[i]>>, next |-> i + 1]
      [] Tok(t, i) \in {"[", "{"} ->
           LET r == ReadRest(t, i + 1, t[i])
           IN  IF r.next = 0 THEN Bad ELSE [read |-> <<t[i]>> \o r.read, next |-> r.next]
      [] OTHER -> Bad

(* The members or elements up to the bracket that closes: i is behind the one   *)
(* that opens or a comma.                                                       *)
ReadRest(t, i, open) ==
    LET close == IF open = "[" THEN "]" ELSE "}"
        named == open = "{"
        v == IF named /\ ~(Tok(t, i) = "str" /\ Tok(t, i + 1) = ":") THEN Bad
             ELSE ReadValue(t, IF named THEN i + 2 ELSE i)
        name == IF named THEN <<"str">> ELSE <<>>
    IN  CASE Tok(t, i) = close /\ Tok(t, i - 1) = open -> [read |-> <<close>>, next |-> i + 1]
          [] Tok(t, i) # close /\ v.next # 0 /\ Tok(t, v.next) = close ->
               [read |-> name \o v.read \o <<close>>, next |-> v.next + 1]
          [] Tok(t, i) # close /\ v.next # 0 /\ Tok(t, v.next) = "," ->
               LET r == ReadRest(t, v.next + 1, open)
               IN  IF r.next = 0 THEN Bad ELSE [read |-> name \o v.read \o r.read, next |-> r.next]
          [] OTHER -> Bad

Read == LET r == ReadValue(Tokens, 1) IN IF r.next = Len(Tokens) + 1 THEN r.read ELSE <<>>

TypeOK ==
    /\ writer \in {"plain", "pretty"} /\ hasRoot \in BOOLEAN /\ failed \in BOOLEAN
    /\ levels \in Seq([count : 0 .. MaxCalls, inArray : BOOLEAN])
    /\ flushed \in 0 .. Len(out)
    /\ (levels # <<>> => hasRoot)

(* A complete text whose calls all succeeded reads back as those calls, with or *)
(* without indentation, whatever options were changed between the calls.        *)
ReadsBack ==
    IsComplete /\ ~failed =>
        Read = [k \in DOMAIN calls |-> IF calls[k] = "rawnum" THEN "str" ELSE calls[k]]

(* A complete text has left the buffer of the stream.                           *)
CompleteIsFlushed == IsComplete => flushed = Len(out)

(* What is written ends each line, behind the indentation of its depth: the     *)
(* place i of the text is indented by the brackets that are open there.         *)
Opens(t, i) ==
    Len(SelectSeq(SubSeq(t, 1, i), LAMBDA c : c \in {"[", "{"}))
      - Len(SelectSeq(SubSeq(t, 1, i), LAMBDA c : c \in {"]", "}"}))
Indentation(t, i) ==
    CHOOSE n \in 0 .. Len(t) - i :
        /\ \A k \in 1 .. n : t[i + k] = "i"
        /\ i + n = Len(t) \/ t[i + n + 1] # "i"
LinesIndented ==
    [][\A i \in Len(out) + 1 .. Len(out') :
           out'[i] = "\n" =>
               LET n == Indentation(out', i)
                   closes == Tok(out', i + n + 1) \in {"]", "}"}
               IN  n = indent * (Opens(out', i) - (IF closes THEN 1 ELSE 0))]_vars

(* A text that IsComplete says is complete is JSON.                             *)
CompleteIsJson == IsComplete => Read # <<>>

(* After Reset the writer has the settings of a new one.                        *)
ResetRestores == [][calls # <<>> /\ calls' = <<>> => places' = kDefaultMaxDecimalPlaces]_vars
------------------------------------------------------------------------------
(* DSL::serializer of rtb/DSL/rapid_serializer.hpp, which any_mapper and        *)
(* rapid_mapper give a BidResponse and a rapidjson Writer.  The serializer      *)
(* looks at no result of the writer: it goes on after a call that failed.       *)

CONSTANT Responses    \* records [seatbid]: a sequence of seats, each a sequence of bids
                      \* [price, adomain, attr]: "num" or "nan", and how many there are

VARIABLES
    response,
    todo,             \* the calls the serializer has still to make
    values            \* the fields whose scalars were written, in their order

allVars == <<vars, response, todo, values>>

(* A call and what it writes: the name of a field of the structure at a place   *)
(* in the response, its value, or the k-th element of it.                       *)
What(role, at, name, k) == [role |-> role, at |-> at, name |-> name, k |-> k]
Bracket(b) == <<[kind |-> b, what |-> What("bracket", <<>>, b, 0)]>>
Name(at, n) == <<[kind |-> "str", what |-> What("name", at, n, 0)]>>
Value(at, n, kind) == <<[kind |-> kind, what |-> What("value", at, n, 0)]>>
Field(at, n, kind) == Name(at, n) \o Value(at, n, kind)
Array(elements) == Bracket("[") \o FlattenSeq(elements) \o Bracket("]")

(* serializer<vector>::serialize of scalars.                                    *)
Vector(at, n, kind, size) ==
    Name(at, n) \o Array([k \in 1 .. size |-> <<[kind |-> kind, what |-> What("value", at, n, k)]>>])

Strings(at, names) == FlattenSeq([k \in DOMAIN names |-> Field(at, names[k], "str")])

(* Mutant of BidCalls: the height is written behind the width's name.           *)
BidCallsHeight(at, bid) ==
    Bracket("{") \o Strings(at, <<"id", "impid">>) \o Field(at, "price", bid.price)
      \o Strings(at, <<"adid", "nurl", "adm">>) \o Vector(at, "adomain", "str", bid.adomain)
      \o Strings(at, <<"iurl", "cid", "crid">>) \o Vector(at, "attr", "num", bid.attr)
      \o Strings(at, <<"dealid">>) \o Name(at, "w") \o Value(at, "h", "num") \o Field(at, "h", "num") \o Bracket("}")

(* serializer<Bid>::serialize.                                                  *)
BidCalls(at, bid) ==
    Bracket("{") \o Strings(at, <<"id", "impid">>) \o Field(at, "price", bid.price)
      \o Strings(at, <<"adid", "nurl", "adm">>) \o Vector(at, "adomain", "str", bid.adomain)
      \o Strings(at, <<"iurl", "cid", "crid">>) \o Vector(at, "attr", "num", bid.attr)
      \o Strings(at, <<"dealid">>) \o Field(at, "w", "num") \o Field(at, "h", "num") \o Bracket("}")

(* serializer<SeatBid>::serialize.                                              *)
SeatBidCalls(at, seat) ==
    Bracket("{") \o Name(at, "bid") \o Array([k \in DOMAIN seat |-> BidCalls(Append(at, k), seat[k])])
      \o Field(at, "seat", "str") \o Field(at, "group", "num") \o Bracket("}")

(* Mutant of ResponseCalls: an early return leaves the object of a response     *)
(* without seats open.                                                          *)
ResponseCallsOpen(r) ==
    Bracket("{") \o Field(<<>>, "id", "str")
      \o Name(<<>>, "seatbid") \o Array([k \in DOMAIN r.seatbid |-> SeatBidCalls(<<k>>, r.seatbid[k])])
      \o Strings(<<>>, <<"bidid", "cur", "customdata">>)
      \o Field(<<>>, "nbr", "num") \o (IF r.seatbid = <<>> THEN <<>> ELSE Bracket("}"))

(* serializer<BidResponse>::serialize.                                          *)
ResponseCalls(r) ==
    Bracket("{") \o Field(<<>>, "id", "str")
      \o Name(<<>>, "seatbid") \o Array([k \in DOMAIN r.seatbid |-> SeatBidCalls(<<k>>, r.seatbid[k])])
      \o Strings(<<>>, <<"bidid", "cur", "customdata">>)
      \o Field(<<>>, "nbr", "num") \o Bracket("}")

InitSerializer ==
    /\ Init /\ format = "lines"
    /\ response \in Responses
    /\ todo = ResponseCalls(response)
    /\ values = <<>>

(* The next call of the serializer.                                             *)
Serialize ==
    /\ todo # <<>>
    /\ LET c == Head(todo) IN
       /\ CASE c.kind \in {"[", "{"} -> Start(c.kind = "[")
            [] c.kind \in {"]", "}"} -> End(c.kind = "]")
            [] OTHER -> Scalar(c.kind)
       /\ values' = IF c.kind \in {"str", "num"} THEN Append(values, c.what) ELSE values
    /\ todo' = Tail(todo)
    /\ UNCHANGED response

NextSerializer == Serialize
SpecSerializer == InitSerializer /\ [][NextSerializer]_allVars /\ WF_allVars(Serialize)

------------------------------------------------------------------------------
(* Every response ends as a complete text, flushed to the buffer, although no   *)
(* result was looked at.                                                        *)
EndsComplete == <>(todo = <<>> /\ IsComplete)

(* A complete text of a response whose prices are numbers reads back: each value *)
(* is behind the name of its field and no name comes twice in one object.       *)
ResponseReadsBack ==
    todo = <<>> /\ IsComplete /\ (\A s \in DOMAIN response.seatbid : \A b \in DOMAIN response.seatbid[s] :
                        response.seatbid[s][b].price = "num") =>
        /\ Read = calls
        /\ \A i \in DOMAIN values : values[i].role = "value" =>
               \E j \in 1 .. i - 1 : /\ values[j] = What("name", values[i].at, values[i].name, 0)
                                     /\ i - j = Max({1, values[i].k})
        /\ \A i, j \in DOMAIN values : values[i] = values[j] => i = j
==============================================================================
