---------------------------- MODULE RapidPointer -----------------------------
(* The text of a GenericPointer: Parse makes tokens of it and Stringify makes   *)
(* text of tokens, which is then parsed again.  A character of the source is    *)
(* [u |-> unit, pct |-> whether it is written as %XY]; the unit "G" is a triple *)
(* that is cut off or not hexadecimal, "c2" and "a2" are the units of one       *)
(* character of two.  The name of a token is a sequence of units.               *)
EXTENDS Integers, Sequences, FiniteSets, SequencesExt

CONSTANTS
    Sources,      \* texts
    SizeLimit     \* the numbers of a SizeType, 2^32 in the code

VARIABLES source, uri, i, tokens, name, isNumber, error, first, pc

vars == <<source, uri, i, tokens, name, isNumber, error, first, pc>>

Value == [d \in {"0", "1", "4", "5", "6", "7", "9"} |->
    CASE d = "0" -> 0 [] d = "1" -> 1 [] d = "4" -> 4 [] d = "5" -> 5 [] d = "6" -> 6 [] d = "7" -> 7 [] d = "9" -> 9]
Digits == DOMAIN Value
kPointerInvalidIndex == SizeLimit - 1
NeedPercentEncode(u) == u \notin Digits \cup {"a", "-", "~"}
Plain(u) == [u |-> u, pct |-> FALSE]
Triple(u) == [u |-> u, pct |-> TRUE]
Slash == Plain("/")

Init ==
    /\ source \in Sources
    /\ uri = FALSE /\ i = 1 /\ tokens = <<>> /\ name = <<>> /\ isNumber = FALSE
    /\ error = "none" /\ first = <<>> /\ pc = "start"

(* Mutant of Fail: the tokens before the error stay.                            *)
FailKeeps(code) ==
    /\ error' = code /\ pc' = "made"
    /\ UNCHANGED <<source, uri, i, tokens, name, isNumber, first>>

Fail(code) ==
    /\ error' = code /\ pc' = "made" /\ tokens' = <<>>
    /\ UNCHANGED <<source, uri, i, name, isNumber, first>>

(* The begin of Parse: a fragment has "#", and a pointer begins with "/".       *)
Start ==
    /\ pc = "start"
    /\ LET hash == source # <<>> /\ source[1] = Plain("#")
           from == IF hash THEN 2 ELSE 1
       IN  IF from <= Len(source) /\ source[from] # Slash
           THEN /\ error' = "TokenMustBeginWithSolidus" /\ pc' = "made" /\ i' = from
                /\ UNCHANGED <<uri, tokens>>
           ELSE /\ uri' = hash /\ i' = from
                /\ pc' = IF from <= Len(source) THEN "solidus" ELSE "made"
                /\ UNCHANGED <<tokens, error>>
    /\ UNCHANGED <<source, name, isNumber, first>>

Solidus ==
    /\ pc = "solidus"
    /\ i' = i + 1 /\ name' = <<>> /\ isNumber' = TRUE /\ pc' = "char"
    /\ UNCHANGED <<source, uri, tokens, error, first>>

InName == pc = "char" /\ i <= Len(source) /\ source[i] # Slash

(* Mutant of Unescape: "~0" is "/" and "~1" is "~".                             *)
UnescapeSwapped(u) ==
    LET next == IF i < Len(source) THEN source[i + 1] ELSE Plain("none")
        escaped == u = "~"
        c == IF ~escaped THEN u ELSE IF next.u = "1" THEN "~" ELSE "/"
    IN  IF escaped /\ next \notin {Plain("0"), Plain("1")}
        THEN /\ error' = "InvalidEscape" /\ pc' = "made" /\ tokens' = <<>> /\ i' = i + 1
             /\ UNCHANGED <<source, uri, name, isNumber, first>>
        ELSE /\ name' = Append(name, c)
             /\ isNumber' = (isNumber /\ c \in Digits)
             /\ i' = i + (IF escaped THEN 2 ELSE 1)
             /\ UNCHANGED <<source, uri, tokens, error, first, pc>>

(* The unit u was taken: an escape is resolved with the next character, which   *)
(* is read as it stands in the source.                                          *)
Unescape(u) ==
    LET next == IF i < Len(source) THEN source[i + 1] ELSE Plain("none")
        escaped == u = "~"
        c == IF ~escaped THEN u ELSE IF next.u = "0" THEN "~" ELSE "/"
    IN  IF escaped /\ next \notin {Plain("0"), Plain("1")}
        THEN /\ error' = "InvalidEscape" /\ pc' = "made" /\ tokens' = <<>> /\ i' = i + 1
             /\ UNCHANGED <<source, uri, name, isNumber, first>>
        ELSE /\ name' = Append(name, c)
             /\ isNumber' = (isNumber /\ c \in Digits)
             /\ i' = i + (IF escaped THEN 2 ELSE 1)
             /\ UNCHANGED <<source, uri, tokens, error, first, pc>>

(* One character of a name.                                                     *)
Char ==
    /\ InName /\ ~source[i].pct
    /\ IF uri /\ NeedPercentEncode(source[i].u) THEN Fail("CharacterMustPercentEncode")
       ELSE Unescape(source[i].u)

(* Outside a fragment "%" is a character as others, and so are the two behind   *)
(* it, for which "a" stands.                                                    *)
Literal ==
    /\ InName /\ source[i].pct /\ ~uri
    /\ name' = name \o <<"%", "a">> /\ isNumber' = FALSE /\ i' = i + 1
    /\ UNCHANGED <<source, uri, tokens, error, first, pc>>

(* PercentDecodeStream under Transcoder::Validate: one character of UTF-8.      *)
Decoded ==
    CASE source[i].u \in {"G", "a2"} -> <<>>
      [] source[i].u = "c2" ->
           IF i < Len(source) /\ source[i + 1] = Triple("a2") THEN <<"c2", "a2">> ELSE <<>>
      [] OTHER -> <<source[i].u>>

Percent ==
    /\ InName /\ source[i].pct /\ uri
    /\ CASE Decoded = <<>> -> Fail("InvalidPercentEncoding")
         [] Len(Decoded) = 1 -> Unescape(Decoded[1])
         [] OTHER ->
              /\ name' = name \o Decoded /\ isNumber' = FALSE /\ i' = i + 2
              /\ UNCHANGED <<source, uri, tokens, error, first, pc>>

(* Mutant of IndexOf: a leading zero does not matter.                           *)
IndexOfAnyZero(number) ==
    LET f[k \in 0 .. Len(name)] == IF k = 0 THEN 0 ELSE f[k - 1] * 10 + Value[name[k]]
    IN  IF number /\ name # <<>> /\ f[Len(name)] < SizeLimit THEN f[Len(name)] ELSE kPointerInvalidIndex

(* The conversion of a name to a SizeType, which takes a smaller number for the *)
(* sign of an overflow.                                                         *)
IndexOf(number) ==
    LET f[k \in 0 .. Len(name)] ==
            IF k = 0 THEN 0
            ELSE LET n == f[k - 1]
                     m == (n * 10 + Value[name[k]]) % SizeLimit
                 IN  IF n < 0 \/ m < n THEN -1 ELSE m
    IN  IF ~number \/ name = <<>> \/ (Len(name) > 1 /\ name[1] = "0") THEN kPointerInvalidIndex
        ELSE IF f[Len(name)] < 0 THEN kPointerInvalidIndex ELSE f[Len(name)]

EndToken ==
    /\ pc = "char" /\ ~InName
    /\ tokens' = Append(tokens, [name |-> name, index |-> IndexOf(isNumber)])
    /\ pc' = IF i <= Len(source) THEN "solidus" ELSE "made"
    /\ UNCHANGED <<source, uri, i, name, isNumber, error, first>>

(* Mutant of Written: "/" in a name is written as it is.                        *)
WrittenPlain(names, fragment) ==
    FoldLeft(LAMBDA text, n :
        text \o <<Slash>> \o [k \in DOMAIN n |->
            IF fragment /\ NeedPercentEncode(n[k]) THEN Triple(n[k]) ELSE Plain(n[k])],
        IF fragment THEN <<Plain("#")>> ELSE <<>>, names)

(* Stringify and PercentEncodeStream: "~" and "/" are escaped, and in a         *)
(* fragment what must be is written as triples.                                 *)
Written(names, fragment) ==
    LET Unit(u) ==
            CASE u = "~" -> <<Plain("~"), Plain("0")>>
              [] u = "/" -> <<Plain("~"), Plain("1")>>
              [] fragment /\ NeedPercentEncode(u) -> <<Triple(u)>>
              [] OTHER -> <<Plain(u)>>
    IN  FoldLeft(LAMBDA text, n : text \o <<Slash>> \o FlattenSeq([k \in DOMAIN n |-> Unit(n[k])]),
                 IF fragment THEN <<Plain("#")>> ELSE <<>>, names)

(* Whether all names can be transcoded.                                         *)
Transcodes(names) ==
    \A t \in DOMAIN names : \A k \in DOMAIN names[t] :
        /\ names[t][k] = "c2" => k < Len(names[t]) /\ names[t][k + 1] = "a2"
        /\ names[t][k] = "a2" => k > 1 /\ names[t][k - 1] = "c2"

Names(toks) == [t \in DOMAIN toks |-> toks[t].name]

(* A pointer without error is written, and the text parsed.                     *)
Stringify(fragment) ==
    /\ pc = "made" /\ error = "none" /\ first = <<>> /\ tokens # <<>>
    /\ fragment => Transcodes(Names(tokens))
    /\ source' = Written(Names(tokens), fragment)
    /\ first' = <<tokens>>
    /\ i' = 1 /\ uri' = FALSE /\ tokens' = <<>> /\ pc' = "start"
    /\ UNCHANGED <<name, isNumber, error>>

Next ==
    \/ Start \/ Solidus \/ Char \/ Literal \/ Percent \/ EndToken
    \/ \E fragment \in BOOLEAN : Stringify(fragment)
Spec == Init /\ [][Next]_vars

------------------------------------------------------------------------------
(* The standard: a fragment is decoded before it is read as a pointer, which is *)
(* cut at each "/" into names with escapes.                                     *)
IsFragment == source # <<>> /\ source[1] = Plain("#")
Body == IF IsFragment THEN Tail(source) ELSE source
Utf8(s) ==
    \A k \in DOMAIN s : s[k].pct =>
        /\ s[k].u # "G"
        /\ s[k].u = "c2" => k < Len(s) /\ s[k + 1] = Triple("a2")
        /\ s[k].u = "a2" => k > 1 /\ s[k - 1] = Triple("c2")
Units ==
    IF IsFragment THEN [k \in DOMAIN Body |-> Body[k].u]
    ELSE FlattenSeq([k \in DOMAIN Body |-> IF Body[k].pct THEN <<"%", "a">> ELSE <<Body[k].u>>])
Standard ==
    /\ Units = <<>> \/ Units[1] = "/"
    /\ \A k \in DOMAIN Units : Units[k] = "~" => k < Len(Units) /\ Units[k + 1] \in {"0", "1"}
    /\ IsFragment => /\ Utf8(Body)
                     /\ \A k \in DOMAIN Body : ~Body[k].pct /\ NeedPercentEncode(Body[k].u) => Body[k] = Slash
Pieces ==
    LET cuts == {k \in DOMAIN Units : Units[k] = "/"}
        Piece(k) == {j \in k + 1 .. Len(Units) : cuts \cap (k + 1 .. j) = {}}
    IN  [n \in 1 .. Cardinality(cuts) |->
            LET k == CHOOSE k \in cuts : Cardinality({c \in cuts : c <= k}) = n
            IN  SubSeq(Units, k + 1, k + Cardinality(Piece(k)))]
Unescaped(p) ==
    LET keep == SelectSeq([k \in DOMAIN p |-> k], LAMBDA k : k = 1 \/ p[k - 1] # "~")
    IN  [k \in DOMAIN keep |->
            IF p[keep[k]] # "~" THEN p[keep[k]] ELSE IF p[keep[k] + 1] = "0" THEN "~" ELSE "/"]
Number(p) ==
    LET f[k \in 0 .. Len(p)] == IF k = 0 THEN 0 ELSE f[k - 1] * 10 + Value[p[k]] IN f[Len(p)]
IsIndex(p) == p # <<>> /\ (\A k \in DOMAIN p : p[k] \in Digits) /\ (Len(p) > 1 => p[1] # "0")

(* A triple that stands for a character of the syntax.                          *)
Hidden ==
    \E k \in DOMAIN Body : Body[k].pct /\ (Body[k].u = "/" \/ (k > 1 /\ Body[k - 1].u = "~"))

TypeOK ==
    /\ i \in 1 .. Len(source) + 1
    /\ \A t \in DOMAIN tokens : tokens[t].index \in 0 .. SizeLimit - 1
    /\ error # "none" => tokens = <<>> /\ pc = "made"

(* The names are those of RFC 6901, for texts in which no character of the      *)
(* syntax is written as a triple.                                               *)
NamesAsSpecified ==
    pc = "made" /\ ~(IsFragment /\ Hidden) =>
        IF Standard THEN error = "none" /\ Names(tokens) = [n \in DOMAIN Pieces |-> Unescaped(Pieces[n])]
        ELSE error # "none"

(* The index of a token is the number its name is.                              *)
IndexAsNumber ==
    \A t \in DOMAIN tokens :
        LET p == tokens[t].name IN
        /\ ~IsIndex(p) => tokens[t].index = kPointerInvalidIndex
        /\ IsIndex(p) /\ Number(p) < SizeLimit => tokens[t].index = Number(p)

(* A pointer that is written, in either form, and parsed is the same pointer.   *)
RoundTrip == pc = "made" /\ first # <<>> => error = "none" /\ tokens = first[1]

(* A fragment is parsed as RFC 6901 says, however it is written.                *)
FragmentsAsSpecified ==
    pc = "made" /\ IsFragment /\ Standard =>
        error = "none" /\ Names(tokens) = [n \in DOMAIN Pieces |-> Unescaped(Pieces[n])]

(* A number that is too great for an index is a name.                           *)
TooGreatIsName ==
    \A t \in DOMAIN tokens :
        IsIndex(tokens[t].name) /\ Number(tokens[t].name) >= SizeLimit => tokens[t].index = kPointerInvalidIndex
------------------------------------------------------------------------------
(* A GenericPointer and the value it is resolved in.  A value is [k, items]: an *)
(* array or object with items [key, val], null, or a scalar.  A token is        *)
(* [name, index]; the pointer is parsed or has the tokens of a user, for which  *)
(* it has no buffer of names.                                                   *)

CONSTANTS
    Tokens,      \* the tokens of pointers
    Scalars,     \* values that are no structure
    MaxTokens,   \* bounds the pointers
    MaxNodes,    \* bounds the values
    MaxHeld      \* ... and the one of the caller

NoIndex == -1    \* kPointerInvalidIndex

VARIABLES
    root, held,     \* the value, and one of the caller
    pointer,        \* [tokens, buffer]: buffer when it owns names
    crashed         \* names were copied from no buffer

treeVars == <<root, held, pointer, crashed>>

Scalar(k) == [k |-> k, items |-> <<>>]
Null == Scalar("null")
Values == {Scalar(k) : k \in Scalars}
Structure(v) == v.k \in {"array", "object"}

RECURSIVE Nodes(_)
Nodes(v) == 1 + FoldLeft(LAMBDA n, it : n + Nodes(it.val), 0, v.items)

InitTree ==
    /\ root = Null /\ held \in Values
    /\ pointer = [tokens |-> <<>>, buffer |-> FALSE]
    /\ crashed = FALSE

------------------------------------------------------------------------------
(* FindMember or the index: where the token leads in v, 0 if nowhere.           *)
Place(v, t) ==
    CASE v.k = "object" ->
           IF \E n \in DOMAIN v.items : v.items[n].key = t.name
           THEN CHOOSE n \in DOMAIN v.items :
                    v.items[n].key = t.name /\ \A j \in 1 .. n - 1 : v.items[j].key # t.name
           ELSE 0
      [] v.k = "array" -> IF t.index # NoIndex /\ t.index < Len(v.items) THEN t.index + 1 ELSE 0
      [] OTHER -> 0

(* Get: the value, and the tokens that were resolved.                           *)
RECURSIVE Get(_, _)
Get(v, toks) ==
    IF toks = <<>> THEN [found |-> TRUE, val |-> v, resolved |-> 0]
    ELSE LET n == Place(v, Head(toks)) IN
         IF n = 0 THEN [found |-> FALSE, val |-> Null, resolved |-> 0]
         ELSE LET g == Get(v.items[n].val, Tail(toks)) IN [g EXCEPT !.resolved = @ + 1]

(* Mutant of IsAppend: any name appends to an array.                            *)
IsAppendAny(v, t) == v.k = "array" /\ t.index = NoIndex

IsAppend(v, t) == v.k = "array" /\ t.name = "-"

(* Mutant of Shaped: the items of an array stay when it becomes an object.      *)
ShapedKeeps(v, t) ==
    IF IsAppend(v, t) THEN v
    ELSE IF t.index = NoIndex THEN [v EXCEPT !.k = "object"]
    ELSE IF Structure(v) THEN v ELSE Scalar("array")

(* Mutant of Shaped: an object becomes an array for an index.                   *)
ShapedByToken(v, t) ==
    IF IsAppend(v, t) THEN v
    ELSE IF t.index = NoIndex THEN IF v.k = "object" THEN v ELSE Scalar("object")
    ELSE IF v.k = "array" THEN v ELSE Scalar("array")

(* The value changed into what the token can be resolved in.                    *)
Shaped(v, t) ==
    IF IsAppend(v, t) THEN v
    ELSE IF t.index = NoIndex THEN IF v.k = "object" THEN v ELSE Scalar("object")
    ELSE IF Structure(v) THEN v ELSE Scalar("array")

Nulls(n) == [k \in 1 .. n |-> [key |-> "none", val |-> Null]]

(* Mutant of Grown: an array grows at its front.                                *)
GrownFront(v, t) ==
    CASE IsAppend(v, t) -> [v EXCEPT !.items = @ \o Nulls(1)]
      [] v.k = "array" /\ t.index >= Len(v.items) -> [v EXCEPT !.items = Nulls(t.index + 1 - Len(@)) \o @]
      [] v.k = "object" /\ Place(v, t) = 0 -> [v EXCEPT !.items = Append(@, [key |-> t.name, val |-> Null])]
      [] OTHER -> v

(* ... with the item of the token added when it is missing.                     *)
Grown(v, t) ==
    CASE IsAppend(v, t) -> [v EXCEPT !.items = @ \o Nulls(1)]
      [] v.k = "array" /\ t.index >= Len(v.items) -> [v EXCEPT !.items = @ \o Nulls(t.index + 1 - Len(@))]
      [] v.k = "object" /\ Place(v, t) = 0 -> [v EXCEPT !.items = Append(@, [key |-> t.name, val |-> Null])]
      [] OTHER -> v

(* Mutant of Create: a value that was created below another counts as there.    *)
RECURSIVE CreateForgets(_, _, _)
CreateForgets(v, toks, new) ==
    IF toks = <<>> THEN [val |-> IF new = {} THEN v ELSE CHOOSE x \in new : TRUE, exist |-> TRUE, old |-> v]
    ELSE LET t == Head(toks)
             shaped == Shaped(v, t)
             grown == Grown(shaped, t)
             n == IF IsAppend(v, t) THEN Len(grown.items) ELSE Place(grown, t)
             sub == CreateForgets(grown.items[n].val, Tail(toks), new)
         IN  [val |-> [grown EXCEPT !.items[n].val = sub.val], exist |-> grown = shaped, old |-> sub.old]

(* Create, and what is done with the value it returns: the new root, whether    *)
(* the value existed, and what it was.                                          *)
RECURSIVE Create(_, _, _)
Create(v, toks, new) ==
    IF toks = <<>> THEN [val |-> IF new = {} THEN v ELSE CHOOSE x \in new : TRUE, exist |-> TRUE, old |-> v]
    ELSE LET t == Head(toks)
             shaped == Shaped(v, t)
             grown == Grown(shaped, t)
             n == IF IsAppend(v, t) THEN Len(grown.items) ELSE Place(grown, t)
             sub == Create(grown.items[n].val, Tail(toks), new)
         IN  [val |-> [grown EXCEPT !.items[n].val = sub.val],
              exist |-> sub.exist /\ grown = shaped,
              old |-> sub.old]

(* Mutant of Erased: an erased item of an array leaves null.                    *)
RECURSIVE ErasedNull(_, _)
ErasedNull(v, toks) ==
    LET n == Place(v, Head(toks)) IN
    IF n = 0 THEN v
    ELSE IF Len(toks) > 1 THEN [v EXCEPT !.items[n].val = ErasedNull(@, Tail(toks))]
    ELSE IF v.k = "array" THEN [v EXCEPT !.items[n].val = Null] ELSE [v EXCEPT !.items = RemoveAt(@, n)]

(* Erase: of what the tokens but the last lead to, which is there.              *)
RECURSIVE Erased(_, _)
Erased(v, toks) ==
    LET n == Place(v, Head(toks)) IN
    IF n = 0 THEN v
    ELSE IF Len(toks) > 1 THEN [v EXCEPT !.items[n].val = Erased(@, Tail(toks))]
    ELSE [v EXCEPT !.items = RemoveAt(@, n)]
Erase(v, toks) == IF toks = <<>> THEN v ELSE Erased(v, toks)

------------------------------------------------------------------------------
(* The constructors: of parsed text, and of tokens of the user.                 *)
Parse(toks) == /\ pointer' = [tokens |-> toks, buffer |-> TRUE]
               /\ UNCHANGED <<root, held, crashed>>
UserTokens(toks) == /\ pointer' = [tokens |-> toks, buffer |-> FALSE]
                    /\ UNCHANGED <<root, held, crashed>>

(* Append, with CopyFromRaw: the names are copied from the buffer.              *)
AppendToken(t) ==
    /\ Len(pointer.tokens) < MaxTokens
    /\ IF pointer.tokens # <<>> /\ ~pointer.buffer
       THEN crashed' = TRUE /\ UNCHANGED pointer
       ELSE pointer' = [tokens |-> Append(pointer.tokens, t), buffer |-> TRUE] /\ UNCHANGED crashed
    /\ UNCHANGED <<root, held>>

Small(v) == Nodes(v) <= MaxNodes

CreateValue ==
    /\ root' = Create(root, pointer.tokens, {}).val /\ Small(root')
    /\ UNCHANGED <<held, pointer, crashed>>

(* Set of a copy, and of a value that is moved.                                 *)
SetCopy ==
    /\ root' = Create(root, pointer.tokens, {held}).val /\ Small(root')
    /\ UNCHANGED <<held, pointer, crashed>>
SetMove ==
    /\ root' = Create(root, pointer.tokens, {held}).val /\ Small(root')
    /\ held' = Null
    /\ UNCHANGED <<pointer, crashed>>

GetWithDefault ==
    LET c == Create(root, pointer.tokens, {}) IN
    /\ root' = IF c.exist THEN c.val ELSE Create(root, pointer.tokens, {held}).val
    /\ Small(root')
    /\ UNCHANGED <<held, pointer, crashed>>

Swap ==
    LET c == Create(root, pointer.tokens, {held}) IN
    /\ root' = c.val /\ held' = c.old /\ Small(root') /\ Nodes(held') <= MaxHeld
    /\ UNCHANGED <<pointer, crashed>>

EraseValue ==
    /\ root' = Erase(root, pointer.tokens)
    /\ UNCHANGED <<held, pointer, crashed>>

(* The functions on values: a pointer is made of a literal for the one call.    *)
CreateValueByPointer(t) ==
    /\ root' = Create(root, <<t>>, {}).val /\ Small(root')
    /\ UNCHANGED <<held, pointer, crashed>>
SetValueByPointer(t) ==
    /\ root' = Create(root, <<t>>, {held}).val /\ Small(root')
    /\ held' \in {held, Null}
    /\ UNCHANGED <<pointer, crashed>>
GetValueByPointerWithDefault(t) ==
    /\ root' = Create(root, <<t>>, IF Create(root, <<t>>, {}).exist THEN {} ELSE {held}).val
    /\ Small(root')
    /\ UNCHANGED <<held, pointer, crashed>>
SwapValueByPointer(t) ==
    LET c == Create(root, <<t>>, {held}) IN
    /\ root' = c.val /\ held' = c.old /\ Small(root') /\ Nodes(held') <= MaxHeld
    /\ UNCHANGED <<pointer, crashed>>
EraseValueByPointer(t) ==
    /\ root' = Erase(root, <<t>>)
    /\ UNCHANGED <<held, pointer, crashed>>

NextTree ==
    /\ ~crashed
    /\ \/ \E t \in Tokens : AppendToken(t) \/ Parse(<<t>>) \/ UserTokens(<<t>>)
       \/ \E t \in Tokens : \/ CreateValueByPointer(t) \/ SetValueByPointer(t) \/ GetValueByPointerWithDefault(t)
                           \/ SwapValueByPointer(t) \/ EraseValueByPointer(t)
       \/ Parse(<<>>)
       \/ CreateValue \/ SetCopy \/ SetMove \/ GetWithDefault \/ Swap \/ EraseValue
SpecTree == InitTree /\ [][NextTree]_treeVars

------------------------------------------------------------------------------
(* The pointer at hand, and others.                                             *)
Pointers == UNION {[1 .. n -> Tokens] : n \in 0 .. 2}
p == pointer.tokens
Prefixed(s, t) == Len(s) <= Len(t) /\ SubSeq(t, 1, Len(s)) = s
Resolves(v, toks) == Get(v, toks).found

(* The places of the items that a pointer leads through.                        *)
RECURSIVE Path(_, _)
Path(v, toks) ==
    IF toks = <<>> THEN <<>>
    ELSE <<Place(v, Head(toks))>> \o Path(v.items[Place(v, Head(toks))].val, Tail(toks))

RECURSIVE WellFormed(_)
WellFormed(v) ==
    /\ v.items # <<>> => Structure(v)
    /\ \A n \in DOMAIN v.items :
          /\ v.k = "array" <=> v.items[n].key = "none"
          /\ \A m \in 1 .. n - 1 : v.k = "object" => v.items[m].key # v.items[n].key
          /\ WellFormed(v.items[n].val)

TreeTypeOK ==
    /\ Len(pointer.tokens) <= MaxTokens /\ Nodes(root) <= MaxNodes /\ Nodes(held) <= MaxHeld
    /\ WellFormed(root) /\ WellFormed(held)

(* What is set by a pointer is what the pointer then gets; "-" is an item that  *)
(* is new, so nothing is found by it in an array.                               *)
SetIsGot ==
    \A v \in Values :
        LET after == Create(root, p, {v}).val IN
        \/ Get(after, p).found /\ Get(after, p).val = v
        \/ \E n \in DOMAIN p : /\ p[n].name = "-" /\ Get(after, SubSeq(p, 1, n - 1)).val.k = "array"
                               /\ ~Get(after, p).found /\ Get(after, p).resolved = n - 1

(* alreadyExist says that Get would have found the value.                       *)
ExistIsFound == Create(root, p, {}).exist <=> Resolves(root, p)

(* Create takes no value away unless a structure on its way is changed into     *)
(* another kind: what another pointer led to is where it was.                   *)
CreateKeeps ==
    \A q \in Pointers :
        LET after == Create(root, p, {}).val
            kept == \A n \in 0 .. Len(p) - 1 :
                        LET g == Get(root, SubSeq(p, 1, n)) IN
                        g.found /\ Structure(g.val) => Get(after, SubSeq(p, 1, n)).val.k = g.val.k
        IN  Resolves(root, q) /\ kept =>
                /\ Resolves(after, q)
                /\ Path(after, q) = Path(root, q)
                /\ ~Structure(Get(root, q).val) /\ ~Prefixed(q, p) => Get(after, q).val = Get(root, q).val

(* Create changes an object into an array or back only for a token that cannot  *)
(* be resolved in it.                                                           *)
ObjectsStay ==
    \A n \in 0 .. Len(p) - 1 :
        LET g == Get(root, SubSeq(p, 1, n)) IN
        g.found /\ g.val.k = "object" => Get(Create(root, p, {}).val, SubSeq(p, 1, n)).val.k = "object"

(* Erase takes away the value that is found and nothing else.                   *)
EraseTakesOne ==
    LET after == Erase(root, p) IN
        IF p # <<>> /\ Resolves(root, p)
        THEN Nodes(after) = Nodes(root) - Nodes(Get(root, p).val)
        ELSE after = root

(* A pointer to which a token is appended has its tokens and the new one.       *)
AppendAppends == ~crashed
==============================================================================
