------------------------------- MODULE MCRapid -------------------------------
(* rapidjson's components, each on small inputs: its readers of texts, streams,*)
(* strings, numbers, pointers and regular expressions, and its values, writers *)
(* and schemas.  They share no state, so a behaviour is one of a single of     *)
(* them, `part'; the variables of the others are Off.                          *)
EXTENDS Integers, Sequences, FiniteSets, SequencesExt, TLC

(* What the components are given.                                              *)
(* Streams: texts of code points at the limits of every length of encoding, in*)
(* every encoding, and UTF-8 bytes at the limits of every class.              *)
CPs == {91, 127, 128, 2047, 2048, 55295, 57344, 65279, 65535, 65536, 1114111}
Lead == {65, 128, 193, 194, 223, 224, 237, 238, 240, 243, 244, 245, 255}
Follow == {65, 127, 128, 143, 144, 159, 160, 191, 192}

Encoded ==
  [cps : UNION {[1 .. n -> CPs] : n \in 1 .. 2} \cup [1 .. 3 -> {91, 34}], bytes : {<<>>},
   type : {"UTF8", "UTF16LE", "UTF16BE", "UTF32LE", "UTF32BE"}, bom : BOOLEAN,
   source : {"file", "memory"}, reader : {"auto", "told"}, user : {"UTF8"}]
    \cup
  [cps : {<<>>},
   bytes : {<<b>> \o s : b \in Lead, s \in BoundedSeq(Follow, 3)},
   type : {"UTF8"}, bom : {FALSE}, source : {"memory"}, reader : {"told"}, user : {"UTF8"}]

(* Strings of up to two pieces, at every place of a block of four bytes.      *)
Good(text, val) == [src |-> text, val |-> val, bad |-> {}]
Bad(text, code) == [src |-> text, val |-> <<>>, bad |-> {code}]

GoodPieces == {
    Good(<<97>>, <<97>>), Good(<<97, 98, 99, 100, 101, 102>>, <<97, 98, 99, 100, 101, 102>>),
    Good(<<92, 110>>, <<10>>), Good(<<92, 34>>, <<34>>),
    Good(<<92, 117, 48, 48, 52, 49>>, <<65>>),                      \* 0041
    Good(<<92, 117, 48, 48, 101, 57>>, <<195, 169>>),               \* 00e9
    Good(<<92, 117, 50, 48, 65, 67>>, <<226, 130, 172>>),           \* 20AC
    Good(<<92, 117, 68, 56, 51, 68, 92, 117, 68, 69, 48, 48>>, <<240, 159, 152, 128>>),
    Good(<<195, 169>>, <<195, 169>>)}
BadPieces == {
    Bad(<<92, 120>>, "EscapeInvalid"), Bad(<<9>>, "InvalidEncoding"),
    Bad(<<92, 117, 48, 48, 52, 103>>, "UnicodeEscapeInvalidHex"),
    Bad(<<92, 117, 68, 56, 51, 68, 97>>, "UnicodeSurrogateInvalid"),
    Bad(<<92, 117, 68, 56, 51, 68, 92, 117, 48, 48, 52, 49>>, "UnicodeSurrogateInvalid")}
Pieces == GoodPieces \cup BadPieces

Turns == <<[build |-> "generic", mode |-> "stack"], [build |-> "generic", mode |-> "insitu"],
            [build |-> "generic", mode |-> "memory"],
            [build |-> "sse", mode |-> "stack"], [build |-> "sse", mode |-> "insitu"],
            [build |-> "sse", mode |-> "memory"],
            [build |-> "neon", mode |-> "stack"], [build |-> "neon", mode |-> "insitu"]>>

Blank == <<32, 10, 9, 32, 13, 32, 32>>
Text(p, w, closed) ==
    SubSeq(Blank, 1, w) \o <<34>> \o FlattenSeq([k \in DOMAIN p |-> p[k].src])
        \o (IF closed THEN <<34, 44>> ELSE <<>>) \o <<0>>

Strings ==
    UNION {{[text |-> Text(p, w, closed), base |-> b, rest |-> 34, validate |-> check,
             pieces |-> p, white |-> w, closed |-> closed, writer |-> "none"]
             : p \in [1 .. n -> Pieces], w \in IF n = 2 THEN {0, 7} ELSE {0, 1, 7}, b \in {0, 3}, closed \in BOOLEAN, check \in BOOLEAN}
             : n \in 0 .. 2}

(* Strings that are written first: of every length about that of a block, with*)
(* a byte that is escaped or none at each place, and bytes that are no UTF-8. *)
As(n) == [k \in 1 .. n |-> 97]
Characters8 == {<<195, 169>>, <<226, 130, 172>>, <<240, 159, 152, 128>>, <<195>>, <<237, 160, 128>>}
Values == {As(n) : n \in 0 .. 9}
            \cup UNION {{As(i) \o <<c>> \o As(n - i) : i \in 0 .. n} : c \in {34, 0}, n \in {3, 8}}
            \cup {As(i) \o c \o As(n) : c \in Characters8, i \in {0, 4}, n \in {0, 4}}
            \cup {<<10, 92, 97, 13, 34>>}
Written ==
    {[text |-> v \o <<0>>, base |-> b, rest |-> 34, validate |-> FALSE, pieces |-> <<>>, white |-> 0,
      closed |-> TRUE, writer |-> w]
      : v \in Values, b \in {0, 3}, w \in {"generic", "sse", "neon", "validating", "ascii"}}

(* RapidReader: texts of up to three characters with every combination of     *)
(* flags, longer ones of brackets, commas and strings, what may follow a      *)
(* member of an object, and handlers that refuse one of the first four events.*)
Characters == {"{", "}", "[", "]", ",", ":", "s", "S", "n", "x", " ", "c", "/"}
Brackets == {"{", "}", "[", "]", ",", ":", "s"}
Opened(n) == {t \in BoundedSeq(Brackets, n) : t # <<>> /\ Head(t) \in {"[", "{"}}
Read ==
  [text : BoundedSeq(Characters, 3), stop : {0},
   flags : {{}, {"comments"}, {"trailing"}, {"stop when done"}, {"comments", "stop when done"}}]
    \cup [text : Opened(5), flags : {{}, {"trailing"}}, stop : {0}]
    \cup [text : Opened(4), flags : {{}, {"trailing"}}, stop : 1 .. 4]
    \cup [text : {<<"{", "s", ":", "s">> \o t : t \in BoundedSeq(Brackets, 4)},
          flags : {{}, {"trailing"}}, stop : {0}]

(* RapidBigInteger: words of ten bits, numbers of up to three words, and the  *)
(* binary numbers next to them that have nine significant bits at most.       *)
Numerals == (1 .. 20) \cup (1015 .. 1035) \cup (1022990 .. 1023005)
              \cup (1047550 .. 1047560) \cup {99999, 999999, 100000, 1234567}

Digits(n) ==
    LET len == CHOOSE k \in 1 .. 9 : n < 10 ^ k /\ (k = 1 \/ n >= 10 ^ (k - 1))
    IN  [i \in 1 .. len |-> (n \div 10 ^ (len - i)) % 10]

Quotient(n, d, e) ==    \* the integer part of n * 10^d / 2^e
    (n * (IF d > 0 THEN 10 ^ d ELSE 1) * (IF e < 0 THEN 2 ^ (-e) ELSE 1))
        \div ((IF d < 0 THEN 10 ^ (-d) ELSE 1) * (IF e > 0 THEN 2 ^ e ELSE 1))

Comparisons ==
    {j \in {[decimals |-> Digits(n), dExp |-> d, b |-> Quotient(n, d, e) + k, bExp |-> e, build |-> u]
              : n \in Numerals, d \in -2 .. 2, e \in -3 .. 13, k \in {0, 1}, u \in {"wide", "portable"}}
        : j.b \in 1 .. 511}

(* RapidCompare, texts of numbers: all of up to four characters, integers at   *)
(* the limits of both widths and of doubles, with fractions and exponents at   *)
(* theirs, and the words for no number.                                        *)
NumberChars == {"-", "0", "1", "6", ".", "e", "+", "N", "I"}
Ints == {<<"0">>, <<"7">>, <<"1", "5">>, <<"1", "6">>, <<"1", "7">>, <<"3", "1">>, <<"3", "2">>,
         <<"5", "1", "1">>, <<"5", "1", "2">>, <<"5", "1", "3">>, <<"1", "0", "2", "3">>, <<"1", "0", "2", "4">>,
         <<"6", "0", "0", "0">>}
BigInts == {<<"1", "7", "9", "7", "6", "9", "3">> \o t
              : t \in {<<"1", "2">>, <<"1", "2", "9">>, <<"1", "3", "0">>, <<"1", "3", "9">>, <<"1", "4", "0">>}}
Point(t) == IF t = <<>> THEN <<>> ELSE <<".">> \o t
Fractions == {Point(t) : t \in {<<>>, <<"0">>, <<"5">>, <<"9", "9">>, <<"1", "2", "3">>}}
LongFractions == {Point(t) : t \in {<<"0", "0", "0", "0", "6">>, <<"1", "2", "3", "4", "5", "6", "7">>,
                                    <<"0", "0", "9", "8", "7", "6", "5">>}}
Exps == {<<>>} \cup {<<"e">> \o t : t \in {<<"0">>, <<"9">>, <<"+", "9">>, <<"1", "0">>, <<"1", "2">>, <<"1", "6">>,
                                           <<"1", "7">>, <<"9", "9">>}}
          \cup {<<"E", "-">> \o t : t \in {<<"9">>, <<"1", "5">>, <<"1", "8">>, <<"1", "9">>, <<"5", "0">>,
                                           <<"5", "0", "9">>, <<"5", "1", "0">>, <<"6", "0", "0">>}}
Words == {<<"N", "a", "N">>, <<"N", "a">>, <<"I", "n", "f">>, <<"I", "n", "f", "i">>,
          <<"I", "n", "f", "i", "n", "i", "t", "y">>}
Signed(S) == S \cup {<<"-">> \o t : t \in S}
Joined(S, T) == {s \o t : s \in S, t \in T}
NumberTexts ==
  LET Number(text, flags, build, refused) ==
        [kind : {"texts"}, text : text, flags : flags, build : build, refused : refused]
      numbers == Joined(Ints, Joined(Fractions, Exps))
                   \cup Joined({<<"0">>, <<"7">>, <<"3", "2">>}, Joined(LongFractions, Exps))
                   \cup Joined(BigInts, {<<",">>})
  IN  Number(BoundedSeq(NumberChars, 4), {{}, {"nan"}, {"strings"}}, {"64 bit"}, {FALSE})
        \cup Number(Signed(numbers), {{}, {"full"}, {"strings"}, {"strings", "insitu"}}, {"64 bit", "32 bit"}, {FALSE})
        \cup Number({<<"1", "7", ",">>, <<"-", "0">>}, {{}, {"strings"}}, {"64 bit"}, {TRUE})
        \cup Number(Signed(Joined(Words, {<<>>, <<",">>, <<".", "1">>})), {{}, {"nan"}, {"nan", "full"}}, {"64 bit"}, {FALSE})

(* RapidPointer: pointers and fragments of up to four characters, and numbers;*)
(* names, indexes and "-" in values of up to three nodes.                     *)
Unit(u) == [u |-> u, pct |-> FALSE]
Triple(u) == [u |-> u, pct |-> TRUE]
PointerChars == {Unit(u) : u \in {"/", "~", "0", "1", "9", "a", " ", "a2"}}
           \cup {Triple(u) : u \in {"/", "~", "0", "c2", "a2", "G", " "}}
PointerTexts == {<<Unit("/")>> \o s : s \in BoundedSeq(PointerChars, 3)}
IndexTexts == {<<Unit("/")>> \o [k \in DOMAIN s |-> Unit(s[k])] : s \in {<<"6", "4">>, <<"6", "5">>, <<"6", "9">>, <<"7", "0">>, <<"9", "9">>, <<"4", "5">>}}
Sourced == PointerTexts \cup {<<Unit("#")>> \o s : s \in PointerTexts} \cup IndexTexts
               \cup {<<>>, <<Unit("#")>>, <<Unit("a")>>, <<Unit("#"), Unit("a")>>}
PathTokens == {[name |-> "a", index |-> -1], [name |-> "-", index |-> -1],
             [name |-> "0", index |-> 0], [name |-> "1", index |-> 1]}

(* RapidRegex: expressions of up to three operators and what they are written *)
(* as.                                                                        *)
Ast(op, c, subs, lo, hi) == [op |-> op, c |-> c, subs |-> subs, lo |-> lo, hi |-> hi]
Letter(c) == Ast("char", {c}, <<>>, 0, 0)
Letters == {"a", "b", "c", "-"}
Leaves == {Letter("a"), Letter("b")}
Classes == {Ast("char", Letters, <<>>, 0, 0), Ast("char", {"a", "b"}, <<>>, 0, 0), Ast("char", {"c", "-"}, <<>>, 0, 0), Ast("char", {"a", "-"}, <<>>, 0, 0)}
Reps(sub) == {Ast("rep", {}, <<sub>>, r[1], r[2]) : r \in {<<0, -1>>, <<1, -1>>, <<0, 1>>, <<2, 2>>, <<0, 2>>, <<1, 3>>, <<2, -1>>}}
Two(op, x, y) == Ast(op, {}, <<x, y>>, 0, 0)
Simple == Leaves \cup UNION {Reps(l) : l \in Leaves} \cup {Two(op, x, y) : op \in {"cat", "alt"}, x, y \in Leaves}
Compound ==
    Simple \cup UNION {Reps(s) : s \in {s \in Simple : s.op # "rep" \/ s.lo > 0}}
      \cup {Two(op, x, y) : op \in {"cat", "alt"}, x \in Simple, y \in Classes \cup {Letter("a"), Two("alt", Letter("a"), Letter("b"))}}
      \cup {Two(op, x, y) : op \in {"cat", "alt"}, x \in {Letter("a"), Two("cat", Letter("b"), Letter("a"))}, y \in Simple}

Quantified(lo, hi) ==
    CASE <<lo, hi>> = <<0, -1>> -> <<"*">> [] <<lo, hi>> = <<1, -1>> -> <<"+">> [] <<lo, hi>> = <<0, 1>> -> <<"?">>
      [] <<lo, hi>> = <<2, 2>> -> <<"{", "2", "}">> [] <<lo, hi>> = <<2, -1>> -> <<"{", "2", ",", "}">>
      [] <<lo, hi>> = <<0, 2>> -> <<"{", "0", ",", "2", "}">> [] <<lo, hi>> = <<1, 3>> -> <<"{", "1", ",", "3", "}">>
Group(s) == <<"(">> \o s \o <<")">>
RECURSIVE Shown(_)
Shown(ast) ==
    CASE ast.op = "char" -> (CASE ast.c = {"a"} -> <<"a">> [] ast.c = {"b"} -> <<"b">> [] ast.c = Letters -> <<".">>
                               [] ast.c = {"a", "b"} -> <<"[", "a", "-", "b", "]">>
                               [] ast.c = {"c", "-"} -> <<"[", "^", "a", "b", "]">>
                               [] ast.c = {"a", "-"} -> <<"[", "a", "-", "]">>)
      [] ast.op = "cat" -> LET Part(x) == IF x.op = "alt" THEN Group(Shown(x)) ELSE Shown(x)
                           IN  Part(ast.subs[1]) \o Part(ast.subs[2])
      [] ast.op = "alt" -> Shown(ast.subs[1]) \o <<"|">> \o Shown(ast.subs[2])
      [] ast.op = "rep" -> LET x == ast.subs[1]
                           IN  (IF x.op = "char" THEN Shown(x) ELSE Group(Shown(x))) \o Quantified(ast.lo, ast.hi)
      [] ast.op = "begin" -> <<"^">> \o Shown(ast.subs[1])
      [] ast.op = "end" -> Shown(ast.subs[1]) \o <<"$">>

AsWritten(ast) == [pattern |-> Shown(ast), ast |-> ast]
Begin(x) == Ast("begin", {}, <<x>>, 0, 0)
End(x) == Ast("end", {}, <<x>>, 0, 0)
Patterns == {AsWritten(x) : x \in Compound \cup {Begin(x) : x \in Leaves \cup {Two("cat", Letter("a"), Letter("b"))}}
                              \cup {End(x) : x \in Leaves} \cup {Begin(End(x)) : x \in Simple \ {Two("alt", x, y) : x, y \in Leaves}}}
              \cup {[pattern |-> <<"\\", "(", "a">>, ast |-> Ast("cat", {}, <<Letter("("), Letter("a")>>, 0, 0)]}
Searched == BoundedSeq({"a", "b"}, 3) \cup {<<"c">>, <<"-">>, <<"a", "c">>, <<"a", "-">>, <<"c", "b">>, <<"a", "a", "a", "a">>}

(* RapidWriter: both writers, and responses of up to two seats of up to two   *)
(* bids.                                                                      *)
Bids(prices) == [price : prices, adomain : {0, 2}, attr : {0, 1}]
Seats(prices) == BoundedSeq(Bids(prices), 2)
Responded == [seatbid : {<<>>} \cup {<<s>> : s \in Seats({"num", "nan"})} \cup {<<s, t>> : s \in Seats({"num"}), t \in {<<>>, <<[price |-> "num", adomain |-> 1, attr |-> 2]>>}}]

(* RapidSchema: schemas with each keyword and with combinations of them, and  *)
(* the values that are on both sides of each.                                 *)
Node(k, num, str, m) == [k |-> k, num |-> num, str |-> str, m |-> m]
Null == Node("null", 0, "", <<>>)
Bool(b) == Node("bool", IF b THEN 1 ELSE 0, "", <<>>)
Num(n) == Node(IF n % 2 = 1 THEN "double" ELSE IF n < 0 THEN "int" ELSE "uint", n, "", <<>>)
Uint(n) == Num(2 * n)
Str(s) == Node("string", 0, s, <<>>)
Arr(xs) == Node("array", 0, "", [i \in DOMAIN xs |-> [n |-> "", v |-> xs[i]]])
Obj(xs) == Node("object", 0, "", [i \in DOMAIN xs |-> [n |-> xs[i][1], v |-> xs[i][2]]])
Type(t) == Obj(<< <<"type", Str(t)>> >>)
Ref(s) == Obj(<< <<"$ref", Str(s)>> >>)
With(kw, x) == Obj(<< <<kw, x>> >>)
Of(schemas, instances) == {[schema |-> s, instance |-> x] : s \in schemas, x \in instances}

RefPointers == [s \in {"#", "#/definitions/a", "#/definitions/b", "#/definitions/c", "#/properties/x"} |->
    CASE s = "#" -> <<>> [] s = "#/definitions/a" -> <<"definitions", "a">>
      [] s = "#/definitions/b" -> <<"definitions", "b">> [] s = "#/definitions/c" -> <<"definitions", "c">>
      [] OTHER -> <<"properties", "x">>]
Hits == {<<"^x", "x">>, <<"^x", "xy">>, <<"y$", "xy">>, <<"y$", "y">>}
Misfits == {"["}

(* Numbers of the three types about the greatest Int64.                         *)
Bounds == {Num(n) : n \in {-2, 1, 2, 4}}
NumberCases ==
    Of({Obj(<< <<kw[1], b>>, <<kw[2], Bool(x)>> >>) :
            kw \in {<<"minimum", "exclusiveMinimum">>, <<"maximum", "exclusiveMaximum">>}, b \in Bounds, x \in BOOLEAN}
        \cup {With("multipleOf", Num(n)) : n \in {3, 4}} \cup {Type("integer"), Type("number")},
       {Num(n) : n \in {-3, -2, 1, 2, 3, 4, 6}})

Simples == {Null, Bool(TRUE), Num(2), Num(3), Str("x"), Str("xyz")}
StringCases == Of({With("minLength", Uint(2)), With("maxLength", Uint(2)), With("pattern", Str("^x")),
                   With("pattern", Str("[")), With("type", Arr(<<Str("null"), Str("string")>>)),
                   With("enum", Arr(<<Str("x"), Null, Num(3), Arr(<<Num(2)>>)>>))},
                  Simples \cup {Str("y"), Arr(<<Num(2)>>), Obj(<<>>)})

Twos == {<<Num(2), Num(2)>>, <<Num(2), Str("x")>>, <<Arr(<<>>), Arr(<<>>)>>, <<Num(2)>>, <<>>,
         <<Obj(<< <<"x", Null>>, <<"y", Num(2)>> >>), Obj(<< <<"y", Num(2)>>, <<"x", Null>> >>)>>}
ArrayCases ==
    Of({With("items", Type("integer")), With("uniqueItems", Bool(TRUE)), With("minItems", Uint(2)), With("maxItems", Uint(1)),
        Obj(<< <<"items", Arr(<<Type("integer")>>)>>, <<"additionalItems", Bool(FALSE)>> >>),
        Obj(<< <<"items", Arr(<<Type("integer")>>)>>, <<"additionalItems", Type("string")>>, <<"uniqueItems", Bool(TRUE)>> >>),
        With("items", Obj(<< <<"items", Type("null")>>, <<"uniqueItems", Bool(TRUE)>> >>))},
       {Arr(xs) : xs \in Twos} \cup {Arr(<<Arr(<<Null, Null>>)>>), Arr(<<Arr(<<Null>>), Arr(<<Null>>)>>)})

Members == {<< <<"x", Num(2)>> >>, << <<"x", Str("x")>>, <<"y", Num(2)>> >>, << <<"xy", Num(2)>>, <<"z", Null>> >>,
            << <<"y", Str("x")>>, <<"xy", Str("x")>> >>, <<>>, << <<"z", Num(2)>>, <<"x", Num(2)>>, <<"xy", Null>> >>,
            << <<"x", Num(2)>>, <<"z", Null>> >>, << <<"xy", Num(4)>>, <<"x", Num(2)>>, <<"z", Str("x")>> >>,
            << <<"xy", Str("x")>>, <<"y", Num(2)>> >>, << <<"xy", Num(4)>>, <<"y", Num(6)>>, <<"x", Null>> >>}
PatternSchema == Obj(<< <<"^x", Type("integer")>>, <<"y$", Type("string")>>, <<"[", Type("null")>> >>)
(* Patterns beside a schema of the other members, names that are only         *)
(* required, and objects whose members cancel in their code.                  *)
MetPatterns == Obj(<< <<"^x", Type("integer")>>, <<"y$", With("minimum", Num(3))>> >>)
Beside(x) == Obj(<< <<"patternProperties", MetPatterns>>, <<"additionalProperties", x>> >>)
Requires(x) == Obj(<< <<"required", Arr(<<Str("x")>>)>>, <<"additionalProperties", x>> >>)
Twice == Obj(<< <<"x", Null>>, <<"x", Null>> >>)
CancelCases ==
    Of({With("enum", Arr(<<Obj(<<>>), Num(2)>>)), With("enum", Arr(<<Twice>>)), With("uniqueItems", Bool(TRUE)),
        With("not", With("enum", Arr(<<With("x", Null)>>)))},
       {Obj(<<>>), Twice, With("x", Null), Arr(<<Obj(<<>>), Twice>>), Arr(<<Twice, With("x", Null)>>)})

ObjectSchemas ==
    {Beside(Type("string")), Beside(Bool(FALSE)), With("not", Beside(Type("string"))), With("patternProperties", MetPatterns),
     Obj(<< <<"patternProperties", MetPatterns>>, <<"additionalProperties", Type("string")>>,
            <<"properties", With("y", Type("integer"))>> >>),
     Requires(Bool(FALSE)), Requires(Type("string")),
     With("properties", Obj(<< <<"x", Type("integer")>>, <<"y", Type("string")>> >>)),
     Obj(<< <<"properties", Obj(<< <<"x", Type("integer")>> >>)>>, <<"additionalProperties", Type("integer")>> >>),
     Obj(<< <<"properties", Obj(<< <<"x", Type("integer")>> >>)>>, <<"additionalProperties", Bool(FALSE)>> >>),
     With("patternProperties", PatternSchema),
     Obj(<< <<"patternProperties", PatternSchema>>, <<"additionalProperties", Bool(FALSE)>>,
            <<"properties", Obj(<< <<"xy", Type("integer")>>, <<"x", With("enum", Arr(<<Num(2)>>))>> >>)>> >>),
     With("required", Arr(<<Str("x"), Str("y")>>)), With("minProperties", Uint(2)), With("maxProperties", Uint(1)),
     With("dependencies", Obj(<< <<"y", Arr(<<Str("x")>>)>> >>)),
     Obj(<< <<"not", With("required", Arr(<<Str("z")>>))>>,
            <<"dependencies", Obj(<< <<"x", With("minProperties", Uint(2))>>, <<"y", Arr(<<Str("x")>>)>> >>)>> >>)}
ObjectCases == Of(ObjectSchemas, {Obj(xs) : xs \in Members})

Arms == Arr(<<Type("integer"), With("minimum", Num(3)), Type("string")>>)
CombinedCases == Of({With("allOf", Arms), With("anyOf", Arms), With("oneOf", Arms), With("not", With("anyOf", Arms)),
                     Obj(<< <<"allOf", Arr(<<With("minimum", Num(2))>>)>>, <<"oneOf", Arms>>, <<"not", With("enum", Arr(<<Num(6)>>))>> >>)},
                    {Null, Num(2), Num(3), Num(4), Num(6), Str("x")})

(* A list by "$ref" to the root, chains of references, and one that is missing. *)
List == Obj(<< <<"properties", Obj(<< <<"x", Ref("#")>>, <<"y", Ref("#/properties/x")>> >>)>>,
               <<"additionalProperties", Bool(FALSE)>> >>)
Chain == Obj(<< <<"definitions", Obj(<< <<"a", Ref("#/definitions/b")>>, <<"b", Type("integer")>> >>)>>,
                <<"items", Arr(<<Ref("#/definitions/a"), Ref("#/definitions/b"), Ref("#/definitions/c"), Ref("other")>>)>>,
                <<"additionalItems", Bool(FALSE)>> >>)
RefCases == Of({List}, {Obj(<<>>), Obj(<< <<"x", Obj(<< <<"y", Obj(<<>>)>> >>)>> >>), Obj(<< <<"x", Obj(<< <<"z", Null>> >>)>> >>)})
            \cup Of({Chain, With("properties", With("items", Type("integer"))), Ref("#/definitions/a")},
                    {Arr(<<Num(2), Num(3)>>), Arr(<<Num(2), Num(4), Null>>), Arr(<<Null>>), Obj(<< <<"items", Num(2)>> >>)})

Judged == NumberCases \cup StringCases \cup ArrayCases \cup ObjectCases \cup CancelCases \cup CombinedCases \cup RefCases
-----------------------------------------------------------------------------
CONSTANTS
  Parts,               \* the components a run looks at
  v1, v2, doc1, doc2         \* values and documents

VARIABLES
  part,
  \* shared names
  job, phase, input, pc, at, error, results, out, current, taken, root, heap, want,
  \* RapidText, streams and strings
  file, in, type, units, place, decoded,
  turn, mem, src, dst, head, loads,
  \* RapidReader
  mode, stack, state, events, returned, assertion,
  \* RapidBigInteger
  num, scaled, delta, cmp,
  \* RapidPointer, texts and trees
  source, uri, pointer_at, tokens, name, isNumber, first,
  held, pointer, crashed,
  \* RapidRegex
  machine, operators, atoms, ranges, anchorBegin, anchorEnd, text, begin, end, matched,
  \* RapidDom, values and documents
  var, val, alloc, own, stk, from, parsing, open,
  \* RapidCompare
  seen,
  \* RapidWriter and its serializer
  writer, levels, hasRoot, places, indent, format, flushed, calls, failed,
  response, todo, values,
  \* RapidSchema
  case, tasks, schemaMap, schemaRef, slot, validator, pos, resets

streamOwn == <<file, in, type, units, place, decoded>>
stringOwn == <<turn, mem, src, dst, head, loads>>
readerOwn == <<mode, stack, state, events, returned, assertion>>
bigOwn == <<num, scaled, delta, cmp>>
pointerOwn == <<source, uri, pointer_at, tokens, name, isNumber, first>>
treeOwn == <<held, pointer, crashed>>
regexOwn == <<machine, operators, atoms, ranges, anchorBegin, anchorEnd, text,
              begin, end, matched>>
documentOwn == <<val, alloc, own, stk, from, parsing, open>>
writerOwn == <<writer, levels, hasRoot, places, indent, format, flushed, calls, failed>>
serializerOwn == <<response, todo, values>>
schemaOwn == <<case, tasks, schemaMap, schemaRef, slot, validator, pos, resets>>
shared == <<job, phase, input, pc, at, error, results, out, current, taken, root,
            heap, want>>
vars == <<part, shared, streamOwn, stringOwn, readerOwn, bigOwn, pointerOwn,
          treeOwn, regexOwn, var, documentOwn, seen, writerOwn, serializerOwn,
          schemaOwn>>

Off == "off"

-----------------------------------------------------------------------------
TextOf == INSTANCE RapidText WITH
  Jobs <- Encoded, BufferSize <- 5, Inputs <- Strings \cup Written, Turns <- Turns, Block <- 4

-----------------------------------------------------------------------------
Reader == INSTANCE RapidReader WITH
  Inputs <- Read, Modes <- <<"iterative", "recursive", "next">>

Big == INSTANCE RapidBigInteger WITH
  TypeBits <- 10, Capacity <- 5, Pow5Word <- 4, Pow5Half <- 2, MaxDigits <- 3,
  Builds <- {"wide", "portable"}, Junk <- 777, Jobs <- Comparisons

Paths == INSTANCE RapidPointer WITH
  Sources <- Sourced, SizeLimit <- 64, Tokens <- PathTokens,
  Scalars <- {"null", "true"}, MaxTokens <- 2, MaxNodes <- 3, MaxHeld <- 1,
  i <- pointer_at

-----------------------------------------------------------------------------
Regex == INSTANCE RapidRegex WITH Inputs <- Patterns, Texts <- Searched, MaxUnsigned <- 35

-----------------------------------------------------------------------------

(* RapidDom: two values, a document that frees, and two that share a pool.    *)
DomValues == INSTANCE RapidDom WITH
  MaxBlocks <- 3, DefaultCapacity <- 1, Vars <- {v1, v2}, Names <- {"a"}, Texts <- {"s"},
  MaxSize <- 2, MaxNodes <- 4, FromInside <- FALSE,
  Docs <- {}, NeedFree <- TRUE, InitialCapacity <- 1, MaxKids <- 0, MaxOpen <- 0,
  MaxValues <- 0, CopyStrings <- {}
Document == INSTANCE RapidDom WITH
  MaxBlocks <- 5, DefaultCapacity <- 1, Vars <- {}, Names <- {}, Texts <- {},
  MaxSize <- 0, MaxNodes <- 0, FromInside <- FALSE,
  Docs <- {doc1}, NeedFree <- TRUE, InitialCapacity <- 1, MaxKids <- 2, MaxOpen <- 2,
  MaxValues <- 4, CopyStrings <- {TRUE}
Pooled == INSTANCE RapidDom WITH
  MaxBlocks <- 3, DefaultCapacity <- 1, Vars <- {}, Names <- {}, Texts <- {},
  MaxSize <- 0, MaxNodes <- 0, FromInside <- FALSE,
  Docs <- {doc1, doc2}, NeedFree <- FALSE, InitialCapacity <- 1, MaxKids <- 2, MaxOpen <- 1,
  MaxValues <- 2, CopyStrings <- {TRUE}
Symmetry == Permutations({v1, v2}) \cup Permutations({doc1, doc2})

(* RapidCompare: numbers of three, four and six bits, objects of three members;*)
(* the texts of numbers of five and ten bits, and doubles up to ten digits.    *)
Compare == INSTANCE RapidCompare WITH
  IntBits <- 3, LongBits <- 6, Mantissa <- 4, Names <- {"a", "b", "c"}, Values <- {0, 1},
  MaxMembers <- 3, Kinds <- {"numbers", "objects"},
  Texts <- {}, ExpBits <- 10, MaxExp <- 9, MaxDigits <- 5, Tenth <- 179769313
NumberText == INSTANCE RapidCompare WITH
  IntBits <- 5, LongBits <- 10, Mantissa <- 6, Names <- {}, Values <- {},
  MaxMembers <- 0, Kinds <- {"texts"},
  Texts <- NumberTexts, ExpBits <- 10, MaxExp <- 9, MaxDigits <- 5, Tenth <- 179769313

Pretty == INSTANCE RapidWriter WITH
  Writers <- {"pretty"}, Scalars <- {"num", "str", "nan"}, Careful <- TRUE,
  Indents <- {1}, MaxCalls <- 4, MaxDepth <- 3, Responses <- {}
Plain == INSTANCE RapidWriter WITH
  Writers <- {"plain"}, Scalars <- {"num", "str", "nan", "badstr", "rawnum", "raw"},
  Careful <- TRUE, Indents <- {1}, MaxCalls <- 5, MaxDepth <- 3, Responses <- {}
Serializer == INSTANCE RapidWriter WITH
  Writers <- {"plain"}, Scalars <- {"num", "str", "nan"}, Careful <- FALSE,
  Indents <- {1}, MaxCalls <- 300, MaxDepth <- 8, Responses <- Responded

-----------------------------------------------------------------------------
Schema == INSTANCE RapidSchema WITH
  Cases <- Judged, Pointers <- RefPointers, MaxInt64 <- 1, PatternHits <- Hits,
  BadPatterns <- Misfits, MaxResets <- 1, v <- validator

-----------------------------------------------------------------------------
OfJobs == {"streams", "big", "compare", "number"}
OfInputs == {"string", "reader", "regex"}
Documents == {"document", "pool"}
OnHeap == Documents \cup {"value"}
OfWriters == {"pretty", "plain", "serializer"}

Init ==
  /\ part \in Parts
  /\ IF part = "streams" THEN TextOf!InitStreams
     ELSE file = Off /\ in = Off /\ type = Off /\ units = Off /\ place = Off /\ decoded = Off
  /\ IF part = "string" THEN TextOf!InitString
     ELSE turn = Off /\ mem = Off /\ src = Off /\ dst = Off /\ head = Off /\ loads = Off
  /\ IF part = "reader" THEN Reader!Init
     ELSE /\ mode = Off /\ stack = Off /\ state = Off /\ events = Off
          /\ returned = Off /\ assertion = Off
  /\ IF part = "big" THEN Big!Init ELSE num = Off /\ scaled = Off /\ delta = Off /\ cmp = Off
  /\ IF part = "pointer" THEN Paths!Init
     ELSE /\ source = Off /\ uri = Off /\ pointer_at = Off /\ tokens = Off /\ name = Off
          /\ isNumber = Off /\ first = Off
  /\ IF part = "tree" THEN Paths!InitTree ELSE held = Off /\ pointer = Off /\ crashed = Off
  /\ IF part = "regex" THEN Regex!Init
     ELSE /\ machine = Off /\ operators = Off /\ atoms = Off /\ ranges = Off
          /\ anchorBegin = Off /\ anchorEnd = Off /\ text = Off /\ begin = Off /\ end = Off
          /\ matched = Off
  /\ IF part = "value" THEN DomValues!InitValue ELSE var = Off
  /\ CASE part = "document" -> Document!InitDocument
       [] part = "pool" -> Pooled!InitDocument
       [] OTHER -> /\ val = Off /\ alloc = Off /\ own = Off /\ stk = Off /\ from = Off
                   /\ parsing = Off /\ open = Off
  /\ CASE part = "compare" -> Compare!Init
       [] part = "number" -> NumberText!Init
       [] OTHER -> seen = Off
  /\ CASE part = "pretty" -> Pretty!Init
       [] part = "plain" -> Plain!Init
       [] part = "serializer" -> Serializer!InitSerializer
       [] OTHER -> /\ writer = Off /\ levels = Off /\ hasRoot = Off /\ places = Off
                   /\ indent = Off /\ format = Off /\ flushed = Off /\ calls = Off
                   /\ failed = Off
  /\ part # "serializer" => response = Off /\ todo = Off /\ values = Off
  /\ IF part = "schema" THEN Schema!Init
     ELSE /\ case = Off /\ tasks = Off /\ schemaMap = Off /\ schemaRef = Off /\ slot = Off
          /\ validator = Off /\ pos = Off /\ resets = Off
  /\ part \notin OfJobs => job = Off
  /\ part \notin {"streams", "big"} => phase = Off
  /\ part \notin OfInputs => input = Off
  /\ part \notin {"string", "regex", "pointer"} => pc = Off
  /\ part \notin {"reader", "regex"} => at = Off
  /\ part \notin {"string", "reader", "pointer"} => error = Off
  /\ part \notin {"string", "reader"} => results = Off
  /\ part \notin OfWriters \cup {"string"} => out = Off
  /\ part \notin {"streams", "regex"} => current = Off
  /\ part \notin {"big", "regex"} => taken = Off
  /\ part \notin {"regex", "tree"} => root = Off
  /\ part \notin OnHeap => heap = Off /\ want = Off

Next ==
  /\ UNCHANGED part
  /\ IF part = "streams" THEN TextOf!NextStreams ELSE UNCHANGED streamOwn
  /\ IF part = "string" THEN TextOf!NextString ELSE UNCHANGED stringOwn
  /\ IF part = "reader" THEN Reader!Next ELSE UNCHANGED readerOwn
  /\ IF part = "big" THEN Big!Next ELSE UNCHANGED bigOwn
  /\ IF part = "pointer" THEN Paths!Next ELSE UNCHANGED pointerOwn
  /\ IF part = "tree" THEN Paths!NextTree ELSE UNCHANGED treeOwn
  /\ IF part = "regex" THEN Regex!Next ELSE UNCHANGED regexOwn
  /\ IF part = "value" THEN DomValues!NextValue ELSE UNCHANGED var
  /\ CASE part = "document" -> Document!NextDocument
       [] part = "pool" -> Pooled!NextDocument
       [] OTHER -> UNCHANGED documentOwn
  /\ CASE part = "compare" -> Compare!Next
       [] part = "number" -> NumberText!Next
       [] OTHER -> UNCHANGED seen
  /\ CASE part = "pretty" -> Pretty!Next
       [] part = "plain" -> Plain!Next
       [] part = "serializer" -> Serializer!NextSerializer
       [] OTHER -> UNCHANGED writerOwn
  /\ IF part = "serializer" THEN TRUE ELSE UNCHANGED serializerOwn
  /\ IF part = "schema" THEN Schema!Next ELSE UNCHANGED schemaOwn
  /\ IF part \in OfJobs THEN TRUE ELSE UNCHANGED job
  /\ IF part \in {"streams", "big"} THEN TRUE ELSE UNCHANGED phase
  /\ IF part \in OfInputs THEN TRUE ELSE UNCHANGED input
  /\ IF part \in {"string", "regex", "pointer"} THEN TRUE ELSE UNCHANGED pc
  /\ IF part \in {"reader", "regex"} THEN TRUE ELSE UNCHANGED at
  /\ IF part \in {"string", "reader", "pointer"} THEN TRUE ELSE UNCHANGED error
  /\ IF part \in {"string", "reader"} THEN TRUE ELSE UNCHANGED results
  /\ IF part \in OfWriters \cup {"string"} THEN TRUE ELSE UNCHANGED out
  /\ IF part \in {"streams", "regex"} THEN TRUE ELSE UNCHANGED current
  /\ IF part \in {"big", "regex"} THEN TRUE ELSE UNCHANGED taken
  /\ IF part \in {"regex", "tree"} THEN TRUE ELSE UNCHANGED root
  /\ IF part \in OnHeap THEN TRUE ELSE UNCHANGED <<heap, want>>

Spec == Init /\ [][Next]_vars

ASSUME
  /\ TextOf!BufferSizeAssumption /\ TextOf!BlockAssumption
  /\ Big!SizesAssumption /\ Compare!WidthAssumption
  /\ NumberText!WidthAssumption /\ NumberText!TextAssumption

-----------------------------------------------------------------------------
(* What is read is what was written: a stream's units give back the text, in  *)
(* every encoding; a string is the one that is meant, in each build and mode; *)
(* the three parsers send the same events; a decimal is exact and so is half  *)
(* an ulp; a number is read in the narrowest type that holds it; a pointer    *)
(* names what is specified; a pattern matches what it means.                  *)
TextsReadAsWritten ==
  /\ part = "streams" =>
       TextOf!ReadsBackWhatWasWritten /\ TextOf!DecodeTakesUtf8Only /\ TextOf!ValidateAgrees
  /\ part = "string" => TextOf!BuildsAgree /\ TextOf!StringIsWhatIsMeant
  /\ part = "reader" => Reader!HandlerCallsNest /\ Reader!ParsersAgree /\ Reader!NextAgrees
  /\ part = "big" => Big!DecimalsAreExact /\ Big!HalfUlpIsExact
  /\ part = "number" =>
       NumberText!NumberReadAsWritten /\ NumberText!KeptForFullPrecision /\ NumberText!NamedAsWritten
  /\ part = "pointer" => Paths!NamesAsSpecified /\ Paths!IndexAsNumber /\ Paths!RoundTrip
  /\ part = "regex" => Regex!Compiles /\ Regex!MatchIsRight /\ Regex!SearchIsRight

(* A reader stays where it may: it tells its place, decodes in place behind   *)
(* what it has yet to read, loads no block beyond the text's, sets an error   *)
(* once, keeps a number without leading words of zeros, refuses a number where*)
(* a part of it is missing, and keeps the operands of an expression apart.    *)
ReadersStayInside ==
  /\ part = "streams" => TextOf!StreamsTypeOK /\ TextOf!TellIsThePlace
  /\ part = "string" =>
       TextOf!StringTypeOK /\ TextOf!InSituStaysBehind /\ TextOf!LoadsStayWithTheText
       /\ TextOf!WriterLoadsTheString /\ TextOf!RefusesNoUtf8
  /\ part = "reader" => Reader!TypeOK /\ Reader!ErrorsAreSetOnce
  /\ part = "big" => Big!TypeOK /\ Big!NoLeadingZeros
  /\ part = "number" => NumberText!NumberErrorsInPlace
  /\ part = "pointer" => Paths!TypeOK
  /\ part = "regex" => Regex!TypeOK /\ Regex!OperandsApart

(* Memory: no value reads a block that was freed, a block has one owner, and  *)
(* a parse that ends leaves nothing on the stack.                             *)
BlocksOwnedOnce ==
  /\ part = "value" => DomValues!ValueTypeOK /\ DomValues!NoUseAfterFree /\ DomValues!OwnedOnce
  /\ part = "document" =>
       Document!DocumentTypeOK /\ Document!BlocksOwnedOnce /\ Document!StackReleased
  /\ part = "pool" => Pooled!DocumentTypeOK /\ Pooled!BlocksOwnedOnce /\ Pooled!StackReleased

(* A value reads as what was done to it, numbers and objects compare as such, *)
(* a pointer finds what it set and touches nothing else, and what a writer has*)
(* written reads back as what it was given.                                   *)
ValuesReadAsMeant ==
  /\ part = "value" => DomValues!ReadsAsMeant
  /\ part = "pool" => Pooled!DocumentReads
  /\ part = "compare" =>
       /\ Compare!TypeOK /\ Compare!ReadsTheNumber /\ Compare!AcceptSendsTheNumber
       /\ Compare!LosslessIsExact /\ Compare!SameNumberIsEqual /\ Compare!ObjectsAreSets
  /\ part = "tree" =>
       /\ Paths!TreeTypeOK /\ Paths!SetIsGot /\ Paths!ExistIsFound /\ Paths!CreateKeeps
       /\ Paths!ObjectsStay /\ Paths!EraseTakesOne
  /\ part = "pretty" => Pretty!ReadsBack
  /\ part = "plain" => Plain!TypeOK /\ Plain!ReadsBack /\ Plain!CompleteIsFlushed
  /\ part = "serializer" => Serializer!ResponseReadsBack

(* A schema accepts what it says and nothing else, and blames the keyword and *)
(* the place; every reference is resolved.                                    *)
SchemaJudgesRight ==
  part = "schema" =>
    /\ Schema!TypeOK /\ Schema!AnyObjectIsFound /\ Schema!RefsResolved /\ Schema!PathIsPlace
    /\ Schema!RefusesOnlyWrong /\ Schema!AcceptsOnlyRight /\ Schema!BlameIsRight
=============================================================================
