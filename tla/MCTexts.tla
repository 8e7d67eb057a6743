------------------------------- MODULE MCTexts -------------------------------
(* The components that read a text, each over small texts: requests, addresses,*)
(* URIs, data files, audit records and the JSON of a bid request, and jsonv's  *)
(* tokenizer, parser and adapters.  They share no state, so a behaviour is one *)
(* of a single of them, `part'; the variables of the others are Off.           *)
EXTENDS RequestParser, FiniteSets, SequencesExt

CONSTANT Parts         \* the components a run looks at

VARIABLES
  part,
  \* shared names
  text, at, pc, input, result,
  \* RequestParser
  fed, parser, repeats,
  \* FileHandler
  uri, reply,
  \* UriHost
  url, scheme, user_info, host, port, path, query, fragment, found,
  \* RecordFile
  type, given, fields, rec, status,
  \* AuditCodec
  args, reserved, buf, turn, rel_blob_offset, rbeg, out,
  \* RequestMapper, jsmn and the mappers
  js, pos, tokens, toksuper, ret, doc, mapper, encoded, request,
  \* JsonvTokenizer
  rest, fail, buffer, cap, cur, nth, ends,
  \* JsonvParse
  again, tok, complete, character, stack, problems, successful, outcome,
  \* JsonvFormats
  nodes, handle, global, held, referenced, checked,
  \* JsonvAdapter, builders and conversions
  members, hooks, asked, default, calls, from, called, error, place, json,
  mapping, subtypes, nullIn, nullOut, step, target, output

requestVars == <<fed, parser, repeats>>
fileVars == <<uri, reply>>
hostVars == <<url, scheme, user_info, host, port, path, query, fragment, found>>
recordVars == <<type, fields, rec, status>>
codecVars == <<args, reserved, buf, turn, rel_blob_offset, rbeg>>
jsmnVars == <<js, pos, tokens, toksuper>>
mapVars == <<doc, mapper, encoded, request>>
tokenizerVars == <<rest, fail, buffer, cap, cur, nth, ends>>
parseVars == <<again, tok, complete, character, stack, problems, successful, outcome>>
formatsVars == <<nodes, handle, global, held, referenced, checked>>
builderVars == <<members, hooks, asked, default, calls, from, called, error, place, json>>
conversionVars == <<mapping, subtypes, nullIn, nullOut, step, target, output>>
vars == <<part, text, at, pc, input, result, given, out, ret, requestVars, fileVars,
          hostVars, recordVars, codecVars, jsmnVars, mapVars, tokenizerVars,
          parseVars, formatsVars, builderVars, conversionVars>>

Off == "off"
Requests == {"request_line", "headers"}
Builders == {"extract", "encode"}

-----------------------------------------------------------------------------
(* RequestParser: texts from nothing on, and texts from a request line on, one *)
(* character at a time.                                                        *)
Feeding == part \in Requests
Alphabet ==
  IF part = "request_line"
  THEN {"token", "H", "T", "P", "/", ".", ":", "sp", "ht", "cr", "lf", "ctl",
        "tspecial", "hi", "1"}
  ELSE {"token", "name", ":", "sp", "ht", "cr", "lf", "hi", "1"}
Start ==
  IF part = "request_line" THEN <<>>
  ELSE <<"token", "sp", "/", "sp", "H", "T", "T", "P", "/", "1", ".", "1", "cr", "lf">>
MaxFed == IF part = "request_line" THEN 19 ELSE 14
MaxRepeats == 1        \* BOUND: characters that leave the parser in its state

InitRequest == text = Start /\ fed = 0 /\ parser = Parse(Fresh, text) /\ repeats = 0

FeedOne(c) ==
  /\ parser.result = "indeterminate"
  /\ fed < MaxFed
  /\ fed' = fed + 1
  /\ text' = Append(text, c)
  /\ parser' = Consume(parser, c)
  /\ repeats' = IF parser'.state = parser.state /\ parser'.result = "indeterminate"
                THEN repeats + 1 ELSE repeats
  /\ repeats' <= MaxRepeats

NextRequest == \E c \in Alphabet : FeedOne(c)

(* The grammar.  Line breaks first: a text is a list of lines, each ended by  *)
(* cr lf, of which the last and only the last is empty.                       *)
Breaks == {i \in 1 .. Len(text) : text[i] = "cr"}
LineBreaksPaired ==
  /\ \A i \in 1 .. Len(text) : text[i] = "lf" => i - 1 \in Breaks
  /\ \A i \in Breaks : i < Len(text) /\ text[i + 1] = "lf"

(* The line that the break at b ends, and whether it is the first or the last.*)
Line(b) ==
  LET before == {i \in Breaks : i < b}
      start == IF before = {} THEN 1 ELSE 2 + CHOOSE i \in before : \A j \in before : j <= i
  IN SubSeq(text, start, b - 1)
IsFirst(b) == \A i \in Breaks : b <= i
IsLast(b) == \A i \in Breaks : i <= b

All(s, Test(_)) == \A i \in 1 .. Len(s) : Test(s[i])
Visible(c) == ~is_ctl(c)
Blank(c) == c \in {"sp", "ht"}
NotSpace(c) == c # "sp" /\ ~is_ctl(c)

(* method, space, uri, space, HTTP/digits.digits                              *)
IsRequestLine(s) ==
  \E i, j \in 1 .. Len(s) :
    /\ 1 < i /\ i < j
    /\ s[i] = "sp" /\ s[j] = "sp"
    /\ All(SubSeq(s, 1, i - 1), IsToken)
    /\ All(SubSeq(s, i + 1, j - 1), NotSpace)
    /\ j + 8 <= Len(s)
    /\ SubSeq(s, j + 1, j + 5) = <<"H", "T", "T", "P", "/">>
    /\ \E d \in j + 7 .. Len(s) - 1 :
         /\ s[d] = "."
         /\ All(SubSeq(s, j + 6, d - 1), is_digit)
         /\ All(SubSeq(s, d + 1, Len(s)), is_digit)

(* name, colon, space, value; the value may be empty                          *)
IsHeader(s) ==
  \E i \in 2 .. Len(s) :
    /\ s[i] = ":"
    /\ All(SubSeq(s, 1, i - 1), IsToken)
    /\ i < Len(s) /\ s[i + 1] = "sp"
    /\ All(SubSeq(s, i + 2, Len(s)), Visible)

(* blanks, then a continuation of the value                                   *)
IsFolded(s) ==
  /\ Blank(s[1])
  /\ \E i \in 1 .. Len(s) :
       /\ All(SubSeq(s, 1, i), Blank)
       /\ All(SubSeq(s, i + 1, Len(s)), Visible)

IsRequest ==
  /\ Breaks # {}
  /\ LineBreaksPaired
  /\ \A b \in Breaks :
       LET line == Line(b) IN
       /\ IsFirst(b) => IsRequestLine(line)
       /\ IsLast(b) => line = <<>> /\ b + 1 = Len(text)
       /\ ~IsFirst(b) /\ ~IsLast(b) =>
            \/ IsHeader(line)
            \/ line # <<>> /\ IsFolded(line) /\ \E a \in Breaks : a < b /\ ~IsFirst(a)
  /\ \E b \in Breaks : IsLast(b) /\ ~IsFirst(b)

(* A digit of the content-length value is kept if and only if it is in the    *)
(* value of the first header with that name, folded lines included.           *)
LengthIsHeaderValue ==
  parser.result = "good" =>
    LET named == {b \in Breaks : ~IsFirst(b) /\ Len(Line(b)) > 2
                                 /\ Line(b)[1] = "name" /\ Line(b)[2] = ":"} IN
    IF named = {} THEN parser.req.length = NoLength
    ELSE LET b == CHOOSE i \in named : \A j \in named : i <= j
             line == Line(b) IN
         SubSeq(parser.req.length, 1, Len(line) - 3) = SubSeq(line, 4, Len(line))

-----------------------------------------------------------------------------
(* FileHandler: every path is there but those that end in a digit.            *)
Present(p) == p[Len(p)] # "2"
Files == INSTANCE FileHandler WITH
  Chars <- {"%", "+", "/", ".", "0", "2", "e", "f", "g", "html"}, MaxLen <- 5,
  Exists <- Present

(* UriHost: URIs put together of up to three pieces behind "l://", or of up   *)
(* to three alone.                                                            *)
Quad == <<"1", ".", "1", ".", "1", ".", "1">>
Pieces ==
  {<<"l", ":">>, <<"/", "/">>, <<"l", "@">>, Quad, <<".", "l">>,
   <<"U">>, <<":", "9">>, <<"/", "l">>, <<"?", "l">>, <<"#", "l">>, <<" ">>, <<"6">>}
MCUrls ==
  {FlattenSeq(s) : s \in SeqOf(Pieces, 3)}
    \cup {<<"l", ":", "/", "/">> \o FlattenSeq(s) : s \in SeqOf(Pieces, 4)}
MCDomains == {<<"U", ".", "l">>, <<"l">>, Quad, Quad \o <<".", "l">>, <<"6">>}
Hosts == INSTANCE UriHost WITH Urls <- MCUrls, Domains <- MCDomains

(* RecordFile: lines of all the columns of a record or a few more or fewer, of*)
(* which at most two are empty, no number, negative or too large.             *)
One == <<"1">>
Odd == {<<>>, <<"x">>, <<"1", "0", "1">>, <<"-", "1">>, <<"1", "x">>}
OddLines(n) ==
  {[i \in 1 .. n |-> IF i = a THEN f ELSE IF i = b THEN g ELSE One] :
      a \in 1 .. n, b \in 1 .. n, f \in Odd, g \in Odd \cup {One}}
Columns == INSTANCE RecordFile WITH Lines <- <<>>, MaxJunk <- 3
MCLines ==
  [r \in Columns!Types |-> UNION {OddLines(n) : n \in 0 .. Len(Columns!Fields(r)) + 2}
                           \cup {[i \in 1 .. Len(Columns!Fields(r)) |-> One], <<>>}]
Records == INSTANCE RecordFile WITH Lines <- MCLines, MaxJunk <- 3

(* AuditCodec: records of one to three arguments.                             *)
Codec == INSTANCE AuditCodec WITH
  ArgTypes <- {"bool", "int8_t", "uint16_t", "double", "string_view", "char const*", "char[]"},
  MaxArgs <- 3, MaxText <- 2, Capacity <- 64

-----------------------------------------------------------------------------
(* RequestMapper.  Texts of at most four of the characters the tokenizer      *)
(* tells apart, well formed or not, and requests: complete ones, and ones     *)
(* with a member missing, of another kind, out of range or unknown.           *)
Symbols == {"{", "}", "[", "]", "\"", ":", ",", " ", "a", "\\", "u", "nul", "ctl"}
AnyTexts == BoundedSeq(Symbols, 4)
Jsmn == INSTANCE RequestMapper WITH
  Texts <- AnyTexts, NumTokens <- 3, Documents <- {}, Gap <- <<>>, Mappers <- {},
  Lexeme <- <<>>, Width <- 1

Lexemes ==
  [s \in {"0", "9", "300", "65836", "100.0", "7", "null", "1e2", "true"} |->
     CASE s = "0" -> [kind |-> "int", n |-> 0]
       [] s = "7" -> [kind |-> "int", n |-> 7]
       [] s = "9" -> [kind |-> "int", n |-> 9]
       [] s = "300" -> [kind |-> "int", n |-> 300]
       [] s = "65836" -> [kind |-> "int", n |-> 65836]
       [] s = "100.0" -> [kind |-> "dec", n |-> 10000]
       [] s = "1e2" -> [kind |-> "exp", n |-> 10000]
       [] s = "true" -> [kind |-> "true", n |-> 0]
       [] s = "null" -> [kind |-> "null", n |-> 0]]

M(key, val) == Jsmn!Member(<<key>>, val)
S(symbol) == Jsmn!Str(<<symbol>>)
T(symbols) == Jsmn!Str(symbols)
V(lexeme) == Jsmn!Prim(lexeme)
O(pairs) == Jsmn!Obj(pairs)
A(values) == Jsmn!Arr(values)

BannerOf(h, w, where) == M("banner", O(<<M("pos", V(where)), M("h", V(h)), M("w", V(w))>>))
FloorIn(lexeme) == <<M("bidfloor", V(lexeme)), M("bidfloorcur", S("RUB"))>>

Impressions ==
  { O(<<M("id", S("i1"))>> \o FloorIn("100.0") \o <<BannerOf("7", "300", "0")>>),
    O(FloorIn("100.0") \o <<M("native", O(<<M("request", T(<<"\\", "\"", "v">>))>>)),
                            M("id", S("i2"))>>),
    O(<<M("id", S("i3"))>> \o FloorIn("7") \o <<BannerOf("7", "65836", "7")>>),
    O(<<M("id", S("i4")), M("banner", O(<<M("h", V("7"))>>))>>),
    O(<<M("id", S("i5"))>> \o FloorIn("100.0") \o <<BannerOf("7", "7", "9")>>),
    O(<<M("id", S("i6")), M("banner", V("7"))>> \o FloorIn("1e2")) }

GeoOf(pairs) == <<M("geo", O(pairs))>>
Users ==
  { <<>>,
    <<M("user", O(<<M("id", S("u")), M("buyeruid", S("b"))>>
                  \o GeoOf(<<M("city", S("NY")), M("country", S("US"))>>)))>>,
    <<M("user", O(GeoOf(<<M("city", S("NY"))>>)))>>,
    <<M("user", O(<<M("id", S("u")), M("geo", V("7"))>>))>>,
    <<M("user", V("null"))>> }
Sites ==
  { <<>>,
    <<M("site", O(<<M("ref", S("r")), M("id", S("s")), M("cat", A(<<S("c")>>))>>))>>,
    <<M("site", O(<<M("id", V("7"))>>))>> }

Requested ==
  {O(<<M("id", S("q")), M("imp", A(<<imp>>))>> \o user \o site) :
      imp \in Impressions, user \in Users, site \in Sites}
  \cup {O(<<M("imp", A(<<one, two>>))>> \o user \o <<M("id", S("q"))>>) :
      one \in Impressions, two \in Impressions,
      user \in {u \in Users : u # <<>> /\ u[1].val.k = "obj"}}
  \cup {O(<<>>), O(<<M("id", V("true")), M("imp", A(<<>>))>>)}

Written == {Jsmn!Written(d, <<" ">>) : d \in Requested}

Mapped == INSTANCE RequestMapper WITH
  Texts <- Written, NumTokens <- 40, Documents <- Requested, Gap <- <<" ">>,
  Mappers <- {"dsl", "any", "rapid"}, Lexeme <- Lexemes, Width <- 65536

-----------------------------------------------------------------------------
(* JsonvTokenizer: texts of up to three characters that make tokens go on, and*)
(* longer ones of the tokens with several parts.                              *)
Chars == {"1", ".", "-", "e", "q", "b", " ", "/", "*", "t", "r", "["}
TokenTexts ==
  BoundedSeq(Chars, 3)
    \cup {<<"1", "e", "-", "1">>, <<"1", "e", "1", ".", "1">>, <<"-", "1", ".", "1", "e", "1">>,
          <<"q", "b", "q", "q", ",">>, <<"/", "*", "*", "/", "1">>, <<"/", "*", "/", "*", "/">>,
          <<"n", "u", ":", "f", "a">>, <<"{", "q", "q", ":", "t", "r", "}">>, <<"x", "]", "1", "1", "1">>}
Tokenized == [text : TokenTexts, min : {1, 2}]
Tokenizer == INSTANCE JsonvTokenizer WITH Inputs <- Tokenized, MaxCalls <- 6

(* JsonvParse: texts of up to four tokens, and longer ones, under the options;*)
(* a text that may leave an array open only in the modes that stop at an error*)
Core == {"[", "]", "{", "}", ":", ",", "a", "1", "x"}
Longer ==
  {<<"{", "a", ":", "1", "}">>, <<"{", "a", ":", "1", ",", "}">>, <<"[", "1", ",", "[", "1", "]", "]">>,
   <<"{", "a", ":", "1", ",", "b", ":", "[", "]", "}">>, <<"{", "a", ":", "1", ",", "a", ":", "true", "}">>,
   <<"ws", "[", "c", "1", "ws", ",", "c", "null", "]", "c", "ws">>, <<"c", "x">>, <<"1", "ws", "1">>,
   <<"[", "1", ",", "x", "]">>, <<"{", "a", ":", "x", ",", "b", ":", "1", "}">>, <<"{", "x", "x", "1", "}">>,
   <<"[", "bad", ",", "over63", ",", "over64", "]">>, <<"[", "1e5.5", ",", "01", ",", "-01", "]">>,
   <<"[", "[", "[", "]", "]", "]">>, <<"{", "bad", ":", "0.5", "}">>, <<"[", "1", "]", "nul", "nul">>}
Short == BoundedSeq(Core, 3) \cup Longer
Jsonv == INSTANCE JsonvParse WITH Inputs <- {}
Mode(o, m) == [o EXCEPT !.failure_mode = m]
Strict == [Jsonv!create_strict EXCEPT !.max_structure_depth = 3]
Few == [Jsonv!create_default EXCEPT !.max_failures = 1, !.max_structure_depth = 3]
Loose == [Jsonv!create_default EXCEPT !.complete_parse = FALSE]
Parsed ==
  [toks : BoundedSeq(Core, 4) \cup Longer, opts : {Jsonv!create_default}]
    \cup [toks : Short, opts : {Strict, Loose}]
    \cup [toks : {t \in Short : \A i \in DOMAIN t : t[i] # "["} \cup Longer,
          opts : {Mode(Few, "collect_all"), Mode(Jsonv!create_strict, "ignore")}]
Parser == INSTANCE JsonvParse WITH Inputs <- Parsed

(* JsonvFormats: a type the defaults and the coercing formats know, and one of*)
(* the application; a shared adapter and a serializer of the latter.          *)
Formats == INSTANCE JsonvFormats WITH
  None <- "None", Basic <- "Basic", Coercing <- "Coercing",
  Types <- {"number", "list"}, Items <- {"adapter", "serializer"}, Shared <- {"adapter"},
  TypeOf <- [i \in {"adapter", "serializer"} |-> "list"],
  ElementOf <- [i \in {"adapter"} |-> "number"],
  Extractors <- {"adapter"}, Serializers <- {"adapter", "serializer"},
  BasicTypes <- {"number"}, CoercedTypes <- {"number"}, Handles <- {"f"},
  MaxNodes <- 6, MaxEntries <- 2

(* JsonvAdapter: the calls that matter for extraction, those that matter for  *)
(* encoding, and each type by itself and in the others, with values that fit, *)
(* fit in part or do not: lists of up to two values, and lists of those.      *)
Extraction == INSTANCE JsonvAdapter WITH
  Calls <- {"extract", "member", "alternate_name", "default_value", "default_on_null",
            "pre_extract", "on_extract_extra_keys", "type_default_on_null",
            "type_default_value"},
  Keys <- {"a", "b"}, MaxCalls <- 4, MaxMembers <- 2, Versions <- {0, 1},
  Enumerators <- {}, Codes <- {}, Tags <- {}, Targets <- {}, Inputs <- {}, MaxEntries <- 0
Encoding == INSTANCE JsonvAdapter WITH
  Calls <- {"to_json", "member", "alternate_name", "since", "until", "after", "before",
            "encode_if", "check_input"},
  Keys <- {"a", "b"}, MaxCalls <- 4, MaxMembers <- 2, Versions <- {0, 1, 2},
  Enumerators <- {}, Codes <- {}, Tags <- {}, Targets <- {}, Inputs <- {}, MaxEntries <- 0

Enum == Extraction!Type("enum", <<>>)
Pointer == Extraction!Type("pointer", <<>>)
Optional(t) == Extraction!Type("optional", <<t>>)
Container(t) == Extraction!Type("container", <<t>>)
Wrapper(t) == Extraction!Type("wrapper", <<t>>)
TargetTypes ==
  {Enum, Container(Optional(Enum)), Optional(Container(Pointer)),
   Container(Container(Enum)), Optional(Wrapper(Enum))}

J(kind, n, items) == Extraction!Json(kind, n, items)
Codes == {J("null", 0, <<>>), J("code", 1, <<>>), J("code", 2, <<>>)}
Scalars == Codes \cup {J("object", 1, <<>>)}
Lists(of) == {J("array", 0, q) : q \in {<<>>} \cup {<<a>> : a \in of} \cup {<<a, b>> : a, b \in of}}
Values ==
  Scalars \cup Lists(Scalars)
    \cup Lists({J("array", 0, <<>>)} \cup {J("array", 0, <<a>>) : a \in Codes})
Conversion == INSTANCE JsonvAdapter WITH
  Calls <- {}, Keys <- {}, MaxCalls <- 0, MaxMembers <- 0, Versions <- {},
  Enumerators <- {1, 2}, Codes <- {1, 2}, Tags <- {1, 2}, Targets <- TargetTypes,
  Inputs <- Values, MaxEntries <- 2

ASSUME
  /\ Jsmn!JsmnAssumption /\ Mapped!JsmnAssumption /\ Mapped!MapperAssumption
  /\ Formats!ItemsAssumption

-----------------------------------------------------------------------------
Texts == Requests \cup {"records"}
Places == Builders \cup {"hosts", "records", "codec", "parse"}
Stepped == Builders \cup {"hosts", "codec", "tokenizer", "parse"}
OfRequests == {"jsmn", "mapper"}

Init ==
  /\ part \in Parts
  /\ CASE part \in Requests -> InitRequest
       [] OTHER -> fed = Off /\ parser = Off /\ repeats = Off
  /\ IF part = "files" THEN Files!Init ELSE uri = Off /\ reply = Off
  /\ IF part = "hosts" THEN Hosts!Init
     ELSE /\ url = Off /\ scheme = Off /\ user_info = Off /\ host = Off /\ port = Off
          /\ path = Off /\ query = Off /\ fragment = Off /\ found = Off
  /\ IF part = "records" THEN Records!Init
     ELSE type = Off /\ fields = Off /\ rec = Off /\ status = Off
  /\ IF part = "codec" THEN Codec!Init
     ELSE /\ args = Off /\ reserved = Off /\ buf = Off /\ turn = Off
          /\ rel_blob_offset = Off /\ rbeg = Off
  /\ CASE part = "jsmn" -> Jsmn!Init
       [] part = "mapper" -> Mapped!MapInit
       [] OTHER -> js = Off /\ pos = Off /\ tokens = Off /\ toksuper = Off
  /\ part # "mapper" => doc = Off /\ mapper = Off /\ encoded = Off /\ request = Off
  /\ IF part = "tokenizer" THEN Tokenizer!Init
     ELSE /\ rest = Off /\ fail = Off /\ buffer = Off /\ cap = Off /\ cur = Off
          /\ nth = Off /\ ends = Off
  /\ IF part = "parse" THEN Parser!Init
     ELSE /\ again = Off /\ tok = Off /\ complete = Off /\ character = Off
          /\ stack = Off /\ problems = Off /\ successful = Off /\ outcome = Off
  /\ IF part = "formats" THEN Formats!Init
     ELSE /\ nodes = Off /\ handle = Off /\ global = Off /\ held = Off
          /\ referenced = Off /\ checked = Off
  /\ IF part \in Builders THEN Extraction!Init
     ELSE /\ members = Off /\ hooks = Off /\ asked = Off /\ default = Off /\ calls = Off
          /\ from = Off /\ called = Off /\ error = Off /\ place = Off /\ json = Off
  /\ IF part = "conversion" THEN Conversion!InitConversion
     ELSE /\ mapping = Off /\ subtypes = Off /\ nullIn = Off /\ nullOut = Off
          /\ step = Off /\ target = Off /\ output = Off
  /\ part \notin Texts => text = Off
  /\ part \notin Places => at = Off
  /\ part \notin Stepped => pc = Off
  /\ part \notin {"tokenizer", "parse", "conversion"} => input = Off
  /\ part \notin {"formats", "conversion"} => result = Off
  /\ part \notin {"records", "tokenizer"} => given = Off
  /\ part \notin Builders \cup {"codec"} => out = Off
  /\ part \notin OfRequests \cup {"parse"} => ret = Off

Next ==
  /\ UNCHANGED part
  /\ IF part \in Requests THEN NextRequest ELSE UNCHANGED requestVars
  /\ IF part = "files" THEN Files!Next ELSE UNCHANGED fileVars
  /\ IF part = "hosts" THEN Hosts!Next ELSE UNCHANGED hostVars
  /\ IF part = "records" THEN Records!Next ELSE UNCHANGED recordVars
  /\ IF part = "codec" THEN Codec!Next ELSE UNCHANGED codecVars
  /\ CASE part = "jsmn" -> Jsmn!Next
       [] part = "mapper" -> Mapped!MapNext
       [] OTHER -> UNCHANGED jsmnVars
  /\ IF part = "mapper" THEN TRUE ELSE UNCHANGED mapVars
  /\ IF part = "tokenizer" THEN Tokenizer!Next ELSE UNCHANGED tokenizerVars
  /\ IF part = "parse" THEN Parser!Next ELSE UNCHANGED parseVars
  /\ IF part = "formats" THEN Formats!Next ELSE UNCHANGED formatsVars
  /\ CASE part = "extract" -> Extraction!Next
       [] part = "encode" -> Encoding!Next
       [] OTHER -> UNCHANGED builderVars
  /\ IF part = "conversion" THEN Conversion!NextConversion ELSE UNCHANGED conversionVars
  /\ IF part \in Texts THEN TRUE ELSE UNCHANGED text
  /\ IF part \in Places THEN TRUE ELSE UNCHANGED at
  /\ IF part \in Stepped THEN TRUE ELSE UNCHANGED pc
  /\ IF part \in {"tokenizer", "parse", "conversion"} THEN TRUE ELSE UNCHANGED input
  /\ IF part \in {"formats", "conversion"} THEN TRUE ELSE UNCHANGED result
  /\ IF part \in {"records", "tokenizer"} THEN TRUE ELSE UNCHANGED given
  /\ IF part \in Builders \cup {"codec"} THEN TRUE ELSE UNCHANGED out
  /\ IF part \in OfRequests \cup {"parse"} THEN TRUE ELSE UNCHANGED ret

Spec == Init /\ [][Next]_vars

-----------------------------------------------------------------------------
(* What is read is what the text says.  A request is accepted exactly when it *)
(* follows the grammar, with the length its header gives; an address decodes  *)
(* by the escapes in it; a URI is put together of its parts; a line of a file *)
(* gives each field of the record from its own column; an audit record reads  *)
(* back; the tokens of a request are its document, on which the mappers agree.*)
ReadAsWritten ==
  /\ part \in Requests => ((parser.result = "good") <=> IsRequest) /\ LengthIsHeaderValue
  /\ part = "files" => Files!DecodesEscapes /\ Files!TypeFromLastSegment
  /\ part = "hosts" => Hosts!PartsAreTheUri /\ Hosts!DomainOfTheHost
  /\ part = "records" => Records!ColumnsAreTheFields /\ Records!GoodLinesAreRead
  /\ part = "codec" => Codec!RecordReadsBack
  /\ part = "mapper" =>
       /\ Mapped!TokensAreTheDocument /\ Mapped!MappersAgree /\ Mapped!DslReadsOrThrows

(* A reader stays where it may: a file is served from below the root, a record*)
(* is written into the bytes reserved for it and no assertion of the codec    *)
(* fails but the decoder's at a bool, jsmn closes every container it reports  *)
(* and the encoders stay inside the tokens.                                   *)
StaysInside ==
  /\ part = "files" => Files!ServedBelowRoot
  /\ part = "hosts" => Hosts!TypeOK
  /\ part = "records" => Records!TypeOK
  /\ part = "codec" => Codec!TypeOK /\ Codec!StaysInReservation /\ Codec!AssertsAtBools
  /\ part = "jsmn" => Jsmn!TypeOK /\ Jsmn!AcceptedTokensNest
  /\ part = "mapper" => Mapped!MapTypeOK /\ Mapped!EncodeStaysInside

(* jsonv: the tokens are those of the whole text however the stream is cut,   *)
(* a parse gives the value of the text, an extraction what the members were   *)
(* told, and what is encoded reads back.                                      *)
JsonvReadsAsWritten ==
  /\ part = "tokenizer" => Tokenizer!TypeOK /\ Tokenizer!NothingLost /\ Tokenizer!SameTokens
  /\ part = "parse" => Parser!TypeOK /\ Parser!ParsesTheText
  /\ part = "extract" => Extraction!TypeOK /\ Extraction!ExtractedRight /\ Extraction!HooksInOrder
  /\ part = "encode" => Encoding!RoundTrip /\ Encoding!EncodedWithinWindow
  /\ part = "conversion" => Conversion!ConversionRoundTrip /\ Conversion!FirstIsPreferred

(* jsonv: an error is reported at its place, the first one, and no more of    *)
(* them than may be; the keys nobody asked for are told exactly.              *)
JsonvErrorsInPlace ==
  /\ part = "parse" => Parser!ProblemsCapped /\ Parser!CharacterIsPlace
  /\ part = "extract" => Extraction!ErrorIsPlace /\ Extraction!ExtraKeysExact
  /\ part = "conversion" => Conversion!ConversionTypeOK /\ Conversion!ErrorIsFirstWrong

(* jsonv's formats: no node is searched that has been freed, what a node knows*)
(* comes before what its roots know, the defaults stay as they are, and what  *)
(* was checked stays known; a call that fails changes nothing.                *)
FormatsStayKnown ==
  part = "formats" =>
    /\ Formats!TypeOK /\ Formats!NoDangling /\ Formats!LookupPrecedence
    /\ Formats!DefaultsUnchanged /\ Formats!CheckedStaysKnown
=============================================================================
