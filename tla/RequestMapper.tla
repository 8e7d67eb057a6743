---------------------------- MODULE RequestMapper ----------------------------
(***************************************************************************)
(* The JSON tokenizer of the request mappers, parsers/jsmn.c, as the build *)
(* compiles it (neither JSMN_STRICT nor JSMN_PARENT_LINKS): one call of    *)
(* jsmn_parse over a text and a fixed array of tokens.  One action is one  *)
(* turn of the loop, with the string or the primitive it consumes.         *)
(* Positions and tokens are counted from 1; 0 stands for the code's -1.    *)
(* The call's `count' is the number of tokens allocated, Len(tokens).      *)
(***************************************************************************)
EXTENDS Integers, Sequences, FiniteSets, FiniteSetsExt

CONSTANTS
    Texts,      \* the texts a call may be given, sequences of symbols
    NumTokens   \* num_tokens, the size of the caller's array

JsmnAssumption == NumTokens \in Nat \ {0}

VARIABLES
    js,        \* the text
    pos,       \* parser->pos
    tokens,    \* the allocated tokens: [type, start, end, size], end exclusive
    toksuper,  \* parser->toksuper
    ret        \* the result, Running until the call returns

jsmnVars == <<js, pos, tokens, toksuper, ret>>

Running == 1000
NOMEM == -1
INVAL == -2
PART == -3

Quote == "\""
NUL == "nul"
(* A byte below 32 or above 126 that is not white space. *)
Control == "ctl"
Space == {" ", "\t", "\n", "\r"}
Escapable == {Quote, "/", "\\", "b", "f", "r", "n", "t"}
HexDigits == {"0", "1", "9", "a", "b", "f"}

Structural == {"{", "}", "[", "]", Quote, ":", ","} \cup Space

-----------------------------------------------------------------------------
(* An array or an object whose closing bracket has not been read. *)
IsOpen(token) == token.start # 0 /\ token.end = 0

(* A search from the first token instead of from the last. *)
OutermostOpenBelow(ts, n) ==
    LET open == {i \in 1..n : IsOpen(ts[i])}
    IN  IF open = {} THEN 0 ELSE Min(open)

(* The innermost token left open among the first n, 0 when there is none. *)
OpenBelow(ts, n) == Max({0} \cup {i \in 1..n : IsOpen(ts[i])})

(* The character the loop is at; the end of the text reads as NUL. *)
Char == IF pos > Len(js) THEN NUL ELSE js[pos]

(* An allocation that takes one token more than the array holds. *)
AllocateOneMore(type, start, end, super, next) ==
    IF Len(tokens) > NumTokens
    THEN ret' = NOMEM /\ UNCHANGED <<js, pos, tokens, toksuper>>
    ELSE /\ tokens' = Append(IF toksuper = 0 THEN tokens
                             ELSE [tokens EXCEPT ![toksuper].size = @ + 1],
                             [type |-> type, start |-> start, end |-> end, size |-> 0])
         /\ toksuper' = super
         /\ pos' = next
         /\ UNCHANGED <<js, ret>>

(* jsmn_alloc_token and jsmn_fill_token, and the count the superior keeps of *)
(* its children; `super' is the superior from now on, `next' the position.   *)
Allocate(type, start, end, super, next) ==
    IF Len(tokens) >= NumTokens
    THEN ret' = NOMEM /\ UNCHANGED <<js, pos, tokens, toksuper>>
    ELSE /\ tokens' = Append(IF toksuper = 0 THEN tokens
                             ELSE [tokens EXCEPT ![toksuper].size = @ + 1],
                             [type |-> type, start |-> start, end |-> end, size |-> 0])
         /\ toksuper' = super
         /\ pos' = next
         /\ UNCHANGED <<js, ret>>

Fail(code) == ret' = code /\ UNCHANGED <<js, pos, tokens, toksuper>>

(* The first position at or after p that is past the text or holds one of s. *)
FirstOf(p, s) == Min({q \in p..(Len(js) + 1) : q > Len(js) \/ js[q] \in s})

(* The escape \uXXXX at p: the position after it, or INVAL. *)
AfterUnicode(p) ==
    LET digits == Min({i \in 0..4 : i = 4 \/ p + i > Len(js) \/ js[p + i] = NUL})
    IN  IF \E i \in 0..(digits - 1) : js[p + i] \notin HexDigits
        THEN INVAL ELSE p + digits

(* jsmn_parse_string: where the string that opens at p ends, or the error. *)
StringEnd(p) ==
    LET Scan[q \in Nat] ==
            IF q > Len(js) \/ js[q] = NUL THEN PART
            ELSE IF js[q] = Quote THEN q
            ELSE IF js[q] # "\\" \/ q + 1 > Len(js) THEN Scan[q + 1]
            ELSE IF js[q + 1] \in Escapable THEN Scan[q + 2]
            ELSE IF js[q + 1] # "u" \/ AfterUnicode(q + 2) = INVAL THEN INVAL
            ELSE Scan[AfterUnicode(q + 2)]
    IN  Scan[p + 1]

-----------------------------------------------------------------------------
Init ==
    /\ js \in Texts
    /\ pos = 1 /\ tokens = <<>> /\ toksuper = 0 /\ ret = Running

(* '{' and '[' *)
Open ==
    /\ Char \in {"{", "["}
    /\ Allocate(IF Char = "{" THEN "object" ELSE "array", pos, 0,
                Len(tokens) + 1, pos + 1)

(* A closing bracket that leaves the superior where it was. *)
CloseKeepsSuper ==
    /\ Char \in {"}", "]"}
    /\ LET i == OpenBelow(tokens, Len(tokens))
           type == IF Char = "}" THEN "object" ELSE "array"
       IN  IF i = 0 \/ tokens[i].type # type
           THEN Fail(INVAL)
           ELSE /\ tokens' = [tokens EXCEPT ![i].end = pos + 1]
                /\ pos' = pos + 1
                /\ UNCHANGED <<js, ret, toksuper>>

(* '}' and ']' *)
Close ==
    /\ Char \in {"}", "]"}
    /\ LET i == OpenBelow(tokens, Len(tokens))
           type == IF Char = "}" THEN "object" ELSE "array"
       IN  IF i = 0 \/ tokens[i].type # type
           THEN Fail(INVAL)
           ELSE /\ tokens' = [tokens EXCEPT ![i].end = pos + 1]
                /\ toksuper' = OpenBelow(tokens, i - 1)
                /\ pos' = pos + 1
                /\ UNCHANGED <<js, ret>>

String ==
    /\ Char = Quote
    /\ LET end == StringEnd(pos)
       IN  IF end < 0 THEN Fail(end)
           ELSE Allocate("string", pos + 1, end, toksuper, end + 1)

(* A turn that forgets to advance past white space. *)
WhiteStays ==
    /\ Char \in Space
    /\ UNCHANGED jsmnVars

White ==
    /\ Char \in Space
    /\ pos' = pos + 1
    /\ UNCHANGED <<js, tokens, toksuper, ret>>

(* ':' makes the last token, the key, the superior of what follows. *)
Colon ==
    /\ Char = ":"
    /\ toksuper' = Len(tokens)
    /\ pos' = pos + 1
    /\ UNCHANGED <<js, tokens, ret>>

(* A comma that leaves the key the superior of the next key. *)
CommaKeepsKey ==
    /\ Char = ","
    /\ pos' = pos + 1
    /\ UNCHANGED <<js, tokens, toksuper, ret>>

(* ',' makes the innermost open container the superior again. *)
Comma ==
    /\ Char = ","
    /\ toksuper' = IF /\ toksuper # 0
                      /\ tokens[toksuper].type \notin {"array", "object"}
                      /\ OpenBelow(tokens, Len(tokens)) # 0
                   THEN OpenBelow(tokens, Len(tokens))
                   ELSE toksuper
    /\ pos' = pos + 1
    /\ UNCHANGED <<js, tokens, ret>>

(* jsmn_parse_primitive: everything else, up to a separator. *)
Primitive ==
    /\ Char \notin Structural \cup {NUL}
    /\ LET end == FirstOf(pos, (Structural \ {"{", "[", Quote}) \cup {NUL, Control})
       IN  IF end <= Len(js) /\ js[end] = Control
           THEN Fail(INVAL)
           ELSE Allocate("primitive", pos, end, toksuper, end)

(* A call that does not look for a container left open. *)
FinishUnchecked ==
    /\ Char = NUL
    /\ ret' = Len(tokens)
    /\ UNCHANGED <<js, pos, tokens, toksuper>>

(* The end of the text: a container left open is an incomplete packet. *)
Finish ==
    /\ Char = NUL
    /\ ret' = IF OpenBelow(tokens, Len(tokens)) # 0 THEN PART ELSE Len(tokens)
    /\ UNCHANGED <<js, pos, tokens, toksuper>>

Next ==
    /\ ret = Running
    /\ Open \/ Close \/ String \/ White \/ Colon \/ Comma \/ Primitive \/ Finish

Spec == Init /\ [][Next]_jsmnVars /\ WF_jsmnVars(Next)

-----------------------------------------------------------------------------
Token == [type : {"object", "array", "string", "primitive"},
          start : Nat, end : Nat, size : Nat]

(* The type invariant of the tokenizer's state. *)
TypeOK ==
    /\ pos \in 1..(Len(js) + 1)
    /\ tokens \in Seq(Token) /\ Len(tokens) <= NumTokens
    /\ toksuper \in 0..Len(tokens)
    /\ ret \in {Running, NOMEM, INVAL, PART} \cup 0..NumTokens

(* A call that reports success on any text at all has closed every container *)
(* it opened, and any two of its tokens are disjoint or one inside the other,*)
(* in the order of their starts: what encoders::encode walks is a forest.    *)
AcceptedTokensNest ==
    ret \in 0..NumTokens =>
        \A i \in 1..Len(tokens) :
            /\ tokens[i].start <= tokens[i].end /\ ~IsOpen(tokens[i])
            /\ \A j \in (i + 1)..Len(tokens) :
                  /\ tokens[i].start < tokens[j].start
                  /\ \/ tokens[i].end <= tokens[j].start
                     \/ tokens[j].end <= tokens[i].end

(* Every call returns: no text keeps the tokenizer in its loop. *)
ParseReturns == <>(ret # Running)
------------------------------------------------------------------------------
(***************************************************************************)
(* JSON documents as trees, the reference the tokenizers and mappers are   *)
(* compared with.  A tree is                                               *)
(*   [k |-> "obj", m |-> <<[key |-> string, val |-> tree], ...>>]          *)
(*   [k |-> "arr", e |-> <<tree, ...>>]                                    *)
(*   [k |-> "str", s |-> symbols]   [k |-> "prim", p |-> symbol]           *)
(* A text is a sequence of symbols: a structural character is a symbol of  *)
(* its own, and so is a run of ordinary characters (a name, a number).     *)
(***************************************************************************)

DoubleQuote == "\""

(* Trees. *)
Obj(members) == [k |-> "obj", m |-> members]
Arr(elements) == [k |-> "arr", e |-> elements]
Str(symbols) == [k |-> "str", s |-> symbols]
Prim(symbol) == [k |-> "prim", p |-> symbol]
Member(key, val) == [key |-> key, val |-> val]

RECURSIVE Written(_, _)
RECURSIVE Joined(_, _)

(* The texts of `parts' separated by a comma and the white space `gap'. *)
Joined(parts, gap) ==
    IF Len(parts) <= 1 THEN IF parts = <<>> THEN <<>> ELSE parts[1]
    ELSE parts[1] \o <<",">> \o gap \o Joined(Tail(parts), gap)

(* The text of a tree, with white space `gap' after every separator. *)
Written(t, gap) ==
    CASE t.k = "prim" -> <<t.p>>
      [] t.k = "str" -> <<DoubleQuote>> \o t.s \o <<DoubleQuote>>
      [] t.k = "arr" -> <<"[">>
            \o Joined([i \in DOMAIN t.e |-> Written(t.e[i], gap)], gap) \o <<"]">>
      [] t.k = "obj" -> <<"{">>
            \o Joined([i \in DOMAIN t.m |-> <<DoubleQuote>> \o t.m[i].key \o <<DoubleQuote, ":">>
                          \o gap \o Written(t.m[i].val, gap)], gap) \o <<"}">>

RECURSIVE Preorder(_, _)
(* The tokens a tree stands for, in the order its text is read: of each its *)
(* type, its number of children (a key has one, its value) and its text.    *)
Preorder(t, gap) ==
    LET Below(items, Of(_)) ==
            LET Upto[i \in Nat] == IF i = 0 THEN <<>> ELSE Upto[i - 1] \o Of(items[i])
            IN  Upto[Len(items)]
        Pair(member) ==
            <<[type |-> "string", size |-> 1, text |-> member.key]>>
            \o Preorder(member.val, gap)
        Element(u) == Preorder(u, gap)
        Container(type, n) == <<[type |-> type, size |-> n, text |-> Written(t, gap)]>>
    IN  CASE t.k = "prim" -> <<[type |-> "primitive", size |-> 0, text |-> <<t.p>>]>>
          [] t.k = "str" -> <<[type |-> "string", size |-> 0, text |-> t.s]>>
          [] t.k = "arr" -> Container("array", Len(t.e)) \o Below(t.e, Element)
          [] t.k = "obj" -> Container("object", Len(t.m)) \o Below(t.m, Pair)
------------------------------------------------------------------------------
(***************************************************************************)
(* How a bid request becomes an openrtb::BidRequest: DSL::dsl_mapper and   *)
(* DSL::any_mapper tokenize the text with jsmn, rebuild a value from the   *)
(* tokens (encoders.hpp) and extract the structure from it, the first with *)
(* the formats of jsonv, the second with extractors.hpp on boost::any;     *)
(* DSL::rapid_mapper extracts from a rapidjson document.  One behaviour is *)
(* one call of extract_request.                                            *)
(***************************************************************************)

CONSTANTS
    Documents,  \* the documents a request may hold, trees of JsonTree
    Gap,        \* the white space after a separator
    Mappers,    \* the mappers checked, of "dsl", "any" and "rapid"
    Lexeme,     \* what a primitive is: symbol -> [kind, n]
    Width       \* the range of uint16_t, 2^16 in the code

MapperAssumption == Width \in Nat \ {0}

VARIABLES
    doc,       \* the document the text was written from
    mapper,    \* the mapper that reads it
    encoded,   \* the mapper's thread_local value, cleared by every call
    request    \* what the call returns

mapVars == <<js, pos, tokens, toksuper, ret, doc, mapper, encoded, request>>

(* Values a mapper works on that stand for nothing. *)
Empty == [k |-> "empty"]       \* an empty boost::any, a null jsonv::value
Thrown == [k |-> "thrown"]     \* an exception left the encoder
Wild == [k |-> "wild"]         \* a token read past the last one
Uninit == -1000                \* a member no constructor initializes

(* What may be missing is a set of at most one: a boost::optional, and what  *)
(* an extractor returns, which is nothing when it throws or asserts.         *)
The(s) == CHOOSE x \in s : TRUE

-----------------------------------------------------------------------------
(* encoders::encode.  lexical_cast<uint64_t> accepts digits alone, so null   *)
(* and a number with an exponent and no point throw.                         *)
EncodePrimitive(text) ==
    LET lexeme == Lexeme[text[1]]
    IN  CASE lexeme.kind \in {"int", "neg"} -> [k |-> "int", n |-> lexeme.n]
          [] lexeme.kind = "dec" -> [k |-> "dec", n |-> lexeme.n]
          [] lexeme.kind \in {"true", "false"} -> [k |-> "bool", b |-> lexeme.kind]
          [] OTHER -> Thrown

TokenText(token) == SubSeq(js, token.start, token.end - 1)

RECURSIVE Encode(_, _)

(* One key and its value, read after the j tokens already used. *)
EncodeMember(i, count, so) ==
    LET key == Encode(i + 1 + so.used, count - so.used)
        val == Encode(i + 1 + so.used + key.used, count - so.used - key.used)
        used == so.used + key.used + val.used
    IN  IF Thrown \in {so.v, key.v, val.v} THEN [used |-> used, v |-> Thrown]
        ELSE IF Empty \in {key.v, val.v} \/ (key.v.k = "str" /\ key.v.s \in DOMAIN so.v.m)
        THEN [used |-> used, v |-> so.v]
        ELSE IF key.v.k # "str" THEN [used |-> used, v |-> Thrown]
        ELSE [used |-> used,
              v |-> [so.v EXCEPT !.m = [x \in DOMAIN @ \cup {key.v.s} |->
                                          IF x = key.v.s THEN val.v ELSE @[x]]]]

(* A walk that skips a token after every element. *)
EncodeElementSkips(i, count, so) ==
    LET val == Encode(i + 1 + so.used, count - so.used)
        used == so.used + val.used + 1
    IN  IF Thrown \in {so.v, val.v} THEN [used |-> used, v |-> Thrown]
        ELSE IF val.v = Empty THEN [used |-> used, v |-> so.v]
        ELSE [used |-> used, v |-> [so.v EXCEPT !.e = Append(@, val.v)]]

EncodeElement(i, count, so) ==
    LET val == Encode(i + 1 + so.used, count - so.used)
        used == so.used + val.used
    IN  IF Thrown \in {so.v, val.v} THEN [used |-> used, v |-> Thrown]
        ELSE IF val.v = Empty THEN [used |-> used, v |-> so.v]
        ELSE [used |-> used, v |-> [so.v EXCEPT !.e = Append(@, val.v)]]

(* The value of token i and the number of tokens it took; `count' is what    *)
(* the caller says is left from its own token on.                            *)
Encode(i, count) ==
    IF count = 0 THEN [used |-> 0, v |-> Empty]
    ELSE IF i > Len(tokens) THEN [used |-> 1, v |-> Wild]
    ELSE LET token == tokens[i]
             Fold(start, Step(_, _, _)) ==
                LET Upto[n \in Nat] ==
                        IF n = 0 THEN [used |-> 0, v |-> start]
                        ELSE Step(i, count, Upto[n - 1])
                IN  [used |-> Upto[token.size].used + 1, v |-> Upto[token.size].v]
         IN  CASE token.type = "primitive" ->
                    [used |-> 1, v |-> EncodePrimitive(TokenText(token))]
               [] token.type = "string" ->
                    [used |-> 1, v |-> [k |-> "str", s |-> TokenText(token)]]
               [] token.type = "object" ->
                    Fold([k |-> "map", m |-> << >>], EncodeMember)
               [] token.type = "array" ->
                    Fold([k |-> "vec", e |-> <<>>], EncodeElement)

-----------------------------------------------------------------------------
(* The structures, as a default constructor leaves them. *)
DefaultBanner == [h |-> 0, w |-> 0, pos |-> Uninit]
DefaultImpression == [id |-> <<>>, banner |-> {}, bidfloor |-> 0, bidfloorcur |-> <<>>]
DefaultUser == [id |-> <<>>, buyeruid |-> <<>>, geo |-> {}]
DefaultSite == [id |-> <<>>, ref |-> <<>>]
DefaultRequest == [id |-> <<>>, imp |-> <<>>, user |-> {}, site |-> {}]

(* The member of a map, empty when there is none: std::map::operator[]. *)
At(map, key) == IF <<key>> \in DOMAIN map.m THEN map.m[<<key>>] ELSE Empty

(* The structure of fields that were all read, nothing when one was not. *)
Whole(fields) ==
    IF \E f \in DOMAIN fields : fields[f] = {} THEN {}
    ELSE {[f \in DOMAIN fields |-> The(fields[f])]}

-----------------------------------------------------------------------------
(* extractors.hpp on boost::any.  A bad_any_cast leaves what was assigned    *)
(* before it when the function catches it, and goes to the caller otherwise. *)
BannerOfAny(v) ==
    IF v = Empty THEN {{}}
    ELSE IF v.k # "map" THEN {}
    ELSE LET hasH == At(v, "h").k = "int"
             hasW == hasH /\ At(v, "w").k = "int"
             hasPos == hasW /\ At(v, "pos").k = "int"
         IN  {{[h |-> IF hasH THEN At(v, "h").n % Width ELSE DefaultBanner.h,
                w |-> IF hasW THEN At(v, "w").n % Width ELSE DefaultBanner.w,
                pos |-> IF hasPos THEN At(v, "pos").n ELSE DefaultBanner.pos]}}

ImpressionOfAny(v) ==
    IF v.k # "map" THEN DefaultImpression
    ELSE LET hasId == At(v, "id").k = "str"
             banner == BannerOfAny(At(v, "banner"))
             hasBanner == hasId /\ banner # {}
             hasFloor == hasBanner /\ At(v, "bidfloor").k = "dec"
             hasCur == hasFloor /\ At(v, "bidfloorcur").k = "str"
         IN  [id |-> IF hasId THEN At(v, "id").s ELSE DefaultImpression.id,
              banner |-> IF hasBanner THEN The(banner) ELSE DefaultImpression.banner,
              bidfloor |-> IF hasFloor THEN At(v, "bidfloor").n
                           ELSE DefaultImpression.bidfloor,
              bidfloorcur |-> IF hasCur THEN At(v, "bidfloorcur").s
                              ELSE DefaultImpression.bidfloorcur]

(* The country read into the city and the city into the country. *)
GeoOfAnySwapped(v) ==
    IF v = Empty THEN {{}}
    ELSE IF v.k # "map" \/ At(v, "city").k # "str" \/ At(v, "country").k # "str" THEN {}
    ELSE {{[city |-> At(v, "country").s, country |-> At(v, "city").s]}}

GeoOfAny(v) ==
    IF v = Empty THEN {{}}
    ELSE IF v.k # "map" \/ At(v, "city").k # "str" \/ At(v, "country").k # "str" THEN {}
    ELSE {{[city |-> At(v, "city").s, country |-> At(v, "country").s]}}

UserOfAny(v) ==
    IF v = Empty THEN {{}}
    ELSE IF v.k # "map" THEN {}
    ELSE {{[DefaultUser EXCEPT !.geo = geo]} : geo \in GeoOfAny(At(v, "geo"))}

SiteOfAny(v) ==
    IF v = Empty THEN {{}}
    ELSE IF v.k # "map" \/ At(v, "id").k # "str" THEN {}
    ELSE {{[DefaultSite EXCEPT !.id = At(v, "id").s]}}

RequestOfAny(v) ==
    IF v.k # "map" \/ At(v, "id").k # "str" THEN {DefaultRequest}
    ELSE LET imp == At(v, "imp")
             user == UserOfAny(At(v, "user"))
             site == SiteOfAny(At(v, "site"))
             hasImp == imp = Empty \/ imp.k = "vec"
             hasUser == hasImp /\ user # {}
             hasSite == hasUser /\ site # {}
         IN  {[id |-> At(v, "id").s,
               imp |-> IF imp.k = "vec"
                       THEN [i \in DOMAIN imp.e |-> ImpressionOfAny(imp.e[i])]
                       ELSE <<>>,
               user |-> IF hasUser THEN The(user) ELSE {},
               site |-> IF hasSite THEN The(site) ELSE {}]}

-----------------------------------------------------------------------------
(* The formats build_request composes (dsl_mapper.hpp), extracted by jsonv:  *)
(* a member that is missing keeps its default, one of another kind throws    *)
(* an extraction_error out of the call.                                      *)
Decimal(v) == IF v.k = "int" THEN 100 * v.n ELSE v.n    \* in hundredths

MemberOf(v, key, kinds, default, Read(_)) ==
    IF At(v, key) = Empty THEN {default}
    ELSE IF At(v, key).k \in kinds THEN Read(At(v, key)) ELSE {}

(* Text of another kind read as if it were missing. *)
TextOfOtherKind(v, key) ==
    IF At(v, key).k = "str" THEN {At(v, key).s} ELSE {<<>>}

TextOf(v, key) == MemberOf(v, key, {"str"}, <<>>, LAMBDA x : {x.s})

BannerOfDsl(v) ==
    LET Side(x) == {x.n % Width}
        Position(x) == {x.n} \cap 0..7
    IN  {{banner} : banner \in
            Whole([h |-> MemberOf(v, "h", {"int"}, DefaultBanner.h, Side),
                   w |-> MemberOf(v, "w", {"int"}, DefaultBanner.w, Side),
                   pos |-> MemberOf(v, "pos", {"int"}, DefaultBanner.pos, Position)])}

ImpressionOfDsl(v) ==
    IF v.k # "map" THEN {}
    ELSE Whole([id |-> TextOf(v, "id"),
                banner |-> MemberOf(v, "banner", {"map"}, {}, BannerOfDsl),
                bidfloor |-> MemberOf(v, "bidfloor", {"dec", "int"}, 0,
                                      LAMBDA x : {Decimal(x)}),
                bidfloorcur |-> TextOf(v, "bidfloorcur")])

GeoOfDsl(v) ==
    {{geo} : geo \in Whole([city |-> TextOf(v, "city"), country |-> TextOf(v, "country")])}

UserOfDsl(v) ==
    {{user} : user \in Whole([id |-> TextOf(v, "id"), buyeruid |-> TextOf(v, "buyeruid"),
                              geo |-> MemberOf(v, "geo", {"map"}, {}, GeoOfDsl)])}

SiteOfDsl(v) == {{[DefaultSite EXCEPT !.id = id]} : id \in TextOf(v, "id")}

(* The elements of a container, nothing when one of them throws. *)
Every(elements, Read(_)) ==
    IF \E i \in DOMAIN elements : Read(elements[i]) = {} THEN {}
    ELSE {[i \in DOMAIN elements |-> The(Read(elements[i]))]}

RequestOfDsl(v) ==
    IF v.k # "map" THEN {}
    ELSE Whole([id |-> TextOf(v, "id"),
                imp |-> MemberOf(v, "imp", {"vec"}, <<>>,
                                 LAMBDA x : Every(x.e, ImpressionOfDsl)),
                user |-> MemberOf(v, "user", {"map"}, {}, UserOfDsl),
                site |-> MemberOf(v, "site", {"map"}, {}, SiteOfDsl)])

-----------------------------------------------------------------------------
(* extractors.hpp on a rapidjson document.  operator[] of a missing name and *)
(* GetString, GetInt or GetDouble of another kind fail an assertion; the     *)
(* loops over the members take the last member of a name.                    *)
Named(t, key) == {i \in DOMAIN t.m : t.m[i].key = <<key>>}
HasMember(t, key) == Named(t, key) # {}
First(t, key) == t.m[Min(Named(t, key))].val
Last(t, key) == t.m[Max(Named(t, key))].val

GetString(t) == IF t.k = "str" THEN {t.s} ELSE {}
GetInt(t) == IF t.k = "prim" /\ Lexeme[t.p].kind \in {"int", "neg"}
             THEN {Lexeme[t.p].n} ELSE {}
GetDouble(t) ==
    IF t.k # "prim" THEN {}
    ELSE CASE Lexeme[t.p].kind \in {"int", "neg"} -> {100 * Lexeme[t.p].n}
           [] Lexeme[t.p].kind \in {"dec", "exp"} -> {Lexeme[t.p].n}
           [] OTHER -> {}

(* What operator[] finds, read by Get; and the last member of a name, or the default. *)
Found(t, key, Get(_)) == IF HasMember(t, key) THEN Get(First(t, key)) ELSE {}
Looped(t, key, default, Get(_)) == IF HasMember(t, key) THEN Get(Last(t, key)) ELSE {default}

(* An optional structure, absent when the value is no object. *)
Optional(t, Read(_)) == IF t.k # "obj" THEN {{}} ELSE {{x} : x \in Read(t)}

BannerOfRapid(t) ==
    LET Side(u) == {n % Width : n \in GetInt(u)}
        Read(o) == Whole([h |-> Found(o, "h", Side), w |-> Found(o, "w", Side),
                          pos |-> Found(o, "pos", GetInt)])
    IN  Optional(t, Read)

ImpressionOfRapid(t) ==
    IF t.k # "obj" THEN {DefaultImpression}
    ELSE Whole([id |-> Looped(t, "id", <<>>, GetString),
                banner |-> Looped(t, "banner", {}, BannerOfRapid),
                bidfloor |-> Looped(t, "bidfloor", 0, GetDouble),
                bidfloorcur |-> Looped(t, "bidfloorcur", <<>>, GetString)])

GeoOfRapid(t) ==
    LET Read(o) == Whole([city |-> Found(o, "city", GetString),
                          country |-> Found(o, "country", GetString)])
    IN  Optional(t, Read)

UserOfRapid(t) ==
    LET Read(o) == {[DefaultUser EXCEPT !.geo = geo] : geo \in Found(o, "geo", GeoOfRapid)}
    IN  Optional(t, Read)

SiteOfRapid(t) ==
    LET Read(o) == Whole([id |-> Found(o, "id", GetString),
                          ref |-> Found(o, "ref", GetString)])
    IN  Optional(t, Read)

ImpressionsOfRapid(t) == IF t.k # "arr" THEN {<<>>} ELSE Every(t.e, ImpressionOfRapid)

RequestOfRapid(t) ==
    IF t.k # "obj" THEN {DefaultRequest}
    ELSE Whole([id |-> Looped(t, "id", <<>>, GetString),
                imp |-> Looped(t, "imp", <<>>, ImpressionsOfRapid),
                user |-> Looped(t, "user", {}, UserOfRapid),
                site |-> Looped(t, "site", {}, SiteOfRapid)])

-----------------------------------------------------------------------------
Returned(result) == IF result = {} THEN [k |-> "failed"] ELSE [k |-> "ok", v |-> The(result)]
Unread == [k |-> "unread"]

MapInit ==
    /\ doc \in Documents
    /\ mapper \in Mappers
    /\ js = Written(doc, Gap) /\ Init
    /\ encoded = Empty
    /\ request = Unread

(* jsmn_parse, for the two mappers that use it. *)
Tokenize ==
    /\ mapper # "rapid"
    /\ Next
    /\ UNCHANGED <<doc, mapper, encoded, request>>

(* A negative result is thrown as a runtime_error. *)
ParseFailed ==
    /\ ret < 0 /\ request = Unread
    /\ request' = [k |-> "failed"]
    /\ UNCHANGED <<js, pos, tokens, toksuper, ret, doc, mapper, encoded>>

(* The value is rebuilt from the tokens. *)
EncodeTokens ==
    /\ ret \in 0..NumTokens /\ encoded = Empty /\ request = Unread
    /\ encoded' = Encode(1, Len(tokens)).v
    /\ request' = IF encoded' = Thrown THEN [k |-> "failed"] ELSE request
    /\ UNCHANGED <<js, pos, tokens, toksuper, ret, doc, mapper>>

ExtractDsl ==
    /\ mapper = "dsl" /\ encoded # Empty /\ request = Unread
    /\ request' = Returned(RequestOfDsl(encoded))
    /\ UNCHANGED <<js, pos, tokens, toksuper, ret, doc, mapper, encoded>>

ExtractAny ==
    /\ mapper = "any" /\ encoded # Empty /\ request = Unread
    /\ request' = Returned(RequestOfAny(encoded))
    /\ UNCHANGED <<js, pos, tokens, toksuper, ret, doc, mapper, encoded>>

(* The rapidjson document is the tree itself. *)
ExtractRapid ==
    /\ mapper = "rapid" /\ request = Unread
    /\ request' = Returned(RequestOfRapid(doc))
    /\ UNCHANGED <<js, pos, tokens, toksuper, ret, doc, mapper, encoded>>

MapNext == Tokenize \/ ParseFailed \/ EncodeTokens \/ ExtractDsl \/ ExtractAny \/ ExtractRapid

MapSpec == MapInit /\ [][MapNext]_mapVars

-----------------------------------------------------------------------------
(* What the document says, read as JSON: every member the structures know,   *)
(* its default where the document does not have it, and a value no member    *)
(* can have where it has one of another kind.                                *)
MistypedText == <<"mistyped">>
MistypedInt == -2000

SaidText(t, key) ==
    IF ~HasMember(t, key) THEN <<>>
    ELSE IF First(t, key).k = "str" THEN First(t, key).s ELSE MistypedText
SaidInt(t, key, default) ==
    IF ~HasMember(t, key) THEN default
    ELSE IF GetInt(First(t, key)) # {} THEN The(GetInt(First(t, key))) ELSE MistypedInt
SaidObject(t, key, Read(_)) ==
    IF HasMember(t, key) /\ First(t, key).k = "obj" THEN {Read(First(t, key))} ELSE {}

Said ==
    LET Banner(t) == [h |-> SaidInt(t, "h", 0), w |-> SaidInt(t, "w", 0),
                      pos |-> SaidInt(t, "pos", Uninit)]
        Impression(t) ==
            [id |-> SaidText(t, "id"), banner |-> SaidObject(t, "banner", Banner),
             bidfloor |-> IF HasMember(t, "bidfloor") /\ GetDouble(First(t, "bidfloor")) # {}
                          THEN The(GetDouble(First(t, "bidfloor"))) ELSE 0,
             bidfloorcur |-> SaidText(t, "bidfloorcur")]
        Geo(t) == [city |-> SaidText(t, "city"), country |-> SaidText(t, "country")]
        User(t) == [id |-> SaidText(t, "id"), buyeruid |-> SaidText(t, "buyeruid"),
                    geo |-> SaidObject(t, "geo", Geo)]
        Site(t) == [id |-> SaidText(t, "id"), ref |-> SaidText(t, "ref")]
    IN  [id |-> SaidText(doc, "id"),
         imp |-> IF HasMember(doc, "imp")
                 THEN [i \in DOMAIN First(doc, "imp").e |-> Impression(First(doc, "imp").e[i])]
                 ELSE <<>>,
         user |-> SaidObject(doc, "user", User),
         site |-> SaidObject(doc, "site", Site)]

(* What all three mappers read of a request. *)
Common(r) ==
    [r EXCEPT !.user = {u.geo : u \in @}, !.site = {s.id : s \in @}]

(* The type invariant of a call. *)
MapTypeOK ==
    /\ TypeOK
    /\ doc \in Documents /\ mapper \in Mappers
    /\ encoded.k \in {"empty", "thrown", "map", "vec", "str", "int", "dec", "bool"}
    /\ request.k \in {"unread", "failed", "ok"}

(* For the text of a document, jsmn_parse stops for want of tokens exactly   *)
(* when the document has more than the array holds, and otherwise leaves the *)
(* document's tokens in the order of the text, each with its text and the    *)
(* number of its children: what the walk of encoders::encode relies on.      *)
TokensAreTheDocument ==
    ret # Running =>
        LET expected == Preorder(doc, Gap)
            TokenOf(i) == [type |-> tokens[i].type, size |-> tokens[i].size,
                           text |-> TokenText(tokens[i])]
        IN  IF Len(expected) > NumTokens THEN ret = NOMEM
            ELSE /\ ret = Len(expected)
                 /\ [i \in 1..ret |-> TokenOf(i)] = expected

(* The encoder's walk ends with the last token and never reads past it,      *)
(* although the count it passes down is one more than the tokens left.       *)
EncodeStaysInside ==
    ret \in 0..NumTokens /\ encoded # Empty /\ encoded # Thrown
        => Encode(1, Len(tokens)).used = Len(tokens)

(* A member no structure says is optional is there, with its type. *)
Complete ==
    LET Ints(t, keys) == \A key \in keys : HasMember(t, key) /\ GetInt(First(t, key)) # {}
        Texts_(t, keys) == \A key \in keys : HasMember(t, key) /\ First(t, key).k = "str"
        Below(t, key, Has(_)) == HasMember(t, key) => First(t, key).k = "obj" /\ Has(First(t, key))
        Geo(t) == Texts_(t, {"city", "country"})
        User(t) == HasMember(t, "geo") /\ Below(t, "geo", Geo)
        Site(t) == Texts_(t, {"id", "ref"})
        Banner(t) == /\ Ints(t, {"h", "w", "pos"})
                     /\ The(GetInt(First(t, "pos"))) \in 0..7
                     /\ \A key \in {"h", "w"} : The(GetInt(First(t, key))) \in 0..(Width - 1)
        Impression(t) == /\ Texts_(t, {"id", "bidfloorcur"})
                         /\ HasMember(t, "bidfloor") /\ First(t, "bidfloor").k = "prim"
                         /\ Lexeme[First(t, "bidfloor").p].kind = "dec"
                         /\ Below(t, "banner", Banner)
    IN  /\ Texts_(doc, {"id"})
        /\ HasMember(doc, "imp") /\ \A i \in DOMAIN First(doc, "imp").e :
                                        Impression(First(doc, "imp").e[i])
        /\ Below(doc, "user", User) /\ Below(doc, "site", Site)

(* On a complete request that fits the token array the three mappers read    *)
(* the same, and it is what the document says, whatever the order of the     *)
(* members and whatever else the document holds.                             *)
MappersAgree ==
    /\ request # Unread /\ Complete
    /\ mapper # "rapid" => ret >= 0 /\ encoded # Thrown
    => request.k = "ok" /\ Common(request.v) = Common(Said)

(* Every side of a banner is in the range of uint16_t. *)
SidesFit ==
    \A i \in DOMAIN Said.imp : \A banner \in Said.imp[i].banner :
        banner.h \in 0..(Width - 1) /\ banner.w \in 0..(Width - 1)

(* The jsonv mapper reads what the document says or throws: a missing member *)
(* keeps its default, and a member of another kind never becomes one.        *)
DslReadsOrThrows ==
    mapper = "dsl" /\ request.k = "ok" /\ SidesFit
        => request.v = [Said EXCEPT !.site = {[s EXCEPT !.ref = <<>>] : s \in @}]

(* No mapper fails an assertion of rapidjson on a well formed request.       *)
NoAssertionFails == ~(mapper = "rapid" /\ request.k = "failed")
==============================================================================
