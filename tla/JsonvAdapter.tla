---------------------------- MODULE JsonvAdapter -----------------------------
(***************************************************************************)
(* The adapter of a class that the builder DSL of jsonv puts together.     *)
(* The adapter is registered when its builder is made, so that it may be   *)
(* used between the calls that go on changing it.  An extraction calls the *)
(* functions given to pre_extract and then the members one by one; each    *)
(* may throw.                                                              *)
(*                                                                         *)
(* A JSON value is null, an object or something else; under its keys an    *)
(* object has numbers (Good and Odd, of which the functions of the         *)
(* application refuse Odd), null, or something that is no number (Bad).    *)
(***************************************************************************)
EXTENDS Integers, Sequences, SequencesExt, FiniteSets, FiniteSetsExt

CONSTANTS Keys,        \* the names of members
          Calls,       \* the calls that are made
          MaxCalls,    \* bound: how many of the DSL
          MaxMembers,  \* bound: the members of the class
          Versions     \* versions, 0 for the empty one

VARIABLES members,  \* adapter_impl::_members
          hooks,    \* what _pre_extract calls, in order
          default,  \* [on: _default_on_null, made: there is a _create_default]
          asked,    \* history: the functions in the order they were given
          calls,    \* calls of the DSL so far
          pc,       \* "idle", "pre", "members": what an extraction does next
          at,       \* index of the next hook or member
          from,     \* the value that is extracted
          out,      \* what the members have been set to
          called,   \* the hooks that were called, and what they were told
          error,    \* how the extraction ended: "" or the kind of its failure
          place,    \* the path of the error
          json      \* what to_json returned, for the class and the version given

builder == <<members, hooks, default, asked, calls>>
extraction == <<pc, at, from, out, called, error, place>>
vars == <<builder, extraction, json>>

Null == 0
Good == 1
Odd == 2
Bad == 3
Made == 4    \* the value of the default functions
Unset == 5   \* what T's constructor leaves

Objects == UNION {[ks -> {Null, Good, Odd, Bad}] : ks \in SUBSET Keys}
NoFields == [k \in {} |-> Null]
Values == {[kind |-> "object", fields |-> f] : f \in Objects}
            \cup {[kind |-> k, fields |-> NoFields] : k \in {"null", "other"}}

Nothing == [kind |-> "null", fields |-> NoFields]
NoJson == [version |-> 0, given |-> <<>>, fields |-> NoFields]

Init == /\ members = <<>>
        /\ hooks = <<>> /\ asked = <<>>
        /\ default = [on |-> FALSE, made |-> FALSE]
        /\ calls = 0
        /\ pc = "idle" /\ at = 1 /\ from = Nothing
        /\ out = <<>> /\ called = <<>> /\ error = "" /\ place = <<>>
        /\ json = NoJson

-----------------------------------------------------------------------------
(* The DSL.  What an earlier extraction or encoding left is forgotten.     *)

Call(name) == /\ pc = "idle" /\ name \in Calls
              /\ calls < MaxCalls
              /\ calls' = calls + 1
              /\ from' = Nothing /\ out' = <<>> /\ called' = <<>> /\ error' = "" /\ place' = <<>>
              /\ json' = NoJson
              /\ UNCHANGED <<pc, at>>

(* Mutant: the name of a member is lost. *)
NewMemberNameless(k) == [names |-> <<>>, checks |-> <<>>, made |-> FALSE, onNull |-> FALSE,
                         mutators |-> 0]

NewMember(k) == [names |-> <<k>>, checks |-> <<>>, made |-> FALSE, onNull |-> FALSE,
                 mutators |-> 0]

Member(k) == /\ Call("member")
             /\ Len(members) < MaxMembers
             /\ members' = Append(members, NewMember(k))
             /\ UNCHANGED <<hooks, asked, default>>

(* The calls of the member context change the member that was added last.  *)
Change(name, changed) == /\ Call(name)
                         /\ members # <<>>
                         /\ members' = [members EXCEPT ![Len(members)] = changed]
                         /\ UNCHANGED <<hooks, asked, default>>

AlternateName(k) == Change("alternate_name", [Last(members) EXCEPT !.names = Append(@, k)])

DefaultValue == Change("default_value", [Last(members) EXCEPT !.made = TRUE])

DefaultOnNull(on) == Change("default_on_null", [Last(members) EXCEPT !.onNull = on])

(* add_extraction_check: the check is put after the mutators there are.    *)
CheckInput == Change("check_input", [Last(members) EXCEPT !.mutators = @ + 1])

(* encode_if, since, until, after, before: the new check is asked first.   *)
EncodeIf(c) == Change(c.op, [Last(members) EXCEPT !.checks = <<c>> \o @])

Hook(name, h, all) == /\ Call(name)
                      /\ hooks' = all
                      /\ asked' = Append(asked, h)
                      /\ UNCHANGED <<members, default>>

(* Mutant: the new function is called before those that were there. *)
PreExtractFirst(h) == Hook("pre_extract", h, <<h>> \o hooks)

(* A function that calls the one that was there and then the new one.      *)
PreExtract(h) == Hook("pre_extract", h, Append(hooks, h))

OnExtractExtraKeys(h) == Hook("on_extract_extra_keys", h, Append(hooks, h))

TypeDefault(name, changed) == /\ Call(name)
                              /\ default' = changed
                              /\ UNCHANGED <<members, hooks, asked>>

TypeDefaultOnNull(on) == TypeDefault("type_default_on_null", [default EXCEPT !.on = on])

TypeDefaultValue == TypeDefault("type_default_value", [default EXCEPT !.made = TRUE])

Build == \/ \E k \in Keys : Member(k) \/ AlternateName(k)
         \/ DefaultValue
         \/ \E on \in BOOLEAN : DefaultOnNull(on) \/ TypeDefaultOnNull(on)
         \/ CheckInput
         \/ \E op \in {"since", "until", "after", "before"}, ver \in Versions \ {0} :
              EncodeIf([op |-> op, ver |-> ver])
         \/ EncodeIf([op |-> "encode_if", ver |-> 0])
         \/ \E h \in {"note", "other note"} : PreExtract(h)
         \/ \E h \in {"extra", "throw extra"} : OnExtractExtraKeys(h)
         \/ TypeDefaultValue

-----------------------------------------------------------------------------
(* Extraction.                                                             *)

Extract == /\ pc = "idle" /\ "extract" \in Calls
           /\ from' \in Values
           /\ pc' = "pre" /\ at' = 1
           /\ out' = [i \in DOMAIN members |-> Unset]
           /\ called' = <<>> /\ error' = "" /\ place' = <<>>
           /\ json' = NoJson
           /\ UNCHANGED builder

(* extraction_context::extract turns whatever is thrown into an            *)
(* extraction_error with the path of the context.                          *)
Throw(kind, path) == /\ error' = kind /\ place' = path
                     /\ out' = <<>>
                     /\ pc' = "idle" /\ at' = 1

(* Mutant: only the first name of a member is a key. *)
HasFirstName(m, key) == key = m.names[1]

HasExtractKey(m, key) == key \in ToSet(m.names)

ExtraKeys == {k \in DOMAIN from.fields : \A i \in DOMAIN members : ~ HasExtractKey(members[i], k)}

(* A function of pre_extract only takes note; those of                     *)
(* on_extract_extra_keys are called for an object with extra keys, and     *)
(* throw_extra_keys_extraction_error throws.                               *)
CallHook ==
  /\ pc = "pre" /\ at <= Len(hooks)
  /\ LET h == hooks[at]
         extra == h \in {"extra", "throw extra"}
     IN /\ called' = IF extra /\ (from.kind # "object" \/ ExtraKeys = {}) THEN called
                     ELSE Append(called, [hook |-> h, keys |-> IF extra THEN ExtraKeys ELSE {}])
        /\ IF extra /\ from.kind # "object" THEN Throw("kind", <<>>)
           ELSE IF h = "throw extra" /\ ExtraKeys # {} THEN Throw("extra", <<>>)
           ELSE at' = at + 1 /\ UNCHANGED <<pc, out, error, place>>
  /\ UNCHANGED <<builder, from, json>>

(* The type's default for null, if it was asked for; an empty function     *)
(* throws std::bad_function_call.                                          *)
HooksDone ==
  /\ pc = "pre" /\ at > Len(hooks)
  /\ IF ~ (default.on /\ from.kind = "null")
     THEN pc' = "members" /\ at' = 1 /\ UNCHANGED <<out, error, place>>
     ELSE IF ~ default.made THEN Throw("no function", <<>>)
     ELSE /\ out' = [i \in DOMAIN members |-> Made]
          /\ pc' = "idle" /\ at' = 1
          /\ UNCHANGED <<error, place>>
  /\ UNCHANGED <<builder, from, called, json>>

(* Mutant: the name that was added last is preferred. *)
FoundLast(m, f) == LET found == SelectSeq(m.names, LAMBDA k : k \in DOMAIN f)
                   IN IF found = <<>> THEN <<>> ELSE <<Last(found)>>

(* The first of the names that the object has. *)
Found(m, f) == LET found == SelectSeq(m.names, LAMBDA k : k \in DOMAIN f)
               IN IF found = <<>> THEN <<>> ELSE <<found[1]>>

(* What mutate does with an object: it sets a value, does nothing, or      *)
(* throws with a path below that of the object.                            *)
MutateResult(m, f) ==
  LET found == Found(m, f)
      set(v) == [does |-> "set", value |-> v, place |-> <<>>]
      throw(kind, path) == [does |-> kind, value |-> Null, place |-> path]
  IN IF found = <<>> THEN IF m.made THEN set(Made)
                          ELSE [does |-> "return", value |-> Null, place |-> <<>>]
     ELSE IF m.onNull /\ f[found[1]] = Null
          THEN IF m.made THEN set(Made) ELSE throw("no function", <<>>)
     ELSE IF f[found[1]] \in {Good, Odd} THEN set(f[found[1]])
     ELSE throw("value", found)

(* Mutant: the error names the first key of the member. *)
MutateFirstName(m, value) ==
  IF value.kind = "object"
  THEN LET r == MutateResult(m, value.fields)
       IN IF r.does = "value" THEN [r EXCEPT !.place = <<m.names[1]>>] ELSE r
  ELSE [does |-> "kind", value |-> Null, place |-> <<>>]

(* Mutant: a member that is not there is set to null. *)
MutateMissing(m, value) ==
  IF value.kind = "object"
  THEN LET r == MutateResult(m, value.fields)
       IN IF r.does = "return" THEN [r EXCEPT !.does = "set"] ELSE r
  ELSE [does |-> "kind", value |-> Null, place |-> <<>>]

(* Mutant: the default is for null only. *)
MutateWithoutDefault(m, value) ==
  IF value.kind = "object"
  THEN LET r == MutateResult(m, value.fields)
       IN IF Found(m, value.fields) = <<>> THEN [r EXCEPT !.does = "return"] ELSE r
  ELSE [does |-> "kind", value |-> Null, place |-> <<>>]

(* A value that is no object has no find. *)
Mutate(m, value) ==
  IF value.kind = "object" THEN MutateResult(m, value.fields)
  ELSE [does |-> "kind", value |-> Null, place |-> <<>>]

MutateMember ==
  /\ pc = "members" /\ at <= Len(members)
  /\ LET r == Mutate(members[at], from)
     IN IF r.does \in {"set", "return"}
        THEN /\ out' = IF r.does = "set" THEN [out EXCEPT ![at] = r.value] ELSE out
             /\ at' = at + 1
             /\ UNCHANGED <<pc, error, place>>
        ELSE Throw(r.does, r.place)
  /\ UNCHANGED <<builder, from, called, json>>

MembersDone ==
  /\ pc = "members" /\ at > Len(members)
  /\ pc' = "idle" /\ at' = 1
  /\ UNCHANGED <<builder, from, out, called, error, place, json>>

-----------------------------------------------------------------------------
(* Encoding.                                                               *)

Passes(c, version, v) ==
  CASE c.op = "since"  -> version = 0 \/ version >= c.ver
    [] c.op = "until"  -> version = 0 \/ version <= c.ver
    [] c.op = "after"  -> version = 0 \/ version > c.ver
    [] c.op = "before" -> version = 0 \/ version < c.ver
    [] OTHER           -> v # Odd

(* Mutant: only the check that was added last is asked. *)
ShouldEncodeLast(m, version, v) == m.checks = <<>> \/ Passes(m.checks[1], version, v)

ShouldEncode(m, version, v) == \A i \in DOMAIN m.checks : Passes(m.checks[i], version, v)

EncodedKey(m) == m.names[1]

(* The members are inserted one by one; a key that is there stays.         *)
Encoded(version, given) ==
  FoldLeftDomain(LAMBDA f, i :
                   LET k == EncodedKey(members[i])
                   IN IF ShouldEncode(members[i], version, given[i]) /\ k \notin DOMAIN f
                      THEN [j \in DOMAIN f \cup {k} |-> IF j = k THEN given[i] ELSE f[j]]
                      ELSE f,
                 NoFields, members)

ToJson(version, given) ==
  /\ pc = "idle" /\ "to_json" \in Calls
  /\ json' = [version |-> version, given |-> given, fields |-> Encoded(version, given)]
  /\ from' = Nothing /\ out' = <<>> /\ called' = <<>> /\ error' = "" /\ place' = <<>>
  /\ UNCHANGED <<builder, pc, at>>

Next == \/ Build
        \/ Extract
        \/ CallHook
        \/ HooksDone
        \/ MutateMember
        \/ MembersDone
        \/ \E version \in Versions, given \in [DOMAIN members -> {Good, Odd}] : ToJson(version, given)

Spec == Init /\ [][Next]_vars

-----------------------------------------------------------------------------
TypeOK ==
  /\ \A m \in ToSet(members) :
       /\ m.names # <<>> /\ ToSet(m.names) \subseteq Keys
       /\ m.made \in BOOLEAN /\ m.onNull \in BOOLEAN
  /\ pc \in {"idle", "pre", "members"}
  /\ at \in 1 .. Len(hooks) + Len(members) + 1
  /\ \A i \in DOMAIN out : out[i] \in {Good, Odd, Made, Unset}
  /\ out # <<>> => Len(out) = Len(members)
  /\ error # "" => out = <<>> /\ pc = "idle"
  /\ \A k \in DOMAIN json.fields : json.fields[k] \in {Good, Odd}

Extracted == pc = "idle" /\ out # <<>> /\ error = ""

(* The index of the first name of a member that the object has, if any.    *)
Present(m) == {j \in DOMAIN m.names : m.names[j] \in DOMAIN from.fields}

Looked(m) == from.fields[m.names[Min(Present(m))]]

(* serialization_builder.hpp 443: "preference is given to names earlier in *)
(* the list".  A member has the value under the first of its names, its    *)
(* default when there is none or it is null, or else is left alone.        *)
ExtractedRight ==
  Extracted /\ from.kind = "object" =>
    \A i \in DOMAIN members :
      LET m == members[i]
      IN out[i] = IF Present(m) = {} THEN IF m.made THEN Made ELSE Unset
                  ELSE IF Looked(m) = Null THEN Made ELSE Looked(m)

(* The path of an error leads to a value that some member had to read and  *)
(* could not, or else to the object, and then the object as a whole is at  *)
(* fault or a default is missing (serialization.hpp, extraction_error::path). *)
ErrorIsPlace ==
  error # "" =>
    /\ place = <<>> => error # "value"
    /\ place # <<>> => \E m \in ToSet(members) :
                         /\ Present(m) # {} /\ place = <<m.names[Min(Present(m))]>>
                         /\ Looked(m) \in {Null, Bad}
    /\ error = "kind" => from.kind # "object"

(* on_extract_extra_keys is told of the keys that are no name of any       *)
(* member, those that were added after it included, and of no others; with *)
(* throw_extra_keys_extraction_error nothing that has such keys is         *)
(* extracted.                                                              *)
ExtraKeysExact ==
  LET extra == DOMAIN from.fields \ UNION {ToSet(m.names) : m \in ToSet(members)}
      told(i) == called[i].hook \in {"extra", "throw extra"}
  IN /\ \A i \in DOMAIN called : told(i) => called[i].keys = extra /\ extra # {}
     /\ Extracted /\ "throw extra" \in ToSet(hooks) => extra = {}
     /\ Extracted /\ "extra" \in ToSet(hooks) /\ extra # {} => \E i \in DOMAIN called : told(i)

(* serialization_builder.hpp 350: "all functions will be called in the     *)
(* order they are provided", before any member is set.                     *)
HooksInOrder ==
  /\ pc = "pre" => \A i \in DOMAIN out : out[i] = Unset
  /\ LET always(q) == SelectSeq(q, LAMBDA h : h \in {"note", "other note"})
     IN Extracted => always([i \in DOMAIN called |-> called[i].hook]) = always(asked)

(* The versions that the checks of a member let through, as an interval.   *)
Lowest(m) == Max({0} \cup {m.checks[i].ver : i \in {j \in DOMAIN m.checks : m.checks[j].op = "since"}}
                      \cup {m.checks[i].ver + 1 : i \in {j \in DOMAIN m.checks : m.checks[j].op = "after"}})

Highest(m) == Min({Max(Versions)}
                    \cup {m.checks[i].ver : i \in {j \in DOMAIN m.checks : m.checks[j].op = "until"}}
                    \cup {m.checks[i].ver - 1 : i \in {j \in DOMAIN m.checks : m.checks[j].op = "before"}})

(* serialization_builder.hpp 843, 852, 862, 872, 882: a member is encoded  *)
(* if and only if the version is within all the bounds it was given and    *)
(* every other check passes.                                               *)
EncodedWithinWindow ==
  json.given # <<>> /\ json.version # 0 =>
    \A k \in Keys :
      k \in DOMAIN json.fields <=>
        \E i \in DOMAIN members :
          LET m == members[i]
          IN /\ m.names[1] = k
             /\ json.version \in Lowest(m) .. Highest(m)
             /\ json.given[i] = Odd => \A j \in DOMAIN m.checks : m.checks[j].op # "encode_if"

(* What to_json writes is read back: if the members have different names   *)
(* and all are encoded, extracting the object sets each to what it was,    *)
(* whatever alternate names there are, and there are no extra keys.        *)
RoundTrip ==
  LET names == {members[i].names[1] : i \in DOMAIN members}
  IN json.given # <<>> /\ Cardinality(names) = Len(members) /\ Cardinality(DOMAIN json.fields) = Len(members) =>
       /\ \A i \in DOMAIN members :
            MutateResult(members[i], json.fields) = [does |-> "set", value |-> json.given[i], place |-> <<>>]
       /\ \A k \in DOMAIN json.fields : \E i \in DOMAIN members : HasExtractKey(members[i], k)

-----------------------------------------------------------------------------
(* What the documentation says and the code does not.                      *)

(* serialization_builder.hpp 459: "Checks the extracted value with the     *)
(* given check function".                                                  *)
InputsChecked ==
  Extracted => \A i \in DOMAIN members : members[i].mutators > 0 => out[i] # Odd

(* serialization_builder.hpp 819: "If a default_value is not specified,    *)
(* the key is required."                                                   *)
KeysRequired == Extracted => \A i \in DOMAIN out : out[i] # Unset

(* serialization_builder.hpp 488: default_on_null "is only considered if   *)
(* a default_value was provided".                                          *)
NullNeedsDefault == error = "no function" => default.on /\ from.kind = "null"

(* serialization_builder.hpp 357: with type_default_on_null and            *)
(* type_default_value, null becomes the default.                           *)
NullTakesDefault == default.on /\ default.made /\ from.kind = "null" => error = ""

(* serialization_builder.hpp 436, 450, 501, 508: a member with a bound on  *)
(* the version is serialized only if the version is not empty.             *)
EmptyVersionBounded ==
  json.version = 0 =>
    \A i \in DOMAIN json.given :
      (\E j \in DOMAIN members[i].checks : members[i].checks[j].op # "encode_if")
        => members[i].names[1] \notin DOMAIN json.fields

(* serialization_builder.hpp 501: since is for versions greater than the   *)
(* provided one.                                                           *)
SinceIsGreater ==
  \A i \in DOMAIN json.given, k \in DOMAIN json.fields :
    Len(members) = 1 /\ json.version # 0 =>
      \A j \in DOMAIN members[i].checks :
        members[i].checks[j].op = "since" => json.version > members[i].checks[j].ver
------------------------------------------------------------------------------
(***************************************************************************)
(* The adapters jsonv provides for enumerations, optional values,          *)
(* containers, wrappers and pointers to one of several classes, nested in  *)
(* each other.  Each calls the adapter of its elements through the         *)
(* context, which carries the path of the value that is extracted.         *)
(*                                                                         *)
(* An enumeration and a hierarchy of classes are described first, entry by *)
(* entry; then a value is extracted as one of Targets and what comes out   *)
(* is encoded again.  An object has one key, the one that tells its class. *)
(***************************************************************************)

CONSTANTS Enumerators,  \* the C++ values of the enumeration
          Codes,        \* the JSON values that stand for them
          Tags,         \* the values of the key that tells the class of an object
          Targets,      \* the C++ types that are extracted
          Inputs,       \* the JSON values they are extracted from
          MaxEntries    \* bound: the entries of the enumeration and the hierarchy

(* JSON values, C++ values and types, each of one shape. *)
Json(kind, n, items) == [kind |-> kind, n |-> n, items |-> items]
NullJson == Json("null", 0, <<>>)
Type(kind, of) == [kind |-> kind, of |-> of]
Cpp(kind, n, items) == [kind |-> kind, n |-> n, items |-> items]
NoValue == Cpp("nothing", 0, <<>>)

VARIABLES mapping,   \* the initializer list of an enum_adapter, <<C++ value, code>>
          subtypes,  \* polymorphic_adapter::_subtype_ctors: the tag of each, 0 for any value
          nullIn,    \* _check_null_input
          nullOut,   \* _check_null_output
          step,        \* "build", "extracted", "encoded"
          target,    \* the type that was extracted
          input,     \* what it was extracted from
          result,    \* [ok, value, place]
          output     \* what to_json made of the result

conversionVars == <<mapping, subtypes, nullIn, nullOut, step, target, input, result, output>>

Done(value) == [ok |-> TRUE, value |-> value, place |-> <<>>]
Error(path) == [ok |-> FALSE, value |-> NoValue, place |-> path]

InitConversion ==
  /\ mapping = <<>> /\ subtypes = <<>>
  /\ nullIn = FALSE /\ nullOut = FALSE
  /\ step = "build"
  /\ target = Type("enum", <<>>) /\ input = NullJson
  /\ result = Done(NoValue) /\ output = NullJson

-----------------------------------------------------------------------------
(* The descriptions.                                                       *)

Describe ==
  /\ step = "build"
  /\ UNCHANGED <<step, target, input, result, output>>

AddMapping(e, c) ==
  /\ Describe
  /\ Len(mapping) < MaxEntries
  /\ mapping' = Append(mapping, <<e, c>>)
  /\ UNCHANGED <<subtypes, nullIn, nullOut>>

(* add_subtype_keyed, and add_subtype with a predicate that is always true. *)
AddSubtype(tag) ==
  /\ Describe
  /\ Len(subtypes) < MaxEntries
  /\ subtypes' = Append(subtypes, tag)
  /\ UNCHANGED <<mapping, nullIn, nullOut>>

CheckNullInput ==
  /\ Describe /\ nullIn' = ~ nullIn /\ UNCHANGED <<mapping, subtypes, nullOut>>

CheckNullOutput ==
  /\ Describe /\ nullOut' = ~ nullOut /\ UNCHANGED <<mapping, subtypes, nullIn>>

-----------------------------------------------------------------------------
(* The two maps of an enum_adapter.  insert leaves an entry that is there. *)

(* Mutant: a later entry replaces an earlier one. *)
InsertedLast(side, to, key) ==
  LET of == SelectSeq(mapping, LAMBDA p : p[side] = key)
  IN IF of = <<>> THEN <<>> ELSE <<Last(of)[to]>>

Inserted(side, to, key) ==
  LET of == SelectSeq(mapping, LAMBDA p : p[side] = key)
  IN IF of = <<>> THEN <<>> ELSE <<of[1][to]>>

ValToCpp(code) == Inserted(2, 1, code)
CppToVal(e) == Inserted(1, 2, e)

-----------------------------------------------------------------------------
(* Extraction.                                                             *)

Matches(tag, v) == tag = 0 \/ (v.kind = "object" /\ v.n = tag)

(* Mutant: the subtype after the one that matches is made. *)
FindNextSubtype(v) == LET i == SelectInSeq(subtypes, LAMBDA tag : Matches(tag, v))
                      IN IF i = 0 THEN 0 ELSE i + 1

FindSubtype(v) == SelectInSeq(subtypes, LAMBDA tag : Matches(tag, v))

(* The adapters of the classes themselves take an object. *)
ExtractClass(i, v, path) ==
  IF v.kind = "object" THEN Done(Cpp("class", i, <<Cpp("tag", v.n, <<>>)>>)) ELSE Error(path)

(* Mutant: the elements are extracted under the path of the container. *)
SubPathLost(path, i) == path

(* extract_sub adds the index of the element to the path. *)
SubPath(path, i) == Append(path, i)

RECURSIVE Create(_, _, _)
Create(t, v, path) ==
  CASE t.kind = "enum" ->
         IF v.kind = "code" /\ ValToCpp(v.n) # <<>> THEN Done(Cpp("enum", ValToCpp(v.n)[1], <<>>))
         ELSE Error(path)
    [] t.kind = "optional" ->
         IF v = NullJson THEN Done(NoValue)
         ELSE LET sub == Create(t.of[1], v, path)
              IN IF sub.ok THEN Done(Cpp("some", 0, <<sub.value>>)) ELSE sub
    [] t.kind = "container" ->
         IF v.kind # "array" THEN Error(path)
         ELSE LET subs == [i \in DOMAIN v.items |-> Create(t.of[1], v.items[i], SubPath(path, i))]
                  bad == SelectInSeq(subs, LAMBDA r : ~ r.ok)
              IN IF bad # 0 THEN subs[bad]
                 ELSE Done(Cpp("list", 0, [i \in DOMAIN subs |-> subs[i].value]))
    [] t.kind = "wrapper" ->
         LET sub == Create(t.of[1], v, path)
         IN IF sub.ok THEN Done(Cpp("wrapped", 0, <<sub.value>>)) ELSE sub
    [] t.kind = "pointer" ->
         IF nullIn /\ v = NullJson THEN Done(NoValue)
         ELSE IF FindSubtype(v) = 0 THEN Error(path)
         ELSE ExtractClass(FindSubtype(v), v, path)

ExtractAs(t, v) ==
  /\ step = "build"
  /\ step' = "extracted"
  /\ target' = t /\ input' = v
  /\ result' = Create(t, v, <<>>)
  /\ UNCHANGED <<mapping, subtypes, nullIn, nullOut, output>>

-----------------------------------------------------------------------------
(* Encoding.  A null pointer is dereferenced unless check_null_output is   *)
(* on.                                                                     *)

Undefined == Json("undefined", 0, <<>>)

(* Mutant: an empty container is written as null. *)
RECURSIVE ConvertToJsonNoEmpty(_, _)
ConvertToJsonNoEmpty(t, c) ==
  CASE t.kind = "enum" ->
         IF CppToVal(c.n) = <<>> THEN NullJson ELSE Json("code", CppToVal(c.n)[1], <<>>)
    [] t.kind = "optional" -> IF c = NoValue THEN NullJson ELSE ConvertToJsonNoEmpty(t.of[1], c.items[1])
    [] t.kind = "container" ->
         IF c.items = <<>> THEN NullJson
         ELSE Json("array", 0, [i \in DOMAIN c.items |-> ConvertToJsonNoEmpty(t.of[1], c.items[i])])
    [] t.kind = "wrapper" -> ConvertToJsonNoEmpty(t.of[1], c.items[1])
    [] t.kind = "pointer" -> IF c # NoValue THEN Json("object", c.items[1].n, <<>>) ELSE NullJson

RECURSIVE ConvertToJson(_, _)
ConvertToJson(t, c) ==
  CASE t.kind = "enum" ->
         IF CppToVal(c.n) = <<>> THEN NullJson ELSE Json("code", CppToVal(c.n)[1], <<>>)
    [] t.kind = "optional" -> IF c = NoValue THEN NullJson ELSE ConvertToJson(t.of[1], c.items[1])
    [] t.kind = "container" ->
         Json("array", 0, [i \in DOMAIN c.items |-> ConvertToJson(t.of[1], c.items[i])])
    [] t.kind = "wrapper" -> ConvertToJson(t.of[1], c.items[1])
    [] t.kind = "pointer" ->
         IF c # NoValue THEN Json("object", c.items[1].n, <<>>)
         ELSE IF nullOut THEN NullJson ELSE Undefined

Encode ==
  /\ step = "extracted" /\ result.ok
  /\ step' = "encoded"
  /\ output' = ConvertToJson(target, result.value)
  /\ UNCHANGED <<mapping, subtypes, nullIn, nullOut, target, input, result>>

Again ==
  /\ step = "encoded" \/ (step = "extracted" /\ ~ result.ok)
  /\ step' = "build"
  /\ target' = Type("enum", <<>>) /\ input' = NullJson
  /\ result' = Done(NoValue) /\ output' = NullJson
  /\ UNCHANGED <<mapping, subtypes, nullIn, nullOut>>

NextConversion ==
  \/ \E e \in Enumerators, c \in Codes : AddMapping(e, c)
  \/ \E tag \in Tags \cup {0} : AddSubtype(tag)
  \/ CheckNullInput
  \/ CheckNullOutput
  \/ \E t \in Targets, v \in Inputs : ExtractAs(t, v)
  \/ Encode
  \/ Again

SpecConversion == InitConversion /\ [][NextConversion]_conversionVars

-----------------------------------------------------------------------------
(* The shape a value of a type has. *)
RECURSIVE IsA(_, _)
IsA(c, t) ==
  CASE t.kind = "enum" -> c.kind = "enum" /\ c.n \in Enumerators
    [] t.kind = "optional" -> c = NoValue \/ (c.kind = "some" /\ IsA(c.items[1], t.of[1]))
    [] t.kind = "container" -> c.kind = "list" /\ \A i \in DOMAIN c.items : IsA(c.items[i], t.of[1])
    [] t.kind = "wrapper" -> c.kind = "wrapped" /\ IsA(c.items[1], t.of[1])
    [] t.kind = "pointer" -> c = NoValue \/ (c.kind = "class" /\ c.n \in DOMAIN subtypes)

(* What is extracted has the type that was asked for. *)
ConversionTypeOK ==
  /\ step \in {"build", "extracted", "encoded"}
  /\ step # "build" /\ result.ok => IsA(result.value, target)

(* The types a value is read as, place by place: optional and wrapper      *)
(* leave the place, a container goes to its elements.                      *)
RECURSIVE TypeAt(_, _, _)
TypeAt(t, v, path) ==
  IF (t.kind = "optional" /\ v # NullJson) \/ t.kind = "wrapper" THEN TypeAt(t.of[1], v, path)
  ELSE IF path = <<>> THEN [type |-> t, value |-> v]
  ELSE TypeAt(t.of[1], v.items[path[1]], Tail(path))

(* The places at which a value is read, in the order they are read.        *)
RECURSIVE Places(_, _)
Places(t, v) ==
  IF (t.kind = "optional" /\ v # NullJson) \/ t.kind = "wrapper" THEN Places(t.of[1], v)
  ELSE IF t.kind = "container" /\ v.kind = "array"
  THEN <<<<>>>> \o FlattenSeq([i \in DOMAIN v.items |->
                               [j \in DOMAIN Places(t.of[1], v.items[i]) |->
                                  <<i>> \o Places(t.of[1], v.items[i])[j]]])
  ELSE <<<<>>>>

(* A value is wrong by itself for the type it is read as. *)
Wrong(r) ==
  CASE r.type.kind = "enum" ->
         ~ (r.value.kind = "code" /\ \E i \in DOMAIN mapping : mapping[i][2] = r.value.n)
    [] r.type.kind = "optional" -> FALSE
    [] r.type.kind = "container" -> r.value.kind # "array"
    [] r.type.kind = "pointer" ->
         ~ \/ r.value = NullJson /\ nullIn
           \/ r.value.kind = "object" /\ {0, r.value.n} \cap ToSet(subtypes) # {}

(* A value is extracted if and only if nothing in it is wrong, and the     *)
(* path of the error leads to the first thing that is (extract_sub,        *)
(* serialization.cpp 601-625).                                             *)
ErrorIsFirstWrong ==
  step # "build" =>
    LET places == Places(target, input)
        wrong == SelectSeq(places, LAMBDA p : Wrong(TypeAt(target, input, p)))
    IN IF result.ok THEN wrong = <<>> ELSE wrong # <<>> /\ result.place = wrong[1]

(* serialization_util.hpp 458-462: the first C++ value given for a code is *)
(* extracted, and the first code given for a C++ value is written; the     *)
(* first subtype of which the discriminator matches is made.               *)
FirstIsPreferred ==
  /\ target.kind = "enum" /\ step # "build" /\ result.ok =>
       \E i \in DOMAIN mapping : /\ mapping[i] = <<result.value.n, input.n>>
                                /\ \A j \in 1 .. i - 1 : mapping[j][2] # input.n
  /\ target.kind = "enum" /\ step = "encoded" =>
       \E i \in DOMAIN mapping : /\ mapping[i] = <<result.value.n, output.n>>
                                /\ \A j \in 1 .. i - 1 : mapping[j][1] # result.value.n
  /\ target.kind = "pointer" /\ step # "build" /\ result.ok /\ result.value # NoValue =>
       \A j \in 1 .. result.value.n - 1 : subtypes[j] \notin {0, input.n}

(* What was extracted and encoded is extracted again as the same value,    *)
(* if no code stands for two values and null pointers go both ways.        *)
ConversionRoundTrip ==
  step = "encoded" /\ (nullIn => nullOut)
                 /\ (\A i, j \in DOMAIN mapping : mapping[i][2] = mapping[j][2] => mapping[i] = mapping[j])
    => Create(target, output, <<>>) = result
==============================================================================
