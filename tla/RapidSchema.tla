----------------------------- MODULE RapidSchema -----------------------------
(* GenericSchemaDocument: a JSON schema is compiled, and its local "$ref" are   *)
(* resolved.  A JSON value is [k, num, str, m]: a kind, twice the number, a     *)
(* string or its name, and the members [n, v] of an object or array.  A string  *)
(* that is a JSON pointer is in pointers.  A schema is named by the pointer it  *)
(* was compiled at.  The calls that are under way are a stack of tasks.         *)
EXTENDS Integers, Sequences, FiniteSets, SequencesExt, Functions, FiniteSetsExt

CONSTANTS
    Cases,       \* [schema, instance] that are tried
    Pointers     \* the pointer a string "#..." holds, as a function

VARIABLES
    case,        \* the schema and a value to validate
    tasks,       \* [op, at, source, out]: the first one is under way
    schemaMap,   \* [pointer, schema, owned]
    schemaRef,   \* [source, target, out]: references to resolve
    slot         \* what the schema pointers of schemas are set to

docVars == <<case, tasks, schemaMap, schemaRef, slot>>

Typeless == <<"(typeless)">>
Absent == [k |-> "absent", num |-> 0, str |-> "", m |-> <<>>]
EmptyObject == [k |-> "object", num |-> 0, str |-> "", m |-> <<>>]

document == case.schema

(* GetMember: the first member of the name.                                     *)
Member(v, name) ==
    LET hits == {i \in DOMAIN v.m : v.m[i].n = name} IN
        IF v.k = "object" /\ hits # {} THEN v.m[CHOOSE i \in hits : \A j \in hits : i <= j].v ELSE Absent

(* The tokens of the members: an element is named by its index.                 *)
Child(v, i) == IF v.k = "array" THEN ToString(i - 1) ELSE v.m[i].n

RECURSIVE Get(_, _)
Get(v, p) ==
    IF p = <<>> THEN v
    ELSE IF v.k \notin {"object", "array"} THEN Absent
    ELSE LET hits == {i \in DOMAIN v.m : Child(v, i) = Head(p)} IN
         IF hits = {} THEN Absent ELSE Get(v.m[CHOOSE i \in hits : \A j \in hits : i <= j].v, Tail(p))

At(p) == IF p = Typeless THEN EmptyObject ELSE Get(document, p)

ElementsOf(v) == IF v.k = "array" THEN [i \in DOMAIN v.m |-> v.m[i].v] ELSE <<>>

------------------------------------------------------------------------------
(* The constructor of Schema: the subschemas it creates, in its order.          *)
ArrayAt(p, name) ==
    LET v == Member(At(p), name) IN
        IF v.k = "array" THEN [i \in DOMAIN v.m |-> p \o <<name, ToString(i - 1)>>] ELSE <<>>

MembersAt(p, name) ==
    LET v == Member(At(p), name) IN
        IF v.k = "object" THEN [i \in DOMAIN v.m |-> p \o <<name, v.m[i].n>>] ELSE <<>>

ValueAt(p, name) == IF Member(At(p), name).k = "absent" THEN <<>> ELSE <<p \o <<name>>>>

SchemaDependencies(p) == SelectSeq(MembersAt(p, "dependencies"), LAMBDA q : At(q).k = "object")

ItemsAt(p) == IF Member(At(p), "items").k = "object" THEN ValueAt(p, "items") ELSE ArrayAt(p, "items")

Subschemas(p) ==
    ArrayAt(p, "allOf") \o ArrayAt(p, "anyOf") \o ArrayAt(p, "oneOf") \o ValueAt(p, "not")
        \o MembersAt(p, "properties") \o MembersAt(p, "patternProperties") \o SchemaDependencies(p)
        \o ValueAt(p, "additionalProperties") \o ItemsAt(p) \o ValueAt(p, "additionalItems")

------------------------------------------------------------------------------
Task(op, at, source, out) == [op |-> op, at |-> at, source |-> source, out |-> out]

Compiled(p) == \E i \in DOMAIN schemaMap : schemaMap[i].pointer = p

(* GetSchema: the first entry of the pointer.                                   *)
GetSchema(p) == schemaMap[CHOOSE i \in DOMAIN schemaMap :
                    schemaMap[i].pointer = p /\ \A j \in 1 .. i - 1 : schemaMap[j].pointer # p].schema

(* *schema = s, when there is one.                                              *)
SetSlot(out, p, s) == slot' = IF out THEN [q \in DOMAIN slot \cup {p} |-> IF q = p THEN s ELSE slot[q]] ELSE slot

InitDocument ==
    /\ case \in Cases
    /\ tasks = <<Task("recurse", <<>>, <<>>, TRUE)>>
    /\ schemaMap = <<>> /\ schemaRef = <<>>
    /\ slot = <<>> :> Typeless

Under(op) == tasks # <<>> /\ Head(tasks).op = op

(* Mutant of Recurse: only the schemas that others hold are compiled.           *)
RecurseRoot ==
    /\ Under("recurse")
    /\ LET t == Head(tasks) IN tasks' = <<Task("create", t.at, t.at, t.out)>> \o Tail(tasks)
    /\ UNCHANGED <<case, schemaMap, schemaRef, slot>>

(* CreateSchemaRecursive: whatever is an object is compiled once.               *)
Recurse ==
    /\ Under("recurse")
    /\ LET t == Head(tasks)
           v == At(t.at)
           children == IF v.k \in {"object", "array"}
                       THEN [i \in DOMAIN v.m |-> Task("recurse", Append(t.at, Child(v, i)), <<>>, FALSE)] ELSE <<>>
           create == IF v.k = "object" /\ ~Compiled(t.at) THEN <<Task("create", t.at, t.at, t.out)>> ELSE <<>>
       IN  tasks' = create \o children \o Tail(tasks)
    /\ UNCHANGED <<case, schemaMap, schemaRef, slot>>

(* CreateSchema of what is no object does nothing.                              *)
Skip ==
    /\ Under("create") /\ At(Head(tasks).at).k # "object"
    /\ tasks' = Tail(tasks)
    /\ UNCHANGED <<case, schemaMap, schemaRef, slot>>

Construct(t) == [i \in DOMAIN Subschemas(t.source) |->
                    Task("create", Subschemas(t.source)[i], Subschemas(t.source)[i], TRUE)]
                \o <<Task("register", t.source, t.source, t.out)>>

(* "$ref" names a place in this document; there is no provider of others.       *)
Refers(t) == Member(At(t.at), "$ref").k = "string" /\ Member(At(t.at), "$ref").str \in DOMAIN Pointers

(* HandleRefSchema: a call for each reference of a chain; the last target is    *)
(* resolved when all schemas are compiled.                                      *)
HandleRefSchema ==
    /\ Under("create") /\ At(Head(tasks).at).k = "object"
    /\ LET t == Head(tasks) IN
       IF Refers(t)
       THEN LET target == Pointers[Member(At(t.at), "$ref").str] IN
            IF At(target).k = "object"
            THEN /\ tasks' = <<[t EXCEPT !.at = target]>> \o Tail(tasks)
                 /\ UNCHANGED schemaRef
            ELSE /\ schemaRef' = <<[source |-> t.source, target |-> target, out |-> t.out]>> \o schemaRef
                 /\ tasks' = Tail(tasks)
       ELSE IF t.at # t.source
       THEN /\ schemaRef' = <<[source |-> t.source, target |-> t.at, out |-> t.out]>> \o schemaRef
            /\ tasks' = Tail(tasks)
       ELSE /\ tasks' = Construct(t) \o Tail(tasks)
            /\ UNCHANGED schemaRef
    /\ UNCHANGED <<case, schemaMap, slot>>

(* The schema is in the map when its constructor is done.                       *)
Register ==
    /\ Under("register")
    /\ LET t == Head(tasks) IN
       /\ schemaMap' = Append(schemaMap, [pointer |-> t.at, schema |-> t.at, owned |-> TRUE])
       /\ SetSlot(t.out, t.at, t.at)
    /\ tasks' = Tail(tasks)
    /\ UNCHANGED <<case, schemaRef>>

(* Mutant of ResolvedTo: a reference that leads nowhere is not set.             *)
ResolvedToNothing(e) == IF Compiled(e.target) THEN GetSchema(e.target) ELSE e.source

(* Where a reference leads: anything is valid when it leads nowhere.            *)
ResolvedTo(e) == IF Compiled(e.target) THEN GetSchema(e.target) ELSE Typeless

(* Mutant of Resolve: the reference stays on the stack.                         *)
ResolveStays ==
    /\ tasks = <<>> /\ schemaRef # <<>>
    /\ LET e == Head(schemaRef) IN
       /\ SetSlot(e.out, e.source, ResolvedTo(e))
       /\ schemaMap' = IF Compiled(e.target) /\ ~Compiled(e.source)
                       THEN Append(schemaMap, [pointer |-> e.source, schema |-> GetSchema(e.target), owned |-> FALSE])
                       ELSE schemaMap
    /\ UNCHANGED <<case, tasks, schemaRef>>

Resolve ==
    /\ tasks = <<>> /\ schemaRef # <<>>
    /\ LET e == Head(schemaRef) IN
       /\ SetSlot(e.out, e.source, ResolvedTo(e))
       /\ schemaMap' = IF Compiled(e.target) /\ ~Compiled(e.source)
                       THEN Append(schemaMap, [pointer |-> e.source, schema |-> GetSchema(e.target), owned |-> FALSE])
                       ELSE schemaMap
    /\ schemaRef' = Tail(schemaRef)
    /\ UNCHANGED <<case, tasks>>

Built == tasks = <<>> /\ schemaRef = <<>>

Build == Recurse \/ Skip \/ HandleRefSchema \/ Register \/ Resolve
------------------------------------------------------------------------------
(* GenericSchemaValidator: a value arrives as a stream of events and is         *)
(* validated against a compiled schema.  A context stands for each value that   *)
(* is open; subschemas that are to be valid, or not, for the same value have    *)
(* validators of their own, which are given the same events.                    *)

CONSTANTS
    MaxInt64,    \* the greatest Int64; a Uint may be greater
    PatternHits, \* the pairs <<pattern, name>> that match
    BadPatterns, \* patterns that are no regular expression
    MaxResets    \* bounds Reset

VARIABLES
    v,           \* the validator: [valid, root, stack, path]
    pos,         \* the events it was given
    resets

vars == <<case, tasks, schemaMap, schemaRef, slot, v, pos, resets>>

instance == case.instance

------------------------------------------------------------------------------
(* The events of a value.                                                       *)
Event(e, x, n) == [e |-> e, num |-> x.num, str |-> x.str, count |-> n]

RECURSIVE Events(_)
Events(x) ==
    CASE x.k = "object" -> <<Event("StartObject", x, 0)>>
            \o FlattenSeq([i \in DOMAIN x.m |->
                   <<[e |-> "Key", num |-> 0, str |-> x.m[i].n, count |-> 0]>> \o Events(x.m[i].v)])
            \o <<Event("EndObject", x, Len(x.m))>>
      [] x.k = "array" -> <<Event("StartArray", x, 0)>> \o FlattenSeq([i \in DOMAIN x.m |-> Events(x.m[i].v)])
            \o <<Event("EndArray", x, Len(x.m))>>
      [] OTHER -> <<Event(x.k, x, 0)>>

Starts == {"StartObject", "StartArray"}
Ends == {"EndObject", "EndArray"}

------------------------------------------------------------------------------
(* The schema at p.                                                             *)
Key(p, name) == Member(At(p), name)
IsTrue(p, name) == Key(p, name).k = "bool" /\ Key(p, name).num = 1
IsFalse(p, name) == Key(p, name).k = "bool" /\ Key(p, name).num = 0

(* AddType: a number may be an integer.                                         *)
Types(p) ==
    LET t == Key(p, "type")
        named == IF t.k = "string" THEN {t.str} ELSE {x.str : x \in Range(ElementsOf(t))}
    IN  IF t.k = "absent" THEN {"null", "boolean", "object", "array", "string", "number", "integer"}
        ELSE named \cup (IF "number" \in named THEN {"integer"} ELSE {})

RequiredNames(p) == [i \in DOMAIN ElementsOf(Key(p, "required")) |-> ElementsOf(Key(p, "required"))[i].str]

(* The names of properties_: declared, required or in a dependency.             *)
Names(p) ==
    {Last(q) : q \in Range(MembersAt(p, "properties"))} \cup Range(RequiredNames(p))
        \cup UNION {{Last(q)} \cup {x.str : x \in Range(ElementsOf(At(q)))} : q \in Range(MembersAt(p, "dependencies"))}

PropertySchema(p, name) ==
    IF p \o <<"properties", name>> \in Range(MembersAt(p, "properties")) THEN slot[p \o <<"properties", name>>] ELSE Typeless

(* A pattern that cannot be compiled matches nothing.                           *)
Patterns(p, name) ==
    SelectSeq(MembersAt(p, "patternProperties"), LAMBDA q : Last(q) \notin BadPatterns /\ <<Last(q), name>> \in PatternHits)

Slots(ps) == [i \in DOMAIN ps |-> slot[ps[i]]]

(* The subschemas that are validated beside the schema, by their index.         *)
Parallel(p) == Slots(ArrayAt(p, "allOf") \o ArrayAt(p, "anyOf") \o ArrayAt(p, "oneOf")
                         \o ValueAt(p, "not") \o SchemaDependencies(p))
Count(p, name) == Len(ArrayAt(p, name))
AllOf(p) == 1 .. Count(p, "allOf")
AnyOf(p) == Count(p, "allOf") + 1 .. Count(p, "allOf") + Count(p, "anyOf")
OneOf(p) == Count(p, "allOf") + Count(p, "anyOf") + 1 .. Count(p, "allOf") + Count(p, "anyOf") + Count(p, "oneOf")
NotIndex(p) == Count(p, "allOf") + Count(p, "anyOf") + Count(p, "oneOf") + 1

(* Mutant of DependencyIndex: the place of "not" is forgotten.                  *)
DependencyIndexFirst(p, name) == NotIndex(p) - 1 + (CHOOSE i \in DOMAIN SchemaDependencies(p) : Last(SchemaDependencies(p)[i]) = name)

DependencyIndex(p, name) ==
    NotIndex(p) - 1 + Len(ValueAt(p, "not")) + (CHOOSE i \in DOMAIN SchemaDependencies(p) : Last(SchemaDependencies(p)[i]) = name)

Enum(p) == ElementsOf(Key(p, "enum"))
Bounded(p, name) == Key(p, name).k = "uint"

------------------------------------------------------------------------------
(* Hasher: a stack of codes.  Codes of unequal content differ; those of the     *)
(* members of an object are combined by exclusive or.                           *)
Toggle(s, x) == IF x \in s THEN s \ {x} ELSE s \cup {x}

ObjectCode(stack, n) ==
    LET kv == SubSeq(stack, Len(stack) - (2 * n) + 1, Len(stack)) IN
        <<"object", FoldLeft(LAMBDA s, i : Toggle(s, <<kv[(2 * i) - 1], kv[2 * i]>>), {}, [i \in 1 .. n |-> i])>>

Hash(stack, e) ==
    LET dropped(n) == SubSeq(stack, 1, Len(stack) - n) IN
    CASE e.e \in Starts -> stack
      [] e.e \in {"string", "Key"} -> Append(stack, <<"string", e.str>>)
      [] e.e \in {"int", "uint", "double"} -> Append(stack, <<"number", e.num>>)
      [] e.e \in {"null", "bool"} -> Append(stack, <<e.e, e.num>>)
      [] e.e = "EndObject" -> Append(dropped(2 * e.count), ObjectCode(stack, e.count))
      [] e.e = "EndArray" -> Append(dropped(e.count), <<"array", SubSeq(stack, Len(stack) - e.count + 1, Len(stack))>>)

HashCode(x) == Last(FoldLeft(Hash, <<>>, Events(x)))

------------------------------------------------------------------------------
(* SchemaValidationContext.                                                     *)
Context(s) ==
    [schema |-> s, valueSchema |-> Typeless, keyword |-> "",
     hashing |-> FALSE, hasher |-> <<>>, codes |-> <<>>,
     validators |-> <<>>, patternValidators |-> <<>>, patternSchemas |-> <<>>,
     valueType |-> "only", objectType |-> "only",
     exist |-> {}, inArray |-> FALSE, index |-> 0,
     valueUniqueness |-> FALSE, arrayUniqueness |-> FALSE]

Fresh(s) == [valid |-> TRUE, root |-> s, stack |-> <<>>, path |-> <<>>]

Top(w) == w.stack[Len(w.stack)]
SetTop(w, c) == [w EXCEPT !.stack[Len(w.stack)] = c]

(* Mutant of Judge: the keyword is noted at the root.                           *)
JudgeRoot(w, keyword) ==
    IF keyword = "" THEN w ELSE [w EXCEPT !.valid = FALSE, !.stack[1].keyword = keyword]

(* RAPIDJSON_INVALID_KEYWORD_RETURN, "" when nothing is wrong.                  *)
Judge(w, keyword) ==
    IF keyword = "" THEN w
    ELSE [w EXCEPT !.valid = FALSE, !.stack[Len(w.stack)].keyword = keyword]

First(checks) ==
    LET bad == {i \in DOMAIN checks : checks[i][1]} IN IF bad = {} THEN "" ELSE checks[CHOOSE i \in bad : \A j \in bad : i <= j][2]

------------------------------------------------------------------------------
(* Schema::BeginValue: the schema of an element.                                *)
ItemSchema(p, n) ==
    LET items == ItemsAt(p) IN
    IF Key(p, "items").k = "object" THEN slot[p \o <<"items">>]
    ELSE IF items = <<>> THEN Typeless
    ELSE IF n < Len(items) THEN slot[items[n + 1]]
    ELSE IF Key(p, "additionalItems").k = "object" THEN slot[p \o <<"additionalItems">>]
    ELSE Typeless

ItemRefused(p, n) ==
    /\ Key(p, "items").k = "array" /\ ItemsAt(p) # <<>> /\ n >= Len(ItemsAt(p))
    /\ IsFalse(p, "additionalItems")

Push(w, s, uniqueness, schemas, type) ==
    [w EXCEPT !.stack = Append(@, [Context(s) EXCEPT
        !.arrayUniqueness = uniqueness,
        !.objectType = IF schemas # <<>> THEN type ELSE "only",
        !.patternValidators = [i \in DOMAIN schemas |-> Fresh(schemas[i])]])]

(* BeginValue: a context for the value.                                         *)
BeginValue(w) ==
    IF w.stack = <<>> THEN Push(w, w.root, FALSE, <<>>, "only")
    ELSE LET c == Top(w) IN
         IF ~c.inArray THEN Push(w, c.valueSchema, c.valueUniqueness, c.patternSchemas, c.valueType)
         ELSE LET placed == [w EXCEPT !.path = Append(@, ToString(c.index))]
                  unique == c.valueUniqueness \/ IsTrue(c.schema, "uniqueItems")
                  counted == [c EXCEPT !.valueUniqueness = unique, !.index = @ + 1,
                                       !.valueSchema = ItemSchema(c.schema, c.index)]
              IN  IF ItemRefused(c.schema, c.index)
                  THEN Judge(SetTop(placed, [c EXCEPT !.valueUniqueness = unique]), "items")
                  ELSE Push(SetTop(placed, counted), counted.valueSchema, unique, c.patternSchemas, c.valueType)

------------------------------------------------------------------------------
(* CheckInt, CheckUint and Double: the comparison depends on the types of both. *)
IsNumber(x) == x.k \in {"int", "uint", "double"}
IsInt64(x) == x.k \in {"int", "uint"} /\ x.num <= 2 * MaxInt64
IsUint64(x) == x.k = "uint"

Below(p, x, n) == IF IsTrue(p, "exclusiveMinimum") THEN n <= x.num ELSE n < x.num
Above(p, x, n) == IF IsTrue(p, "exclusiveMaximum") THEN n >= x.num ELSE n > x.num

(* Mutant of TooSmall: every Int64 minimum is below a Uint.                     *)
TooSmallEarly(p, e) ==
    LET x == Key(p, "minimum") IN
    /\ IsNumber(x)
    /\ CASE e.e = "int" /\ ~IsInt64(x) /\ IsUint64(x) -> TRUE
         [] e.e = "uint" /\ IsInt64(x) -> FALSE
         [] OTHER -> Below(p, x, e.num)

TooSmall(p, e) ==
    LET x == Key(p, "minimum") IN
    /\ IsNumber(x)
    /\ CASE e.e = "int" /\ ~IsInt64(x) /\ IsUint64(x) -> TRUE
         [] e.e = "uint" /\ ~IsUint64(x) /\ IsInt64(x) -> FALSE
         [] OTHER -> Below(p, x, e.num)

TooGreat(p, e) ==
    LET x == Key(p, "maximum") IN
    /\ IsNumber(x)
    /\ CASE e.e = "int" /\ ~IsInt64(x) /\ IsUint64(x) -> FALSE
         [] e.e = "uint" /\ ~IsUint64(x) /\ IsInt64(x) -> TRUE
         [] OTHER -> Above(p, x, e.num)

Magnitude(n) == IF n >= 0 THEN n ELSE -n

NoMultiple(p, e) ==
    LET x == Key(p, "multipleOf") IN IsNumber(x) /\ x.num > 0 /\ Magnitude(e.num) % x.num # 0

BadString(p, e) ==
    First(<< <<Bounded(p, "minLength") /\ 2 * Len(e.str) < Key(p, "minLength").num, "minLength">>,
             <<Bounded(p, "maxLength") /\ 2 * Len(e.str) > Key(p, "maxLength").num, "maxLength">>,
             <<Key(p, "pattern").k = "string" /\ Key(p, "pattern").str \notin BadPatterns
                   /\ <<Key(p, "pattern").str, e.str>> \notin PatternHits, "pattern">> >>)

TypeOf(e) ==
    CASE e.e = "bool" -> {"boolean"} [] e.e \in {"int", "uint"} -> {"integer", "number"}
      [] e.e = "double" -> {"number"} [] e.e = "StartObject" -> {"object"}
      [] e.e = "StartArray" -> {"array"} [] OTHER -> {e.e}

(* Schema::Null to StartArray: the keyword that refuses the value.              *)
Refusal(p, e) ==
    IF TypeOf(e) \cap Types(p) = {} THEN "type"
    ELSE IF e.e \in {"int", "uint", "double"}
    THEN First(<< <<TooSmall(p, e), "minimum">>, <<TooGreat(p, e), "maximum">>, <<NoMultiple(p, e), "multipleOf">> >>)
    ELSE IF e.e = "string" THEN BadString(p, e) ELSE ""

(* CreateParallelValidator, and what StartArray and StartObject begin with.     *)
CreateParallelValidator(w, e) ==
    LET c == Top(w) IN
    SetTop(w, [c EXCEPT
        !.hashing = Enum(c.schema) # <<>> \/ c.arrayUniqueness,
        !.validators = [i \in DOMAIN Parallel(c.schema) |-> Fresh(Parallel(c.schema)[i])],
        !.inArray = e.e = "StartArray"])

------------------------------------------------------------------------------
(* Schema::Key: the schema of the next member.                                  *)
Strict(p, name) ==
    /\ name \notin Names(p) /\ Patterns(p, name) = <<>>
    /\ Key(p, "additionalProperties").k # "object" /\ IsFalse(p, "additionalProperties")

(* Mutant of KeyPatterns: the schemas of the patterns of earlier keys stay.     *)
KeyPatternsStale(c, name) == c.patternSchemas \o Slots(Patterns(c.schema, name))

(* The schemas of the patterns of a key, from none.                             *)
KeyPatterns(c, name) == Slots(Patterns(c.schema, name))

KeySchemas(c, name) ==
    LET p == c.schema
        pats == KeyPatterns(c, name)
        additional == Key(p, "additionalProperties").k = "object"
        other == IF name \in Names(p) THEN PropertySchema(p, name)
                 ELSE IF additional THEN slot[p \o <<"additionalProperties">>] ELSE Typeless
    IN  IF pats = <<>> THEN [c EXCEPT !.patternSchemas = <<>>, !.valueSchema = other]
        ELSE IF name \in Names(p)
        THEN [c EXCEPT !.patternSchemas = Append(pats, other), !.valueSchema = Typeless, !.valueType = "property"]
        ELSE IF additional
        THEN [c EXCEPT !.patternSchemas = Append(pats, other), !.valueSchema = Typeless, !.valueType = "additional"]
        ELSE [c EXCEPT !.patternSchemas = pats, !.valueSchema = Typeless]

OnKey(w, name) ==
    LET c == Top(w)
        placed == [w EXCEPT !.path = Append(@, name)]
        noted == [KeySchemas(c, name) EXCEPT !.exist = IF name \in Names(c.schema) THEN @ \cup {name} ELSE @]
    IN  IF Strict(c.schema, name) THEN Judge(SetTop(placed, [c EXCEPT !.patternSchemas = <<>>]), "additionalProperties")
        ELSE SetTop(placed, noted)

------------------------------------------------------------------------------
(* Schema::EndObject and EndArray.                                              *)
Missing(c) == \E n \in Range(RequiredNames(c.schema)) : n \notin c.exist

Undepended(c) ==
    \E q \in Range(MembersAt(c.schema, "dependencies")) :
        /\ Last(q) \in c.exist
        /\ IF At(q).k = "array" THEN \E x \in Range(ElementsOf(At(q))) : x.str \notin c.exist
           ELSE ~c.validators[DependencyIndex(c.schema, Last(q))].valid

EndRefusal(c, e) ==
    LET p == c.schema
        few(name) == Bounded(p, name) /\ 2 * e.count < Key(p, name).num
        many(name) == Bounded(p, name) /\ 2 * e.count > Key(p, name).num
    IN  IF e.e = "EndObject"
        THEN First(<< <<Missing(c), "required">>, <<few("minProperties"), "minProperties">>,
                      <<many("maxProperties"), "maxProperties">>, <<Undepended(c), "dependencies">> >>)
        ELSE First(<< <<few("minItems"), "minItems">>, <<many("maxItems"), "maxItems">> >>)

(* Schema::EndValue: the validators beside the schema are asked.                *)
PatternRefusal(c) ==
    LET n == Len(c.patternValidators)
        count == IF c.objectType = "only" THEN n ELSE n - 1
        patternValid == \A i \in 1 .. count : c.patternValidators[i].valid
        otherValid == c.objectType # "only" /\ c.patternValidators[n].valid
    IN  /\ n > 0
        /\ CASE c.objectType = "only" -> ~patternValid
             [] c.objectType = "property" -> ~patternValid \/ ~otherValid
             [] OTHER -> ~patternValid /\ ~otherValid

Verdict(c) ==
    LET p == c.schema
        valid == {i \in DOMAIN c.validators : c.validators[i].valid}
    IN  First(<< <<PatternRefusal(c), "patternProperties">>,
                 <<Enum(p) # <<>> /\ \A x \in Range(Enum(p)) : HashCode(x) # Last(c.hasher), "enum">>,
                 <<~(AllOf(p) \subseteq valid), "allOf">>,
                 <<AnyOf(p) # {} /\ AnyOf(p) \cap valid = {}, "anyOf">>,
                 <<OneOf(p) # {} /\ Cardinality(OneOf(p) \cap valid) # 1, "oneOf">>,
                 <<ValueAt(p, "not") # <<>> /\ NotIndex(p) \in valid, "not">> >>)

(* Mutant of PopToken: the place of an element of an array stays.               *)
PopTokenOfObjects(w, path) == IF Top(w).inArray \/ path = <<>> THEN path ELSE Front(path)

PopToken(w, path) == IF path = <<>> THEN path ELSE Front(path)

(* Mutant of EndValue: the context of the value stays.                          *)
EndValueOpen(w) == Judge(w, Verdict(Top(w)))

(* EndValue: the context is popped, and an element must be a new one.           *)
EndValue(w) ==
    LET c == Top(w)
        judged == Judge(w, Verdict(c))
        code == IF c.arrayUniqueness THEN Last(c.hasher) ELSE <<>>
        popped == [w EXCEPT !.stack = Front(@)]
    IN  IF ~judged.valid THEN judged
        ELSE IF popped.stack = <<>> THEN [popped EXCEPT !.path = PopToken(w, @)]
        ELSE IF ~Top(popped).valueUniqueness THEN [popped EXCEPT !.path = PopToken(popped, @)]
        ELSE IF code \in Range(Top(popped).codes) THEN Judge(popped, "uniqueItems")
        ELSE SetTop([popped EXCEPT !.path = PopToken(popped, @)],
                    [Top(popped) EXCEPT !.codes = Append(@, code)])

------------------------------------------------------------------------------
(* A call of the handler: the current schema, the validators of all open        *)
(* values, and the end of a value.                                              *)
RECURSIVE Handle(_, _)
HandleParallel(w, e) ==
    [w EXCEPT !.stack = [i \in DOMAIN @ |-> [@[i] EXCEPT
        !.hasher = IF w.stack[i].hashing THEN Hash(@, e) ELSE @,
        !.validators = [j \in DOMAIN @ |-> Handle(@[j], e)],
        !.patternValidators = [j \in DOMAIN @ |-> Handle(@[j], e)]]]]

Begin(w, e) ==
    LET begun == BeginValue(w) IN
    IF ~begun.valid THEN begun
    ELSE LET judged == Judge(begun, Refusal(Top(begun).schema, e)) IN
         IF judged.valid THEN CreateParallelValidator(judged, e) ELSE judged

Handle(w, e) ==
    IF ~w.valid THEN w
    ELSE IF e.e = "Key"
    THEN LET keyed == OnKey(w, e.str) IN IF keyed.valid THEN HandleParallel(keyed, e) ELSE keyed
    ELSE IF e.e \in Ends
    THEN LET fed == HandleParallel(w, e)
             closed == IF e.e = "EndArray" THEN SetTop(fed, [Top(fed) EXCEPT !.inArray = FALSE]) ELSE fed
             judged == Judge(closed, EndRefusal(Top(closed), e))
         IN  IF judged.valid THEN EndValue(judged) ELSE judged
    ELSE LET begun == Begin(w, e) IN
         IF ~begun.valid THEN begun
         ELSE IF e.e \in Starts THEN HandleParallel(begun, e) ELSE EndValue(HandleParallel(begun, e))

------------------------------------------------------------------------------
Init ==
    /\ InitDocument
    /\ v = Fresh(Typeless) /\ pos = -1 /\ resets = 0

Construction == pos = -1 /\ Build /\ UNCHANGED <<v, pos, resets>>

(* The validator is constructed for the root of the compiled schema.            *)
Start ==
    /\ Built /\ pos = -1
    /\ v' = Fresh(slot[<<>>]) /\ pos' = 0
    /\ UNCHANGED <<case, tasks, schemaMap, schemaRef, slot, resets>>

Feed ==
    /\ pos >= 0 /\ pos < Len(Events(instance)) /\ v.valid
    /\ v' = Handle(v, Events(instance)[pos + 1])
    /\ pos' = pos + 1
    /\ UNCHANGED <<case, tasks, schemaMap, schemaRef, slot, resets>>

(* Reset: the value is given again.                                             *)
Reset ==
    /\ pos > 0 /\ resets < MaxResets
    /\ v' = [v EXCEPT !.valid = TRUE, !.stack = <<>>, !.path = <<>>]
    /\ pos' = 0 /\ resets' = resets + 1
    /\ UNCHANGED <<case, tasks, schemaMap, schemaRef, slot>>

Next == Construction \/ Start \/ Feed \/ Reset

Spec == Init /\ [][Next]_vars
(* The constructor of the document goes on until it returns.                    *)
FairSpec == Spec /\ WF_vars(Construction)

------------------------------------------------------------------------------
(* What the schema says, by its keywords (draft 4).                             *)
RECURSIVE Referred(_)
Referred(p) ==
    LET ref == Member(At(p), "$ref") IN
    IF At(p).k # "object" THEN Typeless
    ELSE IF ref.k = "string" /\ ref.str \in DOMAIN Pointers THEN Referred(Pointers[ref.str]) ELSE p

(* Equal values have equal contents: an object has no order.                    *)
RECURSIVE Content(_)
Content(x) ==
    CASE x.k = "object" -> <<"object", {<<x.m[i].n, Content(x.m[i].v)>> : i \in DOMAIN x.m}>>
      [] x.k = "array" -> <<"array", [i \in DOMAIN x.m |-> Content(x.m[i].v)]>>
      [] x.k = "string" -> <<"string", x.str>>
      [] x.k \in {"int", "uint", "double"} -> <<"number", x.num>>
      [] OTHER -> <<x.k, x.num>>

Keywords == {"type", "enum", "allOf", "anyOf", "oneOf", "not", "required", "minProperties", "maxProperties",
             "dependencies", "properties", "patternProperties", "additionalProperties", "items", "minItems",
             "maxItems", "uniqueItems", "minLength", "maxLength", "pattern", "minimum", "maximum", "multipleOf"}

(* The patterns that a name matches, and a name that no keyword declares.       *)
Matching(p, name) ==
    {i \in DOMAIN Key(p, "patternProperties").m : <<Key(p, "patternProperties").m[i].n, name>> \in PatternHits}
Extra(p, name) == Member(Key(p, "properties"), name).k = "absent" /\ Matching(p, name) = {}

RECURSIVE Satisfies(_, _, _)
Conforms(q, x) == \A kw \in Keywords : Satisfies(Referred(q), kw, x)

Satisfies(p, kw, x) ==
    LET arg == Key(p, kw)
        names == {x.m[i].n : i \in DOMAIN x.m}
        members == DOMAIN x.m
        arms == {p \o <<kw, ToString(i - 1)>> : i \in DOMAIN arg.m}
        at(name) == p \o <<kw, name>>
    IN  arg.k # "absent" =>
        CASE kw = "type" -> TypeOf([e |-> IF x.k \in {"object", "array"} THEN "Start" ELSE x.k]) \cap Types(p) # {}
                               \/ x.k \in Types(p)
          [] kw = "enum" -> Content(x) \in {Content(arg.m[i].v) : i \in DOMAIN arg.m}
          [] kw = "allOf" -> \A q \in arms : Conforms(q, x)
          [] kw = "anyOf" -> \E q \in arms : Conforms(q, x)
          [] kw = "oneOf" -> Cardinality({q \in arms : Conforms(q, x)}) = 1
          [] kw = "not" -> ~Conforms(p \o <<kw>>, x)
          [] x.k = "object" ->
               CASE kw = "required" -> \A i \in DOMAIN arg.m : arg.m[i].v.str \in names
                 [] kw = "minProperties" -> 2 * Len(x.m) >= arg.num
                 [] kw = "maxProperties" -> 2 * Len(x.m) <= arg.num
                 [] kw = "properties" ->
                      \A i \in members : Member(arg, x.m[i].n).k # "absent" => Conforms(at(x.m[i].n), x.m[i].v)
                 [] kw = "patternProperties" ->
                      \A i \in members : \A j \in Matching(p, x.m[i].n) : Conforms(at(arg.m[j].n), x.m[i].v)
                 [] kw = "additionalProperties" ->
                      \A i \in members : Extra(p, x.m[i].n) =>
                          IF arg.k = "object" THEN Conforms(p \o <<kw>>, x.m[i].v) ELSE arg.num = 1
                 [] kw = "dependencies" ->
                      \A i \in DOMAIN arg.m : arg.m[i].n \in names =>
                          IF arg.m[i].v.k = "array" THEN \A j \in DOMAIN arg.m[i].v.m : arg.m[i].v.m[j].v.str \in names
                          ELSE Conforms(at(arg.m[i].n), x)
                 [] OTHER -> TRUE
          [] x.k = "array" ->
               CASE kw = "minItems" -> 2 * Len(x.m) >= arg.num
                 [] kw = "maxItems" -> 2 * Len(x.m) <= arg.num
                 [] kw = "uniqueItems" -> arg.num = 1 => Cardinality({Content(x.m[i].v) : i \in members}) = Len(x.m)
                 [] kw = "items" ->
                      IF arg.k = "object" THEN \A i \in members : Conforms(p \o <<kw>>, x.m[i].v)
                      ELSE \A i \in members :
                               IF i <= Len(arg.m) THEN Conforms(at(ToString(i - 1)), x.m[i].v)
                               ELSE CASE Key(p, "additionalItems").k = "object" -> Conforms(p \o <<"additionalItems">>, x.m[i].v)
                                      [] OTHER -> ~IsFalse(p, "additionalItems")
                 [] OTHER -> TRUE
          [] x.k = "string" ->
               CASE kw = "minLength" -> 2 * Len(x.str) >= arg.num
                 [] kw = "maxLength" -> 2 * Len(x.str) <= arg.num
                 [] kw = "pattern" -> arg.str \in BadPatterns \/ <<arg.str, x.str>> \in PatternHits
                 [] OTHER -> TRUE
          [] x.k \in {"int", "uint", "double"} ->
               CASE kw = "minimum" -> IF IsTrue(p, "exclusiveMinimum") THEN x.num > arg.num ELSE x.num >= arg.num
                 [] kw = "maximum" -> IF IsTrue(p, "exclusiveMaximum") THEN x.num < arg.num ELSE x.num <= arg.num
                 [] kw = "multipleOf" -> x.num % arg.num = 0
                 [] OTHER -> TRUE
          [] OTHER -> TRUE

------------------------------------------------------------------------------
Given == SubSeq(Events(instance), 1, pos)
Opened == Cardinality({i \in 1 .. pos : Given[i].e \in Starts}) - Cardinality({i \in 1 .. pos : Given[i].e \in Ends})

(* The contexts are the values that are open.                                   *)
TypeOK ==
    /\ pos \in -1 .. Len(Events(instance)) /\ resets \in 0 .. MaxResets
    /\ v.valid /\ pos >= 0 => Len(v.stack) = Opened
    /\ \A i \in DOMAIN v.stack : v.stack[i].inArray \in BOOLEAN /\ v.stack[i].exist \subseteq Names(v.stack[i].schema)

(* A schema pointer is what its reference leads to, through any others.         *)
RefsResolved == Built => \A p \in DOMAIN slot : slot[p] = Referred(p)

(* The places of the objects of a value.                                        *)
RECURSIVE Objects(_, _)
Objects(x, p) ==
    (IF x.k = "object" THEN {p} ELSE {})
        \cup UNION {Objects(x.m[i].v, Append(p, Child(x, i))) : i \in DOMAIN x.m}

(* Every object of the document can be referred to.                             *)
AnyObjectIsFound ==
    Built => \A p \in Objects(document, <<>>) : Referred(p) # Typeless => Compiled(p) /\ GetSchema(p) = Referred(p)

(* The place of the value that comes next, or of the member whose key was given. *)
RECURSIVE PathAfter(_, _, _)
PathAfter(x, n, p) ==
    IF n = 0 THEN Front(p)
    ELSE IF x.k \notin {"object", "array"} THEN p
    ELSE LET size(i) == (IF x.k = "object" THEN 1 ELSE 0) + Len(Events(x.m[i].v))
             before(i) == FoldLeft(LAMBDA s, j : s + size(j), 1, [j \in 1 .. i - 1 |-> j])
             open == {i \in DOMAIN x.m : before(i) < n /\ n < before(i) + size(i)}
         IN  IF open = {} THEN p
             ELSE LET i == CHOOSE j \in open : TRUE
                      key == IF x.k = "object" THEN 1 ELSE 0
                  IN  IF n = before(i) + key /\ key = 1 THEN Append(p, Child(x, i))
                      ELSE PathAfter(x.m[i].v, n - before(i) - key, Append(p, Child(x, i)))

(* The path of the document is the place of the value that is open.             *)
PathIsPlace ==
    v.valid /\ pos >= 0 => v.path = IF pos \in {0, Len(Events(instance))} THEN <<>> ELSE PathAfter(instance, pos, <<>>)

(* Where the code departs from the schema.  The members of an object cancel in  *)
(* its code, as those of one name and value do.                                 *)
RECURSIVE Inside(_)
Inside(x) == {x} \cup UNION {Inside(x.m[i].v) : i \in DOMAIN x.m}

MembersCancel ==
    \E a, b \in Inside(instance) \cup UNION {Range(Enum(p)) : p \in Objects(document, <<>>)} :
        (HashCode(a) = HashCode(b)) # (Content(a) = Content(b))

(* Some member of an object of the instance is mistaken under some schema.      *)
SomeMember(mistaken(_, _, _)) ==
    \E p \in Objects(document, <<>>), o \in Inside(instance) :
        /\ o.k = "object" /\ Key(p, "additionalProperties").k # "absent"
        /\ \E i \in DOMAIN o.m : mistaken(p, o.m[i].n, o.m[i].v)

AllowsExtra(p, x) ==
    LET extra == Key(p, "additionalProperties") IN
        IF extra.k = "object" THEN Conforms(p \o <<"additionalProperties">>, x) ELSE extra.num = 1

(* A value that its patterns refuse is let in by the additional schema.         *)
EitherIsEnough ==
    SomeMember(LAMBDA p, name, x :
        /\ Key(p, "additionalProperties").k = "object" /\ AllowsExtra(p, x)
        /\ \E j \in Matching(p, name) : ~Conforms(p \o <<"patternProperties", Key(p, "patternProperties").m[j].n>>, x))

(* A name that is only required, or in a dependency, counts as a property.      *)
NamedIsDeclared == SomeMember(LAMBDA p, name, x : name \in Names(p) /\ Extra(p, name) /\ ~AllowsExtra(p, x))

Departs == MembersCancel \/ EitherIsEnough \/ NamedIsDeclared

(* What is refused, as early as that is known, does not conform to the schema,  *)
(* but for these departures.                                                    *)
RefusesOnlyWrong == ~v.valid /\ ~Departs => ~Conforms(<<>>, instance)

(* What was accepted to its end conforms to the schema, but for them.           *)
AcceptsOnlyRight == v.valid /\ pos = Len(Events(instance)) /\ ~Departs => Conforms(<<>>, instance)

(* ... and with no departures, as draft 4 of JSON schema has it.                *)
AcceptsAsSpecified == v.valid /\ pos = Len(Events(instance)) => Conforms(<<>>, instance)
RefusesAsSpecified == ~v.valid => ~Conforms(<<>>, instance)

(* The schema, the keyword and the place that are reported are what is wrong,   *)
(* but for the departures.                                                      *)
InvalidSchema ==
    LET hits == {i \in DOMAIN schemaMap : schemaMap[i].schema = Top(v).schema} IN
        IF hits = {} THEN <<>> ELSE schemaMap[Min(hits)].pointer

BlamedPlace == IF Top(v).keyword \in {"items", "uniqueItems", "additionalProperties", "patternProperties"}
               THEN Front(v.path) ELSE v.path

BlameIsRight ==
    ~v.valid /\ ~Departs /\ Top(v).keyword # "patternProperties" =>
        ~Satisfies(InvalidSchema, Top(v).keyword, Get(instance, BlamedPlace))

(* ... for the keyword of patterns as for any other.                            *)
PatternBlameIsRight == ~v.valid => ~Satisfies(InvalidSchema, Top(v).keyword, Get(instance, BlamedPlace))

(* A schema is compiled in finitely many steps.                                 *)
ConstructionEnds == <>Built
==============================================================================
