---------------------------- MODULE JsonvFormats ----------------------------
(***************************************************************************)
(* The registry of conversions of jsonv.  A formats object is a shared     *)
(* pointer to a node: the extractors and serializers registered with it,   *)
(* the items it shares the ownership of, and the nodes it was composed of, *)
(* which are searched when it knows nothing of a type.  Some nodes are     *)
(* static: the defaults, the coercing extractors, and whatever set_global  *)
(* was given.  A formats_builder holds a node and the types its adapters   *)
(* refer to.                                                               *)
(*                                                                         *)
(* An application holds formats in the variables of Handles and the items  *)
(* of Shared by pointers of its own, which it may drop; the other items    *)
(* live as long as the program.  An allocation may fail at any of the      *)
(* insertions of a registration.                                           *)
(***************************************************************************)
EXTENDS Naturals, Sequences, SequencesExt, FiniteSets

CONSTANTS Types,         \* the C++ types that are converted
          Items,         \* extractors, serializers and adapters of the application
          Shared,        \* those that are registered by shared pointers
          TypeOf,        \* the type an item serves
          Extractors,    \* the items that are extractors (an adapter is both)
          Serializers,   \* the items that are serializers
          Basic,         \* the adapters of the defaults
          Coercing,      \* the coercing extractors
          None,          \* nullptr
          ElementOf,     \* the type of the elements, of adapters of containers
          BasicTypes,    \* the types the defaults know
          CoercedTypes,  \* the types the coercing extractors know
          Handles,       \* the variables of type formats of the application
          MaxNodes,      \* bound: the nodes that are ever created
          MaxEntries     \* bound: the entries of the application in all maps

ItemsAssumption == /\ TypeOf \in [Items -> Types]
                          /\ Shared \subseteq Items
                          /\ Items = Extractors \cup Serializers
                          /\ DOMAIN ElementOf \subseteq Extractors \cap Serializers
                          /\ {None, Basic, Coercing} \cap Items = {}
                          /\ BasicTypes \cup CoercedTypes \subseteq Types

VARIABLES nodes,       \* sequence of formats::data, as they are created
          handle,      \* the node of every variable, 0 before it has one
          global,      \* the node of global_formats_ref
          held,        \* the shared items the application has pointers of
          referenced,  \* the _referenced_types of the builder
          checked,     \* history: the other formats of the last check_references
                       \* that passed (0 for none) and the types it was for
          result       \* how the last call has ended

vars == <<nodes, handle, global, held, referenced, checked, result>>

Default == 1
Coerce == 3
Builder == 4

Node(roots, ex, ser) ==
  [roots |-> roots, ex |-> ex, ser |-> ser, owned |-> {}]

Empty(roots) == Node(roots, [t \in Types |-> None], [t \in Types |-> None])

DefaultNode ==
  LET known == [t \in Types |-> IF t \in BasicTypes THEN Basic ELSE None]
  IN Node(<<>>, known, known)

CoerceNode ==
  Node(<<>>, [t \in Types |-> IF t \in CoercedTypes THEN Coercing ELSE None],
       [t \in Types |-> None])

Init == /\ nodes = <<DefaultNode, CoerceNode, Empty(<<2, Default>>), Empty(<<>>)>>
        /\ handle = [h \in Handles |-> 0]
        /\ global = Default
        /\ held = Shared
        /\ referenced = {}
        /\ checked = [other |-> 0, types |-> {}]
        /\ result = "ok"

-----------------------------------------------------------------------------
(* The search of a node for a type, in the extractors ("ex") or in the     *)
(* serializers ("ser").                                                    *)

(* Mutant: the last of the roots has precedence. *)
RECURSIVE FindLast(_, _, _)
FindLast(node, map, t) ==
  IF node[map][t] # None THEN node[map][t]
  ELSE LET found == SelectSeq([i \in DOMAIN node.roots |-> FindLast(nodes[node.roots[i]], map, t)],
                              LAMBDA f : f # None)
       IN IF found = <<>> THEN None ELSE found[Len(found)]

RECURSIVE FindImpl(_, _, _)
FindImpl(node, map, t) ==
  IF node[map][t] # None THEN node[map][t]
  ELSE LET found == SelectSeq([i \in DOMAIN node.roots |-> FindImpl(nodes[node.roots[i]], map, t)],
                              LAMBDA f : f # None)
       IN IF found = <<>> THEN None ELSE found[1]

Find(n, map, t) == FindImpl(nodes[n], map, t)

-----------------------------------------------------------------------------
(* Registration.  A step fails for an item of the same type, or when its   *)
(* allocation fails ("step" counts the insertions, "fails" is the one that *)
(* throws, 0 for none); the scope_exit_invokers then undo the steps before *)
(* it.                                                                     *)

(* Mutant: an extractor is entered as a serializer too. *)
StepsBoth(i) == (IF i \in Extractors THEN <<"ex", "ser">> ELSE <<"ser">>)
                  \o (IF i \in Shared THEN <<"owned">> ELSE <<>>)

(* Mutant: adapters are not owned. *)
StepsUnowned(i) == (IF i \in Extractors THEN <<"ex">> ELSE <<>>)
                     \o (IF i \in Serializers THEN <<"ser">> ELSE <<>>)

(* The maps an item goes into, in their order, "owned" last for an item    *)
(* that is registered by a shared pointer.                                 *)
Steps(i) == (IF i \in Extractors THEN <<"ex">> ELSE <<>>)
              \o (IF i \in Serializers THEN <<"ser">> ELSE <<>>)
              \o (IF i \in Shared THEN <<"owned">> ELSE <<>>)

Insert(node, map, i) ==
  IF map = "owned" THEN [node EXCEPT !.owned = @ \cup {i}]
  ELSE [node EXCEPT ![map][TypeOf[i]] = i]

Undo(node, map, i) == [node EXCEPT ![map][TypeOf[i]] = None]

(* The first step that meets an item of the type, 0 when none does. *)
Duplicate(node, i) ==
  LET taken == {s \in DOMAIN Steps(i) : /\ Steps(i)[s] # "owned"
                                        /\ node[Steps(i)[s]][TypeOf[i]] # None}
  IN IF taken = {} THEN 0 ELSE CHOOSE s \in taken : \A u \in taken : s <= u

(* The node after the steps before the failing one, and after their undoing. *)
Until(node, i, step) ==
  FoldLeft(LAMBDA d, map : Insert(d, map, i), node, SubSeq(Steps(i), 1, step - 1))

(* Mutant: what was inserted before the failure stays. *)
RollbackNothing(node, i, step) == Until(node, i, step)

Rollback(node, i, step) ==
  FoldLeft(LAMBDA d, map : Undo(d, map, i), Until(node, i, step),
           Reverse(SubSeq(Steps(i), 1, step - 1)))

Registered(node, i, fails) ==
  LET duplicate == Duplicate(node, i)
  IN IF duplicate # 0 /\ (fails = 0 \/ duplicate <= fails)
     THEN [node |-> Rollback(node, i, duplicate), result |-> "invalid_argument"]
     ELSE IF fails # 0
     THEN [node |-> Rollback(node, i, fails), result |-> "bad_alloc"]
     ELSE [node |-> Until(node, i, Len(Steps(i)) + 1), result |-> "ok"]

Entries == {e \in (1 .. Len(nodes)) \X {"ex", "ser"} \X Types : nodes[e[1]][e[2]][e[3]] \in Items}

Put(n, i) ==
  /\ Cardinality(Entries) < MaxEntries
  /\ \E fails \in 0 .. Len(Steps(i)) :
       \E r \in {Registered(nodes[n], i, fails)} :
         /\ nodes' = [nodes EXCEPT ![n] = r.node]
         /\ result' = r.result

Usable(i) == i \in Shared => i \in held

(* register_extractor, register_serializer, register_adapter. *)
Register(h, i) ==
  /\ handle[h] # 0 /\ Usable(i)
  /\ Put(handle[h], i)
  /\ UNCHANGED <<handle, global, held, referenced, checked>>

-----------------------------------------------------------------------------
(* The nodes.                                                              *)

NewNode(h, roots) ==
  /\ Len(nodes) < MaxNodes
  /\ nodes' = Append(nodes, Empty(roots))
  /\ handle' = [handle EXCEPT ![h] = Len(nodes) + 1]
  /\ result' = "ok"
  /\ UNCHANGED <<global, held, referenced, checked>>

(* formats() and compose of two others: the formats the application has,   *)
(* and the builder, which converts to one.                                 *)
Formats == ({handle[h] : h \in Handles} \ {0}) \cup {Builder}

Create(h) == NewNode(h, <<>>)

Compose(h, a, b) == {a, b} \subseteq Formats /\ NewNode(h, <<a, b>>)

Defaults(h) == NewNode(h, <<Default>>)

Coerced(h) == NewNode(h, <<Coerce>>)

(* Mutant: global() returns the instance itself. *)
GlobalItself(h) ==
  /\ handle' = [handle EXCEPT ![h] = global]
  /\ result' = "ok"
  /\ UNCHANGED <<nodes, global, held, referenced, checked>>

Global(h) == NewNode(h, <<global>>)

SetGlobal(h) ==
  /\ handle[h] # 0
  /\ global' = handle[h]
  /\ result' = "ok"
  /\ UNCHANGED <<nodes, handle, held, referenced, checked>>

ResetGlobal ==
  /\ global' = Default
  /\ result' = "ok"
  /\ UNCHANGED <<nodes, handle, held, referenced, checked>>

(* The application drops its pointer of a shared item. *)
Drop(i) ==
  /\ i \in held
  /\ held' = held \ {i}
  /\ result' = "ok"
  /\ UNCHANGED <<nodes, handle, global, referenced, checked>>

-----------------------------------------------------------------------------
(* The builder.                                                            *)

(* register_container, register_optional, register_wrapper: the reference  *)
(* to the type of the elements is noted first.                             *)
RegisterContainer(i) ==
  /\ Usable(i)
  /\ referenced' = referenced \cup {ElementOf[i]}
  /\ Put(Builder, i)
  /\ UNCHANGED <<handle, global, held, checked>>

(* Mutant: only extractors are asked for. *)
FailedToExtract(searching) == {t \in referenced : FindImpl(searching, "ex", t) = None}

Failed(searching) ==
  {t \in referenced : \E map \in {"ex", "ser"} : FindImpl(searching, map, t) = None}

(* check_references searches a formats composed of the builder's and       *)
(* another, which lives as long as the call.                               *)
CheckReferences(h) ==
  /\ handle[h] # 0
  /\ IF Failed(Empty(<<Builder, handle[h]>>)) = {}
     THEN /\ result' = "ok"
          /\ checked' = [other |-> handle[h], types |-> referenced]
     ELSE /\ result' = "logic_error"
          /\ UNCHANGED checked
  /\ UNCHANGED <<nodes, handle, global, held, referenced>>

(* operator formats: the node itself, to which the builder goes on adding. *)
Take(h) ==
  /\ handle' = [handle EXCEPT ![h] = Builder]
  /\ result' = "ok"
  /\ UNCHANGED <<nodes, global, held, referenced, checked>>

Next ==
  \/ \E h \in Handles, i \in Items : Register(h, i)
  \/ \E h \in Handles : \/ Create(h)
                       \/ Defaults(h)
                       \/ Coerced(h)
                       \/ Global(h)
                       \/ Take(h)
                       \/ SetGlobal(h)
                       \/ CheckReferences(h)
  \/ \E h \in Handles, a, b \in 1 .. MaxNodes : Compose(h, a, b)
  \/ ResetGlobal
  \/ \E i \in Items : Drop(i)
  \/ \E i \in DOMAIN ElementOf : RegisterContainer(i)

Spec == Init /\ [][Next]_vars

-----------------------------------------------------------------------------
(* Every node is composed of nodes that were there before it, so that the  *)
(* search ends; a map has an item under the type it serves only.           *)
TypeOK ==
  /\ handle \in [Handles -> 0 .. Len(nodes)]
  /\ global \in 1 .. Len(nodes)
  /\ held \subseteq Shared /\ referenced \subseteq Types
  /\ result \in {"ok", "invalid_argument", "bad_alloc", "logic_error"}
  /\ \A n \in 1 .. Len(nodes) :
       /\ \A r \in ToSet(nodes[n].roots) : r \in 1 .. n - 1
       /\ nodes[n].owned \subseteq Shared
       /\ \A t \in Types :
            /\ nodes[n].ex[t] \in {None, Basic, Coercing} \cup {i \in Extractors : TypeOf[i] = t}
            /\ nodes[n].ser[t] \in {None, Basic} \cup {i \in Serializers : TypeOf[i] = t}

(* serialization.hpp 338-344: the formats is searched, then each base,     *)
(* depth first and left to right: what find_impl returns is what stands in *)
(* the node of the first path, in the order of dictionaries, of all that   *)
(* lead from the formats to a node that knows the type.                    *)
RECURSIVE Paths(_)
Paths(n) ==
  {<<n>>} \cup UNION {{<<n>> \o p : p \in Paths(nodes[n].roots[i])} : i \in DOMAIN nodes[n].roots}

Before(p, q) ==
  \/ IsStrictPrefix(p, q)
  \/ \E i \in 1 .. Len(p) :
       /\ i <= Len(q) /\ SubSeq(p, 1, i - 1) = SubSeq(q, 1, i - 1)
       /\ p[i] # q[i]
       /\ SelectInSeq(nodes[p[i - 1]].roots, LAMBDA r : r = p[i])
            < SelectInSeq(nodes[p[i - 1]].roots, LAMBDA r : r = q[i])

LookupPrecedence ==
  \A h \in Handles, t \in Types, map \in {"ex", "ser"} :
    handle[h] # 0 =>
      LET knowing == {p \in Paths(handle[h]) : nodes[Last(p)][map][t] # None}
      IN IF knowing = {} THEN Find(handle[h], map, t) = None
         ELSE \E p \in knowing : /\ \A q \in knowing \ {p} : Before(p, q)
                                 /\ Find(handle[h], map, t) = nodes[Last(p)][map][t]

(* An item that a formats finds is alive: the application holds it, or one *)
(* of the nodes of the formats does (register_adapter(std::shared_ptr),    *)
(* "shared ownership between this formats instance and anything else").    *)
RECURSIVE Below(_)
Below(n) == {n} \cup UNION {Below(r) : r \in ToSet(nodes[n].roots)}

NoDangling ==
  \A n \in Formats \cup {global} :
    \A t \in Types, map \in {"ex", "ser"} :
      Find(n, map, t) \in Shared =>
        Find(n, map, t) \in held \cup UNION {nodes[m].owned : m \in Below(n)}

(* A registration that throws leaves every node as it was.                 *)
FailureChangesNothing == [][result' # "ok" => nodes' = nodes]_vars

(* serialization.hpp 301, 310, 325: what defaults and coerce return, and   *)
(* what global returns before set_global, are copies: whatever is          *)
(* registered with them, what the next call returns knows no more.         *)
DefaultsUnchanged ==
  SubSeq(nodes, 1, 3) = <<DefaultNode, CoerceNode, Empty(<<2, Default>>)>>

(* serialization_builder.hpp 1275: once check_references has passed, a     *)
(* formats composed of the builder's and the other one decodes and encodes *)
(* the types that were referenced, whatever is registered later.           *)
CheckedStaysKnown ==
  checked.other # 0 =>
    \A t \in checked.types, map \in {"ex", "ser"} :
      FindImpl(Empty(<<Builder, checked.other>>), map, t) # None
=============================================================================
