-------------------------- MODULE EntityCacheProofs --------------------------
(***************************************************************************)
(* Proofs about EntityCache for any processes, keys, values, sizes of the  *)
(* segment and number of calls: its invariants, and that it implements     *)
(* AtomicMap.                                                              *)
(***************************************************************************)
EXTENDS EntityCache, Integers, TLAPS

(* What a process is doing, and the call it is in.                         *)
CallsFit ==
  \A p \in Procs :
    /\ pc[p] \in {"closed", "idle", "dead"} => call[p] = Idle
    /\ pc[p] = "walk" => call[p] \notin MapCalls

(* The mutex: a process at work holds it, a writer alone.                  *)
Exclusion ==
  /\ owner # NoProc => sharers = {}
  /\ \A p \in Procs : pc[p] \in {"hold", "found", "grown"} =>
                       IF ReadOnly(call[p]) THEN p \in sharers ELSE owner = p

(* What equal_range returned is still what the call is about.              *)
FoundStill == \A p \in Procs : pc[p] = "found" => found[p] = Hits(call[p])

(* Entries lie in the segment.                                             *)
EntriesInside == \A n \in Live : Page(n) <= size

(* The inductive invariant.                                                *)
IInv ==
  /\ TypeOK
  /\ CallsFit
  /\ Exclusion
  /\ FoundStill
  /\ EntriesInside
  /\ KeysUnique

-----------------------------------------------------------------------------
(* Pages are numbers.                                                      *)
LEMMA PagesAreNumbers == \A n \in Nodes : Page(n) \in Int
<1> SUFFICES ASSUME NEW n \in Nodes PROVE Page(n) \in Int
  OBVIOUS
<1>1. UnitsPerGrowth \in Nat /\ UnitsPerGrowth > 0 /\ MaxSize \in Nat
  BY UnitsPositive, SizePositive
<1>2. n \in Int
  BY <1>1 DEF Nodes
<1>3. (n - 1) \div UnitsPerGrowth \in Int
  BY <1>1, <1>2
<1> QED
  BY <1>3 DEF Page

(* The numbers of the model.                                               *)
LEMMA Numbers ==
  ASSUME TypeOK
  PROVE  /\ size \in 0 .. MaxSize /\ size \in Nat /\ MaxSize \in Nat /\ MaxSize > 0
         /\ calls \in 0 .. MaxCalls /\ MaxCalls \in Nat
<1>1. size \in 0 .. MaxSize /\ calls \in 0 .. MaxCalls
  BY DEF TypeOK
<1>2. MaxSize \in Nat /\ MaxSize > 0 /\ MaxCalls \in Nat
  BY SizePositive, CallsNumbered
<1>3. QED
  BY <1>1, <1>2

(* What a call carries.                                                    *)
LEMMA CallFacts ==
  ASSUME NEW c \in MapCalls \cup RawCalls \cup {Idle}
  PROVE  /\ c.op \in {"insert", "update"} =>
              c \in MapCalls /\ c.key \in Keys /\ c.val \in Vals
         /\ c.op \in {"clear", "remove", "retrieve"} => c \in MapCalls
         /\ c.op = "retrieve_raw" => c \notin MapCalls /\ c # Idle
         /\ c \in MapCalls => c # Idle
         /\ c \in RawCalls => c \notin MapCalls
BY DEF MapCalls, RawCalls, Idle

(* What a node holds.                                                      *)
LEMMA NodeFacts ==
  ASSUME TypeOK, NEW n \in Live
  PROVE  /\ n \in Nodes
         /\ node[n].key \in Keys /\ node[n].val \in Vals /\ node[n].val # NoVal
<1>1. node \in [Nodes -> [key : Keys, val : Vals] \cup {NoVal}]
  BY DEF TypeOK
<1>2. n \in Nodes /\ node[n] # NoVal
  BY DEF Live
<1>3. node[n] \in [key : Keys, val : Vals]
  BY <1>1, <1>2
<1>4. NoVal \notin Vals
  BY SentinelsDistinct
<1>5. QED
  BY <1>2, <1>3, <1>4

(* An entry is no sentinel.                                                *)
LEMMA EntryFacts ==
  ASSUME NEW k \in Keys, NEW v \in Vals
  PROVE  /\ [key |-> k, val |-> v] \in [key : Keys, val : Vals]
         /\ [key |-> k, val |-> v] # NoVal
BY SentinelsDistinct

-----------------------------------------------------------------------------
LEMMA InitIInv == Init => IInv
<1> SUFFICES ASSUME Init PROVE IInv
  OBVIOUS
<1>1. MaxSize \in Nat /\ MaxSize > 0
  BY SizePositive
<1>2. TypeOK
  BY <1>1, CallsNumbered DEF Init, TypeOK
<1>3. Live = {}
  BY DEF Init, Live
<1> QED
  BY <1>2, <1>3 DEF Init, IInv, CallsFit, Exclusion, FoundStill, EntriesInside, KeysUnique

-----------------------------------------------------------------------------
(* The three ways the container changes.                                   *)
ErasesThose(hits) ==
  node' = [n \in Nodes |-> IF n \in hits THEN NoVal ELSE node[n]]

ReplacesThose(hits, k, v) ==
  node' = [n \in Nodes |-> IF n \in hits THEN [key |-> k, val |-> v] ELSE node[n]]

AddsOne(n, k, v) == node' = [node EXCEPT ![n] = [key |-> k, val |-> v]]

LEMMA Erased ==
  ASSUME TypeOK, NEW hits, ErasesThose(hits)
  PROVE  /\ node' \in [Nodes -> [key : Keys, val : Vals] \cup {NoVal}]
         /\ Live' = Live \ hits
         /\ \A n \in Live' : node'[n] = node[n]
BY DEF TypeOK, ErasesThose, Live

LEMMA Replaced ==
  ASSUME TypeOK, NEW k \in Keys, NEW v \in Vals, ReplacesThose(NodesOf(k), k, v)
  PROVE  /\ node' \in [Nodes -> [key : Keys, val : Vals] \cup {NoVal}]
         /\ Live' = Live
         /\ \A n \in Live : /\ node'[n].key = node[n].key
                            /\ node[n].key = k => node'[n].val = v
                            /\ node[n].key # k => node'[n] = node[n]
<1>1. NodesOf(k) \subseteq Live /\ \A n \in Live : n \in NodesOf(k) <=> node[n].key = k
  BY DEF NodesOf
<1>2. Live \subseteq Nodes
  BY DEF Live
<1>3. \A n \in Nodes : node'[n] = IF n \in NodesOf(k) THEN [key |-> k, val |-> v] ELSE node[n]
  BY DEF ReplacesThose
<1>4. node' \in [Nodes -> [key : Keys, val : Vals] \cup {NoVal}]
  BY EntryFacts DEF TypeOK, ReplacesThose
<1>5. Live' = Live
  BY <1>1, <1>2, <1>3, EntryFacts DEF Live
<1> QED
  BY <1>1, <1>2, <1>3, <1>4, <1>5

LEMMA Added ==
  ASSUME TypeOK, NEW k \in Keys, NEW v \in Vals, NEW n \in Nodes, AddsOne(n, k, v)
  PROVE  /\ node' \in [Nodes -> [key : Keys, val : Vals] \cup {NoVal}]
         /\ Live' = Live \cup {n}
         /\ node'[n].key = k /\ node'[n].val = v
         /\ \A m \in Live : m # n => node'[m] = node[m]
<1>1. \A m \in Nodes : node'[m] = IF m = n THEN [key |-> k, val |-> v] ELSE node[m]
  BY DEF TypeOK, AddsOne
<1>2. node' \in [Nodes -> [key : Keys, val : Vals] \cup {NoVal}]
  BY EntryFacts DEF TypeOK, AddsOne
<1>3. Live' = Live \cup {n}
  BY <1>1, EntryFacts DEF Live
<1> QED
  BY <1>1, <1>2, <1>3 DEF Live

Fresh(n, k) == n \in Nodes \ Live /\ Page(n) <= size' /\ NodesOf(k) = {}

Change ==
  \/ UNCHANGED node
  \/ \E hits \in SUBSET Nodes : ErasesThose(hits)
  \/ \E k \in Keys, v \in Vals : ReplacesThose(NodesOf(k), k, v)
  \/ \E k \in Keys, v \in Vals, n \in Nodes : Fresh(n, k) /\ AddsOne(n, k, v)

(* insert_data adds a node that was free, in the segment as it is now.     *)
LEMMA InsertDataAdds ==
  ASSUME TypeOK, NEW p \in Procs, call[p].op = "insert", NEW free,
         \A n \in free : n \in Nodes \ Live /\ Page(n) <= size',
         InsertData(p, free)
  PROVE  /\ call[p].key \in Keys /\ call[p].val \in Vals
         /\ \/ NodesOf(call[p].key) # {} /\ UNCHANGED node
            \/ \E n \in Nodes : /\ Fresh(n, call[p].key)
                                 /\ AddsOne(n, call[p].key, call[p].val)
<1>1. call[p] \in MapCalls \cup RawCalls \cup {Idle}
  BY DEF TypeOK
<1>2. call[p].key \in Keys /\ call[p].val \in Vals
  BY <1>1, CallFacts
<1>3. CASE NodesOf(call[p].key) = {}
  <2>1. PICK n \in free : node' = [node EXCEPT ![n] = [key |-> call[p].key, val |-> call[p].val]]
    BY <1>3 DEF InsertData
  <2>2. n \in Nodes /\ Fresh(n, call[p].key) /\ AddsOne(n, call[p].key, call[p].val)
    BY <1>3, <2>1 DEF Fresh, AddsOne
  <2>3. QED
    BY <1>2, <2>2
<1>4. CASE NodesOf(call[p].key) # {}
  BY <1>2, <1>4 DEF InsertData
<1>5. QED
  BY <1>3, <1>4

LEMMA FreeIsFree == \A n \in Free : n \in Nodes \ Live /\ Page(n) <= size
BY DEF Free, Live

(* What an update is about.                                                *)
LEMMA HitsAre ==
  ASSUME NEW c, c.op = "update"
  PROVE  Hits(c) = NodesOf(c.key)
BY DEF Hits, Names, NodesOf

(* Every step changes the container in one of these ways.                  *)
LEMMA Changes ==
  ASSUME IInv, [Next]_vars
  PROVE  size' \in size .. MaxSize /\ Change
<1> USE DEF IInv
<1>0. size \in 0 .. MaxSize /\ MaxSize \in Nat /\ MaxSize > 0
  BY Numbers
<1>1. CASE UNCHANGED vars
  BY <1>0, <1>1 DEF vars, Change
<1>2. ASSUME NEW p \in Procs,
             \/ Open(p) \/ Call(p) \/ Lock(p) \/ Killed(p) \/ Fault(p) \/ Find(p) \/ Retrieve(p)
             \/ Grow(p) \/ InsertThrow(p) \/ RetrieveRaw(p) \/ Walk(p) \/ WalkEnd(p)
             \/ WalkFreed(p)
      PROVE  size' \in size .. MaxSize /\ Change
  <2>1. UNCHANGED node
    BY <1>2 DEF Open, Call, Lock, Killed, Fault, Find, Retrieve, Grow, InsertThrow, RetrieveRaw,
                Walk, WalkEnd, WalkFreed
  <2>2. CASE Open(p)
    <3>1. size' = IF size = 0 THEN 1 ELSE size
      BY <2>2 DEF Open
    <3>2. QED
      BY <1>0, <2>1, <3>1 DEF Change
  <2>3. CASE Grow(p)
    <3>1. size < MaxSize /\ size' = size + 1
      BY <2>3 DEF Grow
    <3>2. QED
      BY <1>0, <2>1, <3>1 DEF Change
  <2>4. CASE ~Open(p) /\ ~Grow(p)
    <3>1. size' = size
      BY <1>2, <2>4 DEF Call, Lock, Killed, Fault, WalkFreed, Die, Find, Retrieve, Unmoved,
                        InsertThrow, RetrieveRaw, Walk, WalkEnd
    <3>2. QED
      BY <1>0, <2>1, <3>1 DEF Change
  <2>5. QED
    BY <2>2, <2>3, <2>4
<1>3. ASSUME NEW p \in Procs, Clear(p) \/ Remove(p)
      PROVE  size' \in size .. MaxSize /\ Change
  <2>1. PICK ns \in {Live, found[p]} : ErasesThose(ns) /\ size' = size
    BY <1>3 DEF Clear, Remove, Erase, Unmoved, ErasesThose
  <2>2. found \in [Procs -> SUBSET Nodes] /\ Live \in SUBSET Nodes
    BY DEF Live, TypeOK
  <2>3. ns \in SUBSET Nodes
    BY <2>1, <2>2
  <2>4. QED
    BY <1>0, <2>1, <2>3 DEF Change
<1>4. ASSUME NEW p \in Procs, Insert(p)
      PROVE  size' \in size .. MaxSize /\ Change
  <2>1. size' = size /\ InsertData(p, Free) /\ call[p].op = "insert"
    BY <1>4 DEF Insert
  <2>2. \A n \in Free : n \in Nodes \ Live /\ Page(n) <= size'
    BY <2>1, FreeIsFree
  <2>3. QED
    BY <1>0, <2>1, <2>2, InsertDataAdds DEF Change
<1>5. ASSUME NEW p \in Procs, Update(p)
      PROVE  size' \in size .. MaxSize /\ Change
  <2>1. /\ call[p] \in MapCalls \cup RawCalls \cup {Idle} /\ call[p].op = "update"
        /\ pc[p] = "found"
    BY <1>5 DEF Update, TypeOK
  <2>2. call[p].key \in Keys /\ call[p].val \in Vals
    BY <2>1, CallFacts
  <2>3. found[p] = NodesOf(call[p].key)
    BY <2>1, HitsAre DEF FoundStill
  <2>4. ReplacesThose(NodesOf(call[p].key), call[p].key, call[p].val) /\ size' = size
    BY <1>5, <2>3 DEF Update, Unmoved, ReplacesThose
  <2>5. QED
    BY <1>0, <2>2, <2>4 DEF Change
<1>6. ASSUME NEW p \in Procs, UpdateRetry(p)
      PROVE  size' \in size .. MaxSize /\ Change
  <2>1. UNCHANGED node \/ ErasesThose(found[p])
    BY <1>6 DEF UpdateRetry, ErasesThose
  <2>2. size' = size /\ found[p] \in SUBSET Nodes
    BY <1>6 DEF UpdateRetry, Die, TypeOK
  <2>3. QED
    BY <1>0, <2>1, <2>2 DEF Change
<1>7. QED
  BY <1>1, <1>2, <1>3, <1>4, <1>5, <1>6 DEF Next

LEMMA NodeStep ==
  ASSUME IInv, [Next]_vars
  PROVE  /\ node' \in [Nodes -> [key : Keys, val : Vals] \cup {NoVal}]
         /\ EntriesInside' /\ KeysUnique'
<1> USE DEF IInv
<1>0. /\ size \in Nat /\ size' \in Nat /\ size <= size' /\ Change
      /\ \A n \in Nodes : Page(n) \in Int /\ Page(n)' = Page(n)
  <2>1. size \in Nat /\ MaxSize \in Nat
    BY Numbers
  <2>2. size' \in size .. MaxSize /\ Change
    BY Changes
  <2>3. size' \in Nat /\ size <= size'
    BY <2>1, <2>2
  <2>4. \A n \in Nodes : Page(n) \in Int /\ Page(n)' = Page(n)
    BY PagesAreNumbers DEF Page
  <2>5. QED
    BY <2>1, <2>2, <2>3, <2>4
<1>1. CASE UNCHANGED node
  <2>1. Live' = Live /\ \A n \in Live : node'[n] = node[n]
    BY <1>1 DEF Live
  <2>2. EntriesInside'
    BY <1>0, <2>1 DEF EntriesInside, Live
  <2>3. QED
    BY <1>1, <2>1, <2>2 DEF KeysUnique, TypeOK
<1>2. ASSUME NEW hits, ErasesThose(hits)
      PROVE  /\ node' \in [Nodes -> [key : Keys, val : Vals] \cup {NoVal}]
             /\ EntriesInside' /\ KeysUnique'
  <2>1. /\ node' \in [Nodes -> [key : Keys, val : Vals] \cup {NoVal}]
        /\ Live' \subseteq Live /\ \A n \in Live' : node'[n] = node[n]
    BY <1>2, Erased
  <2>2. EntriesInside'
    BY <1>0, <2>1 DEF EntriesInside, Live
  <2>3. QED
    BY <2>1, <2>2 DEF KeysUnique
<1>3. ASSUME NEW k \in Keys, NEW v \in Vals, ReplacesThose(NodesOf(k), k, v)
      PROVE  /\ node' \in [Nodes -> [key : Keys, val : Vals] \cup {NoVal}]
             /\ EntriesInside' /\ KeysUnique'
  <2>1. /\ node' \in [Nodes -> [key : Keys, val : Vals] \cup {NoVal}]
        /\ Live' = Live /\ \A n \in Live : node'[n].key = node[n].key
    BY <1>3, Replaced
  <2>2. EntriesInside'
    BY <1>0, <2>1 DEF EntriesInside, Live
  <2>3. QED
    BY <2>1, <2>2 DEF KeysUnique
<1>4. ASSUME NEW k \in Keys, NEW v \in Vals, NEW n \in Nodes, Fresh(n, k), AddsOne(n, k, v)
      PROVE  /\ node' \in [Nodes -> [key : Keys, val : Vals] \cup {NoVal}]
             /\ EntriesInside' /\ KeysUnique'
  <2>1. /\ node' \in [Nodes -> [key : Keys, val : Vals] \cup {NoVal}]
        /\ Live' = Live \cup {n} /\ node'[n].key = k
        /\ \A m \in Live : m # n => node'[m] = node[m]
    BY <1>4, Added
  <2>2. n \notin Live /\ Page(n) <= size' /\ \A m \in Live : node[m].key # k
    BY <1>4 DEF Fresh, NodesOf
  <2>3. EntriesInside'
    BY <1>0, <2>1, <2>2 DEF EntriesInside, Live
  <2>4. KeysUnique'
    BY <2>1, <2>2 DEF KeysUnique
  <2>5. QED
    BY <2>1, <2>3, <2>4
<1>5. QED
  BY <1>0, <1>1, <1>2, <1>3, <1>4 DEF Change

-----------------------------------------------------------------------------
(* What a step does to the call of a process.                              *)
Passes(p, at, c, ns) ==
  /\ pc' = [pc EXCEPT ![p] = at]
  /\ call' = [call EXCEPT ![p] = c]
  /\ found' = [found EXCEPT ![p] = ns]

Working == {"hold", "found", "grown"}

(* A step makes a call, is about the call under way, or ends it.           *)
Course(p) ==
  \/ pc[p] = "closed" /\ Passes(p, "idle", call[p], found[p])
  \/ pc[p] = "idle" /\ \E c \in MapCalls \cup RawCalls : Passes(p, "wait", c, found[p])
  \/ pc[p] = "wait" /\ Passes(p, "hold", call[p], found[p])
  \/ pc[p] = "hold" /\ Passes(p, "found", call[p], Hits(call[p]))
  \/ pc[p] = "hold" /\ Passes(p, "grown", call[p], found[p])
  \/ pc[p] = "hold" /\ call[p].op = "retrieve_raw" /\ Passes(p, "walk", call[p], {})
  \/ pc[p] = "walk" /\ Passes(p, "walk", call[p], found[p])
  \/ pc[p] \in Working \cup {"walk"} /\ \E at \in {"idle", "dead"} : Passes(p, at, Idle, {})

LEMMA Courses ==
  ASSUME IInv, [Next]_vars
  PROVE  UNCHANGED <<pc, call, found>> \/ \E p \in Procs : Course(p)
<1> USE DEF IInv
<1>0. \A p \in Procs : /\ pc = [pc EXCEPT ![p] = pc[p]]
                       /\ call = [call EXCEPT ![p] = call[p]]
                       /\ found = [found EXCEPT ![p] = found[p]]
  BY DEF TypeOK
<1>1. CASE UNCHANGED vars
  BY <1>1 DEF vars
<1>2. ASSUME NEW p \in Procs, Open(p) \/ Call(p) \/ Lock(p) \/ Find(p) \/ Grow(p) \/ Walk(p)
      PROVE  Course(p)
  BY <1>0, <1>2 DEF Open, Call, Lock, Find, Grow, Walk, Course, Passes
<1>3. ASSUME NEW p \in Procs, Killed(p) \/ Fault(p) \/ UpdateRetry(p) \/ WalkFreed(p)
      PROVE  Course(p)
  BY <1>3 DEF Killed, Fault, UpdateRetry, WalkFreed, Die, Course, Passes, Working
<1>4. ASSUME NEW p \in Procs, \/ Clear(p) \/ Remove(p) \/ Retrieve(p) \/ Insert(p)
                              \/ InsertThrow(p) \/ Update(p) \/ WalkEnd(p)
      PROVE  Course(p)
  <2>1. pc[p] \in Working \cup {"walk"} /\ Leave(p, "idle")
    BY <1>4 DEF Clear, Remove, Erase, Retrieve, Insert, InsertData, InsertThrow, NoMemory, Update,
                WalkEnd, Return, Working
  <2>2. Passes(p, "idle", Idle, {})
    BY <2>1 DEF Leave, Passes
  <2>3. QED
    BY <2>1, <2>2 DEF Course
<1>5. ASSUME NEW p \in Procs, RetrieveRaw(p)
      PROVE  Course(p)
  BY <1>5 DEF RetrieveRaw, Leave, Course, Passes
<1>6. QED
  BY <1>1, <1>2, <1>3, <1>4, <1>5 DEF Next

States == {"closed", "idle", "wait", "hold", "found", "grown", "walk", "dead"}

LEMMA CallStep ==
  ASSUME IInv, [Next]_vars
  PROVE  /\ pc' \in [Procs -> States]
         /\ call' \in [Procs -> MapCalls \cup RawCalls \cup {Idle}]
         /\ found' \in [Procs -> SUBSET Nodes]
         /\ CallsFit'
<1> USE DEF IInv
<1> DEFINE All == MapCalls \cup RawCalls \cup {Idle}
           Goal == /\ pc' \in [Procs -> States]
                   /\ call' \in [Procs -> All]
                   /\ found' \in [Procs -> SUBSET Nodes]
                   /\ CallsFit'
<1>0. /\ pc \in [Procs -> States] /\ found \in [Procs -> SUBSET Nodes]
      /\ call \in [Procs -> All] /\ Idle \in All
      /\ MapCalls' = MapCalls
      /\ \A c : Hits(c) \in SUBSET Nodes
  BY DEF TypeOK, MapCalls, States, Hits, Live
<1>1. CASE UNCHANGED <<pc, call, found>>
  BY <1>0, <1>1 DEF CallsFit
<1>2. ASSUME NEW p \in Procs, NEW at \in States, NEW c \in All, NEW ns \in SUBSET Nodes,
             Passes(p, at, c, ns),
             at \in {"closed", "idle", "dead"} => c = Idle,
             at = "walk" => c \notin MapCalls
      PROVE  Goal
  BY <1>0, <1>2 DEF Passes, CallsFit
<1>3. ASSUME NEW p \in Procs, Course(p)
      PROVE  Goal
  <2>0. call[p] \in All /\ found[p] \in SUBSET Nodes /\ {} \in SUBSET Nodes
    BY <1>0
  <2> USE <2>0 DEF States
  <2> HIDE DEF Goal
  <2>1. CASE pc[p] = "closed" /\ Passes(p, "idle", call[p], found[p])
    BY <1>0, <1>2, <2>1 DEF CallsFit
  <2>2. CASE pc[p] = "idle" /\ \E c \in MapCalls \cup RawCalls : Passes(p, "wait", c, found[p])
    BY <1>2, <2>2
  <2>3. CASE \/ pc[p] = "wait" /\ Passes(p, "hold", call[p], found[p])
             \/ pc[p] = "hold" /\ Passes(p, "grown", call[p], found[p])
    BY <1>2, <2>3
  <2>4. CASE pc[p] = "hold" /\ Passes(p, "found", call[p], Hits(call[p]))
    BY <1>0, <1>2, <2>4
  <2>5. CASE pc[p] = "hold" /\ call[p].op = "retrieve_raw" /\ Passes(p, "walk", call[p], {})
    BY <1>2, <2>5, CallFacts
  <2>6. CASE pc[p] = "walk" /\ Passes(p, "walk", call[p], found[p])
    BY <1>2, <2>6 DEF CallsFit
  <2>7. CASE \E at \in {"idle", "dead"} : Passes(p, at, Idle, {})
    BY <1>0, <1>2, <2>7
  <2>8. QED
    BY <1>3, <2>1, <2>2, <2>3, <2>4, <2>5, <2>6, <2>7 DEF Course
<1>4. QED
  BY <1>1, <1>3, Courses

-----------------------------------------------------------------------------
(* What a step does to the mutex, and that it is held by who is at work.   *)
LEMMA MutexStep ==
  ASSUME IInv, [Next]_vars
  PROVE  owner' \in Procs \cup {NoProc} /\ sharers' \subseteq Procs /\ Exclusion'
<1> USE DEF IInv
<1> DEFINE Goal == owner' \in Procs \cup {NoProc} /\ sharers' \subseteq Procs /\ Exclusion'
<1>0. /\ pc \in [Procs -> States] /\ NoProc \notin Procs
      /\ call \in [Procs -> MapCalls \cup RawCalls \cup {Idle}]
      /\ owner \in Procs \cup {NoProc} /\ sharers \subseteq Procs
  BY SentinelsDistinct DEF TypeOK, States
<1>1. ASSUME UNCHANGED <<pc, call, owner, sharers>>
      PROVE  Goal
  BY <1>0, <1>1 DEF Exclusion, ReadOnly
<1>2. ASSUME NEW p \in Procs, NEW at \in States, at \notin Working \/ pc[p] \in Working,
             pc' = [pc EXCEPT ![p] = at],
             at \in Working => UNCHANGED call,
             \A q \in Procs : q # p => call'[q] = call[q],
             UNCHANGED <<owner, sharers>>
      PROVE  Goal
  BY <1>0, <1>2 DEF Exclusion, ReadOnly, Working
<1>3. ASSUME NEW p \in Procs, Lock(p)
      PROVE  Goal
  BY <1>0, <1>3 DEF Lock, Exclusion, ReadOnly
<1>4. ASSUME NEW p \in Procs, NEW next \in {"idle", "walk"}, Leave(p, next)
      PROVE  Goal
  BY <1>0, <1>4 DEF Leave, Exclusion, ReadOnly
<1>5. ASSUME NEW p \in Procs,
             \/ Open(p) \/ Call(p) \/ Find(p) \/ Grow(p) \/ Killed(p) \/ Fault(p)
             \/ UpdateRetry(p) \/ WalkFreed(p)
      PROVE  Goal
  <2>1. UNCHANGED <<owner, sharers>>
    BY <1>5 DEF Open, Call, Find, Grow, Killed, Fault, UpdateRetry, WalkFreed, Die
  <2>2. CASE Open(p) \/ Find(p) \/ Grow(p)
    <3>1. PICK at \in {"idle", "found", "grown"} :
             /\ pc' = [pc EXCEPT ![p] = at] /\ UNCHANGED call
             /\ at \notin Working \/ pc[p] \in Working
      BY <2>2 DEF Open, Find, Grow, Working
    <3>2. QED
      BY <1>2, <2>1, <3>1 DEF States
  <2>3. CASE Call(p)
    <3>1. pc' = [pc EXCEPT ![p] = "wait"] /\ \E c : call' = [call EXCEPT ![p] = c]
      BY <2>3 DEF Call
    <3>2. QED
      BY <1>0, <1>2, <2>1, <3>1 DEF States, Working
  <2>4. CASE Killed(p) \/ Fault(p) \/ UpdateRetry(p) \/ WalkFreed(p)
    <3>1. pc' = [pc EXCEPT ![p] = "dead"] /\ call' = [call EXCEPT ![p] = Idle]
      BY <2>4 DEF Killed, Fault, UpdateRetry, WalkFreed, Die
    <3>2. QED
      BY <1>0, <1>2, <2>1, <3>1 DEF States, Working
  <2>5. QED
    BY <1>5, <2>2, <2>3, <2>4
<1>6. ASSUME NEW p \in Procs, Walk(p)
      PROVE  Goal
  <2>1. UNCHANGED <<pc, call, owner, sharers>>
    BY <1>6 DEF Walk
  <2>2. QED
    BY <1>1, <2>1
<1>7. ASSUME NEW p \in Procs, \/ Clear(p) \/ Remove(p) \/ Retrieve(p) \/ Insert(p)
                              \/ InsertThrow(p) \/ Update(p) \/ WalkEnd(p) \/ RetrieveRaw(p)
      PROVE  Goal
  <2>1. Leave(p, "idle") \/ Leave(p, "walk")
    BY <1>7 DEF Clear, Remove, Erase, Retrieve, Insert, InsertData, InsertThrow, Update, WalkEnd,
                RetrieveRaw, Return
  <2>2. QED
    BY <1>4, <2>1
<1>8. CASE UNCHANGED vars
  BY <1>1, <1>8 DEF vars
<1>9. CASE Next
  <2>1. PICK p \in Procs : \/ Lock(p)
                           \/ \/ Open(p) \/ Call(p) \/ Find(p) \/ Grow(p) \/ Killed(p) \/ Fault(p)
                              \/ UpdateRetry(p) \/ WalkFreed(p)
                           \/ Walk(p)
                           \/ \/ Clear(p) \/ Remove(p) \/ Retrieve(p) \/ Insert(p)
                              \/ InsertThrow(p) \/ Update(p) \/ WalkEnd(p) \/ RetrieveRaw(p)
    BY <1>9 DEF Next
  <2> HIDE DEF Goal
  <2>2. Goal
    BY <1>3, <1>5, <1>6, <1>7, <2>1
  <2>3. QED
    BY <2>2 DEF Goal
<1>10. QED
  BY <1>8, <1>9

(* The container changes at the hands of a process that holds the mutex    *)
(* alone and is done with its call.                                        *)
LEMMA WritesAlone ==
  ASSUME IInv, [Next]_vars
  PROVE  UNCHANGED node \/ \A q \in Procs : pc'[q] # "found"
<1> USE DEF IInv
<1>1. ASSUME NEW p \in Procs, pc[p] \in Working, ~ReadOnly(call[p]),
             NEW at \in {"idle", "dead"}, pc' = [pc EXCEPT ![p] = at]
      PROVE  \A q \in Procs : pc'[q] # "found"
  <2>1. owner = p /\ sharers = {}
    BY <1>1, SentinelsDistinct DEF Exclusion, Working
  <2>2. \A q \in Procs : q # p => pc[q] # "found"
    BY <2>1 DEF Exclusion
  <2>3. QED
    BY <1>1, <2>2 DEF TypeOK
<1>2. ASSUME NEW p \in Procs, Clear(p) \/ Remove(p) \/ Insert(p) \/ Update(p) \/ UpdateRetry(p)
      PROVE  \A q \in Procs : pc'[q] # "found"
  <2>1. pc[p] \in Working /\ ~ReadOnly(call[p])
    BY <1>2 DEF Clear, Remove, Insert, Update, UpdateRetry, Working, ReadOnly
  <2>2. \E at \in {"idle", "dead"} : pc' = [pc EXCEPT ![p] = at]
    BY <1>2 DEF Clear, Remove, Erase, Insert, InsertData, Update, UpdateRetry, Return, Leave, Die
  <2>3. QED
    BY <1>1, <2>1, <2>2
<1>3. ASSUME NEW p \in Procs,
             \/ Open(p) \/ Call(p) \/ Lock(p) \/ Killed(p) \/ Fault(p) \/ Find(p) \/ Retrieve(p)
             \/ Grow(p) \/ InsertThrow(p) \/ RetrieveRaw(p) \/ Walk(p) \/ WalkEnd(p)
             \/ WalkFreed(p)
      PROVE  UNCHANGED node
  BY <1>3 DEF Open, Call, Lock, Killed, Fault, Find, Retrieve, Grow, InsertThrow, RetrieveRaw,
              Walk, WalkEnd, WalkFreed
<1>4. QED
  BY <1>2, <1>3 DEF Next, vars

LEMMA FoundStep ==
  ASSUME IInv, [Next]_vars
  PROVE  FoundStill'
<1> USE DEF IInv
<1>1. CASE \A q \in Procs : pc'[q] # "found"
  BY <1>1 DEF FoundStill
<1>2. CASE UNCHANGED node
  <2>1. \A c : Hits(c)' = Hits(c)
    BY <1>2 DEF Hits, Live, Names, InRange, Nodes
  <2>2. CASE UNCHANGED <<pc, call, found>>
    BY <2>1, <2>2 DEF FoundStill
  <2>3. ASSUME NEW p \in Procs, Course(p)
        PROVE  FoundStill'
    <3>1. PICK at, c, ns : /\ Passes(p, at, c, ns)
                           /\ at = "found" => c = call[p] /\ ns = Hits(call[p])
      BY <2>3 DEF Course
    <3>2. \A q \in Procs : q # p => pc'[q] = pc[q] /\ call'[q] = call[q] /\ found'[q] = found[q]
      BY <3>1 DEF Passes, TypeOK
    <3>3. pc'[p] = at /\ call'[p] = c /\ found'[p] = ns
      BY <3>1 DEF Passes, TypeOK
    <3>4. QED
      BY <2>1, <3>1, <3>2, <3>3 DEF FoundStill
  <2>4. QED
    BY <2>2, <2>3, Courses
<1>3. QED
  BY <1>1, <1>2, WritesAlone

(* The rest of the types.                                                  *)
LEMMA TypeStep ==
  ASSUME IInv, [Next]_vars
  PROVE  TypeOK'
<1> USE DEF IInv
<1>0. /\ size' \in 0 .. MaxSize /\ calls \in 0 .. MaxCalls /\ MaxCalls \in Nat
      /\ MapCalls' = MapCalls /\ RawCalls' = RawCalls /\ Nodes' = Nodes /\ Idle' = Idle
  <2>1. size \in 0 .. MaxSize /\ MaxSize \in Nat /\ calls \in 0 .. MaxCalls /\ MaxCalls \in Nat
    BY Numbers
  <2>2. size' \in size .. MaxSize
    BY Changes
  <2>3. size' \in 0 .. MaxSize
    BY <2>1, <2>2
  <2>4. MapCalls' = MapCalls /\ RawCalls' = RawCalls /\ Nodes' = Nodes /\ Idle' = Idle
    BY DEF MapCalls, RawCalls, Nodes, Idle
  <2>5. QED
    BY <2>1, <2>3, <2>4
<1>1. mapped' \in [Procs -> 0 .. MaxSize]
  <2>1. mapped' = mapped \/ \E p \in Procs : mapped' = [mapped EXCEPT ![p] = size']
    BY DEF Next, vars, Open, Call, Lock, Killed, Fault, Die, Find, Clear, Remove, Erase, Retrieve,
           Unmoved, Insert, Grow, InsertThrow, Update, UpdateRetry, RetrieveRaw, Walk, WalkEnd,
           WalkFreed
  <2>2. QED
    BY <1>0, <2>1 DEF TypeOK
<1>2. calls' \in 0 .. MaxCalls
  <2>1. ASSUME NEW p \in Procs, Call(p)
        PROVE  calls' \in 0 .. MaxCalls
    <3>1. calls < MaxCalls /\ calls' = calls + 1
      BY <2>1 DEF Call
    <3>2. QED
      BY <1>0, <3>1
  <2>2. CASE \A p \in Procs : ~Call(p)
    <3>1. UNCHANGED calls
      BY <2>2 DEF Next, vars, Open, Lock, Killed, Fault, Die, Find, Clear, Remove, Erase, Retrieve,
                  Unmoved, Insert, Grow, InsertThrow, Update, UpdateRetry, RetrieveRaw, Walk,
                  WalkEnd, WalkFreed
    <3>2. QED
      BY <1>0, <3>1
  <2>3. QED
    BY <2>1, <2>2
<1>3. cause' \in [Procs -> {"alive", "killed", "beyond mapping", "dangling index", "freed node"}]
  <2>1. \/ cause' = cause
        \/ \E p \in Procs, why \in {"killed", "beyond mapping", "dangling index", "freed node"} :
              cause' = [cause EXCEPT ![p] = why]
    BY DEF Next, vars, Open, Call, Lock, Killed, Fault, Die, Find, Clear, Remove, Erase, Retrieve,
           Unmoved, Insert, Grow, InsertThrow, Update, UpdateRetry, RetrieveRaw, Walk, WalkEnd,
           WalkFreed
  <2>2. QED
    BY <2>1 DEF TypeOK
<1>4. QED
  BY <1>0, <1>1, <1>2, <1>3, NodeStep, CallStep, MutexStep DEF TypeOK, States

LEMMA NextIInv == IInv /\ [Next]_vars => IInv'
BY NodeStep, CallStep, MutexStep, FoundStep, TypeStep DEF IInv

LEMMA Invariance == Spec => []IInv
BY InitIInv, NextIInv, PTL DEF Spec

-----------------------------------------------------------------------------
(* The segment, the mutex and the calls keep their types, whatever the     *)
(* processes do and wherever they die.                                     *)
THEOREM TypeCorrect == Spec => []TypeOK
BY Invariance, PTL DEF IInv

(* entity_cache never holds two entries with one key, whoever inserts,     *)
(* updates and grows the segment.                                          *)
THEOREM UniqueTheorem == Spec => []KeysUnique
BY Invariance, PTL DEF IInv

-----------------------------------------------------------------------------
(* What the map holds, in terms of the nodes.                              *)
LEMMA ContentIs ==
  ASSUME TypeOK, KeysUnique
  PROVE  /\ Content = [k \in Keys |-> Content[k]]
         /\ \A k \in Keys : NodesOf(k) = {} => Content[k] = NoVal
         /\ \A n \in Live : /\ NodesOf(node[n].key) = {n}
                            /\ Content[node[n].key] = node[n].val
<1>1. Content = [k \in Keys |-> Content[k]]
  BY DEF Content
<1>2. \A k \in Keys : NodesOf(k) = {} => Content[k] = NoVal
  BY DEF Content
<1>3. ASSUME NEW n \in Live
      PROVE  NodesOf(node[n].key) = {n} /\ Content[node[n].key] = node[n].val
  <2>1. NodesOf(node[n].key) = {n}
    BY DEF NodesOf, KeysUnique
  <2>2. node[n].key \in Keys
    BY NodeFacts
  <2>3. (CHOOSE m \in {n} : TRUE) = n
    OBVIOUS
  <2>4. QED
    BY <2>1, <2>2, <2>3 DEF Content
<1>4. QED
  BY <1>1, <1>2, <1>3

LEMMA ContentIsBoth ==
  ASSUME IInv, [Next]_vars
  PROVE  /\ Content = [k \in Keys |-> Content[k]]
         /\ \A k \in Keys : NodesOf(k) = {} => Content[k] = NoVal
         /\ \A n \in Live : /\ NodesOf(node[n].key) = {n}
                            /\ Content[node[n].key] = node[n].val
         /\ Content' = [k \in Keys |-> Content'[k]]
         /\ \A k \in Keys : NodesOf(k)' = {} => Content'[k] = NoVal
         /\ \A n \in Live' : Content'[node'[n].key] = node'[n].val
<1>1. IInv'
  BY NextIInv
<1>2. TypeOK /\ KeysUnique => 
         /\ Content = [k \in Keys |-> Content[k]]
         /\ \A k \in Keys : NodesOf(k) = {} => Content[k] = NoVal
         /\ \A n \in Live : /\ NodesOf(node[n].key) = {n}
                            /\ Content[node[n].key] = node[n].val
  BY ContentIs
<1>3. (TypeOK /\ KeysUnique => 
         /\ Content = [k \in Keys |-> Content[k]]
         /\ \A k \in Keys : NodesOf(k) = {} => Content[k] = NoVal
         /\ \A n \in Live : /\ NodesOf(node[n].key) = {n}
                            /\ Content[node[n].key] = node[n].val)'
  BY ContentIs, PTL
<1>4. QED
  BY <1>1, <1>2, <1>3 DEF IInv
-----------------------------------------------------------------------------
(* What AtomicMap knows of the call of a process.                          *)
Pend ==
  [p \in Procs |-> IF pc[p] = "dead" THEN [op |-> "dead"]
                   ELSE IF call[p] \in MapCalls THEN call[p] ELSE Idle]

LEMMA InitRefines == Init => Map!Init
<1> SUFFICES ASSUME Init PROVE Map!Init
  OBVIOUS
<1>1. \A k \in Keys : NodesOf(k) = {}
  BY DEF Init, NodesOf, Live
<1>2. Content = [k \in Keys |-> NoVal]
  BY <1>1 DEF Content
<1>3. Pend = [p \in Procs |-> Idle]
  BY DEF Init, Pend, Idle
<1>4. result = [p \in Procs |-> Returned("none", {})]
  BY DEF Init
<1>5. QED
  BY <1>2, <1>3, <1>4 DEF Map!Init, Map!Idle, Map!Returned, Idle, Returned, Pend

-----------------------------------------------------------------------------
(* What the changes of the container are for the map.                      *)
LEMMA Held ==
  ASSUME IInv, NEW k \in Keys
  PROVE  /\ Content[k] = NoVal <=> NodesOf(k) = {}
         /\ Content[k] = NoVal <=> \A n \in Live : node[n].key # k
<1>1. NodesOf(k) = {} <=> \A n \in Live : node[n].key # k
  BY DEF NodesOf
<1>2. \A n \in Live : Content[node[n].key] = node[n].val /\ node[n].val # NoVal
  BY ContentIs, NodeFacts DEF IInv
<1>3. NodesOf(k) = {} => Content[k] = NoVal
  BY ContentIs DEF IInv
<1>4. QED
  BY <1>1, <1>2, <1>3

(* The map holds the value of the one node with a key.                     *)
LEMMA NextHeld ==
  ASSUME IInv, [Next]_vars, NEW k \in Keys
  PROVE  \/ Content'[k] = NoVal /\ \A n \in Live' : node'[n].key # k
         \/ \E n \in Live' : node'[n].key = k /\ Content'[k] = node'[n].val
<1>1. NodesOf(k)' = {} => Content'[k] = NoVal
  BY ContentIsBoth
<1>2. \A n \in Live' : Content'[node'[n].key] = node'[n].val
  BY ContentIsBoth
<1>3. NodesOf(k)' = {n \in Live' : node'[n].key = k}
  BY DEF NodesOf
<1>4. QED
  BY <1>1, <1>2, <1>3

LEMMA KeptMap ==
  ASSUME IInv, UNCHANGED node
  PROVE  Content' = Content
BY DEF Content, NodesOf, Live, Nodes

LEMMA ErasedMap ==
  ASSUME IInv, [Next]_vars, NEW hits, hits \subseteq Live, NEW gone \in SUBSET Keys,
         \A n \in Live : n \in hits <=> node[n].key \in gone,
         ErasesThose(hits)
  PROVE  Content' = [k \in Keys |-> IF k \in gone THEN NoVal ELSE Content[k]]
<1>1. Live' = Live \ hits /\ \A n \in Live' : node'[n] = node[n]
  BY Erased DEF IInv
<1>2. Content' = [k \in Keys |-> Content'[k]] /\ Content = [k \in Keys |-> Content[k]]
  BY ContentIsBoth
<1>3. \A n \in Live : Content[node[n].key] = node[n].val
  BY ContentIsBoth
<1>4. ASSUME NEW k \in Keys
      PROVE  Content'[k] = IF k \in gone THEN NoVal ELSE Content[k]
  <2>1. CASE \A n \in Live' : node'[n].key # k
    <3>1. Content'[k] = NoVal
      BY <2>1, NextHeld
    <3>2. k \notin gone => \A n \in Live : node[n].key # k
      BY <1>1, <2>1
    <3>3. k \notin gone => Content[k] = NoVal
      BY <3>2, Held
    <3>4. QED
      BY <3>1, <3>3
  <2>2. CASE \E n \in Live' : node'[n].key = k /\ Content'[k] = node'[n].val
    BY <1>1, <1>3, <2>2
  <2>3. QED
    BY <2>1, <2>2, NextHeld
<1>5. QED
  BY <1>2, <1>4

LEMMA ReplacedMap ==
  ASSUME IInv, [Next]_vars, NEW k \in Keys, NEW v \in Vals, ReplacesThose(NodesOf(k), k, v)
  PROVE  Content' = [Content EXCEPT ![k] = IF @ = NoVal THEN @ ELSE v]
<1>1. /\ Live' = Live
      /\ \A n \in Live : /\ node'[n].key = node[n].key
                         /\ node[n].key = k => node'[n].val = v
                         /\ node[n].key # k => node'[n] = node[n]
  BY Replaced DEF IInv
<1>2. Content' = [j \in Keys |-> Content'[j]] /\ Content = [j \in Keys |-> Content[j]]
  BY ContentIsBoth
<1>3. \A n \in Live : Content[node[n].key] = node[n].val /\ node[n].val # NoVal
  BY ContentIsBoth, NodeFacts DEF IInv
<1>4. ASSUME NEW j \in Keys
      PROVE  Content'[j] = IF j = k /\ Content[j] # NoVal THEN v ELSE Content[j]
  <2>1. CASE \A n \in Live' : node'[n].key # j
    <3>1. Content'[j] = NoVal
      BY <2>1, NextHeld
    <3>2. \A n \in Live : node[n].key # j
      BY <1>1, <2>1
    <3>3. Content[j] = NoVal
      BY <3>2, Held
    <3>4. QED
      BY <3>1, <3>3
  <2>2. CASE \E n \in Live' : node'[n].key = j /\ Content'[j] = node'[n].val
    BY <1>1, <1>3, <2>2
  <2>3. QED
    BY <2>1, <2>2, NextHeld
<1>5. QED
  BY <1>2, <1>4

LEMMA AddedMap ==
  ASSUME IInv, [Next]_vars, NEW k \in Keys, NEW v \in Vals, NEW n \in Nodes,
         Fresh(n, k), AddsOne(n, k, v)
  PROVE  Content' = [Content EXCEPT ![k] = v] /\ Content[k] = NoVal
<1>1. /\ Live' = Live \cup {n} /\ node'[n].key = k /\ node'[n].val = v
      /\ \A m \in Live : m # n => node'[m] = node[m]
  BY Added DEF IInv
<1>2. Content' = [j \in Keys |-> Content'[j]] /\ Content = [j \in Keys |-> Content[j]]
  BY ContentIsBoth
<1>3. \A m \in Live : Content[node[m].key] = node[m].val
  BY ContentIsBoth
<1>4. Content[k] = NoVal /\ n \notin Live /\ \A m \in Live : node[m].key # k
  BY Held DEF Fresh
<1>5. ASSUME NEW j \in Keys
      PROVE  Content'[j] = IF j = k THEN v ELSE Content[j]
  <2>1. CASE \A m \in Live' : node'[m].key # j
    <3>1. Content'[j] = NoVal /\ j # k
      BY <1>1, <2>1, NextHeld
    <3>2. \A m \in Live : node[m].key # j
      BY <1>1, <1>4, <2>1
    <3>3. Content[j] = NoVal
      BY <3>2, Held
    <3>4. QED
      BY <3>1, <3>3
  <2>2. CASE \E m \in Live' : node'[m].key = j /\ Content'[j] = node'[m].val
    BY <1>1, <1>3, <1>4, <2>2
  <2>3. QED
    BY <2>1, <2>2, NextHeld
<1>6. QED
  BY <1>2, <1>4, <1>5

-----------------------------------------------------------------------------
(* What the steps are for the calls under way.                             *)
LEMMA PendSet ==
  ASSUME IInv, NEW p \in Procs, NEW at \in {"idle", "wait", "dead"},
         NEW c \in MapCalls \cup RawCalls \cup {Idle}, NEW ns, Passes(p, at, c, ns)
  PROVE  Pend' = [Pend EXCEPT ![p] = IF at = "dead" THEN [op |-> "dead"]
                                     ELSE IF c \in MapCalls THEN c ELSE Idle]
<1>1. MapCalls' = MapCalls /\ Idle' = Idle
  BY DEF MapCalls, Idle
<1>2. pc \in [Procs -> States] /\ call \in [Procs -> MapCalls \cup RawCalls \cup {Idle}]
  BY DEF IInv, TypeOK, States
<1>3. \A q \in Procs : /\ pc'[q] = IF q = p THEN at ELSE pc[q]
                       /\ call'[q] = IF q = p THEN c ELSE call[q]
  BY <1>2 DEF Passes
<1>4. QED
  BY <1>1, <1>3 DEF Pend

LEMMA PendKept ==
  ASSUME IInv, NEW p \in Procs, pc[p] # "dead", NEW at, at # "dead",
         NEW ns, Passes(p, at, call[p], ns)
  PROVE  Pend' = Pend
<1>1. MapCalls' = MapCalls /\ Idle' = Idle
  BY DEF MapCalls, Idle
<1>2. pc \in [Procs -> States] /\ call \in [Procs -> MapCalls \cup RawCalls \cup {Idle}]
  BY DEF IInv, TypeOK, States
<1>3. \A q \in Procs : /\ pc'[q] = IF q = p THEN at ELSE pc[q]
                       /\ call'[q] = call[q]
  BY <1>2 DEF Passes
<1>4. QED
  BY <1>1, <1>3 DEF Pend

(* A process at work on a call of the map has it pending.                  *)
LEMMA PendIs ==
  ASSUME IInv, NEW p \in Procs
  PROVE  /\ pc[p] # "dead" /\ call[p] \in MapCalls => Pend[p] = call[p]
         /\ pc[p] # "dead" /\ call[p] \notin MapCalls => Pend[p] = Idle
         /\ pc[p] \in {"closed", "idle", "walk"} => Pend[p] = Idle
         /\ Pend = [q \in Procs |-> Pend[q]]
BY CallFacts DEF Pend, IInv, CallsFit

(* What a completed call does, in the terms of AtomicMap.                  *)
Finishes(p, res) ==
  /\ Pend' = [Pend EXCEPT ![p] = Idle]
  /\ result' = [result EXCEPT ![p] = res]

LEMMA Returns ==
  ASSUME IInv, NEW p \in Procs, NEW res, Return(p, res)
  PROVE  Finishes(p, res)
<1>1. Passes(p, "idle", Idle, {}) /\ result' = [result EXCEPT ![p] = res]
  BY DEF Return, Leave, Passes
<1>2. Idle \notin MapCalls
  BY CallFacts
<1>3. QED
  BY <1>1, <1>2, PendSet DEF Finishes

-----------------------------------------------------------------------------
(* The steps, one by one.                                                  *)
Stutters == UNCHANGED <<Content, Pend, result>>

LEMMA CallRefines ==
  ASSUME IInv, NEW p \in Procs, Call(p)
  PROVE  Map!Call(p) \/ Stutters
<1>1. pc[p] = "idle" /\ UNCHANGED <<node, result>>
  BY DEF Call
<1>2. PICK c \in MapCalls \cup RawCalls : Passes(p, "wait", c, found[p])
  BY DEF Call, Passes, IInv, TypeOK
<1>3. Pend' = [Pend EXCEPT ![p] = IF c \in MapCalls THEN c ELSE Idle]
  BY <1>2, PendSet
<1>4. Pend[p] = Idle /\ Pend = [q \in Procs |-> Pend[q]]
  BY <1>1, PendIs
<1>5. Content' = Content
  BY <1>1, KeptMap
<1>6. CASE c \in MapCalls
  BY <1>1, <1>3, <1>4, <1>5, <1>6 DEF Map!Call, Map!Idle, Idle, Pend
<1>7. CASE c \notin MapCalls
  <2>1. Pend' = Pend
    BY <1>3, <1>4, <1>7
  <2>2. QED
    BY <1>1, <1>5, <2>1 DEF Stutters
<1>8. QED
  BY <1>6, <1>7

LEMMA QuietRefines ==
  ASSUME IInv, NEW p \in Procs,
         \/ Open(p) \/ Lock(p) \/ Find(p) \/ Grow(p) \/ RetrieveRaw(p) \/ Walk(p) \/ WalkEnd(p)
  PROVE  Stutters
<1>1. UNCHANGED <<node, result>>
  BY DEF Open, Lock, Find, Grow, RetrieveRaw, Walk, WalkEnd
<1>2. Content' = Content
  BY <1>1, KeptMap
<1>3. call = [call EXCEPT ![p] = call[p]] /\ found = [found EXCEPT ![p] = found[p]]
  BY DEF IInv, TypeOK
<1>4. Pend' = Pend
  <2>1. CASE Open(p) \/ Lock(p) \/ Find(p) \/ Grow(p)
    <3>1. /\ pc[p] # "dead"
          /\ \E at \in {"idle", "hold", "found", "grown"} : \E ns : Passes(p, at, call[p], ns)
      BY <1>3, <2>1 DEF Open, Lock, Find, Grow, Passes
    <3>2. QED
      BY <3>1, PendKept
  <2>2. CASE RetrieveRaw(p)
    <3>1. pc[p] = "hold" /\ Passes(p, "walk", call[p], {})
      BY <1>3, <2>2 DEF RetrieveRaw, Leave, Passes
    <3>2. QED
      BY <3>1, PendKept
  <2>3. CASE Walk(p)
    <3>1. UNCHANGED <<pc, call>>
      BY <2>3 DEF Walk
    <3>2. QED
      BY <3>1 DEF Pend, MapCalls, Idle
  <2>4. CASE WalkEnd(p)
    <3>1. pc[p] = "walk" /\ Passes(p, "idle", Idle, {})
      BY <2>4 DEF WalkEnd, Leave, Passes
    <3>2. Pend[p] = Idle /\ Pend = [q \in Procs |-> Pend[q]] /\ Idle \notin MapCalls
      BY <3>1, PendIs, CallFacts
    <3>3. Pend' = [Pend EXCEPT ![p] = Idle]
      BY <3>1, <3>2, PendSet
    <3>4. QED
      BY <3>2, <3>3
  <2>5. QED
    BY <2>1, <2>2, <2>3, <2>4
<1>5. QED
  BY <1>1, <1>2, <1>4 DEF Stutters

LEMMA Dies ==
  ASSUME IInv, NEW p \in Procs, NEW why, Die(p, why)
  PROVE  Pend' = [Pend EXCEPT ![p] = [op |-> "dead"]] /\ UNCHANGED result
<1>1. Passes(p, "dead", Idle, {}) /\ UNCHANGED result
  BY DEF Die, Passes
<1>2. QED
  BY <1>1, PendSet

LEMMA DeathRefines ==
  ASSUME IInv, NEW p \in Procs, Killed(p) \/ Fault(p) \/ WalkFreed(p)
  PROVE  Map!Die(p)
<1>1. UNCHANGED node /\ \E why \in {"killed", "beyond mapping", "freed node"} : Die(p, why)
  BY DEF Killed, Fault, WalkFreed
<1>2. Content' = Content
  BY <1>1, KeptMap
<1>3. Pend' = [Pend EXCEPT ![p] = [op |-> "dead"]] /\ UNCHANGED result
  BY <1>1, Dies
<1>4. QED
  BY <1>2, <1>3 DEF Map!Die, Map!Dead, Pend

LEMMA RetryRefines ==
  ASSUME IInv, [Next]_vars, NEW p \in Procs, UpdateRetry(p)
  PROVE  Map!Die(p)
<1>1. /\ pc[p] = "found" /\ call[p].op = "update" /\ Die(p, "dangling index")
      /\ UNCHANGED node \/ ErasesThose(NodesOf(call[p].key))
  BY HitsAre DEF UpdateRetry, ErasesThose, IInv, FoundStill
<1>2. call[p] \in MapCalls \cup RawCalls \cup {Idle}
  BY DEF IInv, TypeOK
<1>3. call[p] \in MapCalls /\ call[p].key \in Keys
  BY <1>1, <1>2, CallFacts
<1>4. Pend[p] = call[p]
  BY <1>1, <1>3, PendIs
<1>5. Pend' = [Pend EXCEPT ![p] = [op |-> "dead"]] /\ UNCHANGED result
  BY <1>1, Dies
<1>6. CASE UNCHANGED node
  BY <1>5, <1>6, KeptMap DEF Map!Die, Map!Dead, Pend
<1>7. CASE ErasesThose(NodesOf(call[p].key))
  <2> DEFINE k == call[p].key
  <2>1. NodesOf(k) \subseteq Live /\ \A n \in Live : n \in NodesOf(k) <=> node[n].key \in {k}
    BY DEF NodesOf
  <2>2. {k} \in SUBSET Keys
    BY <1>3
  <2>3. Content' = [j \in Keys |-> IF j \in {k} THEN NoVal ELSE Content[j]]
    BY <1>7, <2>1, <2>2, ErasedMap
  <2>4. Content = [j \in Keys |-> Content[j]]
    BY ContentIsBoth
  <2>5. Content' = [Content EXCEPT ![k] = NoVal]
    BY <1>3, <2>3, <2>4
  <2>6. Content' = [Content EXCEPT ![Pend[p].key] = NoVal] /\ Pend[p].op = "update"
    BY <1>1, <1>4, <2>5
  <2>7. QED
    BY <1>5, <2>6 DEF Map!Die, Map!Dead, Pend
<1>8. QED
  BY <1>1, <1>6, <1>7

(* The call a process completes is the one it has pending.                 *)
LEMMA AtWork ==
  ASSUME IInv, NEW p \in Procs, pc[p] \in Working, call[p].op \notin {"retrieve_raw", "idle"}
  PROVE  /\ call[p] \in MapCalls /\ Pend[p] = call[p]
         /\ call[p].op \in {"insert", "update"} => call[p].key \in Keys /\ call[p].val \in Vals
<1>1. call[p] \in MapCalls \cup RawCalls \cup {Idle}
  BY DEF IInv, TypeOK
<1>2. call[p] \in MapCalls
  BY <1>1 DEF RawCalls, Idle
<1>3. QED
  BY <1>1, <1>2, CallFacts, PendIs DEF Working

LEMMA EraseRefines ==
  ASSUME IInv, [Next]_vars, NEW p \in Procs, Clear(p) \/ Remove(p)
  PROVE  Map!Complete(p)
<1> DEFINE c == call[p]
           gone == {k \in Keys : InRange(c, k)}
<1>1. /\ pc[p] \in Working /\ c.op \in {"clear", "remove"}
      /\ ErasesThose(Hits(c)) /\ Return(p, Returned("none", {}))
  <2>1. CASE Clear(p)
    <3>1. Hits(c) = Live
      BY <2>1 DEF Clear, Hits, Names, InRange
    <3>2. QED
      BY <2>1, <3>1 DEF Clear, Erase, ErasesThose, Working
  <2>2. CASE Remove(p)
    <3>1. found[p] = Hits(c)
      BY <2>2 DEF Remove, IInv, FoundStill
    <3>2. QED
      BY <2>2, <3>1 DEF Remove, Erase, ErasesThose, Working
  <2>3. QED
    BY <2>1, <2>2
<1>2. c \in MapCalls /\ Pend[p] = c
  BY <1>1, AtWork
<1>3. Hits(c) \subseteq Live /\ \A n \in Live : n \in Hits(c) <=> node[n].key \in gone
  BY <1>1, NodeFacts DEF Hits, Names, IInv
<1>4. Content' = [k \in Keys |-> IF k \in gone THEN NoVal ELSE Content[k]]
  BY <1>1, <1>3, ErasedMap
<1>5. Content' = [k \in Keys |-> IF InRange(c, k) THEN NoVal ELSE Content[k]]
  BY <1>4
<1>6. Finishes(p, Returned("none", {}))
  BY <1>1, Returns
<1>7. Map!Erase(p, c)
  BY <1>1, <1>5, <1>6 DEF Map!Erase, Map!Finish, Map!Idle, Map!Returned, Finishes, Returned,
                          Idle, Pend
<1>8. QED
  BY <1>2, <1>7 DEF Map!Complete, Pend

LEMMA UpdateRefines ==
  ASSUME IInv, [Next]_vars, NEW p \in Procs, Update(p)
  PROVE  Map!Complete(p)
<1> DEFINE c == call[p]
           hit == NodesOf(c.key)
           res == Returned(IF hit = {} THEN "false" ELSE "true", {})
<1>1. /\ pc[p] \in Working /\ c.op = "update"
      /\ ReplacesThose(hit, c.key, c.val) /\ Return(p, res)
  <2>1. pc[p] = "found" /\ c.op = "update"
    BY DEF Update
  <2>2. found[p] = hit
    BY <2>1, HitsAre DEF IInv, FoundStill
  <2>3. QED
    BY <2>1, <2>2 DEF Update, ReplacesThose, Working
<1>2. c \in MapCalls /\ Pend[p] = c /\ c.key \in Keys /\ c.val \in Vals
  BY <1>1, AtWork
<1>3. Content' = [Content EXCEPT ![c.key] = IF @ = NoVal THEN @ ELSE c.val]
  BY <1>1, <1>2, ReplacedMap
<1>4. hit = {} <=> Content[c.key] = NoVal
  BY <1>2, Held
<1>5. res = Returned(IF Content[c.key] = NoVal THEN "false" ELSE "true", {})
  BY <1>4
<1>6. Finishes(p, Returned(IF Content[c.key] = NoVal THEN "false" ELSE "true", {}))
  BY <1>1, <1>5, Returns
<1>7. Map!Update(p, c)
  BY <1>1, <1>3, <1>6 DEF Map!Update, Map!Finish, Map!Idle, Map!Returned, Finishes, Returned,
                          Idle, Pend
<1>8. QED
  BY <1>2, <1>7 DEF Map!Complete, Pend

LEMMA ThrowRefines ==
  ASSUME IInv, NEW p \in Procs, InsertThrow(p)
  PROVE  Map!Complete(p)
<1> DEFINE c == call[p]
<1>1. /\ pc[p] \in Working /\ c.op = "insert"
      /\ UNCHANGED node /\ Return(p, Returned("throw", {}))
  BY DEF InsertThrow, NoMemory, Working
<1>2. c \in MapCalls /\ Pend[p] = c
  BY <1>1, AtWork
<1>3. Content' = Content
  BY <1>1, KeptMap
<1>4. Finishes(p, Returned("throw", {}))
  BY <1>1, Returns
<1>5. Map!Throw(p, c)
  BY <1>1, <1>3, <1>4 DEF Map!Throw, Map!Finish, Map!Idle, Map!Returned, Finishes, Returned,
                          Idle, Pend
<1>6. QED
  BY <1>2, <1>5 DEF Map!Complete, Pend

LEMMA InsertRefines ==
  ASSUME IInv, [Next]_vars, NEW p \in Procs, Insert(p)
  PROVE  Map!Complete(p)
<1> DEFINE c == call[p]
           fresh == NodesOf(c.key) = {}
<1>1. /\ pc[p] \in Working /\ c.op = "insert"
      /\ InsertData(p, Free) /\ size' = size
  BY DEF Insert, Working
<1>2. \A n \in Free : n \in Nodes \ Live /\ Page(n) <= size'
  BY <1>1, FreeIsFree
<1>3. c \in MapCalls /\ Pend[p] = c /\ c.key \in Keys /\ c.val \in Vals
  BY <1>1, AtWork
<1>4. fresh <=> Content[c.key] = NoVal
  BY <1>3, Held
<1>5. Content = [k \in Keys |-> Content[k]]
  BY ContentIsBoth
<1>6. Content' = [Content EXCEPT ![c.key] = IF @ = NoVal THEN c.val ELSE @]
  <2>1. CASE NodesOf(c.key) # {} /\ UNCHANGED node
    <3>1. Content' = Content /\ Content[c.key] # NoVal
      BY <1>4, <2>1, KeptMap
    <3>2. QED
      BY <1>5, <3>1
  <2>2. ASSUME NEW n \in Nodes, Fresh(n, c.key), AddsOne(n, c.key, c.val)
        PROVE  Content' = [Content EXCEPT ![c.key] = IF @ = NoVal THEN c.val ELSE @]
    <3>1. Content' = [Content EXCEPT ![c.key] = c.val] /\ Content[c.key] = NoVal
      BY <1>3, <2>2, AddedMap
    <3>2. QED
      BY <3>1
  <2>3. TypeOK
    BY DEF IInv
  <2>4. \/ NodesOf(c.key) # {} /\ UNCHANGED node
        \/ \E n \in Nodes : Fresh(n, c.key) /\ AddsOne(n, c.key, c.val)
    BY <1>1, <1>2, <2>3, InsertDataAdds
  <2>5. QED
    BY <2>1, <2>2, <2>4
<1>7. Return(p, Returned(IF Content[c.key] = NoVal THEN "true" ELSE "false", {}))
  <2>1. Return(p, Returned(IF fresh THEN "true" ELSE "false", {}))
    BY <1>1 DEF InsertData
  <2>2. QED
    BY <1>4, <2>1
<1>8. Finishes(p, Returned(IF Content[c.key] = NoVal THEN "true" ELSE "false", {}))
  BY <1>7, Returns
<1>9. Map!Insert(p, c)
  BY <1>1, <1>6, <1>8 DEF Map!Insert, Map!Finish, Map!Idle, Map!Returned, Finishes, Returned,
                          Idle, Pend
<1>10. QED
  BY <1>3, <1>9 DEF Map!Complete, Pend

LEMMA RetrieveRefines ==
  ASSUME IInv, [Next]_vars, NEW p \in Procs, Retrieve(p)
  PROVE  Map!Complete(p)
<1> DEFINE c == call[p]
           hits == Hits(c)
           hit == {k \in Keys : InRange(c, k) /\ Content[k] # NoVal}
           entries == {<<k, Content[k]>> : k \in hit}
<1>1. /\ pc[p] \in Working /\ c.op = "retrieve" /\ UNCHANGED node
      /\ Return(p, Returned(IF hits = {} THEN "false" ELSE "true",
                            {<<node[n].key, node[n].val>> : n \in hits}))
  BY DEF Retrieve, Working, IInv, FoundStill
<1>2. c \in MapCalls /\ Pend[p] = c
  BY <1>1, AtWork
<1>3. Content' = Content
  BY <1>1, KeptMap
<1>4. \A n \in Live : /\ node[n].key \in Keys /\ node[n].val # NoVal
                      /\ Content[node[n].key] = node[n].val
  BY ContentIsBoth, NodeFacts DEF IInv
<1>5. \A n \in hits : node[n].key \in hit /\ node[n].val = Content[node[n].key]
  BY <1>1, <1>4 DEF Hits, Names
<1>6. \A k \in hit : \E n \in hits : node[n].key = k /\ node[n].val = Content[k]
  BY <1>1, <1>4, Held DEF Hits, Names
<1> HIDE DEF hits, hit
<1>7. {<<node[n].key, node[n].val>> : n \in hits} = entries
  BY <1>5, <1>6
<1>8. hits = {} <=> hit = {}
  BY <1>5, <1>6
<1>9. Return(p, Returned(IF hit = {} THEN "false" ELSE "true", entries))
  BY <1>1, <1>7, <1>8 DEF hits
<1>10. Finishes(p, Returned(IF hit = {} THEN "false" ELSE "true", entries))
  BY <1>9, Returns
<1>11. Map!Retrieve(p, c)
  BY <1>1, <1>3, <1>10 DEF Map!Retrieve, Map!Finish, Map!Idle, Map!Returned, Finishes, Returned,
                           Idle, Pend, hit
<1>12. QED
  BY <1>2, <1>11 DEF Map!Complete, Pend

LEMMA NextRefines ==
  ASSUME IInv, [Next]_vars
  PROVE  Map!Next \/ Stutters
<1>1. CASE UNCHANGED vars
  BY <1>1, KeptMap DEF vars, Stutters, Pend, MapCalls, Idle
<1>2. ASSUME NEW p \in Procs, \/ Open(p) \/ Lock(p) \/ Find(p) \/ Grow(p) \/ RetrieveRaw(p)
                              \/ Walk(p) \/ WalkEnd(p)
      PROVE  Stutters
  BY <1>2, QuietRefines
<1>3. ASSUME NEW p \in Procs, Call(p)
      PROVE  Map!Call(p) \/ Stutters
  BY <1>3, CallRefines
<1>4. ASSUME NEW p \in Procs, Killed(p) \/ Fault(p) \/ WalkFreed(p) \/ UpdateRetry(p)
      PROVE  Map!Die(p)
  BY <1>4, DeathRefines, RetryRefines
<1>5. ASSUME NEW p \in Procs, \/ Clear(p) \/ Remove(p) \/ Retrieve(p) \/ Insert(p)
                              \/ InsertThrow(p) \/ Update(p)
      PROVE  Map!Complete(p)
  BY <1>5, EraseRefines, RetrieveRefines, InsertRefines, ThrowRefines, UpdateRefines
<1>6. QED
  BY <1>1, <1>2, <1>3, <1>4, <1>5 DEF Next, Map!Next

(* The cache is an atomic map: across growth, stale mappings, deaths with  *)
(* the mutex held and walks without it, every operation of entity_cache    *)
(* takes effect at once, or its process dies and changes nothing but the   *)
(* entry an update was replacing.                                          *)
THEOREM RefinementTheorem == Spec => ImplementsAtomicMap
<1>1. IInv /\ [Next]_vars => [Map!Next]_<<Content, Pend, result>>
  BY NextRefines DEF Stutters
<1>2. IInv /\ [Next]_vars => [Map!Next]_Map!mapVars
  BY <1>1 DEF Map!mapVars, Pend
<1>3. QED
  BY InitRefines, Invariance, <1>2, PTL DEF Spec, ImplementsAtomicMap, Map!Spec
=============================================================================
