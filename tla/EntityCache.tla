----------------------------- MODULE EntityCache -----------------------------
(* rtb/datacache/entity_cache.hpp over memory_types.hpp: a multi_index        *)
(* container in a shared memory segment, used by several processes under a    *)
(* named mutex that lives in shared memory too.  The segment grows while      *)
(* other processes are attached to it, a process that faults or is killed     *)
(* keeps the mutex, and retrieve_raw hands out iterators that are used after  *)
(* the mutex is released.                                                     *)
EXTENDS Naturals, FiniteSets

CONSTANTS
    Procs,      \* processes that opened the cache
    Keys,       \* keys, ordered as in the index: a set of naturals
    Vals,       \* what an entry holds besides its key
    Searches,   \* what can be searched for: sets of keys, as those of one campaign
    UnitsPerGrowth,   \* entries that fit into MEMORY_SIZE bytes
    MaxSize,    \* BOUND: growths the machine allows, the first allocation included
    MaxCalls,   \* BOUND: calls in a behaviour
    NoProc, NoVal, NoNode

ASSUME KeysAreNaturals == Keys \subseteq Nat
ASSUME SearchesOfKeys == Searches \subseteq SUBSET Keys
ASSUME UnitsPositive == UnitsPerGrowth \in Nat \ {0}
ASSUME SizePositive == MaxSize \in Nat \ {0}
ASSUME CallsNumbered == MaxCalls \in Nat
ASSUME SentinelsDistinct ==
    /\ NoProc \notin Procs
    /\ NoVal \notin Vals /\ NoVal \notin [key : Keys, val : Vals]

Nodes == 1 .. UnitsPerGrowth * MaxSize

(* Node n came with growth number Page(n) of the segment.                     *)
Page(n) == ((n - 1) \div UnitsPerGrowth) + 1

(* The calls a program makes: the campaign budgets use insert, update,        *)
(* remove and retrieve, the loaders clear and insert, the bidders retrieve    *)
(* and retrieve_raw.                                                          *)
MapCalls ==
    [op : {"insert", "update"}, key : Keys, val : Vals]
        \cup [op : {"remove", "retrieve"}, of : Searches]
        \cup {[op |-> "clear"]}
RawCalls == [op : {"retrieve_raw"}, of : Searches]

VARIABLES
    size,     \* growths so far: the segment holds the nodes of pages 1..size
    node,     \* node -> entry [key, val] of the container, or NoVal if free
    owner,    \* process that holds the mutex exclusively, or NoProc
    sharers,  \* processes that hold it shared
    mapped,   \* process -> number of pages its mapping covers, 0 before it opened
    pc,       \* "closed", "idle", "wait", "hold", "found", "grown", "walk", "dead"
    call,     \* the call a process is in
    found,    \* process -> the nodes equal_range returned to it
    iter,     \* process -> [at, last]: the range retrieve_raw returned
    result,   \* what the last completed call returned
    calls,    \* calls made so far
    cause,    \* process -> why it died
    strays    \* process -> entries a walk returned that it did not search for

vars == <<size, node, owner, sharers, mapped, pc, call, found, iter, result, calls,
          cause, strays>>

Idle == [op |-> "idle"]
Returned(out, got) == [out |-> out, got |-> got]

Live == {n \in Nodes : node[n] # NoVal}
Free == {n \in Nodes : node[n] = NoVal /\ Page(n) <= size}
NodesOf(k) == {n \in Live : node[n].key = k}
InRange(c, k) == c.op = "clear" \/ k \in c.of
Names(c, k) == IF c.op = "update" THEN k = c.key ELSE InRange(c, k)
Hits(c) == {n \in Live : Names(c, node[n].key)}

(* Index order: the node after n, NoNode being the end of the container.      *)
FirstOf(ns) ==
    IF ns = {} THEN NoNode
    ELSE CHOOSE n \in ns : \A m \in ns : node[n].key <= node[m].key
After(n) == FirstOf({m \in Live : node[m].key > node[n].key})

TypeOK ==
    /\ size \in 0 .. MaxSize
    /\ node \in [Nodes -> [key : Keys, val : Vals] \cup {NoVal}]
    /\ owner \in Procs \cup {NoProc}
    /\ sharers \subseteq Procs
    /\ mapped \in [Procs -> 0 .. MaxSize]
    /\ pc \in [Procs -> {"closed", "idle", "wait", "hold", "found", "grown", "walk", "dead"}]
    /\ call \in [Procs -> MapCalls \cup RawCalls \cup {Idle}]
    /\ found \in [Procs -> SUBSET Nodes]
    /\ calls \in 0 .. MaxCalls
    /\ cause \in [Procs -> {"alive", "killed", "beyond mapping", "dangling index", "freed node"}]

Init ==
    /\ size = 0
    /\ node = [n \in Nodes |-> NoVal]
    /\ owner = NoProc
    /\ sharers = {}
    /\ mapped = [p \in Procs |-> 0]
    /\ pc = [p \in Procs |-> "closed"]
    /\ call = [p \in Procs |-> Idle]
    /\ found = [p \in Procs |-> {}]
    /\ iter = [p \in Procs |-> [at |-> NoNode, last |-> NoNode]]
    /\ result = [p \in Procs |-> Returned("none", {})]
    /\ calls = 0
    /\ cause = [p \in Procs |-> "alive"]
    /\ strays = [p \in Procs |-> {}]

(* The constructor: open_or_create_segment and find_or_construct, without     *)
(* the mutex; each is atomic in the library.                                  *)
Open(p) ==
    /\ pc[p] = "closed"
    /\ size' = IF size = 0 THEN 1 ELSE size
    /\ mapped' = [mapped EXCEPT ![p] = size']
    /\ pc' = [pc EXCEPT ![p] = "idle"]
    /\ UNCHANGED <<node, owner, sharers, call, found, iter, result, calls, cause, strays>>

Call(p) ==
    /\ pc[p] = "idle"
    /\ calls < MaxCalls
    /\ calls' = calls + 1
    /\ \E c \in MapCalls \cup RawCalls : call' = [call EXCEPT ![p] = c]
    /\ pc' = [pc EXCEPT ![p] = "wait"]
    /\ UNCHANGED <<size, node, owner, sharers, mapped, found, iter, result, cause, strays>>

ReadOnly(c) == c.op \in {"retrieve", "retrieve_raw"}

(* scoped_lock or sharable_lock of the named_upgradable_mutex.                *)
Lock(p) ==
    /\ pc[p] = "wait"
    /\ owner = NoProc
    /\ IF ReadOnly(call[p])
       THEN sharers' = sharers \cup {p} /\ UNCHANGED owner
       ELSE sharers = {} /\ owner' = p /\ UNCHANGED sharers
    /\ pc' = [pc EXCEPT ![p] = "hold"]
    /\ UNCHANGED <<size, node, mapped, call, found, iter, result, calls, cause, strays>>

(* The destructor of the guard, and the return of the call.                   *)
Leave(p, next) ==
    /\ owner' = IF owner = p THEN NoProc ELSE owner
    /\ sharers' = sharers \ {p}
    /\ pc' = [pc EXCEPT ![p] = next]
    /\ call' = [call EXCEPT ![p] = IF next = "idle" THEN Idle ELSE @]
    /\ found' = [found EXCEPT ![p] = {}]

Return(p, res) == Leave(p, "idle") /\ result' = [result EXCEPT ![p] = res]

(* A fault or a kill: nobody unlocks the mutex.                               *)
Die(p, why) ==
    /\ pc' = [pc EXCEPT ![p] = "dead"]
    /\ call' = [call EXCEPT ![p] = Idle]
    /\ found' = [found EXCEPT ![p] = {}]
    /\ cause' = [cause EXCEPT ![p] = why]
    /\ UNCHANGED <<size, owner, sharers, mapped, iter, result, calls, strays>>

Killed(p) ==
    /\ pc[p] \in {"hold", "found", "grown", "walk"}
    /\ Die(p, "killed")
    /\ UNCHANGED node

(* Following the tree of the index leads through any nodes of the container;  *)
(* one on a page that was added after the process attached is not mapped.     *)
Beyond(p, ns) == \E n \in ns : Page(n) > mapped[p]

Fault(p) ==
    /\ \/ pc[p] \in {"hold", "found"} /\ call[p].op # "insert" /\ Beyond(p, Live)
       \/ pc[p] = "walk" /\ iter[p].at # iter[p].last /\ Beyond(p, {iter[p].at} \ {NoNode})
    /\ Die(p, "beyond mapping")
    /\ UNCHANGED node

Unmoved == UNCHANGED <<size, mapped, iter, calls, cause, strays>>

(* Mutant of Find: the guard of a writer ends with the lookup.                *)
FindUnlocks(p) ==
    LET hits == Hits(call[p]) IN
    /\ pc[p] = "hold"
    /\ call[p].op \in {"remove", "update", "retrieve"}
    /\ ~Beyond(p, hits)
    /\ found' = [found EXCEPT ![p] = hits]
    /\ pc' = [pc EXCEPT ![p] = "found"]
    /\ owner' = IF owner = p THEN NoProc ELSE owner
    /\ UNCHANGED <<size, node, sharers, mapped, call, iter, result, calls, cause, strays>>

(* equal_range on the index, with which remove, update and retrieve begin.    *)
Find(p) ==
    LET hits == Hits(call[p]) IN
    /\ pc[p] = "hold"
    /\ call[p].op \in {"remove", "update", "retrieve"}
    /\ ~Beyond(p, hits)
    /\ found' = [found EXCEPT ![p] = hits]
    /\ pc' = [pc EXCEPT ![p] = "found"]
    /\ UNCHANGED <<size, node, owner, sharers, mapped, call, iter, result, calls, cause, strays>>

(* The nodes leave the container.                                             *)
Erase(p, ns) ==
    /\ ~Beyond(p, ns)
    /\ node' = [n \in Nodes |-> IF n \in ns THEN NoVal ELSE node[n]]
    /\ Return(p, Returned("none", {}))
    /\ Unmoved

Clear(p) == pc[p] = "hold" /\ call[p].op = "clear" /\ Erase(p, Live)

Remove(p) == pc[p] = "found" /\ call[p].op = "remove" /\ Erase(p, found[p])

Retrieve(p) ==
    LET hits == found[p] IN
    /\ pc[p] = "found"
    /\ call[p].op = "retrieve"
    /\ Return(p, Returned(IF hits = {} THEN "false" ELSE "true",
                          {<<node[n].key, node[n].val>> : n \in hits}))
    /\ UNCHANGED node
    /\ Unmoved

(* Mutant of InsertData: the container does not look for the key first.       *)
InsertDataAlways(p, free) ==
    /\ \E n \in free : node' = [node EXCEPT ![n] = [key |-> call[p].key, val |-> call[p].val]]
    /\ Return(p, Returned("true", {}))

(* insert_data once the process is attached to a segment with a free unit.    *)
InsertData(p, free) ==
    LET c == call[p]
        fresh == NodesOf(c.key) = {} IN
    /\ IF fresh
       THEN \E n \in free : node' = [node EXCEPT ![n] = [key |-> c.key, val |-> c.val]]
       ELSE UNCHANGED node
    /\ Return(p, Returned(IF fresh THEN "true" ELSE "false", {}))

(* insert_data attaches first, so an insert always sees the whole segment.    *)
Insert(p) ==
    /\ pc[p] \in {"hold", "grown"}
    /\ call[p].op = "insert"
    /\ Free # {}
    /\ InsertData(p, Free)
    /\ mapped' = [mapped EXCEPT ![p] = size]
    /\ UNCHANGED <<size, iter, calls, cause, strays>>

(* Mutant of Grow: it grows the segment twice.                                *)
GrowTwice(p) ==
    /\ pc[p] = "hold"
    /\ call[p].op = "insert"
    /\ Free = {}
    /\ size < MaxSize
    /\ size' = size + 2
    /\ mapped' = [mapped EXCEPT ![p] = size + 2]
    /\ pc' = [pc EXCEPT ![p] = "grown"]
    /\ UNCHANGED <<node, owner, sharers, call, found, iter, result, calls, cause, strays>>

(* bad_alloc, grow_memory and attach; the second insert_data is Insert again. *)
Grow(p) ==
    /\ pc[p] = "hold"
    /\ call[p].op = "insert"
    /\ Free = {}
    /\ size < MaxSize
    /\ size' = size + 1
    /\ mapped' = [mapped EXCEPT ![p] = size + 1]
    /\ pc' = [pc EXCEPT ![p] = "grown"]
    /\ UNCHANGED <<node, owner, sharers, call, found, iter, result, calls, cause, strays>>

(* The second insert_data finds no memory either.                             *)
NoMemory(p) ==
    /\ pc[p] \in {"hold", "grown"}
    /\ pc[p] = "hold" => size = MaxSize
    /\ call[p].op = "insert"
    /\ Free = {}

(* Mutant of InsertThrow: the exception leaves without the guard.             *)
InsertThrowLocked(p) ==
    /\ NoMemory(p)
    /\ mapped' = [mapped EXCEPT ![p] = size]
    /\ pc' = [pc EXCEPT ![p] = "idle"]
    /\ call' = [call EXCEPT ![p] = Idle]
    /\ result' = [result EXCEPT ![p] = Returned("throw", {})]
    /\ UNCHANGED <<size, node, owner, sharers, found, iter, calls, cause, strays>>

(* The exception of the second insert_data leaves insert.                     *)
InsertThrow(p) ==
    /\ NoMemory(p)
    /\ mapped' = [mapped EXCEPT ![p] = size]
    /\ Return(p, Returned("throw", {}))
    /\ UNCHANGED <<size, node, iter, calls, cause, strays>>

(* update: one update_data on the node with the unique key.  The item it      *)
(* builds takes a unit until update returns.                                  *)
Update(p) ==
    LET c == call[p]
        hit == found[p] IN
    /\ pc[p] = "found"
    /\ c.op = "update"
    /\ hit # {} => Free # {}
    /\ node' = [n \in Nodes |-> IF n \in hit THEN [key |-> c.key, val |-> c.val] ELSE node[n]]
    /\ Return(p, Returned(IF hit = {} THEN "false" ELSE "true", {}))
    /\ Unmoved

(* The retry of update goes through `index` and `p`, which refer to the       *)
(* mapping that grow_memory gave back.  When it was the modifier that ran out *)
(* of memory, the library has erased the entry.                               *)
UpdateRetry(p) ==
    LET hit == found[p] IN
    /\ pc[p] = "found"
    /\ call[p].op = "update"
    /\ hit # {}
    /\ \/ Free = {} /\ UNCHANGED node
       \/ /\ Cardinality(Free) = 1
          /\ node' = [n \in Nodes |-> IF n \in hit THEN NoVal ELSE node[n]]
    /\ Die(p, "dangling index")

(* retrieve_raw returns the range and releases the mutex ...                  *)
RetrieveRaw(p) ==
    LET hits == Hits(call[p])
        past == {n \in Live : \A h \in hits : node[n].key > node[h].key} IN
    /\ pc[p] = "hold"
    /\ call[p].op = "retrieve_raw"
    /\ ~Beyond(p, hits)
    /\ iter' = [iter EXCEPT ![p] = IF hits = {} THEN [at |-> NoNode, last |-> NoNode]
                                   ELSE [at |-> FirstOf(hits), last |-> FirstOf(past)]]
    /\ Leave(p, "walk")
    /\ UNCHANGED <<size, node, mapped, result, calls, cause, strays>>

(* ... and its caller walks the range: copies an entry out and goes on.       *)
Walk(p) ==
    LET at == iter[p].at IN
    /\ pc[p] = "walk"
    /\ at # iter[p].last
    /\ at # NoNode
    /\ ~Beyond(p, {at})
    /\ node[at] # NoVal
    /\ strays' = [strays EXCEPT ![p] =
                     IF node[at].key \in call[p].of THEN @ ELSE @ \cup {node[at]}]
    /\ iter' = [iter EXCEPT ![p].at = After(at)]
    /\ UNCHANGED <<size, node, owner, sharers, mapped, pc, call, found, result, calls, cause>>

WalkEnd(p) ==
    /\ pc[p] = "walk"
    /\ iter[p].at = iter[p].last
    /\ Leave(p, "idle")
    /\ UNCHANGED <<size, node, mapped, iter, result, calls, cause, strays>>

(* The iterator names a node that was freed, or ran past the end.             *)
WalkFreed(p) ==
    LET at == iter[p].at IN
    /\ pc[p] = "walk"
    /\ at # iter[p].last
    /\ at # NoNode => ~Beyond(p, {at}) /\ node[at] = NoVal
    /\ Die(p, "freed node")
    /\ UNCHANGED node

Next ==
    \E p \in Procs :
        \/ Open(p) \/ Call(p) \/ Lock(p) \/ Killed(p) \/ Fault(p)
        \/ Find(p) \/ Clear(p) \/ Remove(p) \/ Retrieve(p)
        \/ Insert(p) \/ Grow(p) \/ InsertThrow(p) \/ Update(p) \/ UpdateRetry(p)
        \/ RetrieveRaw(p) \/ Walk(p) \/ WalkEnd(p) \/ WalkFreed(p)

Spec == Init /\ [][Next]_vars

(* A guard that is held is released: calls are short, and the upgradable      *)
(* mutex lets no new reader pass a waiting writer.                            *)
Work(p) ==
    \/ Fault(p) \/ Find(p) \/ Clear(p) \/ Remove(p) \/ Retrieve(p)
    \/ Insert(p) \/ Grow(p) \/ InsertThrow(p) \/ Update(p) \/ UpdateRetry(p) \/ RetrieveRaw(p)
    \/ Walk(p) \/ WalkEnd(p) \/ WalkFreed(p)

FairSpec == Spec /\ \A p \in Procs : SF_vars(Lock(p)) /\ WF_vars(Work(p))

(* The cache seen as an atomic map: its content is what the container holds,  *)
(* a raw walk is not one of its operations.                                   *)
Content ==
    [k \in Keys |-> IF NodesOf(k) = {} THEN NoVal
                    ELSE node[CHOOSE n \in NodesOf(k) : TRUE].val]
Map == INSTANCE AtomicMap WITH
           map <- Content,
           pend <- [p \in Procs |-> IF pc[p] = "dead" THEN [op |-> "dead"]
                                    ELSE IF call[p] \in MapCalls THEN call[p] ELSE Idle],
           Calls <- MapCalls

(* Every locked operation takes effect at once and on the whole container,    *)
(* across growth, stale mappings, deaths and reads without the lock.          *)
ImplementsAtomicMap == Map!Spec

(* The index stays unique: no interleaving of inserts, updates and growth     *)
(* leaves two entries with one key.                                           *)
KeysUnique == \A m, n \in Live : node[m].key = node[n].key => m = n

(* A call waits for ever only behind a process that died with the mutex.      *)
CallsReturn ==
    \A p \in Procs :
        pc[p] = "wait" ~> \/ pc[p] \in {"idle", "dead"}
                         \/ \E q \in Procs : pc[q] = "dead" /\ (owner = q \/ q \in sharers)

(* "reattach to newly created" (entity_cache.hpp:148, :276): a process works  *)
(* on the segment as it is now.                                               *)
NoAccessBeyondMapping == \A p \in Procs : cause[p] # "beyond mapping"

(* "search on campaign-width-height" (ad_entity.hpp:33): a search returns     *)
(* entries with the key searched for.                                         *)
WalksStayInRange == \A p \in Procs : strays[p] = {}
==============================================================================
