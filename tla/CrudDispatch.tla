----------------------------- MODULE CrudDispatch -----------------------------
(* CRUD/handlers/crud_dispatcher.hpp and crud_matcher.hpp: the threads of a     *)
(* server dispatch their requests through one set of matchers.  Every matcher   *)
(* whose expression fits runs the handler of the request's method; looking a    *)
(* method up in a std::map with operator[] inserts it when it is missing.  The  *)
(* maps have no lock: once a thread inserts into one while another is in it,    *)
(* lookups in it may miss keys, insertions may be lost, or the process crashes. *)
EXTENDS Naturals, Sequences, FiniteSets

CONSTANTS
    Threads,    \* the server's threads
    Methods,    \* the methods of requests
    Matchers,   \* number of matchers, in the order of the map
    Uris,       \* the paths of requests: each is the set of matchers that fit it
    Registered, \* per matcher the methods with a handler
    MaxRequests \* BOUND: requests per thread

DispatchAssumption ==
    /\ Matchers \in Nat \ {0} /\ MaxRequests \in Nat
    /\ Uris \subseteq SUBSET (1 .. Matchers)
    /\ Registered \in [1 .. Matchers -> SUBSET Methods]

VARIABLES
    handlers,   \* per matcher and method its entry of _handlers: "absent", "empty" or "set"
    at,         \* per thread "idle", "matching", "finding", "inserting", "calling", "passing";
                \* or "dead", when the process is
    request,    \* per thread its request: [method, uri]
    next,       \* per thread the matcher it has come to
    reply,      \* per thread the handlers that have run on its reply
    served,     \* per thread requests dispatched
    raced       \* matchers whose map one thread was in while another inserted

vars == <<handlers, at, request, next, reply, served, raced>>

InMap == {"finding", "inserting"}
Found == {"calling", "passing"}

TypeOK ==
    /\ handlers \in [1 .. Matchers -> [Methods -> {"absent", "empty", "set"}]]
    /\ at \in [Threads -> {"idle", "matching", "dead"} \cup InMap \cup Found]
    /\ next \in [Threads -> 1 .. Matchers + 1]
    /\ \A t \in Threads : at[t] \in InMap \cup Found => next[t] \in request[t].uri
    /\ served \in [Threads -> 0 .. MaxRequests]
    /\ raced \subseteq 1 .. Matchers

NoRequest == [method |-> CHOOSE m \in Methods : TRUE, uri |-> {}]

(* crud_match(...).get(...).post(...)...: the keys before the server starts.    *)
Init ==
    /\ handlers = [m \in 1 .. Matchers |->
                     [x \in Methods |-> IF x \in Registered[m] THEN "set" ELSE "absent"]]
    /\ at = [t \in Threads |-> "idle"]
    /\ request = [t \in Threads |-> NoRequest]
    /\ next = [t \in Threads |-> 1]
    /\ reply = [t \in Threads |-> <<>>]
    /\ served = [t \in Threads |-> 0]
    /\ raced = {}

Inside(m) == {t \in Threads : at[t] \in InMap /\ next[t] = m}
Inserting(m) == {t \in Threads : at[t] = "inserting" /\ next[t] = m}

(* The thread goes to a place in the map of the matcher m.                      *)
Enter(t, place, m) ==
    /\ at' = [at EXCEPT ![t] = place]
    /\ raced' = IF (IF place = "inserting" THEN Inside(m) ELSE Inserting(m)) \ {t} = {}
                THEN raced ELSE raced \cup {m}

Receive(t) ==
    /\ at[t] = "idle" /\ served[t] < MaxRequests
    /\ \E m \in Methods, u \in Uris : request' = [request EXCEPT ![t] = [method |-> m, uri |-> u]]
    /\ at' = [at EXCEPT ![t] = "matching"]
    /\ next' = [next EXCEPT ![t] = 1]
    /\ reply' = [reply EXCEPT ![t] = <<>>]
    /\ UNCHANGED <<handlers, served, raced>>

(* Mutant of Match: the first matcher that fits is the only one.                *)
MatchFirst(t) ==
    /\ at[t] = "matching"
    /\ LET fits == {m \in request[t].uri : m >= next[t] /\ next[t] = 1} IN
       IF fits = {}
       THEN /\ at' = [at EXCEPT ![t] = "idle"]
            /\ next' = [next EXCEPT ![t] = Matchers + 1]
            /\ served' = [served EXCEPT ![t] = @ + 1]
            /\ UNCHANGED raced
       ELSE /\ next' = [next EXCEPT ![t] = CHOOSE m \in fits : \A n \in fits : m <= n]
            /\ Enter(t, "finding", next'[t])
            /\ UNCHANGED served
    /\ UNCHANGED <<handlers, request, reply>>

(* The loop of crud_dispatcher::handle_request, up to the next matcher that     *)
(* fits, or to its end.                                                         *)
Match(t) ==
    /\ at[t] = "matching"
    /\ LET fits == {m \in request[t].uri : m >= next[t]} IN
       IF fits = {}
       THEN /\ at' = [at EXCEPT ![t] = "idle"]
            /\ next' = [next EXCEPT ![t] = Matchers + 1]
            /\ served' = [served EXCEPT ![t] = @ + 1]
            /\ UNCHANGED raced
       ELSE /\ next' = [next EXCEPT ![t] = CHOOSE m \in fits : \A n \in fits : m <= n]
            /\ Enter(t, "finding", next'[t])
            /\ UNCHANGED served
    /\ UNCHANGED <<handlers, request, reply>>

(* _handlers[request.method] walks the tree; in one that was raced on it may    *)
(* come past the key.                                                           *)
Find(t) ==
    /\ at[t] = "finding"
    /\ LET entry == handlers[next[t]][request[t].method] IN
       \/ entry = "set" /\ at' = [at EXCEPT ![t] = "calling"] /\ UNCHANGED raced
       \/ entry = "empty" /\ at' = [at EXCEPT ![t] = "passing"] /\ UNCHANGED raced
       \/ (entry = "absent" \/ next[t] \in raced) /\ Enter(t, "inserting", next[t])
    /\ UNCHANGED <<handlers, request, next, reply, served>>

(* The new entry is an empty function; in a tree that was raced on it may stand *)
(* before the one of the same key, or be lost.                                  *)
Insert(t) ==
    /\ at[t] = "inserting"
    /\ \/ handlers' = [handlers EXCEPT ![next[t]][request[t].method] = "empty"]
       \/ next[t] \in raced /\ UNCHANGED handlers
    /\ at' = [at EXCEPT ![t] = "passing"]
    /\ UNCHANGED <<request, next, reply, served, raced>>

(* A walk through a tree that was raced on ends the process.                    *)
Crash(t) ==
    /\ at[t] \in InMap /\ next[t] \in raced
    /\ at' = [u \in Threads |-> "dead"]
    /\ UNCHANGED <<handlers, request, next, reply, served, raced>>

(* if (handler) handler(response, match).                                       *)
Call(t) ==
    /\ at[t] = "calling"
    /\ reply' = [reply EXCEPT ![t] = Append(@, next[t])]
    /\ next' = [next EXCEPT ![t] = @ + 1]
    /\ at' = [at EXCEPT ![t] = "matching"]
    /\ UNCHANGED <<handlers, request, served, raced>>

Pass(t) ==
    /\ at[t] = "passing"
    /\ next' = [next EXCEPT ![t] = @ + 1]
    /\ at' = [at EXCEPT ![t] = "matching"]
    /\ UNCHANGED <<handlers, request, reply, served, raced>>

Next ==
    \E t \in Threads :
        Receive(t) \/ Match(t) \/ Find(t) \/ Insert(t) \/ Crash(t) \/ Call(t) \/ Pass(t)

Spec == Init /\ [][Next]_vars

------------------------------------------------------------------------------
(* A reply is the work of every matcher that fits and has the method, in their  *)
(* order, and of nothing another thread dispatches meanwhile; of a matcher      *)
(* whose map two threads have raced on, it may miss the work.                   *)
RepliesFromAllMatches ==
    \A t \in Threads : at[t] = "idle" /\ served[t] > 0 =>
        LET ran == {reply[t][i] : i \in 1 .. Len(reply[t])}
            due == {m \in request[t].uri : request[t].method \in Registered[m]}
        IN
        /\ ran \subseteq request[t].uri
        /\ ran \ raced = due \ raced
        /\ \A i, j \in 1 .. Len(reply[t]) : i < j => reply[t][i] < reply[t][j]

(* "adding multi-threading support" (connection_manager.hpp:71): the maps that  *)
(* the threads of a server share are only read while it serves.                 *)
MapsAreOnlyRead == raced = {}
==============================================================================
