------------------------------ MODULE AtomicMap ------------------------------
(* What an IPC cache promises to the processes that share it: a map from keys *)
(* to values on which every operation takes effect at one instant between its *)
(* call and its return.  An operation that runs out of memory throws and      *)
(* changes nothing.  A process may die inside an operation; then nothing      *)
(* changed or, for an update, the entry it was about to replace is gone.      *)
CONSTANTS Procs, Keys, NoVal, Calls, InRange(_, _)

VARIABLES
    map,     \* key -> value, NoVal where there is no entry
    pend,    \* the call a process is in, Idle or Dead
    result   \* what the last completed call of a process returned

mapVars == <<map, pend, result>>

Idle == [op |-> "idle"]
Dead == [op |-> "dead"]

Returned(out, got) == [out |-> out, got |-> got]

Init ==
    /\ map = [k \in Keys |-> NoVal]
    /\ pend = [p \in Procs |-> Idle]
    /\ result = [p \in Procs |-> Returned("none", {})]

Call(p) ==
    /\ pend[p] = Idle
    /\ \E c \in Calls : pend' = [pend EXCEPT ![p] = c]
    /\ UNCHANGED <<map, result>>

Finish(p, res) ==
    /\ pend' = [pend EXCEPT ![p] = Idle]
    /\ result' = [result EXCEPT ![p] = res]

(* clear and remove: the entries named are gone.                              *)
Erase(p, c) ==
    /\ c.op \in {"clear", "remove"}
    /\ map' = [k \in Keys |-> IF InRange(c, k) THEN NoVal ELSE map[k]]
    /\ Finish(p, Returned("none", {}))

(* insert never replaces.                                                     *)
Insert(p, c) ==
    /\ c.op = "insert"
    /\ map' = [map EXCEPT ![c.key] = IF @ = NoVal THEN c.val ELSE @]
    /\ Finish(p, Returned(IF map[c.key] = NoVal THEN "true" ELSE "false", {}))

(* update only replaces.                                                      *)
Update(p, c) ==
    /\ c.op = "update"
    /\ map' = [map EXCEPT ![c.key] = IF @ = NoVal THEN @ ELSE c.val]
    /\ Finish(p, Returned(IF map[c.key] = NoVal THEN "false" ELSE "true", {}))

(* retrieve returns every entry in its range as it is at one instant.         *)
Retrieve(p, c) ==
    LET hit == {k \in Keys : InRange(c, k) /\ map[k] # NoVal} IN
    /\ c.op = "retrieve"
    /\ Finish(p, Returned(IF hit = {} THEN "false" ELSE "true", {<<k, map[k]>> : k \in hit}))
    /\ UNCHANGED map

Throw(p, c) ==
    /\ c.op = "insert"
    /\ Finish(p, Returned("throw", {}))
    /\ UNCHANGED map

Complete(p) ==
    /\ pend[p] \in Calls
    /\ LET c == pend[p] IN
         Erase(p, c) \/ Insert(p, c) \/ Update(p, c) \/ Retrieve(p, c) \/ Throw(p, c)

Die(p) ==
    /\ pend' = [pend EXCEPT ![p] = Dead]
    /\ UNCHANGED result
    /\ \/ UNCHANGED map
       \/ /\ pend[p].op = "update"
          /\ map' = [map EXCEPT ![pend[p].key] = NoVal]

Next == \E p \in Procs : Call(p) \/ Complete(p) \/ Die(p)

Spec == Init /\ [][Next]_mapVars
==============================================================================
