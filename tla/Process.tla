-------------------------------- MODULE Process --------------------------------
(* rtb/core/process.hpp: a parent that forks children, hands values to them     *)
(* over pipes, and waits for them.  Its errors are objects that are made and    *)
(* not thrown: a fork that fails leaves -1 among the children.                  *)
EXTENDS Integers, Sequences, FiniteSets

CONSTANTS
    MaxForks,   \* BOUND: forks the parent tries
    NValues,    \* the values 1 .. NValues are distributed
    Pipes       \* TRUE for spawn_exec and distribute, FALSE for spawn

ProcessBounds == MaxForks \in Nat \ {0} /\ Pipes \in BOOLEAN /\ NValues \in Nat

FAILED == -1
Pid == 1 .. MaxForks

VARIABLES
    forks,      \* forks so far, failed ones too; the child of fork n has pid n
    child,      \* per pid: "none", "running", "zombie" or "reaped"
    sub_procs,  \* sub_procs_
    holders,    \* per pid: the processes that hold the write end of its pipe, 0 is the parent
    input,      \* per pid: what was written to its pipe
    given,      \* values distribute has written
    pipe,       \* distribute's n: the pipe that gets the next one
    waiting,    \* the intersection wait works down
    phase       \* of the parent: "forking", "distributing", "idle", "waiting", "dead"

vars == <<forks, child, sub_procs, holders, input, given, pipe, waiting, phase>>

TypeOK ==
    /\ forks \in 0 .. MaxForks
    /\ child \in [Pid -> {"none", "running", "zombie", "reaped"}]
    /\ sub_procs \subseteq Pid \cup {FAILED}
    /\ waiting \subseteq sub_procs
    /\ holders \in [Pid -> SUBSET (Pid \cup {0})]
    /\ given \in 0 .. NValues

Init ==
    /\ forks = 0
    /\ child = [p \in Pid |-> "none"]
    /\ sub_procs = {}
    /\ holders = [p \in Pid |-> {}]
    /\ input = [p \in Pid |-> <<>>]
    /\ given = 0
    /\ pipe = 1
    /\ waiting = {}
    /\ phase = "forking"

(* The pipes the parent has open for writing: a child inherits them all, and    *)
(* closes only the write end of its own.                                        *)
Inherited == {p \in Pid : 0 \in holders[p]}

(* Mutant of Fork: the child keeps the write end of its own pipe as well.       *)
ForkKeepsPipe ==
    /\ phase = "forking" /\ forks < MaxForks
    /\ LET pid == forks + 1 IN
       /\ forks' = pid
       /\ child' = [child EXCEPT ![pid] = "running"]
       /\ sub_procs' = sub_procs \cup {pid}
       /\ holders' = IF Pipes
                     THEN [p \in Pid |-> IF p = pid THEN {0, pid}
                                         ELSE IF p \in Inherited THEN holders[p] \cup {pid} ELSE holders[p]]
                     ELSE holders
    /\ UNCHANGED <<input, given, pipe, waiting, phase>>

(* One turn of the loop of spawn or spawn_exec.                                 *)
Fork ==
    /\ phase = "forking" /\ forks < MaxForks
    /\ LET pid == forks + 1 IN
       /\ forks' = pid
       /\ child' = [child EXCEPT ![pid] = "running"]
       /\ sub_procs' = sub_procs \cup {pid}
       /\ holders' = IF Pipes
                     THEN [p \in Pid |-> IF p = pid THEN {0}
                                         ELSE IF p \in Inherited THEN holders[p] \cup {pid} ELSE holders[p]]
                     ELSE holders
    /\ UNCHANGED <<input, given, pipe, waiting, phase>>

(* A second failure finds -1 among the children already, and the pipe that was  *)
(* made for it is closed.                                                       *)
ForkFailed ==
    /\ phase = "forking" /\ forks < MaxForks
    /\ forks' = forks + 1
    /\ sub_procs' = sub_procs \cup {FAILED}
    /\ holders' = IF Pipes /\ FAILED \notin sub_procs
                  THEN [holders EXCEPT ![forks + 1] = {0}] ELSE holders
    /\ UNCHANGED <<child, input, given, pipe, waiting, phase>>

Forked ==
    /\ phase = "forking" /\ forks > 0
    /\ phase' = IF Pipes THEN "distributing" ELSE "idle"
    /\ UNCHANGED <<forks, child, sub_procs, holders, input, given, pipe, waiting>>

(* Mutant of Turn: the first pipe is passed over after a round.                 *)
TurnSkips(n) == IF n >= forks THEN 2 ELSE n + 1

(* The pipe after n, round and round.                                           *)
Turn(n) == IF n >= forks THEN 1 ELSE n + 1

(* One write of distribute.  The pipe of a failed fork has no reader, and the   *)
(* signal its write raises ends the parent, which closes its pipes.             *)
Distribute ==
    /\ phase = "distributing" /\ given < NValues
    /\ child[pipe] # "none"
    /\ input' = [input EXCEPT ![pipe] = Append(@, given + 1)]
    /\ given' = given + 1
    /\ pipe' = Turn(pipe)
    /\ UNCHANGED <<forks, child, sub_procs, holders, waiting, phase>>

DistributeFails ==
    /\ phase = "distributing" /\ given < NValues
    /\ child[pipe] = "none"
    /\ holders' = [p \in Pid |-> holders[p] \ {0}]
    /\ phase' = "dead"
    /\ UNCHANGED <<forks, child, sub_procs, input, given, pipe, waiting>>

(* Its end: the parent closes every pipe.                                       *)
Distributed ==
    /\ phase = "distributing" /\ given = NValues
    /\ holders' = [p \in Pid |-> holders[p] \ {0}]
    /\ phase' = "idle"
    /\ UNCHANGED <<forks, child, sub_procs, input, given, pipe, waiting>>

(* wait, of any set of children.                                                *)
Wait ==
    /\ phase = "idle"
    /\ \E asked \in SUBSET sub_procs :
         /\ asked # {}
         /\ waiting' = asked
    /\ phase' = "waiting"
    /\ UNCHANGED <<forks, child, sub_procs, holders, input, given, pipe>>

(* Mutants of Reap: only the other set forgets the child; and one child stands  *)
(* for all the parent waits for.                                                *)
ReapOther(p) ==
    /\ phase = "waiting" /\ waiting # {}
    /\ child[p] = "zombie"
    /\ child' = [child EXCEPT ![p] = "reaped"]
    /\ sub_procs' = IF p \in waiting THEN sub_procs \ {p} ELSE sub_procs
    /\ UNCHANGED <<forks, holders, input, given, pipe, waiting, phase>>
ReapAny(p) ==
    /\ phase = "waiting" /\ waiting # {}
    /\ child[p] = "zombie"
    /\ child' = [child EXCEPT ![p] = "reaped"]
    /\ waiting' = {}
    /\ sub_procs' = sub_procs \ {p}
    /\ UNCHANGED <<forks, holders, input, given, pipe, phase>>

(* ::wait gives any child that has ended; with none left it fails, and the loop *)
(* goes round.                                                                  *)
Reap(p) ==
    /\ phase = "waiting" /\ waiting # {}
    /\ child[p] = "zombie"
    /\ child' = [child EXCEPT ![p] = "reaped"]
    /\ waiting' = waiting \ {p}
    /\ sub_procs' = IF p \in waiting THEN sub_procs \ {p} ELSE sub_procs
    /\ UNCHANGED <<forks, holders, input, given, pipe, phase>>

WaitReturns ==
    /\ phase = "waiting" /\ waiting = {}
    /\ phase' = "idle"
    /\ UNCHANGED <<forks, child, sub_procs, holders, input, given, pipe, waiting>>

(* A child that reads its pipe ends at the end of its input, which comes once   *)
(* nobody holds the write end any more; then it closes what it holds.           *)
End(p) ==
    /\ child[p] = "running"
    /\ holders[p] = {}
    /\ child' = [child EXCEPT ![p] = "zombie"]
    /\ holders' = [q \in Pid |-> holders[q] \ {p}]
    /\ UNCHANGED <<forks, sub_procs, input, given, pipe, waiting, phase>>

Next ==
    \/ Fork \/ ForkFailed \/ Forked \/ Distribute \/ DistributeFails \/ Distributed
    \/ Wait \/ WaitReturns
    \/ \E p \in Pid : Reap(p) \/ End(p)

Spec == Init /\ [][Next]_vars

ParentGoesOn == Distribute \/ DistributeFails \/ Distributed \/ WaitReturns

(* The kernel wakes the parent and every child that can go on.                  *)
FairSpec ==
    /\ Spec
    /\ WF_vars(ParentGoesOn)
    /\ \A p \in Pid : WF_vars(Reap(p)) /\ WF_vars(End(p))

------------------------------------------------------------------------------
Unreaped == {p \in Pid : child[p] \in {"running", "zombie"}}

(* wait returns when it is asked for children that have not been reaped by an   *)
(* earlier wait for others, and for no fork that failed: the cases its loop     *)
(* never leaves are just these.                                                 *)
WaitEnds == (phase = "waiting" /\ waiting \subseteq Unreaped) ~> phase = "idle"

(* And in these it never returns: what it still waits for cannot come.          *)
WaitStuck == [][waiting \subseteq Unreaped \/ waiting' # {}]_vars

(* Once distribute has closed the pipes every child ends, last one first: the   *)
(* earlier a child was forked, the more of its successors hold its pipe open.   *)
ChildrenEnd == (phase \in {"idle", "dead"}) ~> \A p \in Pid : child[p] # "running"

(* Values are dealt to the children in turn and in order: value v goes to the   *)
(* child whose turn it is, and nothing is written twice.                        *)
DealtInTurn ==
    \A p \in 1 .. forks :
        LET dealt == {v \in 1 .. given : (v - 1) % forks = p - 1} IN
        /\ Len(input[p]) = Cardinality(dealt)
        /\ \A i \in 1 .. Len(input[p]) : input[p][i] = (i - 1) * forks + p
==============================================================================
