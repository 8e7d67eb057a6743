--------------------------- MODULE HttpServerProofs ---------------------------
(***************************************************************************)
(* Proofs about HttpServer for any threads and connections: until it is    *)
(* asked to stop, its handlers run on connections that exist, and no       *)
(* connection stays in the manager's set for ever.                         *)
(***************************************************************************)
EXTENDS HttpServer, TLAPS

(* The sentinel is no connection and no thread.                            *)
NoneApart == NoConn \notin Conns /\ NoConn \notin Threads

(* Where a thread holds a connection.                                      *)
Using == {"accepted", "starting", "handling", "stopping"}
Stopping == \E t \in Threads : at[t] \in {"walking", "clearing"}

Bound == \A t \in Threads : conn[t] # NoConn <=> at[t] \in Using

(* One party at most is concerned with a connection: a thread that holds   *)
(* it, or the operation that is outstanding for it.                        *)
OneParty ==
  \A c \in Conns :
    /\ \A t, u \in Threads : conn[t] = c /\ conn[u] = c => t = u
    /\ op[c] # "none" => \A t \in Threads : conn[t] # c

(* A connection that was not made is nobody's concern.                     *)
Unmade == \A c \in Conns \ used : op[c] = "none" /\ \A t \in Threads : conn[t] # c

(* Only an operation has an outcome.                                       *)
NoOutcome == \A c \in Conns : op[c] = "none" => outcome[c] = "no"

StoppingBySignal == Stopping => signal = "handled"

(* Until the signal, what is under way for a connection is in the set.     *)
Managed ==
  signal # "handled" =>
    /\ ~corrupt
    /\ \A c \in Conns : op[c] # "none" => c \in connections
    /\ \A t \in Threads : at[t] \in {"starting", "handling"} => conn[t] \in connections

(* Only stop_all aborts an operation of a connection in the set.           *)
AbortedByStop ==
  raced \/ Stopping \/ \A c \in connections : outcome[c] # "aborted"

Agents == Bound /\ OneParty /\ Unmade

(* The inductive invariant.                                                *)
IInv ==
  /\ NoneApart
  /\ TypeOK
  /\ Agents
  /\ NoOutcome
  /\ StoppingBySignal
  /\ Managed
  /\ AbortedByStop
  /\ NothingForgotten

-----------------------------------------------------------------------------
LEMMA InitIInv == NoneApart /\ Init => IInv
<1> SUFFICES ASSUME NoneApart, Init PROVE IInv
  OBVIOUS
<1>1. TypeOK
  BY DEF Init, TypeOK, Where, Idle
<1>2. Agents
  BY DEF Init, NoneApart, Agents, Bound, OneParty, Unmade, Using
<1>3. NoOutcome /\ StoppingBySignal /\ Managed /\ AbortedByStop /\ NothingForgotten
  BY DEF Init, NoOutcome, StoppingBySignal, Stopping, Managed, AbortedByStop, NothingForgotten
<1>4. QED
  BY <1>1, <1>2, <1>3 DEF IInv

LEMMA TypeStep ==
  ASSUME IInv, [Next]_vars
  PROVE  TypeOK'
<1> USE DEF IInv
<1>1. CASE UNCHANGED vars
  BY <1>1 DEF vars, TypeOK
<1>2. CASE Connect \/ Raise
  BY <1>2 DEF Connect, Raise, conVars, TypeOK
<1>3. ASSUME NEW c \in Conns, Complete(c)
      PROVE  TypeOK'
  BY <1>3 DEF Complete, TypeOK
<1>4. ASSUME NEW t \in Threads, conn[t] \in Conns,
             Start(t) \/ Started(t) \/ Handled(t) \/ Stop(t)
      PROVE  TypeOK'
  BY <1>4 DEF Start, Started, Handled, Stop, Begin, Close, GoTo, conVars, TypeOK, Where, Idle,
              Agents, Unmade
<1>5. ASSUME NEW t \in Threads, Start(t) \/ Started(t) \/ Handled(t) \/ Stop(t)
      PROVE  conn[t] \in Conns
  BY <1>5 DEF Start, Started, Handled, Stop, TypeOK, Agents, Bound, Using
<1>6. ASSUME NEW t \in Threads, NEW c \in Conns, Aborted(t, c) \/ Handle(t, c) \/ Failed(t, c)
      PROVE  TypeOK'
  BY <1>6 DEF Aborted, Handle, Failed, Take, GoTo, TypeOK, Where, Idle
<1>7. ASSUME NEW t \in Threads, Accepted(t)
      PROVE  TypeOK'
  BY <1>7 DEF Accepted, conVars, TypeOK, Where, Idle
<1>8. ASSUME NEW t \in Threads,
             AcceptAgain(t) \/ Signalled(t) \/ WalkEnd(t) \/ Clear(t) \/ Return(t)
      PROVE  TypeOK'
  BY <1>8 DEF AcceptAgain, Signalled, WalkEnd, Clear, Return, conVars, TypeOK, Where, Idle
<1>9. ASSUME NEW t \in Threads, Walk(t)
      PROVE  TypeOK'
  BY <1>9 DEF Walk, Close, TypeOK
<1>10. QED
  BY <1>1, <1>2, <1>3, <1>4, <1>5, <1>6, <1>7, <1>8, <1>9 DEF Next, Run

-----------------------------------------------------------------------------
(* Who is concerned with a connection: the steps that hand it over.        *)
LEMMA AgentsKept ==
  ASSUME IInv, UNCHANGED <<conn, op>>, used' = used,
         \A t \in Threads : at'[t] \in Using <=> at[t] \in Using
  PROVE  Agents'
BY DEF IInv, Agents, Bound, OneParty, Unmade

(* A thread lets go of its connection and begins an operation, or none.    *)
LEMMA AgentsLetGo ==
  ASSUME IInv, NEW t \in Threads, NEW c \in Conns, conn[t] = c,
         conn' = [conn EXCEPT ![t] = NoConn], used' = used,
         NEW place, place \notin Using, at' = [at EXCEPT ![t] = place],
         NEW kind, op' = [op EXCEPT ![c] = kind]
  PROVE  Agents'
<1> USE DEF IInv
<1>1. /\ \A u \in Threads : conn'[u] = IF u = t THEN NoConn ELSE conn[u]
      /\ \A u \in Threads : at'[u] = IF u = t THEN place ELSE at[u]
      /\ \A d \in Conns : op'[d] = IF d = c THEN kind ELSE op[d]
      /\ NoConn \notin Conns
  BY DEF TypeOK, NoneApart
<1>2. Bound'
  BY <1>1 DEF Agents, Bound
<1>3. OneParty'
  BY <1>1 DEF Agents, OneParty
<1>4. Unmade'
  BY <1>1 DEF Agents, Unmade
<1>5. QED
  BY <1>2, <1>3, <1>4 DEF Agents

(* A thread takes up a connection nobody is concerned with any more.       *)
LEMMA AgentsTakeUp ==
  ASSUME IInv, NEW t \in Threads, conn[t] = NoConn, NEW c \in Conns,
         \A u \in Threads : conn[u] # c, c \in used', used \subseteq used',
         conn' = [conn EXCEPT ![t] = c],
         NEW place \in Using, at' = [at EXCEPT ![t] = place],
         op' = [op EXCEPT ![c] = "none"]
  PROVE  Agents'
<1> USE DEF IInv
<1>1. /\ \A u \in Threads : conn'[u] = IF u = t THEN c ELSE conn[u]
      /\ \A u \in Threads : at'[u] = IF u = t THEN place ELSE at[u]
      /\ \A d \in Conns : op'[d] = IF d = c THEN "none" ELSE op[d]
      /\ NoConn \notin Conns
  BY DEF TypeOK, NoneApart
<1>2. Bound'
  BY <1>1 DEF Agents, Bound
<1>3. OneParty'
  BY <1>1 DEF Agents, OneParty
<1>4. Unmade'
  BY <1>1 DEF Agents, Unmade
<1>5. QED
  BY <1>2, <1>3, <1>4 DEF Agents

(* A thread that is idle holds no connection, one that is at work holds    *)
(* one.                                                                    *)
LEMMA HoldsWhat ==
  ASSUME IInv, NEW t \in Threads
  PROVE  /\ at[t] \in Using => /\ conn[t] \in Conns /\ conn[t] \in used
                               /\ op[conn[t]] = "none" /\ outcome[conn[t]] = "no"
                               /\ \A u \in Threads : conn[u] = conn[t] => u = t
         /\ at[t] \notin Using => conn[t] = NoConn
         /\ op = [c \in Conns |-> op[c]]
<1> USE DEF IInv
<1>1. conn[t] \in Conns \cup {NoConn} /\ op = [c \in Conns |-> op[c]]
  BY DEF TypeOK
<1>2. conn[t] # NoConn <=> at[t] \in Using
  BY DEF Agents, Bound
<1>3. ASSUME conn[t] \in Conns
      PROVE  /\ conn[t] \in used /\ op[conn[t]] = "none" /\ outcome[conn[t]] = "no"
             /\ \A u \in Threads : conn[u] = conn[t] => u = t
  BY <1>3 DEF Agents, OneParty, Unmade, NoOutcome
<1>4. QED
  BY <1>1, <1>2, <1>3

LEMMA AgentsStep ==
  ASSUME IInv, [Next]_vars
  PROVE  Agents'
<1>0. /\ at \in [Threads -> Where] /\ op \in [Conns -> {"none", "read", "write"}]
      /\ \A t \in Threads : at[t] = "idle" => at[t] \notin Using
  BY DEF IInv, TypeOK, Using
<1>1. CASE UNCHANGED vars
  BY <1>1, AgentsKept DEF vars
<1>2. CASE Connect \/ Raise \/ \E c \in Conns : Complete(c)
  <2>1. UNCHANGED <<conn, op, at, used>>
    BY <1>2 DEF Connect, Raise, Complete, conVars
  <2>2. QED
    BY <2>1, AgentsKept
<1>3. ASSUME NEW t \in Threads, \/ Start(t) \/ AcceptAgain(t) \/ Signalled(t) \/ Walk(t)
                                \/ WalkEnd(t) \/ Clear(t) \/ Return(t)
      PROVE  Agents'
  <2>1. UNCHANGED <<conn, op, used>>
    BY <1>3 DEF Start, AcceptAgain, Signalled, Walk, Close, WalkEnd, Clear, Return, conVars
  <2>2. \/ UNCHANGED at
        \/ at[t] = "accepted" /\ at' = [at EXCEPT ![t] = "starting"]
        \/ at[t] \notin Using /\ \E place \in {"idle", "walking", "clearing", "returned"} :
                                   at' = [at EXCEPT ![t] = place]
    BY <1>3 DEF Start, AcceptAgain, Signalled, Walk, WalkEnd, Clear, Return, Using
  <2>3. \A u \in Threads : at'[u] \in Using <=> at[u] \in Using
    BY <1>0, <2>2 DEF Using
  <2>4. QED
    BY <2>1, <2>3, AgentsKept
<1>4. ASSUME NEW t \in Threads, Accepted(t)
      PROVE  Agents'
  <2>1. PICK c \in Conns \ used : used' = used \cup {c} /\ conn' = [conn EXCEPT ![t] = c]
    BY <1>4 DEF Accepted
  <2>2. op[c] = "none" /\ (\A u \in Threads : conn[u] # c) /\ op' = op
    BY <1>4, <2>1 DEF Accepted, conVars, IInv, Agents, Unmade
  <2>3. op' = [op EXCEPT ![c] = "none"]
    BY <1>0, <2>2
  <2>4. at[t] = "idle" /\ at' = [at EXCEPT ![t] = "accepted"] /\ conn[t] = NoConn
    BY <1>0, <1>4, HoldsWhat DEF Accepted
  <2>5. QED
    BY <2>1, <2>2, <2>3, <2>4, AgentsTakeUp DEF Using
<1>5. ASSUME NEW t \in Threads, Started(t) \/ Handled(t)
      PROVE  Agents'
  <2>1. at[t] \in Using /\ conn' = [conn EXCEPT ![t] = NoConn] /\ used' = used
    BY <1>5 DEF Started, Handled, GoTo, Using
  <2>2. PICK place \in {"again", "idle"} : at' = [at EXCEPT ![t] = place]
    BY <1>5 DEF Started, Handled, GoTo
  <2>3. PICK kind : op' = [op EXCEPT ![conn[t]] = kind]
    BY <1>5 DEF Started, Handled, Begin
  <2>4. conn[t] \in Conns /\ place \notin Using
    BY <2>1, HoldsWhat DEF Using
  <2>5. QED
    BY <2>1, <2>2, <2>3, <2>4, AgentsLetGo
<1>6. ASSUME NEW t \in Threads, Stop(t)
      PROVE  Agents'
  <2>1. /\ at[t] \in Using /\ conn' = [conn EXCEPT ![t] = NoConn] /\ used' = used
        /\ at' = [at EXCEPT ![t] = "idle"] /\ op' = op
    BY <1>6 DEF Stop, Close, GoTo, Using
  <2>2. conn[t] \in Conns /\ op[conn[t]] = "none"
    BY <2>1, HoldsWhat
  <2>3. op' = [op EXCEPT ![conn[t]] = "none"] /\ "idle" \notin Using
    BY <1>0, <2>1, <2>2 DEF Using
  <2>4. QED
    BY <2>1, <2>2, <2>3, AgentsLetGo
<1>7. ASSUME NEW t \in Threads, NEW c \in Conns, Aborted(t, c)
      PROVE  Agents'
  <2>1. UNCHANGED <<conn, at, used>> /\ op' = [op EXCEPT ![c] = "none"]
    BY <1>7 DEF Aborted, Take
  <2>2. \A d \in Conns : op'[d] # "none" => op[d] # "none"
    BY <1>0, <2>1
  <2>3. \A d \in Conns : op[d] = "none" => op'[d] = "none"
    BY <1>0, <2>1
  <2>4. QED
    BY <2>1, <2>2, <2>3 DEF IInv, Agents, Bound, OneParty, Unmade
<1>8. ASSUME NEW t \in Threads, NEW c \in Conns, Handle(t, c) \/ Failed(t, c)
      PROVE  Agents'
  <2>1. /\ at[t] = "idle" /\ op[c] # "none" /\ conn' = [conn EXCEPT ![t] = c]
        /\ used' = used /\ op' = [op EXCEPT ![c] = "none"]
        /\ \E place \in Using : at' = [at EXCEPT ![t] = place]
    BY <1>8 DEF Handle, Failed, Take, GoTo, Using
  <2>2. c \in used /\ \A u \in Threads : conn[u] # c
    BY <2>1 DEF IInv, Agents, OneParty, Unmade
  <2>3. conn[t] = NoConn
    BY <1>0, <2>1, HoldsWhat
  <2>4. QED
    BY <2>1, <2>2, <2>3, AgentsTakeUp
<1>9. QED
  BY <1>1, <1>2, <1>3, <1>4, <1>5, <1>6, <1>7, <1>8 DEF Next, Run

-----------------------------------------------------------------------------
(* What a step does to the operations of the connections: one completes, a *)
(* handler takes one, a thread begins one, a socket is closed.             *)
Completes(c) ==
  /\ op[c] # "none" /\ UNCHANGED op
  /\ \E r \in {"ok", "error"} : outcome' = [outcome EXCEPT ![c] = r]
Takes(c) ==
  /\ op[c] # "none" /\ op' = [op EXCEPT ![c] = "none"]
  /\ outcome' = [outcome EXCEPT ![c] = "no"]
Begins(c) ==
  \E kind \in {"read", "write"}, r \in {"no", "error"} :
     op' = [op EXCEPT ![c] = kind] /\ outcome' = [outcome EXCEPT ![c] = r]

LEMMA Operations ==
  ASSUME IInv, [Next]_vars
  PROVE  \/ UNCHANGED <<op, outcome>>
         \/ \E c \in Conns : Completes(c) \/ Takes(c) \/ Begins(c)
         \/ \E t \in Threads : Stop(t) \/ Walk(t)
<1>1. CASE UNCHANGED vars
  BY <1>1 DEF vars
<1>2. CASE Connect \/ Raise
  BY <1>2 DEF Connect, Raise, conVars
<1>3. ASSUME NEW c \in Conns, Complete(c)
      PROVE  Completes(c)
  BY <1>3 DEF Complete, Completes
<1>4. ASSUME NEW t \in Threads, \/ Accepted(t) \/ Start(t) \/ AcceptAgain(t) \/ Signalled(t)
                                \/ WalkEnd(t) \/ Clear(t) \/ Return(t)
      PROVE  UNCHANGED <<op, outcome>>
  BY <1>4 DEF Accepted, Start, AcceptAgain, Signalled, WalkEnd, Clear, Return, conVars
<1>5. ASSUME NEW t \in Threads, Started(t) \/ Handled(t)
      PROVE  \E c \in Conns : Begins(c)
  <2>1. conn[t] \in Conns
    BY <1>5, HoldsWhat DEF Started, Handled, Using
  <2>2. PICK kind \in {"read", "write"} : Begin(conn[t], kind)
    BY <1>5 DEF Started, Handled
  <2>3. Begins(conn[t])
    BY <2>2 DEF Begin, Begins
  <2>4. QED
    BY <2>1, <2>3
<1>6. ASSUME NEW t \in Threads, NEW c \in Conns, Aborted(t, c) \/ Handle(t, c) \/ Failed(t, c)
      PROVE  Takes(c)
  BY <1>6 DEF Aborted, Handle, Failed, Take, Takes
<1>7. QED
  BY <1>1, <1>2, <1>3, <1>4, <1>5, <1>6 DEF Next, Run

LEMMA NoOutcomeStep ==
  ASSUME IInv, [Next]_vars
  PROVE  NoOutcome'
<1> USE DEF IInv
<1>0. /\ op \in [Conns -> {"none", "read", "write"}]
      /\ outcome \in [Conns -> {"no", "ok", "error", "aborted"}]
  BY DEF TypeOK
<1>1. CASE UNCHANGED <<op, outcome>>
  BY <1>1 DEF NoOutcome
<1>2. ASSUME NEW c \in Conns, Completes(c) \/ Takes(c) \/ Begins(c)
      PROVE  NoOutcome'
  BY <1>0, <1>2 DEF NoOutcome, Completes, Takes, Begins
<1>3. ASSUME NEW t \in Threads, Stop(t) \/ Walk(t)
      PROVE  NoOutcome'
  <2>1. \E c \in Conns \cup {conn[t]} : Close(c)
    BY <1>3 DEF Stop, Walk, TypeOK
  <2>2. QED
    BY <1>0, <2>1 DEF NoOutcome, Close
<1>4. QED
  BY <1>1, <1>2, <1>3, Operations

(* Threads stop the connections from the signal until they are cleared.    *)
LEMMA StoppingStep ==
  ASSUME IInv, [Next]_vars
  PROVE  /\ StoppingBySignal'
         /\ Stopping => Stopping' \/ connections' = {}
         /\ signal = "handled" => signal' = "handled"
         /\ raced => raced'
<1> USE DEF IInv
<1>0. at \in [Threads -> Where] /\ \A t \in Threads : at = [at EXCEPT ![t] = at[t]]
  BY DEF TypeOK
<1>1. signal = "handled" => signal' = "handled"
  BY DEF Next, Run, vars, Connect, Raise, Complete, Accepted, Start, Started, AcceptAgain,
         Aborted, Handle, Failed, Handled, Stop, Signalled, Walk, WalkEnd, Clear, Return
<1>2. raced => raced'
  BY DEF Next, Run, vars, Connect, Raise, Complete, Accepted, Start, Started, AcceptAgain,
         Aborted, Handle, Failed, Handled, Stop, Signalled, Walk, WalkEnd, Clear, Return
<1>3. \/ UNCHANGED at
      \/ \E t \in Threads :
           \/ at[t] \notin {"walking", "clearing"}
              /\ \E place \in Where \ {"walking", "clearing"} : at' = [at EXCEPT ![t] = place]
           \/ signal' = "handled" /\ at[t] = "idle" /\ at' = [at EXCEPT ![t] = "walking"]
           \/ at[t] = "walking" /\ at' = [at EXCEPT ![t] = "clearing"]
           \/ at[t] = "clearing" /\ connections' = {} /\ at' = [at EXCEPT ![t] = "idle"]
  <2>1. CASE UNCHANGED vars \/ Connect \/ Raise \/ \E c \in Conns : Complete(c)
    BY <2>1 DEF vars, Connect, Raise, Complete
  <2>2. ASSUME NEW t \in Threads, \/ Accepted(t) \/ Start(t) \/ Started(t) \/ AcceptAgain(t)
                                  \/ Handled(t) \/ Stop(t) \/ Return(t)
        PROVE  /\ at[t] \notin {"walking", "clearing"}
               /\ \E place \in Where \ {"walking", "clearing"} : at' = [at EXCEPT ![t] = place]
    BY <2>2 DEF Accepted, Start, Started, AcceptAgain, Handled, Stop, GoTo, Return, Where, Idle
  <2>3. ASSUME NEW t \in Threads, NEW c \in Conns, Handle(t, c) \/ Failed(t, c)
        PROVE  /\ at[t] \notin {"walking", "clearing"}
               /\ \E place \in Where \ {"walking", "clearing"} : at' = [at EXCEPT ![t] = place]
    BY <2>3 DEF Handle, Failed, Take, GoTo, Where, Idle
  <2>4. ASSUME NEW t \in Threads, Walk(t) \/ \E c \in Conns : Aborted(t, c)
        PROVE  UNCHANGED at
    BY <2>4 DEF Walk, Aborted
  <2>5. ASSUME NEW t \in Threads, Signalled(t)
        PROVE  signal' = "handled" /\ at[t] = "idle" /\ at' = [at EXCEPT ![t] = "walking"]
    BY <2>5 DEF Signalled
  <2>6. ASSUME NEW t \in Threads, WalkEnd(t)
        PROVE  at[t] = "walking" /\ at' = [at EXCEPT ![t] = "clearing"]
    BY <2>6 DEF WalkEnd
  <2>7. ASSUME NEW t \in Threads, Clear(t)
        PROVE  at[t] = "clearing" /\ connections' = {} /\ at' = [at EXCEPT ![t] = "idle"]
    BY <2>7 DEF Clear
  <2>8. QED
    BY <2>1, <2>2, <2>3, <2>4, <2>5, <2>6, <2>7 DEF Next, Run
<1>4. StoppingBySignal'
  BY <1>0, <1>1, <1>3 DEF StoppingBySignal, Stopping
<1>5. Stopping => Stopping' \/ connections' = {}
  BY <1>0, <1>3 DEF Stopping
<1>6. QED
  BY <1>1, <1>2, <1>4, <1>5

-----------------------------------------------------------------------------
LEMMA ManagedStep ==
  ASSUME IInv, [Next]_vars
  PROVE  Managed'
<1> USE DEF IInv
<1> SUFFICES ASSUME signal' # "handled" PROVE Managed'
  BY DEF Managed
<1>0. /\ signal # "handled" /\ ~corrupt /\ ~Stopping
      /\ \A c \in Conns : op[c] # "none" => c \in connections
      /\ \A t \in Threads : at[t] \in {"starting", "handling"} => conn[t] \in connections
  BY StoppingStep DEF Managed, StoppingBySignal
<1>1. /\ at \in [Threads -> Where] /\ conn \in [Threads -> Conns \cup {NoConn}]
      /\ op \in [Conns -> {"none", "read", "write"}]
  BY DEF TypeOK
<1>2. CASE UNCHANGED vars \/ Connect \/ Raise \/ \E c \in Conns : Complete(c)
  <2>1. UNCHANGED <<connections, op, at, conn, corrupt>>
    BY <1>2 DEF vars, Connect, Raise, Complete, conVars
  <2>2. QED
    BY <1>0, <2>1 DEF Managed
<1>3. ASSUME NEW t \in Threads, Accepted(t) \/ AcceptAgain(t) \/ Return(t)
      PROVE  Managed'
  <2>1. UNCHANGED <<connections, op, corrupt>>
    BY <1>3 DEF Accepted, AcceptAgain, Return, conVars
  <2>2. /\ \E place \in {"accepted", "idle", "returned"} : at' = [at EXCEPT ![t] = place]
        /\ \A u \in Threads : u # t => conn'[u] = conn[u]
    BY <1>1, <1>3 DEF Accepted, AcceptAgain, Return
  <2>3. QED
    BY <1>0, <1>1, <2>1, <2>2 DEF Managed
<1>4. ASSUME NEW t \in Threads, Start(t)
      PROVE  Managed'
  <2>1. /\ connections' = connections \cup {conn[t]} /\ UNCHANGED <<op, conn, corrupt>>
        /\ at' = [at EXCEPT ![t] = "starting"]
    BY <1>4 DEF Start, conVars
  <2>2. QED
    BY <1>0, <1>1, <2>1 DEF Managed
<1>5. ASSUME NEW t \in Threads, Started(t) \/ Handled(t)
      PROVE  Managed'
  <2>1. /\ conn[t] \in Conns /\ conn[t] \in connections /\ UNCHANGED connections
        /\ \A c \in Conns : c # conn[t] => op'[c] = op[c]
    <3>1. at[t] \in {"starting", "handling"} /\ UNCHANGED connections
      BY <1>5 DEF Started, Handled
    <3>2. \E kind : op' = [op EXCEPT ![conn[t]] = kind]
      BY <1>5 DEF Started, Handled, Begin
    <3>3. QED
      BY <1>0, <1>1, <3>1, <3>2, HoldsWhat DEF Using
  <2>2. ~corrupt'
    <3>1. Alive(conn[t])
      BY <2>1 DEF Alive
    <3>2. corrupt' = corrupt \/ corrupt' = (corrupt \/ ~Alive(conn[t]))
      BY <1>5 DEF Started, Handled
    <3>3. QED
      BY <1>0, <3>1, <3>2
  <2>3. /\ \E place \in {"again", "idle"} : at' = [at EXCEPT ![t] = place]
        /\ \A u \in Threads : u # t => conn'[u] = conn[u]
    BY <1>1, <1>5 DEF Started, Handled, GoTo
  <2>4. QED
    BY <1>0, <1>1, <2>1, <2>2, <2>3 DEF Managed
<1>6. ASSUME NEW t \in Threads, NEW c \in Conns, Aborted(t, c)
      PROVE  Managed'
  <2>1. UNCHANGED <<connections, at, conn, corrupt>> /\ op' = [op EXCEPT ![c] = "none"]
    BY <1>6 DEF Aborted, Take
  <2>2. QED
    BY <1>0, <1>1, <2>1 DEF Managed
<1>7. ASSUME NEW t \in Threads, NEW c \in Conns, Handle(t, c) \/ Failed(t, c)
      PROVE  Managed'
  <2>1. /\ op[c] # "none" /\ op' = [op EXCEPT ![c] = "none"] /\ UNCHANGED connections
        /\ conn' = [conn EXCEPT ![t] = c]
        /\ \E place \in Where : at' = [at EXCEPT ![t] = place]
        /\ corrupt' = (corrupt \/ ~Alive(c))
    BY <1>7 DEF Handle, Failed, Take, GoTo, Where
  <2>2. c \in connections
    BY <1>0, <2>1
  <2>3. ~corrupt'
    BY <1>0, <2>1, <2>2 DEF Alive
  <2>4. QED
    BY <1>0, <1>1, <2>1, <2>2, <2>3 DEF Managed
<1>8. ASSUME NEW t \in Threads, Stop(t)
      PROVE  Managed'
  <2>1. /\ at[t] = "stopping" /\ connections' = connections \ {conn[t]}
        /\ UNCHANGED <<op, corrupt>>
        /\ conn' = [conn EXCEPT ![t] = NoConn] /\ at' = [at EXCEPT ![t] = "idle"]
    BY <1>8 DEF Stop, Close, GoTo
  <2>2. op[conn[t]] = "none" /\ \A u \in Threads : conn[u] = conn[t] => u = t
    BY <2>1, HoldsWhat DEF Using
  <2>3. QED
    BY <1>0, <1>1, <2>1, <2>2 DEF Managed
<1>9. ASSUME NEW t \in Threads, Signalled(t) \/ Walk(t) \/ WalkEnd(t) \/ Clear(t)
      PROVE  Managed'
  <2>1. signal' = "handled" \/ Stopping
    BY <1>9 DEF Signalled, Walk, WalkEnd, Clear, Stopping
  <2>2. QED
    BY <1>0, <2>1
<1>10. QED
  BY <1>2, <1>3, <1>4, <1>5, <1>6, <1>7, <1>8, <1>9 DEF Next, Run

-----------------------------------------------------------------------------
(* What a step does to the set, while no thread walks or clears it.        *)
LEMMA SetStep ==
  ASSUME IInv, [Next]_vars, ~Stopping
  PROVE  \/ UNCHANGED connections /\ ~\E t \in Threads : Stop(t) \/ Start(t)
         \/ \E t \in Threads : Start(t) /\ connections' = connections \cup {conn[t]}
         \/ \E t \in Threads : Stop(t) /\ connections' = connections \ {conn[t]}
<1>1. \A t \in Threads : ~Walk(t) /\ ~WalkEnd(t) /\ ~Clear(t)
  BY DEF Walk, WalkEnd, Clear, Stopping
<1>2. CASE \E t \in Threads : Stop(t) \/ Start(t)
  BY <1>2 DEF Stop, Start
<1>3. CASE ~\E t \in Threads : Stop(t) \/ Start(t)
  BY <1>1, <1>3 DEF Next, Run, vars, Connect, Raise, Complete, Accepted, Started, AcceptAgain,
                    Aborted, Handle, Failed, Handled, Signalled, Return
<1>4. QED
  BY <1>2, <1>3

LEMMA AbortedByStopStep ==
  ASSUME IInv, [Next]_vars
  PROVE  AbortedByStop'
<1> USE DEF IInv
<1> SUFFICES ASSUME ~raced', ~Stopping', connections' # {} PROVE AbortedByStop'
  BY DEF AbortedByStop
<1>0. ~raced /\ ~Stopping /\ \A c \in connections : outcome[c] # "aborted"
  BY StoppingStep DEF AbortedByStop
<1>1. /\ connections \subseteq Conns
      /\ op \in [Conns -> {"none", "read", "write"}]
      /\ outcome \in [Conns -> {"no", "ok", "error", "aborted"}]
  BY DEF TypeOK
<1>2. CASE \E t \in Threads : Stop(t)
  <2>1. PICK t \in Threads : Stop(t)
    BY <1>2
  <2>2. connections' = connections \ {conn[t]} /\ Close(conn[t])
    BY <2>1 DEF Stop
  <2>3. \A c \in connections' : c \in connections /\ outcome'[c] = outcome[c]
    BY <1>1, <2>2 DEF Close
  <2>4. QED
    BY <1>0, <2>3 DEF AbortedByStop
<1>3. CASE \E t \in Threads : Start(t)
  <2>1. PICK t \in Threads : Start(t)
    BY <1>3
  <2>2. connections' = connections \cup {conn[t]} /\ outcome' = outcome /\ at[t] \in Using
    BY <2>1 DEF Start, conVars, Using
  <2>3. outcome[conn[t]] = "no"
    BY <2>2, HoldsWhat
  <2>4. QED
    BY <1>0, <2>2, <2>3 DEF AbortedByStop
<1>4. CASE ~\E t \in Threads : Stop(t) \/ Start(t)
  <2>1. UNCHANGED connections
    BY <1>0, <1>4, SetStep
  <2>2. \A c \in connections : outcome'[c] # "aborted"
    <3>1. ASSUME NEW c \in Conns, Completes(c) \/ Takes(c) \/ Begins(c)
          PROVE  \A d \in connections : outcome'[d] # "aborted"
      BY <1>0, <1>1, <3>1 DEF Completes, Takes, Begins
    <3>2. \A t \in Threads : ~Walk(t)
      BY <1>0 DEF Walk, Stopping
    <3>3. UNCHANGED outcome \/ \E c \in Conns : Completes(c) \/ Takes(c) \/ Begins(c)
      BY <1>4, <3>2, Operations
    <3>4. QED
      BY <1>0, <3>1, <3>3
  <2>3. QED
    BY <2>1, <2>2 DEF AbortedByStop
<1>5. QED
  BY <1>2, <1>3, <1>4

(* What a connection in the set waits for is only handed on: an operation   *)
(* to the thread that handles it, a thread's to the operation it begins.    *)
LEMMA NothingForgottenStep ==
  ASSUME IInv, [Next]_vars
  PROVE  NothingForgotten'
<1> USE DEF IInv
<1> SUFFICES ASSUME ~raced', ~Stopping', NEW c \in connections',
                    op'[c] = "none", \A t \in Threads : conn'[t] # c
             PROVE  FALSE
  BY DEF NothingForgotten, Stopping
<1>0. /\ ~raced /\ ~Stopping
      /\ \A d \in connections : op[d] # "none" \/ \E t \in Threads : conn[t] = d
      /\ \A d \in connections : outcome[d] # "aborted"
  BY StoppingStep DEF NothingForgotten, AbortedByStop, Stopping
<1>1. /\ connections \subseteq Conns
      /\ op \in [Conns -> {"none", "read", "write"}]
      /\ conn \in [Threads -> Conns \cup {NoConn}]
  BY DEF TypeOK
<1>2. ASSUME NEW t \in Threads, Start(t), connections' = connections \cup {conn[t]}
      PROVE  FALSE
  <2>1. op' = op /\ conn' = conn
    BY <1>2 DEF Start, conVars
  <2>2. QED
    BY <1>0, <1>2, <2>1
<1>3. ASSUME NEW t \in Threads, Stop(t), connections' = connections \ {conn[t]}
      PROVE  FALSE
  <2>1. op' = op /\ conn' = [conn EXCEPT ![t] = NoConn]
    BY <1>3 DEF Stop, Close, GoTo
  <2>2. c \in connections /\ c # conn[t] /\ \A u \in Threads : u # t => conn'[u] = conn[u]
    BY <1>1, <1>3, <2>1
  <2>3. QED
    BY <1>0, <2>1, <2>2
<1>4. CASE UNCHANGED connections /\ ~\E t \in Threads : Stop(t) \/ Start(t)
  <2>0. c \in connections /\ c \in Conns
    BY <1>1, <1>4
  <2>1. CASE UNCHANGED vars \/ Connect \/ Raise \/ \E d \in Conns : Complete(d)
    <3>1. UNCHANGED <<op, conn>>
      BY <2>1 DEF vars, Connect, Raise, Complete, conVars
    <3>2. QED
      BY <1>0, <2>0, <3>1
  <2>2. ASSUME NEW t \in Threads, \/ AcceptAgain(t) \/ Signalled(t) \/ WalkEnd(t) \/ Clear(t)
                                  \/ Return(t) \/ Walk(t)
        PROVE  FALSE
    <3>1. UNCHANGED <<op, conn>>
      BY <2>2 DEF AcceptAgain, Signalled, WalkEnd, Clear, Return, Walk, Close, conVars
    <3>2. QED
      BY <1>0, <2>0, <3>1
  <2>3. ASSUME NEW t \in Threads, Accepted(t)
        PROVE  FALSE
    <3>1. conn[t] = NoConn /\ op' = op
      BY <2>3, HoldsWhat DEF Accepted, conVars, Using
    <3>2. \A u \in Threads : u # t => conn'[u] = conn[u]
      BY <1>1, <2>3 DEF Accepted
    <3>3. QED
      BY <1>0, <2>0, <3>1, <3>2 DEF NoneApart
  <2>4. ASSUME NEW t \in Threads, Started(t) \/ Handled(t)
        PROVE  FALSE
    <3>1. PICK kind \in {"read", "write"} : op' = [op EXCEPT ![conn[t]] = kind]
      BY <2>4 DEF Started, Handled, Begin
    <3>2. c # conn[t] /\ op'[c] = op[c]
      BY <1>1, <2>0, <3>1
    <3>3. \A u \in Threads : u # t => conn'[u] = conn[u]
      BY <1>1, <2>4 DEF Started, Handled, GoTo
    <3>4. QED
      BY <1>0, <2>0, <3>2, <3>3
  <2>5. ASSUME NEW t \in Threads, NEW d \in Conns, Aborted(t, d)
        PROVE  FALSE
    <3>1. outcome[d] = "aborted" /\ op' = [op EXCEPT ![d] = "none"] /\ conn' = conn
      BY <2>5 DEF Aborted, Take
    <3>2. c # d
      BY <1>0, <2>0, <3>1
    <3>3. QED
      BY <1>0, <1>1, <2>0, <3>1, <3>2
  <2>6. ASSUME NEW t \in Threads, NEW d \in Conns, Handle(t, d) \/ Failed(t, d)
        PROVE  FALSE
    <3>1. /\ at[t] = "idle" /\ op' = [op EXCEPT ![d] = "none"]
          /\ conn' = [conn EXCEPT ![t] = d]
      BY <2>6 DEF Handle, Failed, Take, GoTo
    <3>2. c # d /\ conn[t] = NoConn
      BY <1>1, <3>1, HoldsWhat DEF Using
    <3>3. op'[c] = op[c] /\ \A u \in Threads : u # t => conn'[u] = conn[u]
      BY <1>1, <2>0, <3>1, <3>2
    <3>4. QED
      BY <1>0, <2>0, <3>2, <3>3 DEF NoneApart
  <2>7. QED
    BY <1>4, <2>1, <2>2, <2>3, <2>4, <2>5, <2>6 DEF Next, Run
<1>5. QED
  BY <1>0, <1>2, <1>3, <1>4, SetStep

-----------------------------------------------------------------------------
LEMMA NextIInv == IInv /\ [Next]_vars => IInv'
<1> SUFFICES ASSUME IInv, [Next]_vars PROVE IInv'
  OBVIOUS
<1>1. NoneApart'
  BY DEF IInv, NoneApart
<1>2. TypeOK' /\ Agents'
  BY TypeStep, AgentsStep
<1>3. NoOutcome' /\ StoppingBySignal' /\ Managed'
  BY NoOutcomeStep, StoppingStep, ManagedStep
<1>4. AbortedByStop' /\ NothingForgotten'
  BY AbortedByStopStep, NothingForgottenStep
<1>5. QED
  BY <1>1, <1>2, <1>3, <1>4 DEF IInv

LEMMA Invariance == NoneApart /\ Spec => []IInv
<1>1. QED
  BY InitIInv, NextIInv, PTL DEF Spec

(* Sets and connections are what they should be whatever the threads do.   *)
THEOREM TypeCorrect == NoneApart /\ Spec => []TypeOK
<1>1. IInv => TypeOK
  BY DEF IInv
<1>2. QED
  BY <1>1, Invariance, PTL

(* Until it is asked to stop, a server of any number of threads runs every *)
(* handler on a connection that exists, although the handlers of           *)
(* connection.hpp and persistent_connection.hpp do not keep it alive.      *)
THEOREM ServesTheorem == NoneApart /\ Spec => []ServesLiveConnections
<1>1. IInv => ServesLiveConnections
  BY DEF IInv, Managed, ServesLiveConnections, Alive
<1>2. QED
  BY <1>1, Invariance, PTL

(* Nothing stays in the manager's set that no operation, and no thread,    *)
(* will take out of it (connection_manager::stop, stop_all).               *)
THEOREM NothingForgottenTheorem == NoneApart /\ Spec => []NothingForgotten
<1>1. IInv => NothingForgotten
  BY DEF IInv
<1>2. QED
  BY <1>1, Invariance, PTL
===============================================================================
