------------------------------ MODULE HttpServer ------------------------------
(* CRUD/service/server.hpp, connection_manager.hpp and the lifetime of the     *)
(* connections: several threads run the completion handlers of one io_service. *)
(* A handler of a connection captures only `this`, so a connection lives while *)
(* the manager's set, or a thread inside the manager, holds a pointer to it.   *)
EXTENDS Naturals, FiniteSets

CONSTANTS
    Threads,      \* the threads that call server::run
    Conns,        \* BOUND: the connections clients open
    Persistent,   \* TRUE for persistent_connection, FALSE for connection
    Signals       \* TRUE if a signal may ask the server to stop

ServerFlags == Persistent \in BOOLEAN /\ Signals \in BOOLEAN

NoConn == "none"

VARIABLES
    acceptor,     \* "accepting", "accepted" (its handler is ready), "handled", "closed"
    signal,       \* "waiting", "raised" (its handler is ready), "handled"
    connections,  \* connection_manager::connections_
    lock,         \* the thread inside the manager's lock, or "none"
    used,         \* connections that were made
    socket,       \* per connection "open" or "closed"
    op,           \* per connection its outstanding operation: "none", "read" or "write"
    outcome,      \* and that operation's completion: "no", "ok", "error" or "aborted"
    at,           \* per thread where it is
    conn,         \* per thread the connection it works on
    visited,      \* connections stop_all has stopped
    corrupt,      \* a handler used a connection that had been destroyed
    raced         \* the set was changed while stop_all walked it

vars == <<acceptor, signal, connections, lock, used, socket, op, outcome, at, conn,
          visited, corrupt, raced>>
conVars == <<socket, op, outcome>>

Idle == {"idle", "returned"}
Where == Idle \cup {"accepted", "starting", "again", "handling", "stopping", "walking", "clearing"}

TypeOK ==
    /\ acceptor \in {"accepting", "accepted", "handled", "closed"}
    /\ signal \in {"waiting", "raised", "handled"}
    /\ connections \subseteq used /\ used \subseteq Conns
    /\ lock \in Threads \cup {NoConn}
    /\ socket \in [Conns -> {"open", "closed"}]
    /\ op \in [Conns -> {"none", "read", "write"}]
    /\ outcome \in [Conns -> {"no", "ok", "error", "aborted"}]
    /\ at \in [Threads -> Where]
    /\ conn \in [Threads -> Conns \cup {NoConn}]

Init ==
    /\ acceptor = "accepting"
    /\ signal = "waiting"
    /\ connections = {} /\ used = {} /\ visited = {}
    /\ lock = NoConn
    /\ socket = [c \in Conns |-> "open"]
    /\ op = [c \in Conns |-> "none"]
    /\ outcome = [c \in Conns |-> "no"]
    /\ at = [t \in Threads |-> "idle"]
    /\ conn = [t \in Threads |-> NoConn]
    /\ corrupt = FALSE /\ raced = FALSE

(* A shared_ptr to c exists: in the set, or in a thread that runs start, stop  *)
(* or the loop of stop_all with it.                                            *)
Alive(c) ==
    \/ c \in connections
    \/ \E t \in Threads : conn[t] = c /\ at[t] \in {"accepted", "starting", "stopping"}

Walking == \E t \in Threads : at[t] = "walking"

(* Operations of a socket.  One begun on a closed socket fails; closing it     *)
(* aborts the one that is outstanding, unless it has completed.  BeginRaw, a   *)
(* mutant of Begin, reports the socket's state for the operation's.            *)
BeginRaw(c, kind) ==
    /\ op' = [op EXCEPT ![c] = kind]
    /\ outcome' = [outcome EXCEPT ![c] = IF socket[c] = "closed" THEN socket[c] ELSE "no"]
    /\ UNCHANGED socket
Begin(c, kind) ==
    /\ op' = [op EXCEPT ![c] = kind]
    /\ outcome' = [outcome EXCEPT ![c] = IF socket[c] = "closed" THEN "error" ELSE "no"]
    /\ UNCHANGED socket
Close(c) ==
    /\ socket' = [socket EXCEPT ![c] = "closed"]
    /\ outcome' = [outcome EXCEPT ![c] = IF op[c] # "none" /\ @ = "no" THEN "aborted" ELSE @]
    /\ UNCHANGED op

(* The clients and the network: a read or write completes.                     *)
Complete(c) ==
    /\ op[c] # "none" /\ outcome[c] = "no"
    /\ \E r \in {"ok", "error"} : outcome' = [outcome EXCEPT ![c] = r]
    /\ UNCHANGED <<acceptor, signal, connections, lock, used, socket, op, at, conn,
                   visited, corrupt, raced>>

(* A client connects: the accept completes.                                    *)
Connect ==
    /\ acceptor = "accepting"
    /\ used # Conns
    /\ acceptor' = "accepted"
    /\ UNCHANGED <<signal, connections, lock, used, conVars, at, conn, visited, corrupt, raced>>

Raise ==
    /\ Signals
    /\ signal = "waiting"
    /\ signal' = "raised"
    /\ UNCHANGED <<acceptor, connections, lock, used, conVars, at, conn, visited, corrupt, raced>>

------------------------------------------------------------------------------
(* do_accept's handler.  A closed acceptor ends it, in Accepted or, where the  *)
(* new accept fails at once, in AcceptAgain; an accept that fails is repeated. *)
Accepted(t) ==
    /\ at[t] = "idle"
    /\ acceptor = "accepted"
    /\ \E c \in Conns \ used :
         /\ used' = used \cup {c}
         /\ conn' = [conn EXCEPT ![t] = c]
    /\ at' = [at EXCEPT ![t] = "accepted"]
    /\ acceptor' = "handled"
    /\ UNCHANGED <<signal, connections, lock, conVars, visited, corrupt, raced>>

(* Mutant of Start: a connection is started before it is managed.              *)
StartFirst(t) ==
    /\ at[t] = "accepted" /\ lock = NoConn
    /\ lock' = t
    /\ Begin(conn[t], "read")
    /\ at' = [at EXCEPT ![t] = "starting"]
    /\ UNCHANGED <<acceptor, signal, connections, used, conn, visited, corrupt, raced>>

(* connection_manager::start: the lock, the set, and then c->start().          *)
Start(t) ==
    /\ at[t] = "accepted" /\ lock = NoConn
    /\ lock' = t
    /\ connections' = connections \cup {conn[t]}
    /\ raced' = (raced \/ Walking)
    /\ at' = [at EXCEPT ![t] = "starting"]
    /\ UNCHANGED <<acceptor, signal, used, conVars, conn, visited, corrupt>>

Started(t) ==
    /\ at[t] = "starting"
    /\ Begin(conn[t], "read")
    /\ lock' = NoConn
    /\ at' = [at EXCEPT ![t] = "again"]
    /\ conn' = [conn EXCEPT ![t] = NoConn]
    /\ UNCHANGED <<acceptor, signal, connections, used, visited, corrupt, raced>>

AcceptAgain(t) ==
    /\ at[t] = "again"
    /\ acceptor' = IF acceptor = "closed" THEN "closed" ELSE "accepting"
    /\ at' = [at EXCEPT ![t] = "idle"]
    /\ UNCHANGED <<signal, connections, lock, used, conVars, conn, visited, corrupt, raced>>

------------------------------------------------------------------------------
(* The handlers of a connection.                                               *)
Take(t, c) ==
    /\ at[t] = "idle"
    /\ op[c] # "none" /\ outcome[c] # "no"
    /\ op' = [op EXCEPT ![c] = "none"]
    /\ outcome' = [outcome EXCEPT ![c] = "no"]

GoTo(t, place, c) ==
    /\ at' = [at EXCEPT ![t] = place]
    /\ conn' = [conn EXCEPT ![t] = c]

(* An aborted read, and an aborted write of connection: nothing is touched.    *)
Aborted(t, c) ==
    /\ outcome[c] = "aborted"
    /\ op[c] = "read" \/ ~Persistent
    /\ Take(t, c)
    /\ UNCHANGED <<acceptor, signal, connections, lock, used, socket, at, conn, visited,
                   corrupt, raced>>

(* Anything else uses the connection: a request is handled, a persistent       *)
(* connection goes on after a write, or the manager is asked to stop it.       *)
Handle(t, c) ==
    /\ (outcome[c] = "ok" /\ op[c] = "read") \/ (op[c] = "write" /\ Persistent)
    /\ Take(t, c)
    /\ corrupt' = (corrupt \/ ~Alive(c))
    /\ GoTo(t, "handling", c)
    /\ UNCHANGED <<acceptor, signal, connections, lock, used, socket, visited, raced>>

(* Mutant of Failed: any error is taken for an aborted operation.              *)
FailedIgnored(t, c) ==
    /\ outcome[c] = "error" \/ (outcome[c] = "ok" /\ op[c] = "write")
    /\ op[c] = "read" \/ ~Persistent
    /\ Take(t, c)
    /\ UNCHANGED <<acceptor, signal, connections, lock, used, socket, at, conn, visited,
                   corrupt, raced>>

Failed(t, c) ==
    /\ outcome[c] = "error" \/ (outcome[c] = "ok" /\ op[c] = "write")
    /\ op[c] = "read" \/ ~Persistent
    /\ Take(t, c)
    /\ corrupt' = (corrupt \/ ~Alive(c))
    /\ GoTo(t, "stopping", c)
    /\ UNCHANGED <<acceptor, signal, connections, lock, used, socket, visited, raced>>

(* The handler ends with the next operation: a write of the reply, or a read   *)
(* of what is missing or of the next request.                                  *)
Handled(t) ==
    /\ at[t] = "handling"
    /\ \E kind \in {"read", "write"} : Begin(conn[t], kind)
    /\ corrupt' = (corrupt \/ ~Alive(conn[t]))
    /\ GoTo(t, "idle", NoConn)
    /\ UNCHANGED <<acceptor, signal, connections, lock, used, visited, raced>>

(* Mutant of Stop: the socket is closed and the connection not erased.         *)
StopKeepsEntry(t) ==
    /\ at[t] = "stopping" /\ lock = NoConn
    /\ Close(conn[t])
    /\ GoTo(t, "idle", NoConn)
    /\ UNCHANGED <<acceptor, signal, connections, lock, used, visited, corrupt, raced>>

(* connection_manager::stop.                                                   *)
Stop(t) ==
    /\ at[t] = "stopping" /\ lock = NoConn
    /\ connections' = connections \ {conn[t]}
    /\ raced' = (raced \/ Walking)
    /\ Close(conn[t])
    /\ GoTo(t, "idle", NoConn)
    /\ UNCHANGED <<acceptor, signal, lock, used, visited, corrupt>>

------------------------------------------------------------------------------
(* do_await_stop's handler, and stop_all: the walk takes no lock, and once the *)
(* set has changed under it, it may end anywhere.  WalkOnly, a mutant of Walk, *)
(* leaves the sockets to the destructors.                                      *)
Signalled(t) ==
    /\ at[t] = "idle"
    /\ signal = "raised"
    /\ signal' = "handled"
    /\ acceptor' = "closed"
    /\ at' = [at EXCEPT ![t] = "walking"]
    /\ UNCHANGED <<connections, lock, used, conVars, conn, visited, corrupt, raced>>

WalkOnly(t) ==
    /\ at[t] = "walking"
    /\ \E c \in connections \ visited : visited' = visited \cup {c}
    /\ UNCHANGED <<acceptor, signal, connections, lock, used, conVars, at, conn, corrupt, raced>>

Walk(t) ==
    /\ at[t] = "walking"
    /\ \E c \in connections \ visited :
         /\ Close(c)
         /\ visited' = visited \cup {c}
    /\ UNCHANGED <<acceptor, signal, connections, lock, used, at, conn, corrupt, raced>>

WalkEnd(t) ==
    /\ at[t] = "walking"
    /\ connections \subseteq visited \/ raced
    /\ at' = [at EXCEPT ![t] = "clearing"]
    /\ UNCHANGED <<acceptor, signal, connections, lock, used, conVars, conn, visited,
                   corrupt, raced>>

Clear(t) ==
    /\ at[t] = "clearing" /\ lock = NoConn
    /\ connections' = {}
    /\ at' = [at EXCEPT ![t] = "idle"]
    /\ UNCHANGED <<acceptor, signal, lock, used, conVars, conn, visited, corrupt, raced>>

(* io_service::run returns once there is no work.                              *)
Return(t) ==
    /\ at[t] = "idle"
    /\ signal = "handled"
    /\ \A c \in Conns : op[c] = "none"
    /\ \A u \in Threads : at[u] \in Idle
    /\ at' = [at EXCEPT ![t] = "returned"]
    /\ UNCHANGED <<acceptor, signal, connections, lock, used, conVars, conn, visited,
                   corrupt, raced>>

Run(t) ==
    \/ Accepted(t) \/ Start(t) \/ Started(t) \/ AcceptAgain(t)
    \/ \E c \in Conns : Aborted(t, c) \/ Handle(t, c) \/ Failed(t, c)
    \/ Handled(t) \/ Stop(t)
    \/ Signalled(t) \/ Walk(t) \/ WalkEnd(t) \/ Clear(t) \/ Return(t)

Next ==
    \/ Connect \/ Raise
    \/ \E c \in Conns : Complete(c)
    \/ \E t \in Threads : Run(t)

Spec == Init /\ [][Next]_vars

(* Every thread keeps running handlers; clients and signals owe nothing.       *)
FairSpec == Spec /\ \A t \in Threads : WF_vars(Run(t))

------------------------------------------------------------------------------
(* Until a signal asks it to stop, a server of several threads runs every      *)
(* handler on a connection that exists, although the handlers do not keep it:  *)
(* whatever is outstanding for a connection, the set holds it.                 *)
ServesLiveConnections ==
    signal # "handled" =>
        /\ ~corrupt
        /\ \A c \in Conns : op[c] # "none" => Alive(c)

(* Nothing stays in the manager's set without an operation or a thread that    *)
(* will take it out: a client that goes away leaves nothing behind.            *)
NothingForgotten ==
    \/ raced
    \/ \A c \in connections :
          \/ op[c] # "none"
          \/ \E t \in Threads : conn[t] = c \/ at[t] \in {"walking", "clearing"}

(* "Once all operations have finished the io_service::run() call will exit"    *)
(* (server.hpp:114), of operations the stop has cancelled.                     *)
RunReturns ==
    (signal = "handled") ~> (corrupt \/ raced \/ \A t \in Threads : at[t] = "returned")

(* "Manages open connections so that they may be cleanly stopped when the      *)
(* server needs to shut down" (connection_manager.hpp:27): also then no        *)
(* handler uses a connection that is gone.                                     *)
CleanlyStopped == ~corrupt

(* "adding multi-threading support" (connection_manager.hpp:71): the set is    *)
(* not changed by one thread while another walks it.                           *)
SetIsGuarded == ~raced
==============================================================================
