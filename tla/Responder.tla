------------------------------ MODULE Responder ------------------------------
(***************************************************************************)
(* communicator::process(handler).dispatch() of a bidder: one thread runs  *)
(* the io_service, a datagram is received into in_data_ and from_endpoint_,*)
(* the handler's response is sent from out_data_ to where the datagram     *)
(* came from, and the receive is armed again.                              *)
(*                                                                         *)
(* async_send_to tries the send at once and leaves the operation pending   *)
(* when the socket would block or an earlier operation is pending; a       *)
(* pending operation holds the address of out_data_'s characters, which    *)
(* the next response frees.                                                *)
(***************************************************************************)
EXTENDS Integers, Sequences, FiniteSets

CONSTANTS
    Clients,        \* exchanges that send requests
    Sizes,          \* sizes of serialized requests
    MAX_DATA_SIZE,  \* the size of in_data_, 4096 in the code
    MaxRequests,    \* bound on the requests sent
    MaxPending      \* bound on the sends that find the socket's buffer full

ResponderAssumption ==
    /\ Sizes \subseteq Nat /\ MAX_DATA_SIZE \in Nat
    /\ MaxRequests \in Nat /\ MaxPending \in Nat

VARIABLES
    asked,          \* datagrams on their way to the port: [from, id, size]
    count,          \* requests sent so far
    armed,          \* whether an async_receive_from is outstanding
    completed,      \* completion handlers queued, 0 or 1
    from_endpoint,  \* receiver::from_endpoint_
    in_data,        \* receiver::in_data_ : the request and the bytes of it
    response,       \* what the user's handler returned, 0 before and after
    out_data,       \* receiver::out_data_ : the response it holds, by number
    pending,        \* sends not done: [to, buffer], in order
    sent,           \* datagrams sent: [to, answers]
    running         \* whether dispatch() has not returned

vars == <<asked, count, armed, completed, from_endpoint, in_data, response,
          out_data, pending, sent, running>>

NoRequest == [id |-> 0, bytes |-> 0, size |-> 0]
Freed == -1       \* what the characters of a freed buffer may be
NoClient == "none"

Init ==
    /\ asked = {} /\ count = 0
    /\ armed = TRUE /\ completed = 0
    /\ from_endpoint = NoClient /\ in_data = NoRequest
    /\ response = 0 /\ out_data = 0 /\ pending = <<>> /\ sent = {}
    /\ running = TRUE

(* An exchange broadcasts a request; the network may repeat or lose it. *)
Ask(c, size) ==
    /\ count < MaxRequests
    /\ count' = count + 1
    /\ asked' = asked \cup {[from |-> c, id |-> count + 1, size |-> size]}
    /\ UNCHANGED <<armed, completed, from_endpoint, in_data, response, out_data,
                   pending, sent, running>>

(* A receive that stays armed while its handler waits to run. *)
ReceiveStaysArmed(d) ==
    /\ running /\ armed
    /\ from_endpoint' = d.from
    /\ in_data' = [id |-> d.id, size |-> d.size,
                   bytes |-> IF d.size > MAX_DATA_SIZE THEN MAX_DATA_SIZE ELSE d.size]
    /\ completed' = 1
    /\ UNCHANGED <<asked, count, armed, response, out_data, pending, sent, running>>

(* A receive that believes the size of the datagram. *)
ReceiveUncut(d) ==
    /\ running /\ armed
    /\ from_endpoint' = d.from
    /\ in_data' = [id |-> d.id, size |-> d.size, bytes |-> d.size]
    /\ armed' = FALSE
    /\ completed' = 1
    /\ UNCHANGED <<asked, count, response, out_data, pending, sent, running>>

(* The outstanding receive takes a datagram, cut to the size of in_data_. *)
Receive(d) ==
    /\ running /\ armed
    /\ from_endpoint' = d.from
    /\ in_data' = [id |-> d.id, size |-> d.size,
                   bytes |-> IF d.size > MAX_DATA_SIZE THEN MAX_DATA_SIZE ELSE d.size]
    /\ armed' = FALSE
    /\ completed' = 1
    /\ UNCHANGED <<asked, count, response, out_data, pending, sent, running>>

(* receiver::send_async: the response replaces out_data_, and the sends that *)
(* are pending are left with the characters it held.                         *)
SendAsync(answers, to) ==
    /\ out_data' = answers
    /\ LET stale == [i \in DOMAIN pending |-> [pending[i] EXCEPT !.buffer = Freed]]
       IN  \/ /\ pending = <<>>
              /\ sent' = sent \cup {[to |-> to, answers |-> answers]}
              /\ UNCHANGED pending
           \/ /\ Len(pending) < MaxPending
              /\ pending' = Append(stale, [to |-> to, buffer |-> answers])
              /\ UNCHANGED sent

(* The completion handler of the receive: deserialize, and the user's        *)
(* handler, which is given from_endpoint_ by reference.                      *)
Handle ==
    /\ running /\ completed = 1 /\ response = 0
    /\ in_data.bytes = in_data.size
    /\ response' = in_data.id
    /\ UNCHANGED <<asked, count, armed, completed, from_endpoint, in_data, out_data,
                   pending, sent, running>>

(* consume(), which sends nothing back. *)
RespondConsumes ==
    /\ running /\ response # 0
    /\ response' = 0 /\ completed' = 0 /\ armed' = TRUE
    /\ UNCHANGED <<asked, count, from_endpoint, in_data, out_data, pending, sent, running>>

(* The rest of it: send_async to from_endpoint_, and the receive again. *)
Respond ==
    /\ running /\ response # 0
    /\ SendAsync(response, from_endpoint)
    /\ response' = 0 /\ completed' = 0 /\ armed' = TRUE
    /\ UNCHANGED <<asked, count, from_endpoint, in_data, running>>

(* deserialize throws on a datagram that was cut; nothing on the way out     *)
(* catches it, and dispatch() is left.                                       *)
HandleCut ==
    /\ running /\ completed = 1 /\ response = 0
    /\ in_data.bytes < in_data.size
    /\ completed' = 0
    /\ running' = FALSE
    /\ UNCHANGED <<asked, count, armed, from_endpoint, in_data, response, out_data,
                   pending, sent>>

(* The socket takes the oldest pending send. *)
Flush ==
    /\ running /\ pending # <<>>
    /\ sent' = sent \cup {[to |-> Head(pending).to, answers |-> Head(pending).buffer]}
    /\ pending' = Tail(pending)
    /\ UNCHANGED <<asked, count, armed, completed, from_endpoint, in_data, response,
                   out_data, running>>

Next ==
    \/ \E c \in Clients, size \in Sizes : Ask(c, size)
    \/ \E d \in asked : Receive(d)
    \/ Handle \/ HandleCut \/ Respond \/ Flush

Spec == Init /\ [][Next]_vars

(* The thread in dispatch() runs what is ready, and the socket drains. *)
FairSpec == Spec /\ WF_vars(Handle) /\ WF_vars(HandleCut)
            /\ WF_vars(Respond) /\ WF_vars(Flush)

-----------------------------------------------------------------------------
(* The type invariant. *)
TypeOK ==
    /\ asked \subseteq [from : Clients, id : 1..MaxRequests, size : Sizes]
    /\ count \in 0..MaxRequests
    /\ armed \in BOOLEAN /\ completed \in {0, 1} /\ running \in BOOLEAN
    /\ from_endpoint \in Clients \cup {NoClient}
    /\ in_data \in [id : 0..MaxRequests, bytes : 0..MAX_DATA_SIZE, size : Sizes \cup {0}]
    /\ out_data \in 0..MaxRequests /\ response \in 0..MaxRequests
    /\ \A i \in DOMAIN pending : pending[i].to \in Clients
                                 /\ pending[i].buffer \in 1..MaxRequests \cup {Freed}
    /\ sent \subseteq [to : Clients, answers : 1..MaxRequests \cup {Freed}]

(* A response a client is sent answers a request of its own: from_endpoint_  *)
(* and in_data_, one for all the clients, are not overwritten between a      *)
(* receive and the response to it, however the sends are delayed.            *)
AnswersReachTheAsker ==
    \A m \in sent :
        m.answers = Freed \/ \E d \in asked : d.from = m.to /\ d.id = m.answers

(* What is sent is a response, never the characters of a freed one: the      *)
(* buffers are not shared by the requests, as the header of communicator.hpp *)
(* says of its endpoints.                                                    *)
AnswersAreWhole == \A m \in sent : m.answers # Freed

(* A request that was received is answered, unless dispatch() is left.       *)
ReceivedIsAnswered ==
    \A i \in 1..MaxRequests :
        (completed = 1 /\ in_data.id = i)
            ~> (~running \/ \E m \in sent : m.answers = i)

(* "dispatch() ; //blocks in io_service.run() does not return" *)
DispatchDoesNotReturn == running
=============================================================================
