--------------------------- MODULE MultiExchange ---------------------------
(***************************************************************************)
(* The multi exchange (examples/multiexchange/multi_exchange_handler.cpp): *)
(* every server thread broadcasts a bid request to the bidders over UDP,   *)
(* collects their answers until it has one for each bidder or the timer    *)
(* fires, and replies with the best one.  The threads share the counters   *)
(* of the status page.                                                     *)
(*                                                                         *)
(* A call builds its own communicator, so the answers to it go to a port   *)
(* bound for that call.  Nothing in an answer names the request: whatever  *)
(* reaches the port while it is bound is collected.  An answer crosses the *)
(* wire as rtb/messaging/serialization.hpp writes it, without the price.   *)
(***************************************************************************)
EXTENDS Integers, Sequences, FiniteSets

CONSTANTS
  Threads,       \* server threads
  Bidders,       \* bidder processes listening on multi_bidder.port
  NumBidders,    \* multi_bidder.num_of_bidders
  Ports,         \* ephemeral ports of the exchange host
  Prices,        \* prices of first bids
  MaxRequests,   \* bound on the requests handled
  MaxAnswers     \* bound on the answers sent

ASSUME ThreadsAssumption == IsFiniteSet(Threads)
ASSUME NumBiddersAssumption == NumBidders \in Nat
ASSUME PricesAssumption == Prices \subseteq Nat
ASSUME BoundsAssumption == MaxRequests \in Nat /\ MaxAnswers \in Nat

NoBid == -1      \* a response without a seatbid, or whose seatbid is empty
NoPort == "none"
ASSUME NoPortAssumption == NoPort \notin Ports

VARIABLES
  request_count, all_response_count, bidder_response_count,
  empty_response_count, timeout_response_count,   \* multi_exchange_status
  pc,           \* thread -> "idle", "collect", "stopped" or "replied"
  port,         \* thread -> port of its communicator
  req,          \* thread -> number of the request it handles
  responses,    \* thread -> multibidder_collector::responses, in order
  reply,        \* thread -> price its bidder meant for the response, or NoBid
  asked,        \* request datagrams sent: may be lost or delivered twice
  answers,      \* answer datagrams sent: likewise
  running       \* no exception has ended the process

counters == <<request_count, all_response_count, bidder_response_count,
              empty_response_count, timeout_response_count>>
vars == <<request_count, all_response_count, bidder_response_count,
          empty_response_count, timeout_response_count, pc, port, req,
          responses, reply, asked, answers, running>>

(* Nothing but the price is in the message as far as the collector looks;  *)
(* req and bidder are what the properties need to know of its origin.  An  *)
(* answer that is not whole was cut at MAX_DATA_SIZE or is no archive.     *)
Requests == [to : Ports, req : Nat]
Answers == [to : Ports, req : Nat, bidder : Bidders, price : Prices \cup {NoBid},
            whole : BOOLEAN]

(* An answer as the collector deserializes it: serialize(Bid) writes every *)
(* member but the price, which stays what a new Bid has, 0.  `sent' is the *)
(* price the bidder meant, for the properties.                             *)
Wire(m) ==
  [to |-> m.to, req |-> m.req, bidder |-> m.bidder, sent |-> m.price,
   price |-> IF m.price = NoBid THEN NoBid ELSE 0]
Collected == [to : Ports, req : Nat, bidder : Bidders,
              sent : Prices \cup {NoBid}, price : {0, NoBid}]

Init ==
  /\ request_count = 0
  /\ all_response_count = 0
  /\ bidder_response_count = 0
  /\ empty_response_count = 0
  /\ timeout_response_count = 0
  /\ pc = [t \in Threads |-> "idle"]
  /\ port = [t \in Threads |-> NoPort]
  /\ req = [t \in Threads |-> 0]
  /\ responses = [t \in Threads |-> <<>>]
  /\ reply = [t \in Threads |-> NoBid]
  /\ asked = {}
  /\ answers = {}
  /\ running = TRUE

-----------------------------------------------------------------------------
(* The auction handler up to communicator::collect: count the request,     *)
(* bind a port, clear the collector, broadcast.                            *)
Distribute(t, p) ==
  /\ running /\ pc[t] \in {"idle", "replied"}
  /\ request_count < MaxRequests
  /\ \A u \in Threads : port[u] # p
  /\ request_count' = request_count + 1
  /\ pc' = [pc EXCEPT ![t] = "collect"]
  /\ port' = [port EXCEPT ![t] = p]
  /\ req' = [req EXCEPT ![t] = request_count + 1]
  /\ responses' = [responses EXCEPT ![t] = <<>>]
  /\ asked' = asked \cup {[to |-> p, req |-> request_count + 1]}
  /\ UNCHANGED <<all_response_count, bidder_response_count,
                 empty_response_count, timeout_response_count, reply, answers,
                 running>>

(* A bidder takes a request and answers to the address it came from.  The  *)
(* response it computes is any, a response without a bid included.         *)
Bid(b, q, price, whole) ==
  /\ Cardinality(answers) < MaxAnswers
  /\ answers' = answers \cup
       {[to |-> q.to, req |-> q.req, bidder |-> b, price |-> price, whole |-> whole]}
  /\ UNCHANGED <<counters, pc, port, req, responses, reply, asked, running>>

(* Mutants of Collect: the handler stops the loop one answer late; it      *)
(* counts the answer only when it completes the set.                       *)
CollectOneMore(t, m) ==
  /\ running /\ pc[t] = "collect"
  /\ m.to = port[t] /\ m.whole
  /\ bidder_response_count' = bidder_response_count + 1
  /\ responses' = [responses EXCEPT ![t] = Append(@, Wire(m))]
  /\ pc' = IF Len(responses[t]) = NumBidders THEN [pc EXCEPT ![t] = "stopped"] ELSE pc
  /\ UNCHANGED <<request_count, all_response_count, empty_response_count,
                 timeout_response_count, port, req, reply, asked, answers, running>>

CollectUncounted(t, m) ==
  /\ running /\ pc[t] = "collect"
  /\ m.to = port[t] /\ m.whole
  /\ responses' = [responses EXCEPT ![t] = Append(@, Wire(m))]
  /\ IF Len(responses'[t]) = NumBidders
     THEN /\ bidder_response_count' = bidder_response_count + 1
          /\ pc' = [pc EXCEPT ![t] = "stopped"]
     ELSE UNCHANGED <<bidder_response_count, pc>>
  /\ UNCHANGED <<request_count, all_response_count, empty_response_count,
                 timeout_response_count, port, req, reply, asked, answers, running>>

(* The collect handler: on_add, add, and done() stops the io_service. *)
Collect(t, m) ==
  /\ running /\ pc[t] = "collect"
  /\ m.to = port[t] /\ m.whole
  /\ bidder_response_count' = bidder_response_count + 1
  /\ responses' = [responses EXCEPT ![t] = Append(@, Wire(m))]
  /\ pc' = IF Len(responses'[t]) = NumBidders THEN [pc EXCEPT ![t] = "stopped"] ELSE pc
  /\ UNCHANGED <<request_count, all_response_count, empty_response_count,
                 timeout_response_count, port, req, reply, asked, answers, running>>

(* deserialize throws in the collect handler, out of io_service.run and of  *)
(* the auction, and nothing on the stack of the server thread catches it.  *)
CollectThrows(t, m) ==
  /\ running /\ pc[t] = "collect"
  /\ m.to = port[t] /\ ~m.whole
  /\ running' = FALSE
  /\ UNCHANGED <<counters, pc, port, req, responses, reply, asked, answers>>

(* Mutant of Expire: an empty collection is waited for. *)
ExpireWaits(t) ==
  /\ running /\ pc[t] = "collect"
  /\ responses[t] # <<>>
  /\ pc' = [pc EXCEPT ![t] = "stopped"]
  /\ UNCHANGED <<counters, port, req, responses, reply, asked, answers, running>>

(* The timer of collect fires. *)
Expire(t) ==
  /\ running /\ pc[t] = "collect"
  /\ pc' = [pc EXCEPT ![t] = "stopped"]
  /\ UNCHANGED <<counters, port, req, responses, reply, asked, answers, running>>

(* Mutant of Before: a response without a bid comes first. *)
BeforeNoBid(first, second) ==
  second.price # NoBid /\ (first.price = NoBid \/ first.price > second.price)

(* The comparator of multibidder_collector::response *)
Before(first, second) ==
  /\ first.price # NoBid
  /\ second.price = NoBid \/ first.price > second.price

(* responses[0] after std::sort, which orders equivalent elements at will. *)
Firsts(rs) ==
  {rs[i] : i \in {j \in 1..Len(rs) : \A k \in 1..Len(rs) : ~Before(rs[k], rs[j])}}

(* Mutants of Respond: the communicator outlives the call; an empty        *)
(* collection is not counted.                                              *)
RespondKeepsPort(t) ==
  /\ running /\ pc[t] = "stopped"
  /\ responses[t] = <<>>
  /\ empty_response_count' = empty_response_count + 1
  /\ reply' = [reply EXCEPT ![t] = NoBid]
  /\ pc' = [pc EXCEPT ![t] = "replied"]
  /\ UNCHANGED <<request_count, all_response_count, bidder_response_count,
                 timeout_response_count, port, req, responses, asked, answers, running>>

RespondUncounted(t) ==
  /\ running /\ pc[t] = "stopped"
  /\ responses[t] = <<>>
  /\ reply' = [reply EXCEPT ![t] = NoBid]
  /\ pc' = [pc EXCEPT ![t] = "replied"]
  /\ port' = [port EXCEPT ![t] = NoPort]
  /\ UNCHANGED <<counters, req, responses, asked, answers, running>>

(* multibidder_collector::response with the on_response handler of the     *)
(* exchange; the communicator is gone when the auction handler returns.    *)
Respond(t) ==
  /\ running /\ pc[t] = "stopped"
  /\ \/ /\ responses[t] = <<>>
        /\ empty_response_count' = empty_response_count + 1
        /\ reply' = [reply EXCEPT ![t] = NoBid]
        /\ UNCHANGED <<all_response_count, timeout_response_count>>
     \/ /\ responses[t] # <<>>
        /\ IF Len(responses[t]) = NumBidders
           THEN /\ all_response_count' = all_response_count + 1
                /\ UNCHANGED timeout_response_count
           ELSE /\ timeout_response_count' = timeout_response_count + 1
                /\ UNCHANGED all_response_count
        /\ \E m \in Firsts(responses[t]) : reply' = [reply EXCEPT ![t] = m.sent]
        /\ UNCHANGED empty_response_count
  /\ pc' = [pc EXCEPT ![t] = "replied"]
  /\ port' = [port EXCEPT ![t] = NoPort]
  /\ UNCHANGED <<request_count, bidder_response_count, req, responses, asked, answers,
                 running>>

-----------------------------------------------------------------------------
Next ==
  \/ \E t \in Threads : \/ \E p \in Ports : Distribute(t, p)
                        \/ \E m \in answers : Collect(t, m) \/ CollectThrows(t, m)
                        \/ Expire(t)
                        \/ Respond(t)
  \/ \E b \in Bidders, q \in asked, price \in Prices \cup {NoBid}, whole \in BOOLEAN :
       Bid(b, q, price, whole)

Spec == Init /\ [][Next]_vars

(* The timer fires and a server thread is scheduled; bidders and the       *)
(* network owe nothing.                                                    *)
Fairness == \A t \in Threads : WF_vars(Expire(t)) /\ WF_vars(Respond(t))

FairSpec == Spec /\ Fairness

-----------------------------------------------------------------------------
InFlight == {t \in Threads : pc[t] \in {"collect", "stopped"}}

TypeOK ==
  /\ request_count \in 0..MaxRequests
  /\ all_response_count \in Nat
  /\ bidder_response_count \in Nat
  /\ empty_response_count \in Nat
  /\ timeout_response_count \in Nat
  /\ pc \in [Threads -> {"idle", "collect", "stopped", "replied"}]
  /\ port \in [Threads -> Ports \cup {NoPort}]
  /\ \A t \in Threads : port[t] # NoPort <=> t \in InFlight
  /\ req \in [Threads -> 0..MaxRequests]
  /\ responses \in [Threads -> Seq(Collected)]
  /\ reply \in [Threads -> Prices \cup {NoBid}]
  /\ asked \subseteq Requests
  /\ answers \subseteq Answers
  /\ running \in BOOLEAN

(* The status page adds up: each request is counted exactly once among     *)
(* all, empty and timeout responses, or is still with one of the threads.  *)
RequestsAccounted ==
  request_count = all_response_count + empty_response_count
                    + timeout_response_count + Cardinality(InFlight)

(* "bid responses" on the status page agrees with the other counters:      *)
(* NumBidders of them for a complete request, at least one and fewer than  *)
(* NumBidders for a timeout, and at most NumBidders for one under way.     *)
BidResponsesAccounted ==
  NumBidders > 0 =>
    LET known == NumBidders * all_response_count
    IN  /\ known + timeout_response_count <= bidder_response_count
        /\ bidder_response_count <= known + (NumBidders - 1) * timeout_response_count
                                      + NumBidders * Cardinality(InFlight)

(* A collector is never handed more answers than it waits for: the loop    *)
(* stops inside the handler that completes the set, whatever is queued.    *)
NeverOvershoots ==
  NumBidders > 0 => \A t \in Threads : Len(responses[t]) <= NumBidders

(* A bid beats no bid: the reply is empty only if none of the collected    *)
(* answers holds a bid, whatever their order.                              *)
BidBeatsNoBid ==
  \A t \in Threads : pc[t] = "replied" /\ reply[t] = NoBid =>
    \A i \in 1..Len(responses[t]) : responses[t][i].sent = NoBid

(* The reply is the answer with the highest price of a first bid, as the   *)
(* comparator of multibidder_collector::response orders them.              *)
ReplyIsBest ==
  \A t \in Threads : pc[t] = "replied" =>
    \A i \in 1..Len(responses[t]) : responses[t][i].sent <= reply[t]

(* "all bidders responsed" on the status page: a request counted there was *)
(* answered by every bidder.                                               *)
AllBiddersResponded ==
  \A t \in Threads : pc[t] = "replied" /\ Len(responses[t]) = NumBidders =>
    \A b \in Bidders : \E i \in 1..Len(responses[t]) :
      responses[t][i].bidder = b /\ responses[t][i].req = req[t]

(* An auction ends although no bidder, or not every bidder, answers, unless *)
(* an answer that cannot be read ends the process.                          *)
AuctionReturns ==
  \A t \in Threads : pc[t] = "collect" ~> pc[t] = "replied" \/ ~running

=============================================================================
