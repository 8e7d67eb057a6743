------------------------- MODULE MultiExchangeProofs -------------------------
(***************************************************************************)
(* Proofs about MultiExchange for any number of threads, bidders, ports,   *)
(* prices and requests.                                                    *)
(***************************************************************************)
EXTENDS MultiExchange, FiniteSetTheorems, TLAPS

(* The answers the threads hold for requests that are under way, one pair  *)
(* for each: what bidder_response_count has counted and no other counter.  *)
Pending == {ti \in InFlight \X (1..NumBidders) : ti[2] <= Len(responses[ti[1]])}

(* Answers counted for requests that ended with the timer.                 *)
Late == bidder_response_count - NumBidders * all_response_count - Cardinality(Pending)

(* The loop of collect runs only while an answer is missing.               *)
StopsInTime ==
  NumBidders > 0 =>
    \A t \in Threads : /\ Len(responses[t]) <= NumBidders
                       /\ pc[t] = "collect" => Len(responses[t]) < NumBidders

(* Each timeout left between one answer and one less than the bidders.     *)
LateAnswers ==
  NumBidders > 0 =>
    /\ timeout_response_count <= Late
    /\ Late <= (NumBidders - 1) * timeout_response_count

(* The price is lost on the wire, not whether there is a bid.              *)
WireKeepsBids ==
  \A t \in Threads : \A i \in 1..Len(responses[t]) :
    responses[t][i].price = NoBid <=> responses[t][i].sent = NoBid

(* The inductive invariant.                                                *)
IInv ==
  /\ TypeOK
  /\ RequestsAccounted
  /\ StopsInTime
  /\ LateAnswers
  /\ WireKeepsBids
  /\ BidBeatsNoBid

-----------------------------------------------------------------------------
(* No bid is not a price. *)
LEMMA NoBidApart ==
  /\ NoBid \notin Prices /\ NoBid # 0
  /\ \A p \in Prices : p \in Nat
BY PricesAssumption DEF NoBid

(* The threads with a request under way are finitely many. *)
LEMMA InFlightFinite ==
  /\ IsFiniteSet(InFlight)
  /\ Cardinality(InFlight) \in Nat
<1>1. InFlight \in SUBSET Threads
  BY DEF InFlight
<1>2. IsFiniteSet(InFlight)
  BY <1>1, ThreadsAssumption, FS_Subset
<1>3. QED
  BY <1>2, FS_CardinalityType

(* Type correctness.                                                       *)
LEMMA TypeStep ==
  ASSUME TypeOK, [Next]_vars
  PROVE  TypeOK'
<1>1. ASSUME NEW t \in Threads, NEW p \in Ports, Distribute(t, p)
      PROVE  TypeOK'
  <2>1. request_count + 1 \in 0..MaxRequests
    BY <1>1, BoundsAssumption DEF Distribute, TypeOK
  <2>2. [to |-> p, req |-> request_count + 1] \in Requests
    BY <2>1 DEF Requests
  <2>3. \A u \in Threads : port'[u] # NoPort <=> u \in InFlight'
    BY <1>1, NoPortAssumption DEF Distribute, TypeOK, InFlight
  <2>4. responses' \in [Threads -> Seq(Collected)]
    BY <1>1 DEF Distribute, TypeOK
  <2>5. QED
    BY <1>1, <2>1, <2>2, <2>3, <2>4 DEF Distribute, TypeOK
<1>2. ASSUME NEW t \in Threads, NEW m \in answers, Collect(t, m)
      PROVE  TypeOK'
  <2>1. Wire(m) \in Collected
    BY DEF TypeOK, Answers, Wire, Collected, NoBid
  <2>2. responses' \in [Threads -> Seq(Collected)]
    BY <1>2, <2>1 DEF Collect, TypeOK
  <2>3. InFlight' = InFlight
    BY <1>2 DEF Collect, TypeOK, InFlight
  <2>4. pc' \in [Threads -> {"idle", "collect", "stopped", "replied"}]
    BY <1>2 DEF Collect, TypeOK
  <2>5. QED
    BY <1>2, <2>2, <2>3, <2>4 DEF Collect, TypeOK
<1>3. ASSUME NEW t \in Threads, Expire(t)
      PROVE  TypeOK'
  <2>1. InFlight' = InFlight
    BY <1>3 DEF Expire, TypeOK, InFlight
  <2>2. QED
    BY <1>3, <2>1 DEF Expire, TypeOK, counters
<1>4. ASSUME NEW t \in Threads, Respond(t)
      PROVE  TypeOK'
  <2>1. reply' \in [Threads -> Prices \cup {NoBid}]
    <3>1. CASE responses[t] = <<>>
      BY <1>4, <3>1 DEF Respond, TypeOK
    <3>2. CASE responses[t] # <<>>
      <4>1. PICK m \in Firsts(responses[t]) : reply' = [reply EXCEPT ![t] = m.sent]
        BY <1>4, <3>2 DEF Respond
      <4>2. m \in Collected
        BY <4>1 DEF Firsts, TypeOK
      <4>3. m.sent \in Prices \cup {NoBid}
        BY <4>2 DEF Collected
      <4>4. QED
        BY <4>1, <4>3 DEF TypeOK
    <3>3. QED
      BY <3>1, <3>2
  <2>2. /\ all_response_count' \in Nat /\ empty_response_count' \in Nat
        /\ timeout_response_count' \in Nat
    BY <1>4 DEF Respond, TypeOK
  <2>3. \A u \in Threads : port'[u] # NoPort <=> u \in InFlight'
    BY <1>4 DEF Respond, TypeOK, InFlight
  <2>4. QED
    BY <1>4, <2>1, <2>2, <2>3 DEF Respond, TypeOK
<1>5. ASSUME NEW b \in Bidders, NEW q \in asked, NEW price \in Prices \cup {NoBid},
             NEW whole \in BOOLEAN, Bid(b, q, price, whole)
      PROVE  TypeOK'
  <2>1. [to |-> q.to, req |-> q.req, bidder |-> b, price |-> price, whole |-> whole]
          \in Answers
    BY DEF TypeOK, Requests, Answers
  <2>2. InFlight' = InFlight
    BY <1>5 DEF Bid, InFlight
  <2>3. QED
    BY <1>5, <2>1, <2>2 DEF Bid, TypeOK, counters
<1>6. CASE UNCHANGED vars
  BY <1>6 DEF vars, TypeOK, InFlight
<1>7. ASSUME NEW t \in Threads, NEW m \in answers, CollectThrows(t, m)
      PROVE  TypeOK'
  BY <1>7 DEF CollectThrows, TypeOK, counters, InFlight
<1>8. QED
  BY <1>1, <1>2, <1>3, <1>4, <1>5, <1>6, <1>7 DEF Next

(* Only Distribute brings a request under way, only Respond ends it.       *)
LEMMA InFlightSteps ==
  ASSUME TypeOK
  PROVE  /\ \A t \in Threads, p \in Ports : Distribute(t, p) =>
               t \notin InFlight /\ InFlight' = InFlight \cup {t}
         /\ \A t \in Threads, m \in answers : Collect(t, m) =>
               t \in InFlight /\ InFlight' = InFlight
         /\ \A t \in Threads : Expire(t) => InFlight' = InFlight
         /\ \A t \in Threads : Respond(t) =>
               t \in InFlight /\ InFlight' = InFlight \ {t}
<1>1. ASSUME NEW t \in Threads, NEW p \in Ports, Distribute(t, p)
      PROVE  t \notin InFlight /\ InFlight' = InFlight \cup {t}
  BY <1>1 DEF TypeOK, InFlight, Distribute
<1>2. ASSUME NEW t \in Threads, NEW m \in answers, Collect(t, m)
      PROVE  t \in InFlight /\ InFlight' = InFlight
  BY <1>2 DEF TypeOK, InFlight, Collect
<1>3. ASSUME NEW t \in Threads, Expire(t)
      PROVE  InFlight' = InFlight
  BY <1>3 DEF TypeOK, InFlight, Expire
<1>4. ASSUME NEW t \in Threads, Respond(t)
      PROVE  t \in InFlight /\ InFlight' = InFlight \ {t}
  BY <1>4 DEF TypeOK, InFlight, Respond
<1>5. QED
  BY <1>1, <1>2, <1>3, <1>4

(* Each request is in one place of the status page. *)
LEMMA RequestsStep ==
  ASSUME TypeOK, RequestsAccounted, [Next]_vars
  PROVE  RequestsAccounted'
<1> USE InFlightFinite
<1>1. ASSUME NEW t \in Threads, NEW p \in Ports, Distribute(t, p)
      PROVE  RequestsAccounted'
  <2>1. t \notin InFlight /\ InFlight' = InFlight \cup {t}
    BY <1>1, InFlightSteps
  <2>2. Cardinality(InFlight') = Cardinality(InFlight) + 1
    BY <2>1, FS_AddElement
  <2>3. QED
    BY <1>1, <2>2 DEF Distribute, TypeOK, RequestsAccounted
<1>2. ASSUME NEW t \in Threads, NEW m \in answers, Collect(t, m)
      PROVE  RequestsAccounted'
  <2>1. InFlight' = InFlight
    BY <1>2, InFlightSteps
  <2>2. QED
    BY <1>2, <2>1 DEF Collect, RequestsAccounted
<1>3. ASSUME NEW t \in Threads, Expire(t)
      PROVE  RequestsAccounted'
  <2>1. InFlight' = InFlight
    BY <1>3, InFlightSteps
  <2>2. QED
    BY <1>3, <2>1 DEF Expire, RequestsAccounted, counters
<1>4. ASSUME NEW t \in Threads, Respond(t)
      PROVE  RequestsAccounted'
  <2>1. t \in InFlight /\ InFlight' = InFlight \ {t}
    BY <1>4, InFlightSteps
  <2>2. Cardinality(InFlight') = Cardinality(InFlight) - 1
    BY <2>1, FS_RemoveElement
  <2>3. UNCHANGED request_count
    BY <1>4 DEF Respond
  <2>4. CASE /\ empty_response_count' = empty_response_count + 1
             /\ UNCHANGED <<all_response_count, timeout_response_count>>
    BY <2>2, <2>3, <2>4 DEF TypeOK, RequestsAccounted
  <2>5. CASE /\ all_response_count' = all_response_count + 1
             /\ UNCHANGED <<empty_response_count, timeout_response_count>>
    BY <2>2, <2>3, <2>5 DEF TypeOK, RequestsAccounted
  <2>6. CASE /\ timeout_response_count' = timeout_response_count + 1
             /\ UNCHANGED <<all_response_count, empty_response_count>>
    BY <2>2, <2>3, <2>6 DEF TypeOK, RequestsAccounted
  <2>7. QED
    BY <1>4, <2>4, <2>5, <2>6 DEF Respond
<1>5. ASSUME NEW b \in Bidders, NEW q \in asked, NEW price \in Prices \cup {NoBid},
             NEW whole \in BOOLEAN, Bid(b, q, price, whole)
      PROVE  RequestsAccounted'
  BY <1>5 DEF Bid, RequestsAccounted, counters, InFlight
<1>6. CASE UNCHANGED vars
  BY <1>6 DEF vars, RequestsAccounted, InFlight
<1>7. ASSUME NEW t \in Threads, NEW m \in answers, CollectThrows(t, m)
      PROVE  RequestsAccounted'
  BY <1>7 DEF CollectThrows, RequestsAccounted, counters, InFlight
<1>8. QED
  BY <1>1, <1>2, <1>3, <1>4, <1>5, <1>6, <1>7 DEF Next

(* A collector holds no more answers than bidders, fewer while it collects. *)
LEMMA StopsStep ==
  ASSUME TypeOK, StopsInTime, [Next]_vars
  PROVE  StopsInTime'
<1> SUFFICES ASSUME NumBidders > 0, NEW u \in Threads
             PROVE  /\ Len(responses'[u]) <= NumBidders
                    /\ pc'[u] = "collect" => Len(responses'[u]) < NumBidders
  BY DEF StopsInTime
<1>0. /\ NumBidders \in Nat /\ responses[u] \in Seq(Collected)
      /\ Len(responses[u]) \in Nat /\ Len(responses[u]) <= NumBidders
      /\ pc[u] = "collect" => Len(responses[u]) < NumBidders
  BY NumBiddersAssumption DEF TypeOK, StopsInTime
<1>1. ASSUME NEW t \in Threads, NEW p \in Ports, Distribute(t, p)
      PROVE  /\ Len(responses'[u]) <= NumBidders
             /\ pc'[u] = "collect" => Len(responses'[u]) < NumBidders
  BY <1>0, <1>1 DEF Distribute, TypeOK
<1>2. ASSUME NEW t \in Threads, NEW m \in answers, Collect(t, m)
      PROVE  /\ Len(responses'[u]) <= NumBidders
             /\ pc'[u] = "collect" => Len(responses'[u]) < NumBidders
  <2>1. CASE u = t
    <3>1. responses'[u] = Append(responses[u], Wire(m))
      BY <1>2, <2>1 DEF Collect, TypeOK
    <3>2. Len(responses'[u]) = Len(responses[u]) + 1
      BY <1>0, <3>1
    <3>3. pc[u] = "collect" /\ (pc'[u] = "collect" => Len(responses'[u]) # NumBidders)
      BY <1>2, <2>1 DEF Collect, TypeOK
    <3>4. QED
      BY <1>0, <3>2, <3>3
  <2>2. CASE u # t
    BY <1>0, <1>2, <2>2 DEF Collect, TypeOK
  <2>3. QED
    BY <2>1, <2>2
<1>3. ASSUME NEW t \in Threads, Expire(t)
      PROVE  /\ Len(responses'[u]) <= NumBidders
             /\ pc'[u] = "collect" => Len(responses'[u]) < NumBidders
  BY <1>0, <1>3 DEF Expire, TypeOK
<1>4. ASSUME NEW t \in Threads, Respond(t)
      PROVE  /\ Len(responses'[u]) <= NumBidders
             /\ pc'[u] = "collect" => Len(responses'[u]) < NumBidders
  <2>1. UNCHANGED responses /\ (pc'[u] = "collect" => pc[u] = "collect")
    BY <1>4 DEF Respond, TypeOK
  <2>2. QED
    BY <1>0, <2>1
<1>5. CASE UNCHANGED <<pc, responses>>
  BY <1>0, <1>5
<1>6. QED
  BY <1>1, <1>2, <1>3, <1>4, <1>5 DEF Next, CollectThrows, Bid, vars

(* Wire says bid for bid, and no bid for no bid. *)
LEMMA WireStep ==
  ASSUME TypeOK, WireKeepsBids, [Next]_vars
  PROVE  WireKeepsBids'
<1> SUFFICES ASSUME NEW u \in Threads, NEW i \in 1..Len(responses'[u])
             PROVE  responses'[u][i].price = NoBid <=> responses'[u][i].sent = NoBid
  BY DEF WireKeepsBids
<1>1. ASSUME NEW t \in Threads, NEW p \in Ports, Distribute(t, p)
      PROVE  responses'[u][i].price = NoBid <=> responses'[u][i].sent = NoBid
  BY <1>1 DEF Distribute, TypeOK, WireKeepsBids
<1>2. ASSUME NEW t \in Threads, NEW m \in answers, Collect(t, m)
      PROVE  responses'[u][i].price = NoBid <=> responses'[u][i].sent = NoBid
  <2>1. CASE u = t
    <3>1. /\ responses[u] \in Seq(Collected)
          /\ responses'[u] = Append(responses[u], Wire(m))
      BY <1>2, <2>1 DEF Collect, TypeOK
    <3>2. CASE i \in 1..Len(responses[u])
      <4>1. responses'[u][i] = responses[u][i]
        BY <3>1, <3>2
      <4>2. QED
        BY <3>2, <4>1 DEF WireKeepsBids
    <3>3. CASE i = Len(responses[u]) + 1
      <4>1. responses'[u][i] = Wire(m)
        BY <3>1, <3>3
      <4>2. QED
        BY <4>1, NoBidApart DEF Wire
    <3>4. QED
      BY <3>1, <3>2, <3>3
  <2>2. CASE u # t
    BY <1>2, <2>2 DEF Collect, TypeOK, WireKeepsBids
  <2>3. QED
    BY <2>1, <2>2
<1>3. CASE UNCHANGED responses
  BY <1>3 DEF WireKeepsBids
<1>4. QED
  BY <1>1, <1>2, <1>3 DEF Next, CollectThrows, Expire, Respond, Bid, vars

(* What stands first after the sort is no bid only when nothing is a bid. *)
LEMMA FirstIsBid ==
  ASSUME NEW rs \in Seq(Collected), NEW m \in Firsts(rs), m.price = NoBid,
         NEW i \in 1..Len(rs)
  PROVE  rs[i].price = NoBid
<1>1. ~Before(rs[i], m)
  BY DEF Firsts
<1>2. QED
  BY <1>1 DEF Before

LEMMA BidBeatsStep ==
  ASSUME TypeOK, WireKeepsBids, BidBeatsNoBid, [Next]_vars
  PROVE  BidBeatsNoBid'
<1> SUFFICES ASSUME NEW u \in Threads, pc'[u] = "replied", reply'[u] = NoBid,
                    NEW i \in 1..Len(responses'[u])
             PROVE  responses'[u][i].sent = NoBid
  BY DEF BidBeatsNoBid
<1>1. ASSUME NEW t \in Threads, Respond(t), t = u
      PROVE  responses'[u][i].sent = NoBid
  <2>1. UNCHANGED responses /\ responses[u] \in Seq(Collected) /\ responses[u] # <<>>
    BY <1>1 DEF Respond, TypeOK
  <2>2. PICK m \in Firsts(responses[u]) : reply' = [reply EXCEPT ![u] = m.sent]
    BY <1>1, <2>1 DEF Respond
  <2>3. m.sent = NoBid
    BY <2>2 DEF TypeOK
  <2>4. PICK j \in 1..Len(responses[u]) : m = responses[u][j]
    BY <2>2 DEF Firsts
  <2>5. m.price = NoBid
    BY <2>3, <2>4 DEF WireKeepsBids
  <2>6. responses[u][i].price = NoBid
    BY <2>1, <2>2, <2>5, FirstIsBid
  <2>7. QED
    BY <2>1, <2>6 DEF WireKeepsBids
<1>2. CASE pc[u] = "replied" /\ UNCHANGED <<reply[u], responses[u]>>
  BY <1>2 DEF BidBeatsNoBid
<1>3. ASSUME NEW t \in Threads, NEW p \in Ports, Distribute(t, p)
      PROVE  pc[u] = "replied" /\ UNCHANGED <<reply[u], responses[u]>>
  BY <1>3 DEF Distribute, TypeOK
<1>4. ASSUME NEW t \in Threads, NEW m \in answers, Collect(t, m)
      PROVE  pc[u] = "replied" /\ UNCHANGED <<reply[u], responses[u]>>
  BY <1>4 DEF Collect, TypeOK
<1>5. ASSUME NEW t \in Threads, Expire(t)
      PROVE  pc[u] = "replied" /\ UNCHANGED <<reply[u], responses[u]>>
  BY <1>5 DEF Expire, TypeOK
<1>6. ASSUME NEW t \in Threads, Respond(t), t # u
      PROVE  pc[u] = "replied" /\ UNCHANGED <<reply[u], responses[u]>>
  BY <1>6 DEF Respond, TypeOK
<1>7. CASE UNCHANGED <<pc, reply, responses>>
  BY <1>2, <1>7
<1>8. QED
  BY <1>1, <1>2, <1>3, <1>4, <1>5, <1>6, <1>7 DEF Next, CollectThrows, Bid, vars

-----------------------------------------------------------------------------
(* The answers held for requests under way are finitely many, NumBidders   *)
(* of them for a request at the most.                                      *)
LEMMA PendingFinite ==
  /\ IsFiniteSet(Pending)
  /\ Cardinality(Pending) \in Nat
  /\ Cardinality(Pending) <= Cardinality(InFlight) * NumBidders
<1> DEFINE held == InFlight \X (1..NumBidders)
<1>1. IsFiniteSet(1..NumBidders) /\ Cardinality(1..NumBidders) = NumBidders
  BY NumBiddersAssumption, FS_Interval
<1>2. IsFiniteSet(held) /\ Cardinality(held) = Cardinality(InFlight) * NumBidders
  BY <1>1, InFlightFinite, FS_Product
<1>3. Pending \in SUBSET held
  BY DEF Pending
<1> HIDE DEF held
<1>4. IsFiniteSet(Pending) /\ Cardinality(Pending) <= Cardinality(held)
  BY <1>2, <1>3, FS_Subset
<1>5. Cardinality(Pending) \in Nat
  BY <1>4, FS_CardinalityType
<1>6. QED
  BY <1>2, <1>4, <1>5

(* A collected answer is one pair more.                                    *)
LEMMA PendingCollect ==
  ASSUME TypeOK, StopsInTime, NumBidders > 0,
         NEW t \in Threads, NEW m \in answers, Collect(t, m)
  PROVE  Cardinality(Pending') = Cardinality(Pending) + 1
<1> DEFINE n == Len(responses[t])
<1>1. n \in Nat /\ n < NumBidders /\ NumBidders \in Nat
  BY NumBiddersAssumption DEF Collect, TypeOK, StopsInTime
<1>2. \A u \in Threads : Len(responses'[u]) = IF u = t THEN n + 1 ELSE Len(responses[u])
  <2>1. responses' = [responses EXCEPT ![t] = Append(responses[t], Wire(m))]
    BY DEF Collect
  <2>2. responses[t] \in Seq(Collected) /\ Len(Append(responses[t], Wire(m))) = n + 1
    BY DEF TypeOK
  <2>3. QED
    BY <2>1, <2>2 DEF TypeOK
<1>3. t \in InFlight /\ InFlight' = InFlight /\ InFlight \subseteq Threads
  BY InFlightSteps DEF InFlight
<1> HIDE DEF n
<1>4. Pending' = {ti \in InFlight \X (1..NumBidders) : ti[2] <= Len(responses'[ti[1]])}
  BY <1>3 DEF Pending
<1>5. <<t, n + 1>> \notin Pending
  BY <1>1 DEF Pending, n
<1>6. Pending' = Pending \cup {<<t, n + 1>>}
  <2>1. ASSUME NEW u \in InFlight, NEW i \in 1..NumBidders
        PROVE  <<u, i>> \in Pending' <=> <<u, i>> \in Pending \cup {<<t, n + 1>>}
    <3>1. <<u, i>> \in Pending' <=> i <= Len(responses'[u])
      BY <1>4
    <3>2. <<u, i>> \in Pending <=> i <= Len(responses[u])
      BY DEF Pending
    <3>3. CASE u = t
      <4>1. i <= n + 1 <=> i <= n \/ i = n + 1
        BY <1>1
      <4>2. QED
        BY <1>2, <1>3, <3>1, <3>2, <3>3, <4>1 DEF n
    <3>4. CASE u # t
      BY <1>2, <1>3, <3>1, <3>2, <3>4
    <3>5. QED
      BY <3>3, <3>4
  <2>2. <<t, n + 1>> \in InFlight \X (1..NumBidders)
    BY <1>1, <1>3
  <2>3. Pending \subseteq InFlight \X (1..NumBidders)
    BY DEF Pending
  <2>4. Pending' \subseteq InFlight \X (1..NumBidders)
    BY <1>4
  <2>5. QED
    BY <2>1, <2>2, <2>3, <2>4
<1>7. QED
  BY <1>5, <1>6, PendingFinite, FS_AddElement

(* The pairs of one thread are as many as their second parts.              *)
LEMMA PairsOfOne ==
  ASSUME NEW t, NEW n \in Nat
  PROVE  Cardinality({t} \X (1..n)) = n
<1>1. IsFiniteSet({t}) /\ Cardinality({t}) = 1
  BY FS_Singleton
<1>2. IsFiniteSet(1..n) /\ Cardinality(1..n) = n
  BY FS_Interval
<1>3. Cardinality({t} \X (1..n)) = 1 * n
  BY <1>1, <1>2, FS_Product
<1>4. QED
  BY <1>3

(* A reply takes the answers of its request out.                           *)
LEMMA PendingRespond ==
  ASSUME TypeOK, StopsInTime, NumBidders > 0, NEW t \in Threads, Respond(t)
  PROVE  Cardinality(Pending') = Cardinality(Pending) - Len(responses[t])
<1> DEFINE n == Len(responses[t])
           gone == {t} \X (1..n)
<1>1. n \in Nat /\ n <= NumBidders /\ NumBidders \in Nat
  BY NumBiddersAssumption DEF TypeOK, StopsInTime
<1>2. t \in InFlight /\ InFlight' = InFlight \ {t} /\ UNCHANGED responses
  BY InFlightSteps DEF Respond
<1>3. gone \subseteq Pending
  BY <1>1, <1>2 DEF Pending
<1>4. Pending' = Pending \ gone
  <2>1. Pending' = {ti \in (InFlight \ {t}) \X (1..NumBidders) : ti[2] <= Len(responses[ti[1]])}
    BY <1>2 DEF Pending
  <2>2. ASSUME NEW u \in InFlight, NEW i \in 1..NumBidders
        PROVE  <<u, i>> \in Pending' <=> <<u, i>> \in Pending \ gone
    <3>1. <<u, i>> \in Pending' <=> u # t /\ i <= Len(responses[u])
      BY <2>1
    <3>2. <<u, i>> \in Pending <=> i <= Len(responses[u])
      BY DEF Pending
    <3>3. <<u, i>> \in gone <=> u = t /\ i <= n
      BY <1>1
    <3>4. QED
      BY <3>1, <3>2, <3>3
  <2>3. Pending \subseteq InFlight \X (1..NumBidders)
    BY DEF Pending
  <2>4. Pending' \subseteq InFlight \X (1..NumBidders)
    BY <2>1
  <2>5. QED
    BY <2>2, <2>3, <2>4
<1>5. Cardinality(gone) = n
  BY <1>1, PairsOfOne
<1> HIDE DEF gone, n
<1>6. Pending \cap gone = gone
  BY <1>3
<1>7. Cardinality(Pending \ gone) = Cardinality(Pending) - Cardinality(Pending \cap gone)
  BY PendingFinite, FS_Difference
<1>8. QED
  BY <1>4, <1>5, <1>6, <1>7 DEF n

(* Nothing else changes them.                                              *)
LEMMA PendingStays ==
  ASSUME TypeOK,
         \/ \E t \in Threads : (\E p \in Ports : Distribute(t, p)) \/ Expire(t)
         \/ UNCHANGED <<pc, responses>>
  PROVE  Pending' = Pending
<1>1. ASSUME NEW t \in Threads, NEW p \in Ports, Distribute(t, p)
      PROVE  Pending' = Pending
  <2>1. t \notin InFlight /\ InFlight' = InFlight \cup {t} /\ InFlight \subseteq Threads
    BY <1>1, InFlightSteps DEF InFlight
  <2>2. \A u \in Threads : Len(responses'[u]) = IF u = t THEN 0 ELSE Len(responses[u])
    BY <1>1 DEF Distribute, TypeOK
  <2>3. Pending' = {ti \in (InFlight \cup {t}) \X (1..NumBidders) :
                      ti[2] <= Len(responses'[ti[1]])}
    BY <2>1 DEF Pending
  <2>4. ASSUME NEW u \in InFlight \cup {t}, NEW i \in 1..NumBidders
        PROVE  <<u, i>> \in Pending' <=> <<u, i>> \in Pending
    <3>1. <<u, i>> \in Pending' <=> i <= Len(responses'[u])
      BY <2>3
    <3>2. CASE u = t
      <4>1. ~(i <= 0)
        BY NumBiddersAssumption
      <4>2. QED
        BY <2>1, <2>2, <3>1, <3>2, <4>1 DEF Pending
    <3>3. CASE u # t
      BY <2>1, <2>2, <3>1, <3>3 DEF Pending
    <3>4. QED
      BY <3>2, <3>3
  <2>5. QED
    BY <2>3, <2>4 DEF Pending
<1>2. ASSUME NEW t \in Threads, Expire(t)
      PROVE  Pending' = Pending
  <2>1. InFlight' = InFlight /\ UNCHANGED responses
    BY <1>2, InFlightSteps DEF Expire
  <2>2. QED
    BY <2>1 DEF Pending
<1>3. CASE UNCHANGED <<pc, responses>>
  BY <1>3 DEF Pending, InFlight
<1>4. QED
  BY <1>1, <1>2, <1>3

(* How the counters move: a collected answer, a request every bidder       *)
(* answered, a request that ended with n answers.                          *)
LEMMA Settling ==
  ASSUME NEW N \in Nat, N > 0,
         NEW b \in Nat, NEW a \in Nat, NEW c \in Nat, NEW l \in Nat,
         l <= b - N * a - c, b - N * a - c <= (N - 1) * l
  PROVE  /\ /\ l <= (b + 1) - N * a - (c + 1)
            /\ (b + 1) - N * a - (c + 1) <= (N - 1) * l
         /\ /\ l <= b - N * (a + 1) - (c - N)
            /\ b - N * (a + 1) - (c - N) <= (N - 1) * l
         /\ \A n \in 1..(N - 1) :
              /\ l + 1 <= b - N * a - (c - n)
              /\ b - N * a - (c - n) <= (N - 1) * (l + 1)
<1> DEFINE x == N * a
           y == (N - 1) * l
<1>1. x \in Int /\ y \in Int
  OBVIOUS
<1>2. N * (a + 1) = x + N /\ (N - 1) * (l + 1) = y + (N - 1)
  OBVIOUS
<1>3. l <= b - x - c /\ b - x - c <= y
  OBVIOUS
<1> HIDE DEF x, y
<1>4. l <= (b + 1) - x - (c + 1) /\ (b + 1) - x - (c + 1) <= y
  BY <1>1, <1>3
<1>5. l <= b - (x + N) - (c - N) /\ b - (x + N) - (c - N) <= y
  BY <1>1, <1>3
<1>6. ASSUME NEW n \in 1..(N - 1)
      PROVE  l + 1 <= b - x - (c - n) /\ b - x - (c - n) <= y + (N - 1)
  BY <1>1, <1>3
<1>7. QED
  BY <1>2, <1>4, <1>5, <1>6 DEF x, y

(* What bidder_response_count has beyond the complete requests and the     *)
(* ones under way, timeouts left there: of each at least one answer, of    *)
(* none as many as bidders.                                                *)
LEMMA LateStep ==
  ASSUME TypeOK, StopsInTime, LateAnswers, [Next]_vars
  PROVE  LateAnswers'
<1> SUFFICES ASSUME NumBidders > 0
             PROVE  /\ timeout_response_count' <= Late'
                    /\ Late' <= (NumBidders - 1) * timeout_response_count'
  BY DEF LateAnswers
<1>0. /\ NumBidders \in Nat
      /\ bidder_response_count \in Nat /\ all_response_count \in Nat
      /\ timeout_response_count \in Nat /\ Cardinality(Pending) \in Nat
      /\ timeout_response_count <=
           bidder_response_count - NumBidders * all_response_count - Cardinality(Pending)
      /\ bidder_response_count - NumBidders * all_response_count - Cardinality(Pending)
           <= (NumBidders - 1) * timeout_response_count
  BY NumBiddersAssumption, PendingFinite DEF TypeOK, LateAnswers, Late
<1>1. CASE /\ UNCHANGED <<bidder_response_count, all_response_count, timeout_response_count>>
           /\ Pending' = Pending
  BY <1>0, <1>1 DEF Late
<1>2. ASSUME NEW t \in Threads, NEW p \in Ports, Distribute(t, p)
      PROVE  LateAnswers'
  <2>1. Pending' = Pending
    BY <1>2, PendingStays
  <2>2. QED
    BY <1>1, <1>2, <2>1 DEF Distribute, LateAnswers
<1>3. ASSUME NEW t \in Threads, NEW m \in answers, Collect(t, m)
      PROVE  LateAnswers'
  <2>1. Cardinality(Pending') = Cardinality(Pending) + 1
    BY <1>3, PendingCollect
  <2>2. /\ bidder_response_count' = bidder_response_count + 1
        /\ UNCHANGED <<all_response_count, timeout_response_count>>
    BY <1>3 DEF Collect
  <2>3. QED
    BY <1>0, <2>1, <2>2, Settling DEF Late, LateAnswers
<1>4. ASSUME NEW t \in Threads, Expire(t)
      PROVE  LateAnswers'
  <2>1. Pending' = Pending
    BY <1>4, PendingStays
  <2>2. QED
    BY <1>1, <1>4, <2>1 DEF Expire, counters, LateAnswers
<1>5. ASSUME NEW t \in Threads, Respond(t)
      PROVE  LateAnswers'
  <2>1. Cardinality(Pending') = Cardinality(Pending) - Len(responses[t])
    BY <1>5, PendingRespond
  <2>2. /\ responses[t] \in Seq(Collected) /\ Len(responses[t]) \in Nat
        /\ Len(responses[t]) <= NumBidders
        /\ UNCHANGED bidder_response_count
    BY <1>5 DEF Respond, TypeOK, StopsInTime
  <2>3. CASE responses[t] = <<>>
    <3>1. Cardinality(Pending') = Cardinality(Pending)
      BY <1>0, <2>1, <2>3
    <3>2. UNCHANGED <<all_response_count, timeout_response_count>>
      BY <1>5, <2>3 DEF Respond
    <3>3. QED
      BY <1>0, <2>2, <3>1, <3>2 DEF Late, LateAnswers
  <2>4. CASE responses[t] # <<>> /\ Len(responses[t]) = NumBidders
    <3>1. /\ all_response_count' = all_response_count + 1
          /\ UNCHANGED timeout_response_count
      BY <1>5, <2>4 DEF Respond
    <3>2. QED
      BY <1>0, <2>1, <2>2, <2>4, <3>1, Settling DEF Late, LateAnswers
  <2>5. CASE responses[t] # <<>> /\ Len(responses[t]) # NumBidders
    <3>1. /\ timeout_response_count' = timeout_response_count + 1
          /\ UNCHANGED all_response_count
      BY <1>5, <2>5 DEF Respond
    <3>2. Len(responses[t]) \in 1..(NumBidders - 1)
      BY <1>0, <2>2, <2>5
    <3>3. QED
      BY <1>0, <2>1, <2>2, <3>1, <3>2, Settling DEF Late, LateAnswers
  <2>6. QED
    BY <2>3, <2>4, <2>5
<1>6. CASE UNCHANGED <<counters, pc, responses>>
  <2>1. Pending' = Pending
    BY <1>6, PendingStays
  <2>2. QED
    BY <1>1, <1>6, <2>1 DEF counters
<1>7. ASSUME NEW b \in Bidders, NEW q \in asked, NEW price \in Prices \cup {NoBid},
             NEW whole \in BOOLEAN, Bid(b, q, price, whole)
      PROVE  UNCHANGED <<counters, pc, responses>>
  BY <1>7 DEF Bid
<1>8. CASE UNCHANGED vars
  BY <1>6, <1>8 DEF vars, counters
<1>9. ASSUME NEW t \in Threads, NEW m \in answers, CollectThrows(t, m)
      PROVE  UNCHANGED <<counters, pc, responses>>
  BY <1>9 DEF CollectThrows
<1>10. QED
  BY <1>2, <1>3, <1>4, <1>5, <1>6, <1>7, <1>8, <1>9 DEF Next, LateAnswers

-----------------------------------------------------------------------------
LEMMA InitIInv == Init => IInv
<1> SUFFICES ASSUME Init PROVE IInv
  OBVIOUS
<1>1. InFlight = {} /\ Pending = {}
  BY DEF Init, InFlight, Pending
<1>2. Cardinality(InFlight) = 0 /\ Cardinality(Pending) = 0
  BY <1>1, FS_EmptySet
<1>3. TypeOK
  BY <1>1, BoundsAssumption DEF Init, TypeOK, Requests, Answers, InFlight
<1>4. RequestsAccounted
  BY <1>2 DEF Init, RequestsAccounted
<1>5. StopsInTime /\ WireKeepsBids /\ BidBeatsNoBid
  BY NumBiddersAssumption DEF Init, StopsInTime, WireKeepsBids, BidBeatsNoBid
<1>6. LateAnswers
  BY <1>2, NumBiddersAssumption DEF Init, LateAnswers, Late
<1>7. QED
  BY <1>3, <1>4, <1>5, <1>6 DEF IInv

LEMMA NextIInv == IInv /\ [Next]_vars => IInv'
BY TypeStep, RequestsStep, StopsStep, LateStep, WireStep, BidBeatsStep DEF IInv

LEMMA Invariance == Spec => []IInv
BY InitIInv, NextIInv, PTL DEF Spec

(* The counters, the ports and the collectors stay what the handlers take  *)
(* them for; a thread has a port exactly while it has a request.           *)
THEOREM TypeCorrect == Spec => []TypeOK
BY Invariance, PTL DEF IInv

(* The status page of the exchange never loses or doubles a request, for   *)
(* any number of threads and bidders and any fate of the datagrams.        *)
THEOREM RequestsTheorem == Spec => []RequestsAccounted
BY Invariance, PTL DEF IInv

(* done() stops the loop of collect in the handler that completes the set. *)
THEOREM OvershootTheorem == Spec => []NeverOvershoots
<1>1. IInv => NeverOvershoots
  BY DEF IInv, StopsInTime, NeverOvershoots
<1>2. QED
  BY <1>1, Invariance, PTL

(* "bid responses" agrees with the other counters of the status page.      *)
THEOREM BidResponsesTheorem == Spec => []BidResponsesAccounted
<1>1. ASSUME IInv, NumBidders > 0
      PROVE  LET known == NumBidders * all_response_count
             IN  /\ known + timeout_response_count <= bidder_response_count
                 /\ bidder_response_count <= known + (NumBidders - 1) * timeout_response_count
                                               + NumBidders * Cardinality(InFlight)
  <2> DEFINE known == NumBidders * all_response_count
             late == (NumBidders - 1) * timeout_response_count
             most == NumBidders * Cardinality(InFlight)
             held == Cardinality(Pending)
  <2>1. /\ known \in Int /\ late \in Int /\ most \in Int /\ held \in Nat
        /\ held <= most
        /\ bidder_response_count \in Nat /\ timeout_response_count \in Nat
    BY <1>1, NumBiddersAssumption, PendingFinite, InFlightFinite DEF IInv, TypeOK
  <2>2. /\ timeout_response_count <= bidder_response_count - known - held
        /\ bidder_response_count - known - held <= late
    BY <1>1 DEF IInv, LateAnswers, Late
  <2> HIDE DEF known, late, most, held
  <2>3. /\ known + timeout_response_count <= bidder_response_count
        /\ bidder_response_count <= known + late + most
    BY <2>1, <2>2
  <2>4. QED
    BY <2>3 DEF known, late, most
<1>2. IInv => BidResponsesAccounted
  BY <1>1 DEF BidResponsesAccounted
<1>3. QED
  BY <1>2, Invariance, PTL

(* The comparator of multibidder_collector::response puts a bid before     *)
(* every response without one, although the wire has lost its price.       *)
THEOREM BidBeatsTheorem == Spec => []BidBeatsNoBid
BY Invariance, PTL DEF IInv

=============================================================================
