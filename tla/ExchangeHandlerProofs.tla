------------------------ MODULE ExchangeHandlerProofs ------------------------
(***************************************************************************)
(* Proofs about ExchangeHandler for any number of requests.                *)
(***************************************************************************)
EXTENDS ExchangeHandler, TLAPS

(* The marker never leaves the loop, which therefore never runs dry.       *)
Marked == \E i \in 1..Len(ready) : ready[i] = Reactor

(* A request has been numbered before anything is done for it.             *)
Numbered == pc # "idle" => cur # None

(* What the auction thread has left is for the request that waits for it.  *)
AnswerIsReady == auction = "ready" => response = cur

IsSubmit(i) == ready[i].kind = "submit"

Awaited == pc = "arm" \/ (pc = "run" /\ ~stopped)

(* The loop runs until the auction of its request was run, and for nothing *)
(* else: the callbacks in it are those of waits that were cancelled.       *)
TimersCancelled ==
  \A i \in 1..Len(ready) : ready[i].kind = "timer" => ready[i].aborted

SubmitsServe ==
  \A i \in 1..Len(ready) : IsSubmit(i) => ready[i] = Submit(cur) /\ Awaited

OneSubmit ==
  \A i, j \in 1..Len(ready) : IsSubmit(i) /\ IsSubmit(j) => i = j

LoopServesOne ==
  ~stalled =>
    /\ TimersCancelled
    /\ SubmitsServe
    /\ OneSubmit
    /\ Awaited => \E i \in 1..Len(ready) : IsSubmit(i)
    /\ pc = "run" /\ stopped => response = cur

(* The inductive invariant.                                                *)
IInv ==
  /\ TypeOK
  /\ AuctionWithinRequest
  /\ Marked
  /\ Numbered
  /\ AnswerIsReady
  /\ LoopServesOne
  /\ RepliesMatch

-----------------------------------------------------------------------------
(* A queue without its head, and a queue with one operation more.          *)
LEMMA TailOf ==
  ASSUME NEW S, NEW q \in Seq(S), q # <<>>
  PROVE  /\ Tail(q) \in Seq(S) /\ Len(Tail(q)) = Len(q) - 1
         /\ Head(q) = q[1] /\ Head(q) \in S
         /\ \A i \in 1..Len(Tail(q)) : Tail(q)[i] = q[i + 1] /\ i + 1 \in 1..Len(q)
OBVIOUS

LEMMA AppendOf ==
  ASSUME NEW S, NEW q \in Seq(S), NEW e \in S
  PROVE  /\ Append(q, e) \in Seq(S) /\ Len(Append(q, e)) = Len(q) + 1
         /\ \A i \in 1..Len(q) : Append(q, e)[i] = q[i]
         /\ Append(q, e)[Len(q) + 1] = e
OBVIOUS

LEMMA ConcatTwo ==
  ASSUME NEW S, NEW q \in Seq(S), NEW a \in S, NEW b \in S
  PROVE  /\ q \o <<a, b>> \in Seq(S) /\ Len(q \o <<a, b>>) = Len(q) + 2
         /\ \A i \in 1..Len(q) : (q \o <<a, b>>)[i] = q[i]
         /\ (q \o <<a, b>>)[Len(q) + 1] = a
         /\ (q \o <<a, b>>)[Len(q) + 2] = b
OBVIOUS

(* The operations are told apart by what they are. *)
LEMMA OpsTyped ==
  /\ Reactor \in Ops
  /\ \A r \in 0..MaxRequests : Submit(r) \in Ops
  /\ \A r \in 0..MaxRequests, a \in BOOLEAN : OnTimer(r, a) \in Ops
  /\ Reactor.kind = "reactor"
  /\ \A r : Submit(r).kind = "submit" /\ Submit(r).req = r
  /\ \A r, a : OnTimer(r, a).kind = "timer" /\ OnTimer(r, a).aborted = a
BY MaxRequestsAssumption DEF Reactor, Submit, OnTimer, Ops, None

(* The loop is never empty. *)
LEMMA NotEmpty ==
  ASSUME TypeOK, Marked
  PROVE  /\ ready \in Seq(Ops) /\ ready # <<>>
         /\ Rest \in Seq(Ops) /\ Len(Rest) = Len(ready) - 1 /\ Len(ready) \in Nat
         /\ Head(ready) = ready[1] /\ Head(ready) \in Ops
         /\ \A i \in 1..Len(Rest) : Rest[i] = ready[i + 1] /\ i + 1 \in 1..Len(ready)
<1>1. ready \in Seq(Ops)
  BY DEF TypeOK
<1>2. ready # <<>>
  BY <1>1 DEF Marked
<1>3. QED
  BY <1>1, <1>2, TailOf DEF Rest

-----------------------------------------------------------------------------
LEMMA TypeStep ==
  ASSUME TypeOK, Marked, [Next]_vars
  PROVE  TypeOK'
<1> USE MaxRequestsAssumption
<1>1. CASE Reject
  BY <1>1 DEF Reject, loop, TypeOK, None
<1>2. CASE Accept
  <2>1. Submit(cur + 1) \in Ops
    BY <1>2, OpsTyped DEF Accept, TypeOK
  <2>2. Append(ready, Submit(cur + 1)) \in Seq(Ops)
    BY <2>1, AppendOf DEF TypeOK
  <2>3. ready' \in Seq(Ops)
    BY <1>2, <2>2 DEF Accept, TypeOK
  <2>4. cur' \in 0..MaxRequests /\ response' \in 0..MaxRequests
    BY <1>2 DEF Accept, TypeOK, None
  <2>5. /\ pc' \in {"arm", "wait"} /\ expired' \in BOOLEAN
        /\ auction' \in {"none", "running", "ready"}
    BY <1>2 DEF Accept, TypeOK
  <2>6. UNCHANGED <<handler, stopped, waiting, reply, stalled>>
    BY <1>2 DEF Accept
  <2>7. QED
    BY <2>3, <2>4, <2>5, <2>6 DEF TypeOK
<1>3. CASE Arm
  <2>1. OnTimer(waiting, TRUE) \in Ops
    BY OpsTyped DEF TypeOK
  <2>2. Append(ready, OnTimer(waiting, TRUE)) \in Seq(Ops)
    BY <2>1, AppendOf DEF TypeOK
  <2>3. ready' \in Seq(Ops)
    BY <1>3, <2>2 DEF Arm, TypeOK
  <2>4. QED
    BY <1>3, <2>3 DEF Arm, TypeOK
<1>4. CASE PollReactor
  <2>1. OnTimer(waiting, FALSE) \in Ops /\ Reactor \in Ops
    BY OpsTyped DEF TypeOK
  <2>2. Rest \o <<OnTimer(waiting, FALSE), Reactor>> \in Seq(Ops) /\ Append(Rest, Reactor) \in Seq(Ops)
    BY <2>1, NotEmpty, AppendOf, ConcatTwo
  <2>3. ready' \in Seq(Ops) /\ waiting' \in {None, waiting} /\ stalled' \in BOOLEAN
    BY <1>4, <2>2 DEF PollReactor, TypeOK
  <2>4. QED
    BY <1>4, <2>3 DEF PollReactor, TypeOK, None
<1>5. CASE RunSubmit
  <2>1. Head(ready).req \in 0..MaxRequests /\ ready' \in Seq(Ops)
    BY <1>5, NotEmpty DEF RunSubmit, Ops
  <2>2. response' \in {response, Head(ready).req, cur}
    BY <1>5 DEF RunSubmit
  <2>3. QED
    BY <1>5, <2>1, <2>2 DEF RunSubmit, Stop, TypeOK
<1>6. CASE RunTimer
  <2>1. ready' \in Seq(Ops)
    BY <1>6, NotEmpty DEF RunTimer
  <2>2. stopped' \in BOOLEAN
    BY <1>6 DEF RunTimer, Stop, TypeOK
  <2>3. UNCHANGED <<handler, pc, cur, waiting, expired, response, auction, reply, stalled>>
    BY <1>6 DEF RunTimer
  <2>4. QED
    BY <2>1, <2>2, <2>3 DEF TypeOK
<1>7. CASE Finish
  BY <1>7 DEF Finish, Replies, loop, TypeOK, None
<1>8. CASE WaitReady
  BY <1>8 DEF WaitReady, Replies, loop, TypeOK
<1>9. CASE WaitTimeout
  BY <1>9 DEF WaitTimeout, Replies, loop, TypeOK, None
<1>10. CASE Join
  BY <1>10 DEF Join, loop, TypeOK
<1>11. CASE AuctionDone
  BY <1>11 DEF AuctionDone, loop, TypeOK
<1>12. CASE Elapse
  BY <1>12 DEF Elapse, loop, TypeOK
<1>13. CASE UNCHANGED vars
  BY <1>13 DEF vars, TypeOK
<1>14. QED
  BY <1>1, <1>2, <1>3, <1>4, <1>5, <1>6, <1>7, <1>8, <1>9, <1>10, <1>11, <1>12, <1>13
     DEF Next, Thread

(* An auction thread is started by the request that waits for it, and the  *)
(* request does not go on without it.                                      *)
LEMMA AuctionStep ==
  ASSUME TypeOK, AuctionWithinRequest, Numbered, AnswerIsReady, [Next]_vars
  PROVE  AuctionWithinRequest' /\ Numbered' /\ AnswerIsReady'
<1> USE MaxRequestsAssumption DEF AuctionWithinRequest, Numbered, AnswerIsReady
<1>1. CASE Reject
  BY <1>1 DEF Reject, loop, TypeOK, None
<1>2. CASE Accept
  BY <1>2 DEF Accept, TypeOK, None
<1>3. CASE Arm \/ PollReactor \/ RunTimer
  BY <1>3 DEF Arm, PollReactor, RunTimer, Running, TypeOK
<1>4. CASE RunSubmit
  BY <1>4 DEF RunSubmit, Running, TypeOK
<1>5. CASE Finish
  BY <1>5 DEF Finish, loop, TypeOK
<1>6. CASE WaitReady \/ WaitTimeout \/ Join
  BY <1>6 DEF WaitReady, WaitTimeout, Join, loop, TypeOK
<1>7. CASE AuctionDone \/ Elapse
  BY <1>7 DEF AuctionDone, Elapse, loop, TypeOK
<1>8. CASE UNCHANGED vars
  BY <1>8 DEF vars
<1>9. QED
  BY <1>1, <1>2, <1>3, <1>4, <1>5, <1>6, <1>7, <1>8 DEF Next, Thread

(* The marker is put back by who takes it. *)
LEMMA MarkedStep ==
  ASSUME TypeOK, Marked, [Next]_vars
  PROVE  Marked'
<1> USE OpsTyped, NotEmpty
<1>1. PICK k \in 1..Len(ready) : ready[k] = Reactor
  BY DEF Marked
<1>2. CASE UNCHANGED ready
  BY <1>1, <1>2 DEF Marked
<1>3. ASSUME NEW e \in Ops, ready' = Append(ready, e)
      PROVE  Marked'
  <2>1. k \in 1..Len(ready') /\ ready'[k] = Reactor
    BY <1>1, <1>3, AppendOf
  <2>2. QED
    BY <2>1 DEF Marked
<1>4. ASSUME ready' = Rest, Head(ready).kind # "reactor"
      PROVE  Marked'
  <2>1. k # 1 /\ k - 1 \in 1..Len(Rest)
    BY <1>1, <1>4
  <2>2. Rest[k - 1] = Reactor
    BY <1>1, <2>1
  <2>3. QED
    BY <1>4, <2>1, <2>2 DEF Marked
<1>5. CASE Accept
  <2>1. Submit(cur + 1) \in Ops
    BY <1>5, MaxRequestsAssumption DEF Accept, TypeOK
  <2>2. QED
    BY <1>2, <1>3, <1>5, <2>1 DEF Accept
<1>6. CASE Arm
  <2>1. OnTimer(waiting, TRUE) \in Ops
    BY DEF TypeOK
  <2>2. QED
    BY <1>2, <1>3, <1>6, <2>1 DEF Arm
<1>7. CASE PollReactor
  <2>1. CASE ready' = Append(Rest, Reactor)
    <3>1. Len(ready') = Len(Rest) + 1 /\ ready'[Len(Rest) + 1] = Reactor
      BY <2>1, AppendOf
    <3>2. QED
      BY <3>1 DEF Marked
  <2>2. CASE ready' = Rest \o <<OnTimer(waiting, FALSE), Reactor>>
    <3>1. OnTimer(waiting, FALSE) \in Ops
      BY DEF TypeOK
    <3>2. Len(ready') = Len(Rest) + 2 /\ ready'[Len(Rest) + 2] = Reactor
      BY <2>2, <3>1, ConcatTwo
    <3>3. QED
      BY <3>2 DEF Marked
  <2>3. QED
    BY <1>7, <2>1, <2>2 DEF PollReactor
<1>8. CASE RunSubmit
  BY <1>4, <1>8 DEF RunSubmit, Running
<1>9. CASE RunTimer
  BY <1>4, <1>9 DEF RunTimer, Running
<1>10. QED
  BY <1>2, <1>5, <1>6, <1>7, <1>8, <1>9
     DEF Next, Thread, Reject, Finish, WaitReady, WaitTimeout, Join, AuctionDone, Elapse, vars, loop

-----------------------------------------------------------------------------
(* The loop of a thread that was not held up serves one request at a time. *)
LEMMA LoopStep ==
  ASSUME TypeOK, Marked, AuctionWithinRequest, LoopServesOne, [Next]_vars
  PROVE  LoopServesOne'
<1> SUFFICES ASSUME ~stalled'
             PROVE  /\ TimersCancelled' /\ SubmitsServe' /\ OneSubmit'
                    /\ Awaited' => \E i \in 1..Len(ready') : IsSubmit(i)'
                    /\ pc' = "run" /\ stopped' => response' = cur'
  BY DEF LoopServesOne
<1> DEFINE Holds == /\ TimersCancelled /\ SubmitsServe /\ OneSubmit
                    /\ Awaited => \E i \in 1..Len(ready) : IsSubmit(i)
                    /\ pc = "run" /\ stopped => response = cur
<1>0. ~stalled
  BY DEF Next, Thread, vars, Reject, Accept, Arm, PollReactor, RunSubmit, RunTimer, Finish,
         WaitReady, WaitTimeout, Join, AuctionDone, Elapse, TypeOK
<1>1. Holds
  BY <1>0 DEF LoopServesOne
<1>2. ready \in Seq(Ops) /\ Len(ready) \in Nat
  BY DEF TypeOK
<1> USE <1>1
<1>3. ASSUME ~Awaited, ~Awaited', UNCHANGED ready, pc' # "run"
      PROVE  Holds'
  BY <1>3 DEF TimersCancelled, SubmitsServe, OneSubmit, IsSubmit, Awaited
<1>4. CASE Reject
  BY <1>3, <1>4 DEF Reject, Awaited, loop
<1>5. CASE Accept
  <2>1. CASE pc' = "wait"
    BY <1>3, <1>5, <2>1 DEF Accept, Awaited
  <2>2. CASE pc' # "wait"
    <3>0. cur' \in 0..MaxRequests
      BY <1>5, MaxRequestsAssumption DEF Accept, TypeOK
    <3>1. /\ pc' = "arm" /\ cur' = cur + 1 /\ ready' = Append(ready, Submit(cur'))
          /\ Submit(cur') \in Ops
      BY <1>5, <2>2, <3>0, OpsTyped DEF Accept
    <3>2. \A i \in 1..Len(ready) : ready[i].kind # "submit"
      BY <1>5 DEF Accept, SubmitsServe, IsSubmit, Awaited
    <3>3. /\ Len(ready') = Len(ready) + 1 /\ ready'[Len(ready) + 1] = Submit(cur')
          /\ \A i \in 1..Len(ready) : ready'[i] = ready[i]
      <4> DEFINE e == Submit(cur')
      <4>1. e \in Ops /\ ready' = Append(ready, e)
        BY <3>1
      <4> HIDE DEF e
      <4>2. Len(ready') = Len(ready) + 1 /\ ready'[Len(ready) + 1] = e
            /\ \A i \in 1..Len(ready) : ready'[i] = ready[i]
        BY <1>2, <4>1, AppendOf
      <4>3. QED
        BY <4>2 DEF e
    <3>4. \A i \in 1..Len(ready') : i = Len(ready) + 1 \/ i \in 1..Len(ready)
      BY <1>2, <3>3
    <3>5. Len(ready) + 1 \in 1..Len(ready')
      BY <1>2, <3>3
    <3>6. TimersCancelled' /\ SubmitsServe' /\ OneSubmit'
      BY <3>1, <3>2, <3>3, <3>4, OpsTyped
         DEF TimersCancelled, SubmitsServe, OneSubmit, IsSubmit, Awaited
    <3>7. \E i \in 1..Len(ready') : IsSubmit(i)'
      BY <3>3, <3>5, OpsTyped DEF IsSubmit
    <3>8. QED
      BY <3>1, <3>6, <3>7
  <2>3. QED
    BY <2>1, <2>2
<1>6. CASE Arm
  <2>1. Awaited /\ Awaited' /\ cur' = cur /\ stopped' = FALSE
    BY <1>6 DEF Arm, Awaited
  <2>2. CASE UNCHANGED ready
    BY <2>1, <2>2 DEF TimersCancelled, SubmitsServe, OneSubmit, IsSubmit
  <2>3. CASE ready' = Append(ready, OnTimer(waiting, TRUE))
    <3>1. OnTimer(waiting, TRUE) \in Ops
      BY OpsTyped DEF TypeOK
    <3>2. /\ Len(ready') = Len(ready) + 1 /\ ready'[Len(ready) + 1] = OnTimer(waiting, TRUE)
          /\ \A i \in 1..Len(ready) : ready'[i] = ready[i]
      <4> DEFINE e == OnTimer(waiting, TRUE)
      <4>1. e \in Ops /\ ready' = Append(ready, e)
        BY <2>3, <3>1
      <4> HIDE DEF e
      <4>2. Len(ready') = Len(ready) + 1 /\ ready'[Len(ready) + 1] = e
            /\ \A i \in 1..Len(ready) : ready'[i] = ready[i]
        BY <1>2, <4>1, AppendOf
      <4>3. QED
        BY <4>2 DEF e
    <3>3. \A i \in 1..Len(ready') : i = Len(ready) + 1 \/ i \in 1..Len(ready)
      BY <1>2, <3>2
    <3>4. 1..Len(ready) \subseteq 1..Len(ready')
      BY <1>2, <3>2
    <3>5. OnTimer(waiting, TRUE).kind = "timer" /\ OnTimer(waiting, TRUE).aborted
      BY OpsTyped
    <3>6. TimersCancelled' /\ SubmitsServe' /\ OneSubmit'
      BY <2>1, <3>2, <3>3, <3>5 DEF TimersCancelled, SubmitsServe, OneSubmit, IsSubmit
    <3>7. \E i \in 1..Len(ready') : IsSubmit(i)'
      BY <2>1, <3>2, <3>4 DEF IsSubmit
    <3>8. QED
      BY <2>1, <3>6, <3>7
  <2>4. QED
    BY <1>6, <2>2, <2>3 DEF Arm
<1>7. CASE PollReactor
  <2>1. Awaited /\ Awaited' /\ UNCHANGED <<cur, stopped>> /\ ~stopped
        /\ ready[1].kind = "reactor"
    BY <1>7, NotEmpty DEF PollReactor, Running, Awaited
  <2>2. PICK k \in 1..Len(ready) : IsSubmit(k)
    BY <2>1
  <2>3. k # 1 /\ k - 1 \in 1..Len(Rest) /\ Rest[k - 1] = Submit(cur)
    <3>1. ready[k] = Submit(cur)
      BY <2>2 DEF SubmitsServe
    <3>2. k # 1
      BY <2>1, <2>2 DEF IsSubmit
    <3>3. k - 1 \in 1..Len(Rest) /\ (k - 1) + 1 = k
      BY <3>2, NotEmpty
    <3>4. QED
      BY <3>1, <3>2, <3>3, NotEmpty
  <2>4. ready' = Append(Rest, Reactor)
    <3>1. \E i \in 1..Len(Rest) : Rest[i] = Submit(cur)
      BY <2>3
    <3>2. ~ (stalled' = (stalled \/ \E i \in 1..Len(Rest) : Rest[i] = Submit(cur)))
      BY <3>1
    <3>3. QED
      BY <1>7, <3>2 DEF PollReactor
  <2>5. /\ Len(ready') = Len(ready) /\ ready'[Len(ready)] = Reactor
        /\ \A i \in 1..Len(Rest) : ready'[i] = ready[i + 1] /\ i + 1 \in 1..Len(ready)
    BY <2>4, NotEmpty, AppendOf, OpsTyped
  <2>6. \A i \in 1..Len(ready') : i = Len(ready) \/ i \in 1..Len(Rest)
    BY <2>5, NotEmpty
  <2>7. TimersCancelled' /\ SubmitsServe'
    <3>1. TimersCancelled'
      BY <2>5, <2>6, OpsTyped DEF TimersCancelled
    <3>2. SubmitsServe'
      BY <2>1, <2>5, <2>6, OpsTyped DEF SubmitsServe, IsSubmit
    <3>3. QED
      BY <3>1, <3>2
  <2>8. OneSubmit'
    BY <2>5, <2>6, OpsTyped DEF OneSubmit, IsSubmit
  <2>9. k - 1 \in 1..Len(ready') /\ ready'[k - 1].kind = "submit"
    BY <2>3, <2>5, NotEmpty, OpsTyped
  <2>10. QED
    BY <2>1, <2>7, <2>8, <2>9 DEF IsSubmit
<1>8. CASE RunSubmit
  <2>1. /\ ready' = Rest /\ ready[1].kind = "submit" /\ pc' = "run" /\ stopped' /\ cur' = cur
        /\ pc = "run" /\ ~stopped
    BY <1>8, NotEmpty DEF RunSubmit, Running, Stop
  <2>2. 1 \in 1..Len(ready) /\ Head(ready) = Submit(cur)
    BY <2>1, NotEmpty DEF SubmitsServe, IsSubmit
  <2>3. response' = cur
    BY <1>8, <2>2, OpsTyped DEF RunSubmit
  <2>4. \A i \in 1..Len(Rest) : Rest[i] = ready[i + 1] /\ i + 1 \in 1..Len(ready) /\ i + 1 # 1
    BY NotEmpty
  <2>5. \A i \in 1..Len(Rest) : Rest[i].kind # "submit"
    BY <2>1, <2>2, <2>4 DEF OneSubmit, IsSubmit
  <2>6. TimersCancelled' /\ SubmitsServe' /\ OneSubmit'
    BY <2>1, <2>4, <2>5 DEF TimersCancelled, SubmitsServe, OneSubmit, IsSubmit
  <2>7. QED
    BY <2>1, <2>3, <2>6 DEF Awaited
<1>9. CASE RunTimer
  <2>1. /\ ready' = Rest /\ ready[1].kind = "timer" /\ UNCHANGED <<pc, cur, response>>
        /\ pc = "run" /\ ~stopped /\ 1 \in 1..Len(ready)
    BY <1>9, NotEmpty DEF RunTimer, Running
  <2>2. Head(ready).aborted
    BY <2>1, NotEmpty DEF TimersCancelled
  <2>3. UNCHANGED stopped
    BY <1>9, <2>2 DEF RunTimer
  <2>4. Awaited /\ Awaited'
    BY <2>1, <2>3 DEF Awaited
  <2>5. \A i \in 1..Len(Rest) : Rest[i] = ready[i + 1] /\ i + 1 \in 1..Len(ready)
    BY NotEmpty
  <2>6. TimersCancelled' /\ SubmitsServe'
    BY <2>1, <2>4, <2>5 DEF TimersCancelled, SubmitsServe, IsSubmit
  <2>7. OneSubmit'
    <3> SUFFICES ASSUME NEW i \in 1..Len(Rest), NEW j \in 1..Len(Rest),
                        Rest[i].kind = "submit", Rest[j].kind = "submit"
                 PROVE  i = j
      BY <2>1 DEF OneSubmit, IsSubmit
    <3>1. IsSubmit(i + 1) /\ IsSubmit(j + 1)
      BY <2>5 DEF IsSubmit
    <3>2. i + 1 = j + 1
      BY <2>5, <3>1 DEF OneSubmit
    <3>3. QED
      BY <3>2
  <2>8. PICK k \in 1..Len(ready) : IsSubmit(k)
    BY <2>4
  <2>9. k - 1 \in 1..Len(Rest) /\ Rest[k - 1].kind = "submit"
    BY <2>1, <2>8, NotEmpty DEF IsSubmit
  <2>10. QED
    BY <2>1, <2>3, <2>6, <2>7, <2>9 DEF IsSubmit
<1>10. CASE Finish \/ WaitReady \/ WaitTimeout \/ Join
  <2>1. ~Awaited /\ ~Awaited' /\ UNCHANGED ready /\ pc' # "run"
    BY <1>10 DEF Finish, WaitReady, WaitTimeout, Join, Awaited, loop
  <2>2. QED
    BY <1>3, <2>1
<1>11. CASE AuctionDone
  <2>1. pc \in {"wait", "join"} /\ UNCHANGED <<pc, ready>>
    BY <1>11 DEF AuctionDone, AuctionWithinRequest, loop
  <2>2. QED
    BY <1>3, <2>1 DEF Awaited
<1>12. CASE UNCHANGED <<pc, cur, ready, stopped, response>>
  BY <1>12 DEF TimersCancelled, SubmitsServe, OneSubmit, IsSubmit, Awaited
<1>13. QED
  BY <1>4, <1>5, <1>6, <1>7, <1>8, <1>9, <1>10, <1>11, <1>12
     DEF Next, Thread, Elapse, vars, loop

(* The reply of a request is made of what its own auction left.            *)
LEMMA RepliesStep ==
  ASSUME TypeOK, Numbered, AuctionWithinRequest, AnswerIsReady, LoopServesOne, RepliesMatch,
         [Next]_vars
  PROVE  RepliesMatch'
<1> SUFFICES ASSUME ~stalled'
             PROVE  /\ reply'.content \in {None, reply'.req}
                    /\ reply'.content = None => reply'.cause \in {"none", "unparsable", "late"}
  BY DEF RepliesMatch
<1>0. ~stalled
  BY DEF Next, Thread, vars, Reject, Accept, Arm, PollReactor, RunSubmit, RunTimer, Finish,
         WaitReady, WaitTimeout, Join, AuctionDone, Elapse, TypeOK
<1>1. CASE UNCHANGED reply
  BY <1>0, <1>1 DEF RepliesMatch
<1>2. CASE Reject
  BY <1>2 DEF Reject
<1>3. CASE Finish
  <2>1. response = cur /\ cur # None
    BY <1>0, <1>3 DEF Finish, LoopServesOne, Numbered
  <2>2. QED
    BY <1>3, <2>1 DEF Finish, Replies
<1>4. CASE WaitReady
  <2>1. response = cur /\ cur # None
    BY <1>4 DEF WaitReady, AnswerIsReady, Numbered
  <2>2. QED
    BY <1>4, <2>1 DEF WaitReady, Replies
<1>5. CASE WaitTimeout
  BY <1>5 DEF WaitTimeout, Replies
<1>6. QED
  BY <1>1, <1>2, <1>3, <1>4, <1>5
     DEF Next, Thread, Accept, Arm, PollReactor, RunSubmit, RunTimer, Join, AuctionDone, Elapse, vars

-----------------------------------------------------------------------------
LEMMA InitIInv == Init => IInv
<1> SUFFICES ASSUME Init PROVE IInv
  OBVIOUS
<1>1. ready = <<Reactor>> /\ Len(ready) = 1 /\ ready[1] = Reactor /\ ready \in Seq(Ops)
  BY OpsTyped DEF Init
<1>2. TypeOK
  <2>1. 0 \in 0..MaxRequests
    BY MaxRequestsAssumption
  <2>2. reply \in [req : 0..MaxRequests, content : 0..MaxRequests,
                   cause : {"none", "unparsable", "answered", "late", "stopped"}]
    BY <2>1 DEF Init, None
  <2>3. QED
    BY <1>1, <2>1, <2>2 DEF Init, TypeOK, None
<1>3. Marked
  BY <1>1 DEF Marked
<1>4. AuctionWithinRequest /\ Numbered /\ AnswerIsReady /\ RepliesMatch
  BY DEF Init, AuctionWithinRequest, Numbered, AnswerIsReady, RepliesMatch
<1>5. LoopServesOne
  BY <1>1, OpsTyped
     DEF Init, LoopServesOne, TimersCancelled, SubmitsServe, OneSubmit, IsSubmit, Awaited
<1>6. QED
  BY <1>2, <1>3, <1>4, <1>5 DEF IInv

LEMMA NextIInv == IInv /\ [Next]_vars => IInv'
BY TypeStep, AuctionStep, MarkedStep, LoopStep, RepliesStep DEF IInv

LEMMA Invariance == Spec => []IInv
BY InitIInv, NextIInv, PTL DEF Spec

(* The loop holds operations of the requests there were, the timer waits   *)
(* for the request that is being handled.                                  *)
THEOREM TypeCorrect == Spec => []TypeOK
BY Invariance, PTL DEF IInv

(* However the loop, the timer and the thread of an auction interleave, a  *)
(* reply carries the answer to its own request, and is empty only for a    *)
(* body that does not parse or a deadline that has passed: unless a thread *)
(* was held up for a whole timeout before its first poll.                  *)
THEOREM RepliesTheorem == Spec => []RepliesMatch
BY Invariance, PTL DEF IInv

(* With the same exception no submit_async outlives the frame it refers    *)
(* to; the std::async thread never does.                                   *)
THEOREM FramesTheorem == Spec => []FramesOutlive
<1>1. IInv => NoDanglingSubmit
  <2> SUFFICES ASSUME IInv, ~stalled, NEW i \in 1..Len(ready), ready[i].kind = "submit"
               PROVE  ready[i].req = cur /\ pc \in {"arm", "run"}
    BY DEF NoDanglingSubmit
  <2>1. ready[i] = Submit(cur) /\ Awaited
    BY DEF IInv, LoopServesOne, SubmitsServe, IsSubmit
  <2>2. QED
    BY <2>1, OpsTyped DEF Awaited
<1>2. IInv => FramesOutlive
  BY <1>1 DEF FramesOutlive, IInv
<1>3. QED
  BY <1>2, Invariance, PTL

=============================================================================
