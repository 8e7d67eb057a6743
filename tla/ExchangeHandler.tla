--------------------------- MODULE ExchangeHandler ---------------------------
(***************************************************************************)
(* exchange_handler::handle_post (rtb/exchange/exchange_handler.hpp) on    *)
(* one server thread.  The thread owns an io_service and a deadline_timer  *)
(* that outlive every request: a request posts its auction to the loop,    *)
(* arms the timer, runs the loop until somebody stops it and replies.      *)
(* What one request leaves in the loop is met by the next.                 *)
(*                                                                         *)
(* The loop is boost::asio's: a FIFO of ready operations in which a marker *)
(* stands for "poll the reactor".  The poll appends the callback of an     *)
(* expired timer and puts the marker back behind it; it blocks only when   *)
(* nothing else is ready.                                                  *)
(***************************************************************************)
EXTENDS Integers, Sequences

CONSTANT MaxRequests   \* bound on the requests handled

ASSUME MaxRequestsAssumption == MaxRequests \in Nat

None == 0              \* no request; requests are numbered from 1
Requests == 1..MaxRequests

Reactor == [kind |-> "reactor", req |-> None, aborted |-> FALSE]
Submit(r) == [kind |-> "submit", req |-> r, aborted |-> FALSE]
OnTimer(r, aborted) == [kind |-> "timer", req |-> r, aborted |-> aborted]
Ops == [kind : {"reactor", "submit", "timer"}, req : 0..MaxRequests, aborted : BOOLEAN]

VARIABLES
  handler,      \* which handler the user set: "async" or "sync"
  pc,           \* where the thread is in handle_post
  cur,          \* request it handles, or handled last
  ready,        \* ready operations of the io_service
  stopped,      \* io_service::stopped()
  waiting,      \* request whose wait on the timer is pending, or None
  expired,      \* the deadline has passed
  response,     \* auction_response: request it answers, or None
  auction,      \* state of the std::async thread: "none", "running", "ready"
  reply,        \* last reply: request, request its content answers, cause
  stalled       \* the deadline of a request passed before its first poll

loop == <<ready, stopped, waiting>>
vars == <<handler, pc, cur, ready, stopped, waiting, expired, response, auction,
          reply, stalled>>

Init ==
  /\ handler \in {"async", "sync"}
  /\ pc = "idle"
  /\ cur = 0
  /\ ready = <<Reactor>>
  /\ stopped = FALSE
  /\ waiting = None
  /\ expired = FALSE
  /\ response = None
  /\ auction = "none"
  /\ reply = [req |-> None, content |-> None, cause |-> "none"]
  /\ stalled = FALSE

Replies(content, cause) == reply' = [req |-> cur, content |-> content, cause |-> cause]

-----------------------------------------------------------------------------
(* handle_post_common: a body that does not parse gets an empty reply. *)
Reject ==
  /\ pc = "idle"
  /\ cur < MaxRequests
  /\ cur' = cur + 1
  /\ reply' = [req |-> cur + 1, content |-> None, cause |-> "unparsable"]
  /\ UNCHANGED <<handler, pc, loop, expired, response, auction, stalled>>

(* Otherwise the auction starts: io_service.post, or std::async. *)
Accept ==
  /\ pc = "idle"
  /\ cur < MaxRequests
  /\ cur' = cur + 1
  /\ response' = None
  /\ IF handler = "async"
     THEN /\ pc' = "arm"
          /\ ready' = Append(ready, Submit(cur + 1))
          /\ UNCHANGED <<expired, auction>>
     ELSE /\ pc' = "wait"
          /\ auction' = "running"
          /\ expired' = FALSE
          /\ UNCHANGED ready
  /\ UNCHANGED <<handler, stopped, waiting, reply, stalled>>

-----------------------------------------------------------------------------
(* handle_auction_async *)

(* Mutant of Arm: the wait of the request before is not cancelled. *)
ArmUncancelled ==
  /\ pc = "arm"
  /\ pc' = "run"
  /\ waiting' = IF waiting = None THEN cur ELSE waiting
  /\ expired' = (expired /\ waiting # None)
  /\ stopped' = FALSE
  /\ UNCHANGED <<handler, cur, ready, response, auction, reply, stalled>>

(* expires_from_now cancels the pending wait of the request before, whose  *)
(* callback becomes ready with operation_aborted; async_wait; reset.       *)
Arm ==
  /\ pc = "arm"
  /\ pc' = "run"
  /\ ready' = IF waiting = None THEN ready ELSE Append(ready, OnTimer(waiting, TRUE))
  /\ waiting' = cur
  /\ expired' = FALSE
  /\ stopped' = FALSE
  /\ UNCHANGED <<handler, cur, response, auction, reply, stalled>>

(* The deadline passes.  The thread may be anywhere, even not yet in run.  *)
Elapse ==
  /\ pc # "idle"
  /\ ~expired
  /\ expired' = TRUE
  /\ UNCHANGED <<handler, pc, cur, loop, response, auction, reply, stalled>>

Running(kind) == pc = "run" /\ ~stopped /\ Head(ready).kind = kind

Rest == Tail(ready)

(* The marker reaches the head: expired timers are collected. *)
PollReactor ==
  /\ Running("reactor")
  /\ \/ /\ expired /\ waiting # None
        /\ ready' = Rest \o <<OnTimer(waiting, FALSE), Reactor>>
        /\ waiting' = None
        /\ stalled' = (stalled \/ \E i \in 1..Len(Rest) : Rest[i] = Submit(cur))
     \/ /\ ~(expired /\ waiting # None)
        /\ Rest # <<>>
        /\ ready' = Append(Rest, Reactor)
        /\ UNCHANGED <<waiting, stalled>>
  /\ UNCHANGED <<handler, pc, cur, stopped, expired, response, auction, reply>>

(* Mutant of Stop: the loop that is stopped is not the one that runs. *)
StopNothing == UNCHANGED stopped

(* io_service.stop(): run returns once the current operation is done. *)
Stop == stopped' = TRUE

(* submit_async.  It holds references into the frame of its request.  Run  *)
(* during a later request it reads and writes dead objects: what the new   *)
(* frame makes of that is anybody's guess.                                 *)
RunSubmit ==
  /\ Running("submit")
  /\ ready' = Rest
  /\ response' \in IF Head(ready).req = cur THEN {cur} ELSE {response, Head(ready).req, cur}
  /\ Stop
  /\ UNCHANGED <<handler, pc, cur, waiting, expired, auction, reply, stalled>>

(* Mutant of RunTimer: the callback does not look at its error code. *)
RunTimerStops ==
  /\ Running("timer")
  /\ ready' = Rest
  /\ Stop
  /\ UNCHANGED <<handler, pc, cur, waiting, expired, response, auction, reply, stalled>>

(* The callback of the timer. *)
RunTimer ==
  /\ Running("timer")
  /\ ready' = Rest
  /\ IF Head(ready).aborted THEN UNCHANGED stopped ELSE Stop
  /\ UNCHANGED <<handler, pc, cur, waiting, expired, response, auction, reply, stalled>>

(* Mutant of Finish: the thread gives up on the loop at the deadline. *)
FinishAtDeadline ==
  /\ pc = "run"
  /\ stopped \/ expired
  /\ pc' = "idle"
  /\ IF response # None /\ ~expired
     THEN Replies(response, "answered")
     ELSE Replies(None, IF expired THEN "late" ELSE "stopped")
  /\ UNCHANGED <<handler, cur, loop, expired, response, auction, stalled>>

(* run returned: the response, if there is one and it is not late. *)
Finish ==
  /\ pc = "run"
  /\ stopped
  /\ pc' = "idle"
  /\ IF response # None /\ ~expired
     THEN Replies(response, "answered")
     ELSE Replies(None, IF expired THEN "late" ELSE "stopped")
  /\ UNCHANGED <<handler, cur, loop, expired, response, auction, stalled>>

-----------------------------------------------------------------------------
(* handle_auction *)

(* The auction handler returns in the std::async thread. *)
AuctionDone ==
  /\ auction = "running"
  /\ auction' = "ready"
  /\ response' = cur
  /\ UNCHANGED <<handler, pc, cur, loop, expired, reply, stalled>>

(* wait_for saw the result in time. *)
WaitReady ==
  /\ pc = "wait"
  /\ auction = "ready"
  /\ pc' = "idle"
  /\ auction' = "none"
  /\ Replies(response, "answered")
  /\ UNCHANGED <<handler, cur, loop, expired, response, stalled>>

(* wait_for timed out: the reply is empty. *)
WaitTimeout ==
  /\ pc = "wait"
  /\ expired
  /\ auction # "ready"
  /\ pc' = "join"
  /\ Replies(None, "late")
  /\ UNCHANGED <<handler, cur, loop, expired, response, auction, stalled>>

(* Mutant of Join: the future is dropped without waiting for the thread. *)
JoinDetached ==
  /\ pc = "join"
  /\ pc' = "idle"
  /\ UNCHANGED <<handler, cur, loop, expired, response, auction, reply, stalled>>

(* The future that std::async returned waits for the thread when it is     *)
(* destroyed, so the reply leaves only after the auction handler did.      *)
Join ==
  /\ pc = "join"
  /\ auction = "ready"
  /\ auction' = "none"
  /\ pc' = "idle"
  /\ UNCHANGED <<handler, cur, loop, expired, response, reply, stalled>>

-----------------------------------------------------------------------------
Thread == \/ Arm \/ PollReactor \/ RunSubmit \/ RunTimer \/ Finish
          \/ WaitReady \/ WaitTimeout \/ Join

Next == Reject \/ Accept \/ Thread \/ AuctionDone \/ Elapse

Spec == Init /\ [][Next]_vars

(* The thread is scheduled, time passes and auction handlers return. *)
FairSpec == Spec /\ WF_vars(Thread) /\ WF_vars(AuctionDone) /\ WF_vars(Elapse)

-----------------------------------------------------------------------------
TypeOK ==
  /\ handler \in {"async", "sync"}
  /\ pc \in {"idle", "arm", "run", "wait", "join"}
  /\ cur \in 0..MaxRequests
  /\ ready \in Seq(Ops)
  /\ stopped \in BOOLEAN
  /\ waiting \in 0..MaxRequests
  /\ pc = "run" => waiting \in {None, cur}
  /\ expired \in BOOLEAN
  /\ response \in 0..MaxRequests
  /\ auction \in {"none", "running", "ready"}
  /\ reply \in [req : 0..MaxRequests, content : 0..MaxRequests,
                cause : {"none", "unparsable", "answered", "late", "stopped"}]
  /\ stalled \in BOOLEAN

(* No auction is run on behalf of a request that is gone: a submit_async   *)
(* in the loop belongs to the request being handled, unless the thread was *)
(* once held up for a whole timeout between arming the timer and its first *)
(* poll.                                                                   *)
NoDanglingSubmit ==
  ~stalled => \A i \in 1..Len(ready) : ready[i].kind = "submit" =>
                ready[i].req = cur /\ pc \in {"arm", "run"}

(* A reply carries the answer to its own request, and is empty only when   *)
(* the request could not be parsed or its deadline passed; with the same   *)
(* exception.                                                              *)
RepliesMatch ==
  ~stalled => /\ reply.content \in {None, reply.req}
              /\ reply.content = None => reply.cause \in {"none", "unparsable", "late"}

(* An auction thread never outlives the frame whose locals it refers to. *)
AuctionWithinRequest ==
  auction # "none" => pc \in {"wait", "join"}

(* What refers to the frame of a request - its submit_async in the loop, its *)
(* std::async thread - is gone before the frame is.                          *)
FramesOutlive ==
  NoDanglingSubmit /\ AuctionWithinRequest

(* Every request gets its reply. *)
EveryRequestReplied ==
  pc # "idle" ~> pc = "idle"

=============================================================================
