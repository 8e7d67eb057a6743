------------------------------- MODULE Vanilla -------------------------------
(* The smaller components that keep state between calls.  They share no state, *)
(* so a behaviour is one of a single of them, `part', while the others rest in  *)
(* an initial state.                                                            *)
EXTENDS Naturals, Sequences, FiniteSets

CONSTANTS
  Parts,               \* the components a run looks at
  \* Responder
  Clients, Sizes, MAX_DATA_SIZE, MaxAsked, MaxPending,
  \* CacheLoad
  Loaders, Order, Sources, Unique, Request,
  Resting,             \* the files there are when it rests
  \* Process
  MaxForks, NValues,
  \* DecisionTree, which walks every table that leads forward
  N, MaxSteps,
  \* HttpConnection
  Kinds, MaxRequests, MaxPieces, BufferSize,
  \* HttpServer, with several threads and with one
  Threads, OneThread, Conns,
  \* CrudDispatch
  Methods, Matchers, Uris, Registered, MaxDispatched

VARIABLES
  part,
  \* Responder
  received, count, armed, completed, from_endpoint, in_data, response,
  out_data, pending, sent, running,
  \* CacheLoad
  source, cache, turn, line, value, load_status, stage, user, found,
  \* Process
  forks, child, sub_procs, holders, input, given, pipe, waiting, phase,
  \* DecisionTree
  tree, now, walked, status,
  \* HttpConnection
  requests, bytes, pieces, buffer, parser, http_reply, gone, connection_phase,
  replies, handled, waited,
  \* HttpServer
  acceptor, signal, connections, lock, used, socket, op, outcome, at, conn,
  visited, corrupt, raced,
  \* CrudDispatch
  handlers, dispatch_at, request, next, dispatch_reply, served, map_raced

responderVars == <<received, count, armed, completed, from_endpoint, in_data,
                   response, out_data, pending, sent, running>>
loadVars == <<source, cache, turn, line, value, load_status, stage, user,
              found>>
processVars == <<forks, child, sub_procs, holders, input, given, pipe, waiting,
                 phase>>
treeVars == <<tree, now, walked, status>>
connectionVars == <<requests, bytes, pieces, buffer, parser, http_reply, gone,
                    connection_phase, replies, handled, waited>>
serverVars == <<acceptor, signal, connections, lock, used, socket, op,
                outcome, at, conn, visited, corrupt, raced>>
dispatchVars == <<handlers, dispatch_at, request, next, dispatch_reply, served,
                  map_raced>>
vars == <<part, responderVars, loadVars, processVars, treeVars, connectionVars,
          serverVars, dispatchVars>>

-----------------------------------------------------------------------------
\* whose sends may find a full buffer, and whose sends never do
Endpoint == INSTANCE Responder WITH MaxRequests <- MaxAsked, asked <- received
Prompt == INSTANCE Responder WITH
  MaxRequests <- MaxAsked, MaxPending <- 0, asked <- received

Load == INSTANCE CacheLoad WITH status <- load_status

Forks == INSTANCE Process WITH NValues <- 0, Pipes <- FALSE
Piped == INSTANCE Process WITH Pipes <- TRUE

Rows == INSTANCE DecisionTree WITH Trees <- {}
Tree == INSTANCE DecisionTree WITH Trees <- Rows!ForwardTrees

KeptAlive == INSTANCE HttpConnection WITH
  Persistent <- TRUE,
  sent <- requests, pending <- bytes, reply <- http_reply, phase <- connection_phase
Once == INSTANCE HttpConnection WITH
  Persistent <- FALSE, MaxPieces <- MaxPieces + 1,
  sent <- requests, pending <- bytes, reply <- http_reply, phase <- connection_phase

Server == INSTANCE HttpServer WITH Persistent <- TRUE, Signals <- TRUE
Alone == INSTANCE HttpServer WITH
  Threads <- OneThread, Persistent <- FALSE, Signals <- TRUE

Crud == INSTANCE CrudDispatch WITH
  MaxRequests <- MaxDispatched, at <- dispatch_at, reply <- dispatch_reply,
  raced <- map_raced

ASSUME ComponentAssumptions ==
  /\ Endpoint!ResponderAssumption
  /\ Load!LoadAssumption /\ Resting \in Sources
  /\ Forks!ProcessBounds /\ Piped!ProcessBounds
  /\ Tree!RowsAssumption
  /\ KeptAlive!BufferHoldsARequest /\ Once!BufferHoldsARequest
  /\ Server!ServerFlags /\ Server!NoConn \notin Threads \cup Conns
  /\ Crud!DispatchAssumption

-----------------------------------------------------------------------------
(* A component that rests has one initial state.                              *)
Init ==
  /\ part \in Parts
  /\ Endpoint!Init
  /\ Load!Init /\ (part # "load" => source = Resting)
  /\ Forks!Init
  /\ Tree!Init /\ (part # "tree" => tree = Tree!BidderTree)
  /\ KeptAlive!Init
  /\ IF part = "one_thread" THEN Alone!Init ELSE Server!Init
  /\ Crud!Init

Next ==
  /\ UNCHANGED part
  /\ CASE part = "responder" -> Endpoint!Next
       [] part = "prompt" -> Prompt!Next
       [] OTHER -> UNCHANGED responderVars
  /\ IF part = "load" THEN Load!Next ELSE UNCHANGED loadVars
  /\ CASE part = "forks" -> Forks!Next
       [] part = "pipes" -> Piped!Next
       [] OTHER -> UNCHANGED processVars
  /\ IF part = "tree" THEN Tree!Next ELSE UNCHANGED treeVars
  /\ CASE part = "persistent" -> KeptAlive!Next
       [] part = "once" -> Once!Next
       [] OTHER -> UNCHANGED connectionVars
  /\ CASE part = "server" -> Server!Next
       [] part = "one_thread" -> Alone!Next
       [] OTHER -> UNCHANGED serverVars
  /\ IF part = "dispatch" THEN Crud!Next ELSE UNCHANGED dispatchVars

(* The fairness each module states, for the parts that owe something.         *)
Fairness ==
  /\ WF_responderVars(part = "prompt" /\ Prompt!Handle)
  /\ WF_responderVars(part = "prompt" /\ Prompt!HandleCut)
  /\ WF_responderVars(part = "prompt" /\ Prompt!Respond)
  /\ WF_processVars(part = "forks" /\ Forks!ParentGoesOn)
  /\ WF_processVars(part = "pipes" /\ Piped!ParentGoesOn)
  /\ \A p \in Forks!Pid :
       /\ WF_processVars(part \in {"forks", "pipes"} /\ Forks!Reap(p))
       /\ WF_processVars(part \in {"forks", "pipes"} /\ Forks!End(p))
  /\ WF_treeVars(part = "tree" /\ Tree!Next)
  /\ WF_connectionVars(part = "persistent" /\ KeptAlive!Read)
  /\ WF_connectionVars(part = "persistent" /\ gone /\ KeptAlive!ReadFailed)
  /\ WF_connectionVars(part = "persistent" /\ KeptAlive!Answer)
  /\ \A t \in OneThread : WF_serverVars(part = "one_thread" /\ Alone!Run(t))

Spec == Init /\ [][Next]_vars /\ Fairness

-----------------------------------------------------------------------------
(* A reply answers the request it is sent for.  Responder: what a client is    *)
(* sent answers a request of its own; HttpConnection: each reply is about its  *)
(* own request, unless its body was taken before it had arrived; CrudDispatch: *)
(* it is the work of every handler that fits, of those whose maps no two       *)
(* threads have raced on.                                                      *)
RepliesToTheAsker ==
  /\ Endpoint!TypeOK /\ Endpoint!AnswersReachTheAsker
  /\ KeptAlive!TypeOK /\ KeptAlive!RepliesOwn
  /\ Crud!TypeOK /\ Crud!RepliesFromAllMatches

(* Work that is handed out is done exactly once.  CacheLoad: a load leaves     *)
(* every key of its file, and a bidder that matches meanwhile finds nothing    *)
(* the files do not give; Process: values are dealt to the children in turn,   *)
(* none of them twice; DecisionTree: no row runs twice, and one leaf replies.  *)
DoneExactlyOnce ==
  /\ Load!TypeOK
  /\ Load!OnlyRecordsOfTheFile /\ Load!LoadsComplete /\ Load!MatchesComeFromTheFiles
  /\ Piped!TypeOK /\ Piped!DealtInTurn
  /\ Tree!TypeOK /\ Tree!NoRowTwice /\ Tree!OneReply

(* HttpServer: a handler runs on a connection that exists, and stop_all        *)
(* forgets none, while the set of connections is not changed under it.         *)
ServesLiveConnections ==
  part # "one_thread" =>
    Server!TypeOK /\ Server!ServesLiveConnections /\ Server!NothingForgotten

(* What each component owes in the end: Responder a response, DecisionTree a   *)
(* walk that is over, HttpConnection a reply or a closed connection, Process a *)
(* wait and children that end, HttpServer with one thread a run that returns.  *)
OwedInTheEnd ==
  /\ \A i \in 1 .. MaxAsked :
       (part = "prompt" /\ completed = 1 /\ in_data.id = i)
           ~> (~running \/ \E m \in sent : m.answers = i)
  /\ (part = "tree") ~> (status = "exited")
  /\ \A i \in 1 .. MaxRequests :
       (part = "persistent" /\ Len(requests) = i)
           ~> (Len(replies) >= i \/ connection_phase \in {"closed", "terminated"})
  /\ Forks!WaitEnds
  /\ (part = "pipes" /\ phase \in {"idle", "dead"})
         ~> \A p \in Piped!Pid : child[p] # "running"
  /\ (part = "one_thread" /\ signal = "handled")
         ~> (corrupt \/ raced \/ \A t \in OneThread : at[t] = "returned")
-----------------------------------------------------------------------------
(* The small instance that TLC checks.                                        *)
R(k, v) == [kind |-> "record", rec |-> [key |-> k, val |-> v]]
Short(k) == [kind |-> "short", rec |-> [key |-> k, val |-> 0]]
Throws == [kind |-> "throws", rec |-> [key |-> 0, val |-> 0]]

\* a key that repeats in geo, a short line at the start and in the middle
Files ==
  [ geo          |-> <<R(1, 11), Short(12), R(1, 12), R(2, 13)>>,
    geo_campaign |-> <<Short(11), R(11, 21), R(11, 22), R(13, 23)>>,
    ad           |-> <<R(21, 31), R(23, 32), Short(21)>> ]
Broken == [Files EXCEPT !.geo_campaign = <<R(11, 21), Throws>>]
Missing == [Files EXCEPT !.geo_campaign = <<>>]
SmallSources == {Files, Broken, Missing}
SmallOrder == [ bidder |-> <<"ad", "geo", "geo_campaign">>,
                loader |-> <<"geo", "geo_campaign", "ad">> ]

Head1 == <<"token", "sp", "/", "sp", "H", "T", "T", "P", "/", "1", ".", "1", "cr", "lf">>
WithLength(d) == Head1 \o <<"name", ":", "sp">> \o d \o <<"cr", "lf", "cr", "lf">>
Plain == Head1 \o <<"token", ":", "sp", "cr", "lf", "cr", "lf">>

\* requests with a long and a short body, one that no handler knows and one
\* that is not a request
LongBody == [text |-> WithLength(<<"2">>), body |-> <<"token", "hi">>, known |-> TRUE, split |-> TRUE]
ShortBody == [text |-> WithLength(<<"1">>), body |-> <<"P">>, known |-> TRUE, split |-> TRUE]
Unknown == [text |-> Plain, body |-> <<>>, known |-> FALSE, split |-> TRUE]
Malformed == [text |-> <<"token", "cr", "token">>, body |-> <<>>, known |-> TRUE, split |-> FALSE]
SmallKinds == {LongBody, ShortBody, Unknown, Malformed}

\* three matchers, two of which fit one path; the second has no GET
SmallUris == {{1}, {2, 3}, {}, {1, 3}}
SmallRegistered == [m \in 1 .. 3 |-> IF m = 2 THEN {"POST"} ELSE {"GET", "POST"}]
=============================================================================
