# Vanilla-RTB: a TLA+ development

This directory models Vanilla-RTB, a real-time bidding stack in C++: the
campaign budgets that several processes share, the selection of a bid, the
exchange handlers with their timers, the collection of answers from bidders over
UDP, the shared-memory cache, the HTTP server, the lock-free audit buffer, the
parsers and codecs of requests and data files, and the parts of the two JSON
libraries in the tree, rapidjson and jsonv, that keep state.  TLC checks the
modules on small instances; TLAPS proves the central invariants of twelve
components for every instance, and that one of them, the shared-memory cache,
implements an atomic map.

Paths are relative to the repository root (`src/` in `PROJECT.json`).

## Inventory

| Component | State | Operations | What makes it correct |
|---|---|---|---|
| Campaign budgets (`examples/campaign`) | cache of budget records in shared memory, a second cache at every slave banker | REST create, update, delete; load; win notice; broadcast and receipt | money is neither created nor lost; an overdrawn campaign does not bid; no interleaving of loads loses a campaign; a deleted one stays deleted |
| Bidder and ad selection (`examples/bidder`, `rtb/core`) | per-thread candidates and response; ad, geo and budget caches | bid, select, authorize | a bid is covered by the budget, is the best of its impression and fits it |
| Exchange handler (`rtb/exchange/exchange_handler.hpp`) | thread-local io_service and timer | handle_post, asynchronous and synchronous auction, timer callback | a request gets the reply to itself, or an empty one if it is late; nothing refers to a dead frame |
| Multi exchange (`examples/multiexchange`, `rtb/exchange/multibidder_*`, `rtb/messaging`) | collector and socket of a call, shared counters | distribute, collect, time out, respond, count | counters add up; a bid beats no bid; silence does not keep a thread |
| Audit buffer (`benchmarks/audit_buffer.hpp`) | ring of three segments, atomic index and offsets | reserve, prep_next_segment | reservations do not overlap; a segment is retired once; reserve returns |
| Entity cache (`rtb/datacache/entity_cache.hpp`) | named mutex, segment, container | clear, insert, update, retrieve, remove, growth | operations are atomic; growth loses nothing; keys stay unique |
| Cache load (`examples/loader`, `examples/matchers`) | several caches, a line at a time | load, match | every key of the files is there after a load; a match comes from the files |
| HTTP server (`CRUD/service/server.hpp`, `connection_manager.hpp`) | acceptor, set of connections, threads | accept, start, stop, stop_all, signal | handlers run on live connections; `run` returns after a stop |
| HTTP connections and parser (`CRUD/service`) | read buffer, parser, request, reply | read, handle, write | replies in order and about their own request; split reads give the same request |
| CRUD dispatcher (`CRUD/handlers`) | map of matchers | dispatch | every handler that fits answers, no other |
| File handler (`CRUD/service/request_handler.cpp`) | none | decode, check, open | files below the document root only |
| Decision tree and router (`rtb/common`) | table of nodes, current row | execute | each row at most once, ends, one reply |
| Process (`rtb/core/process.hpp`) | children, pipes | spawn, spawn_exec, distribute, wait | values dealt in turn; wait ends when the children did |
| Responder (`rtb/messaging/communicator.hpp`) | one receive buffer, endpoint and send buffer | receive, handle, send | an answer reaches who asked |
| Request mappers (`rtb/DSL`, `examples/mapper`, `jsmn`) | token array, request | tokenize, extract | the tokens are the document; the mappers agree |
| Record files, URIs, audit codec | fields, positions | split, parse, encode, decode | each field from its own column; parts are the URI; a record reads back |
| rapidjson | heap blocks, stacks, streams | parse, mutate, compare, point, match, validate, write | texts read as written, blocks owned once, schemas judge right |
| jsonv | stream buffer, stacks, graph of formats, adapters | tokenize, parse, register, extract, encode | the same tokens however the stream is cut, the right value, errors in place, registration all or nothing |

The parts meet in three places.  The HTTP server hands a request to the CRUD
dispatcher or to an exchange handler; the exchange handler calls an auction
handler, which is a bidder (ad selection over the caches) or the multi exchange,
and the multi exchange reaches bidders by UDP, where a responder runs; and
bidders, campaign manager, notification service and loaders meet in the entity
caches, whose budgets the notification service also broadcasts to slave bankers.
Hard behaviour comes from processes that interleave between two locked cache
calls, from UDP, from timers that race with results, from state that outlives a
request (event loop, parser, candidates), from the lock-free switch of segments,
and from texts that arrive in pieces.  `PROJECT.json` lists the hazards line by
line with the properties that cover them.

## Modules

| Module | Models | Checked by | Proved in |
|---|---|---|---|
| `CampaignBudget` | the record and its pure operations | `budget`, `bid` | lemmas of the proofs below |
| `BudgetPipeline` | manager, loaders, notification service, slave banker | `budget` | `BudgetPipelineProofs` |
| `BidSelection` | `Bidder::bid` and `AdSelector` over a changing budget cache | `bid` | `BidSelectionProofs` |
| `ExchangeHandler` | one server thread across requests | `handler` | `ExchangeHandlerProofs` |
| `MultiExchange` | exchange threads, bidders, UDP, status counters | `multi`, `multi_exchange_price` | `MultiExchangeProofs` |
| `AuditBuffer` | `segmented_log_buffer` | `audit` | `AuditBufferProofs` |
| `EntityCache`, `AtomicMap` | the IPC cache, and the atomic map it implements | `cache` | `EntityCacheProofs` |
| `HttpServer` | acceptor, connection manager, threads and signal | `vanilla` | `HttpServerProofs` |
| `Responder`, `CacheLoad`, `Process`, `DecisionTree`, `CrudDispatch` | the component named | `vanilla` | `VanillaProofs` |
| `HttpConnection` | a connection from its first read to its last reply | `vanilla` | |
| `Vanilla` | the seven components above as one suite | `vanilla` | `VanillaProofs` |
| `RequestParser`, `FileHandler`, `UriHost`, `RecordFile`, `AuditCodec`, `RequestMapper` | parsers and codecs | `texts` | |
| `JsonvTokenizer`, `JsonvParse`, `JsonvFormats`, `JsonvAdapter` | jsonv | `jsonv` | |
| `RapidText`, `RapidReader`, `RapidCompare`, `RapidBigInteger`, `RapidPointer`, `RapidRegex` | the text side of rapidjson: streams, strings read and written, parsers, numbers | `rapid_texts` | |
| `RapidDom`, `RapidCompare`, `RapidWriter`, `RapidPointer`, `RapidSchema` | the values of rapidjson | `rapid_values` | |

`MC*` modules give the constants small values, `BidSelection` and `Vanilla` end with
theirs; the `.cfg` files name them.
`Vanilla`, `MCTexts` and `MCRapid` are suites: components that share no state
share a run, in which the variable `part`, chosen at the start, says which of
them moves, while the others rest.  A property of a suite is the conjunction of
what its components promise about one subject.  Definitions called a mutant of
another one are what that definition would be with a plausible mistake in the
code; no specification uses them.

### CampaignBudget and BudgetPipeline

`UpdatePrice` is `CampaignBudget::update(types::price)`, `Authorize` is
`BudgetManager::authorize`.  Two conversions lose the overdraft: the boost
archive (`Archived`) and the JSON mapping (`JsonBudgets`, the records a body can
yield).  Amounts are natural numbers: they are 64-bit micro dollars in the code,
which only ever adds what it subtracted, so 2^64 is out of reach; the boundary
that matters is zero.

Every call of an `entity_cache` operation holds the named mutex for its whole
duration and is one step (`EntityCache` shows why that is sound).  A handler with
several calls is several steps: the win notice is `WinRetrieve` (copy out and
charge privately), `WinStore`, `WinSend`; a load is `LoadClear` and one
`LoadInsert` per record.  `update` replaces an existing key only, `insert` never
replaces.  The server of the notification service is single-threaded, so there is
one win notice at a time; there are any number of loaders, since the manager,
every bidder and the cache loader load at start.  The key comes from the URL, the
record's `campaign_id` from the body, and they may differ.  Broadcasts form a set
from which any element may be received at any time, any number of times or never:
loss, duplication and reordering.  Variables after the comment "History" are read
by no guard.

### BidSelection

A request is a geo and the sizes of its impressions.  `SelectCampaigns` is the
head of `select`, `RetrieveAds` one round of the loop of `getCampaignAds` (which
reads one campaign's ads and its budget), `AddBid` the choice and
`Bidder::addBid`.  Between rounds `WriteBudget` may change any budget.  The ad and
geo caches are constants: they are loaded at start.  `AdsUpTo` is the filter of
the ad cache written as a recursive function, which the prover can expand.

### ExchangeHandler

One thread, since the io_service and the timer are thread-local.  The queue of
ready operations is boost::asio's, modelled from how the handler uses it: a FIFO
with a marker for the reactor poll, which appends the callback of an expired timer
and blocks only when nothing else is ready; cancelling a wait makes its callback
ready with `operation_aborted`; a callback that is ready already is not recalled.
`Elapse` lets the deadline pass at any moment.  `submit_async` holds references to
the frame of its request; running it in a later request is undefined behaviour and
is a choice over the values the new frame's response may get.

`stalled` records the one way into that state: the deadline passed before the
first poll after arming, so that the poll found the timer expired with the submit
still queued.  The submit then runs and stops the loop, the successful timer
callback stays behind, stops the next request before its submit, and from then on
each request finds the submit of the one before.  The safety properties hold up to
that event, the liveness property also after it.

### MultiExchange

Threads share the counters of `multi_exchange_status`; `Distribute`, `Collect`,
`Expire` and `Respond` are the steps of an auction handler.  An auction binds a
port; answers are addressed to ports and name no request, and a port may be bound
again, so that a late answer can reach a later request.  Requests and answers are
sets: lost, duplicated, late.  `std::sort` is not stable: `Firsts` is the set of
elements it may put in front.  `Wire` is what the archive of a bid keeps: every
member but the price.  An answer that does not fit the receive buffer of 4096 bytes, or
is no archive, is not `whole`: `deserialize` throws in the handler of `collect`, out of
`io_service.run` and of the auction, and nothing on the thread of the exchange server
catches it.  `CollectThrows` is that end of the process (`running`), after which no
action is enabled.

### AuditBuffer

`reserve` is split at its accesses to shared state: load of the index, copy of the
slot, `fetch_add`, reset of the slot, queueing of `prep_next_segment`, store of the
index.  Segments are numbered as their files are.  Offsets from the last
position on behave alike, and the model stops there.  A request of `filesize_ - 1` passes the
check of `reserve`, fits no segment and retires one after another; to bound that,
`Weight` counts it as several calls.  `misled` records that a thread which slept through
a lap of the ring retired a segment later than its index meant, so that the index it
stores is stale.  Failing the assert of `prep_next_segment` is recorded
in `clobbered`; a build with NDEBUG goes on, and so does the model.

### EntityCache and AtomicMap

A call is `Call`, `Lock`, and what it does under the lock, in the steps of the code:
`Find` is the `equal_range` with which `remove`, `update` and `retrieve` begin, and
`found` the nodes it returned, which `Remove`, `Update` and `Retrieve` then use;
`Grow` is the first `insert_data` that throws and the growth, after which `Insert`
is the second.  The last step also returns and unlocks.  Nodes belong to pages, a growth adds a page, and a process has the
pages mapped that were there when it attached; `Fault` is following the index to a
node that is not mapped.  `Killed`, `Fault` and `UpdateRetry` end a process without
an unlock.  `retrieve_raw` leaves an iterator, which `Walk` follows without the lock.
`AtomicMap` is what the callers rely on: every operation takes effect at one
instant, a throw changes nothing, and a process that dies leaves the map as it was or,
in an update, without the entry.  `Map` is the refinement mapping.

### Process

`Fork` and `ForkFailed` are the two ways through a turn of the loop of `spawn` or
`spawn_exec`.  The errors of this class are made and not thrown, so that a fork that
fails leaves -1 among the children and a pipe without a reader; a second one finds -1
there and closes its pipe.  `pipe` is the `n` of `distribute`, which deals the values
round and round; the write to a pipe without a reader ends the parent
(`DistributeFails`).  `holders` says who has the write end of each pipe, since a child
inherits those of its predecessors and reads to the end of its own.

### The suites

The header comment of each module says what an element of its alphabets stands for.
Words are scaled where width matters (big integers of ten bits, ints of three and
six bits, a `SizeType` of 64 values, `uint16_t` sides of 65536 values in the request
mappers, which are exact); the boundaries of the code fall at the scaled places.

* `Vanilla`: the responder twice, with sends that may find a full buffer and
  with sends that do not; loads from files with a repeated key, a short line, a line
  that throws and a missing file; processes without and with pipes; every table of the
  decision tree whose edges lead on; persistent and plain connections with long,
  short, unknown and malformed requests in pieces, whose bodies may be taken before they
  have arrived, after which the replies are claimed no more (`waited`); the server with two threads and with one;
  three matchers of which two fit one path, and methods without a handler, with which two
  threads can meet in the map of a matcher.
* `MCTexts`: the request parser against the grammar of a request, started from
  nothing and behind a request line; addresses of up to five characters,
  with dots, slashes and NULs in escapes; URIs put
  together of up to four pieces; record lines with up to two odd fields; records of
  up to three arguments, bools among them; all texts of four characters and structured bid requests for
  jsmn and the mappers; for jsonv texts of three characters and longer ones, lists of
  four tokens under the options, a registry of six nodes with an adapter and a
  serializer, four builder calls for extraction and four for encoding (`check_input`
  is among those of encoding), and nested types.
* `MCRapid`: streams, strings as they are read and as they are written, readers, big
  integers, pointers, regular expressions; numbers as `ParseNumber` reads them, of up to
  six digits at the ends of ints of five and ten bits, with decimals, exponents up to
  those that leave the scaled double, and the spellings of NaN and Inf; values with and without a freeing allocator, failed parses,
  comparisons, trees, writers, the bid response serializer; schemas with each keyword, with
  patterns beside the three kinds of additional properties, keys that match a pattern
  before keys that match none, and objects whose members cancel in their hash.

## Runs

| Run | Question | Bounds |
|---|---|---|
| `budget` | do amounts stay natural, is the ledger of wins exact but where a charge raced with an edit, does nothing forgotten or deleted come back | two campaigns in the caches and the file, two loaders, three wins, three edits or loads: a win can race with an edit, a delete and two interleaved loads, a campaign can be overdrawn, edited and charged again, and an old broadcast can arrive late |
| `audit` | are reservations disjoint, is a segment retired once, does `reserve` return | three threads, segments of four bytes, requests of one, two and three, of which the last fits no segment, five calls, six segments: the ring of three comes round, threads with a stale index reserve in later segments and store their index last, and a request that fits nowhere uses segments up |
| `multi` | do the counters add up at every step, does a bid beat no bid, does an auction return, unless an unreadable answer ends the process | two threads, bidders, ports and requests, two answers, readable or not, deliverable any number of times: a port is bound again and a late or repeated answer is collected |
| `handler` | is each request answered with its own response, and at all | five requests: a stall at the first leaves two for the stale callback and the dangling submit, and two after that |
| `bid` | is a bid covered, best and fitting | two requests of up to three impressions, two campaigns, five kinds of budget, two concurrent writes |
| `cache` | does the cache implement an atomic map, are keys unique, does a call return | two processes, two keys that are searched on apart, two values, one node per growth, two growths, four calls: the segment grows behind a process that is attached, runs full, and a process dies in it |
| `vanilla` | does each reply answer its request, is work done once, are connections alive, is what is owed given | two clients, threads and connections, two or three requests, four forks, three rows: see the list above |
| `texts`, `jsonv`, `rapid_texts`, `rapid_values` | does each reader read what its text says and stay inside, does each value read as what was done to it | small texts and call sequences, each over an alphabet with one element for each class the code tells apart |
| `multi_exchange_price` | is the reply the answer with the highest price | as `multi`; it is not, see below |

Deadlock is not checked anywhere: each behaviour ends when its bound on requests,
calls or edits is used up, and a server may idle for ever.

### Fairness

* `AuditBuffer!FairSpec`: threads inside `reserve` are scheduled and the io_service
  thread runs what is queued.  Nothing on calls.  `ReserveReturns` states its two
  exceptions, both of which the run reaches: a stale index was stored last, so that the
  current index leads to no segment; and some thread's request fits no segment.
* `MultiExchange!FairSpec`: timers fire and server threads are scheduled; nothing is
  assumed of bidders and the network.  `AuctionReturns` ends where an unreadable answer
  ends the process.
* `ExchangeHandler!FairSpec`: the thread is scheduled, time passes and the user's
  auction handlers return (a synchronous one that never returns keeps the thread for
  ever in the destructor of the future).
* `EntityCache!FairSpec`: a process that holds the mutex goes on, and a waiting call
  gets the mutex if it is free again and again (the upgradable mutex lets no new reader
  pass a waiting writer).  Nothing on calls, kills and opening.
* `Vanilla!Fairness`: the thread of the responder, the reading and answering of a
  connection, the parent and the exits of children, the walk of a tree, and the one
  thread of a server.  Nothing on clients, signals and forks.

## Proofs

Each theorem is `Spec => []P` or `Spec => [][A]_vars`, for every value of the
constants that satisfies the ASSUMEs of the module: any number of campaigns, threads,
bidders, ports, requests, impressions, ads, any prices and any sizes.

`BudgetPipelineProofs` assumes that campaign ids, prices and amounts are natural
numbers, that the source file and request bodies name known campaigns and carry no
overdraft, and that `NoEntry` is not a record.

* `TypeCorrect` is inductive by itself and says among other things that no amount
  drops below zero.
* `OverdraftTheorem`: `OverdrawnNeverAuthorized` is not inductive, because a charge
  works on a private copy that is stored later.  The strengthening says that beside a
  positive overdraft the limit is zero, in the cache and in the copy in hand; charging
  preserves it, edits and loads establish it.
* `ConservationTheorem` needs the same for datagrams: the total of every copy (cached,
  in hand, sent, received) is among those granted for the campaign it names and for the
  key it is stored under.
* `LedgerTheorem` needs to know that a copy in hand that was not overtaken still equals
  the cached entry plus the price, and that a price in hand is the notice's.
* `LoadTheorem` and `ResurrectionTheorem` follow step by step from the types.

`AuditBufferProofs` assumes a positive segment size, requests that pass the size check
and at least two slots; nothing on the number of threads.

* `DisjointTheorem`: every reservation lies below the offset of its segment, and the
  offset only grows; a new one starts at the old offset.  This does not depend on which
  thread meant which segment, which is why it survives the stale indices that break the
  rest.
* `RetireTheorem`: the thread whose request crosses the last position moves the offset
  past it, and no thread crosses a second time.

`MultiExchangeProofs` assumes finitely many threads, natural prices and number of
bidders, and that no port is named like the absence of one.

* `RequestsTheorem` is a count: the requests handled are those in flight plus three
  counters.  Each step moves one thread into or out of the set of threads in flight, and
  the cardinalities follow (`InFlightSteps`).
* `BidResponsesTheorem` bounds the answers counted from both sides, and neither bound is
  inductive.  The strengthening counts exactly: `Pending` is the set of pairs of a thread
  in flight and the index of an answer it holds, so that its cardinality is the number of
  answers not yet settled; what is left after complete requests and `Pending`, `Late`, is
  between one and one less than the bidders for each timeout.  A response moves a
  whole row of pairs out of `Pending` (`PendingRespond`), and `Settling` is the arithmetic.
* `OvershootTheorem` needs that a thread that still collects misses an answer.
* `BidBeatsTheorem` needs that the wire, which loses the price, keeps whether there is a
  bid, and that an element `std::sort` may put in front is a bid if there is one.

`ExchangeHandlerProofs` assumes that the bound on requests is a natural number.

* `RepliesTheorem` and `FramesTheorem` share an invariant of the event loop, which holds
  until a timer stalls it: every timer callback in the loop was cancelled, there is one
  `submit_async` at most, it is that of the current request, it is there exactly while
  the request waits, and a loop that was stopped has its response.  The marker of the
  reactor never leaves, so that the loop never runs dry (`Marked`); for the synchronous
  handler the task of an auction lives within the request (`AuctionWithinRequest`).
* `TypeCorrect` needs `Marked`, since the head of the queue must exist.

`BidSelectionProofs` assumes natural campaign ids, records of budgets, ads and geos, and
finite sequences of ads and impressions.

* `AffordableTheorem`: a candidate keeps the amount its campaign was authorized when it
  was looked at, which the cache may no longer hold.  The invariant relates each candidate
  to what the cache held at some moment since the request came in (`CandidatesCovered`,
  with the history variable `held`), and `CacheHeld` keeps that history true while
  other processes write.
* `BestTheorem`: `max_bid` keeps the first of the best in a chain of comparisons.  That
  some candidate is one that none is better than, for sequences of any length, is an
  induction over data: it is proved by a least counterexample, from the well-foundedness of
  the naturals (`LeastNumber`), since the library's induction theorems take an operator as
  parameter, which the provers at hand cannot instantiate.  The same argument gives the
  existence and the equation of the recursive function `AdsUpTo` (`AdsUpToExists`,
  `AdsUpToDef`) and what it selects (`AdsOfRight`).
* `FitTheorem` needs that the candidates at hand are of the current impression and the
  geo, which the early returns must not break (`CampaignsLeft`, `CandidatesCovered`).

`EntityCacheProofs` assumes that keys are numbers, that searches are for sets of keys,
that a growth adds at least one unit, and that the sentinels are no process and no entry;
nothing on how many processes there are, which die, and how often the segment grows.

* `UniqueTheorem`: every step leaves the nodes alone, frees some, replaces the value of
  those with one key, or fills one node that was free (`Changes`).  That the node is free
  needs `EntriesInside`: a growth adds a page, and no entry lies beyond the segment.
* `RefinementTheorem`: the initial state is one of `AtomicMap` (`InitRefines`) and every
  step is a step of it or a stutter (`NextRefines`, a lemma for each action).  The content
  of the map is read off the nodes, which is a function only because keys are unique
  (`ContentIs`); `ErasedMap`, `ReplacedMap` and `AddedMap` say what the ways the container
  changes are for the map.  Which call of the map a process has pending needs `CallsFit`:
  an idle or dead process is in no call, one that walks is in none of the map's.
  That a call takes effect at once although it first looks and then acts is `FoundStill`:
  what `equal_range` returned is still what the call is about.  It holds because of
  `Exclusion`, that a process at work holds the mutex and a writer holds it alone
  (`WritesAlone`), also after processes died with it.

`HttpServerProofs` assumes only that no thread and no connection is named like the absence
of one (`NoneApart`, a hypothesis of its theorems); nothing on how many there are, on
whether connections are persistent and on when a signal is raised.

* `ServesTheorem`: a handler captures `this` and nothing that keeps the connection alive,
  so its safety rests on an ownership argument.  `Agents` says that one party at most, a
  thread or an outstanding operation, is concerned with a connection; hence the handler
  that calls `connection_manager::stop` is the last one of its connection, and until the
  signal the set holds every other (`Managed`).  After it `stop_all` and `clear` take
  connections out that still have operations, and the statement ends there.
* `NothingForgottenTheorem`: an operation is passed to the thread that handles it and from
  there to the next operation, so that a connection in the set always has one of them.
  Only an aborted handler drops it without a step further, and `AbortedByStop` says that
  it then is no longer in the set, or that a thread is about to clear the set.

`VanillaProofs` assumes `ComponentAssumptions`, the assumptions of the components on
their constants; nothing on how many clients, loaders, children, threads and
connections there are, nor on what the files hold.  A step of the suite is a step of a
component or leaves its variables alone (lemmas like `EndpointStep` and `PromptStep`),
so that each component has an invariant of its own.

* `DoneTheorem` is three arguments.  Loads: `LoadsComplete` speaks of a moment long after
  a cache was cleared, when another loader may have cleared it again.  `LastLoader`
  follows, for each cache, the loader that cleared it last: all of the file that it has
  read since is in the cache, whatever the others insert; one that throws at a line
  takes nothing from another, since that line throws for all.  `ValueGiven` and `Matching` carry what the files give
  through the values a loader holds and the stages of a match.  Pipes: `DealtInTurn`
  counts with remainders; `Rounds` says it as so many whole rounds and a part of one,
  which a write extends, and `Dealt` is the arithmetic.  Tree: `TreeInv` says that the
  rows run lie before the row at hand, which is where an edge that leads forward may go.
* `ServesTheorem` takes the inductive invariant of `HttpServerProofs` over
  (`Srv == INSTANCE HttpServerProofs`), for a server with threads and a signal.
* `AnswersTheorem`: the responder has one receive buffer and one send buffer for all.  That
  a response meets who asked needs that the datagram at hand and its endpoint stay
  together until the response is made, and that the buffer of a send that waits is freed
  or an answer to the one it goes to (`RespInv`).
* `DispatchTheorem`: the reply in the hands of a thread is the work of the matchers before
  the one it is at (`Ran`, `DueBefore`).  A matcher's map is a `std::map` without a lock, into
  which a lookup inserts: as long as no thread was in it while another inserted, it has the
  handlers it was given (`MapsInv`).  Of the matchers where that happened (`raced`) the
  theorem says nothing but that they fit the request: their work may be missing, or the
  process may have crashed.

The invariants of the last six modules were checked by TLC on the instances of the
runs before they were proved.

Model-checked only:

* Liveness (there is no rule for fairness here) and ENABLED: `CallsReturn`,
  `EveryRequestReplied`, `AuctionReturns`, `ReserveReturns` and `OwedInTheEnd`.
* `RepliesToTheAsker` as a whole: its conjunct about `HttpConnection` compares the
  replies to requests that were read in pieces with what the parser makes of a request
  at once, by a recursive operator, which is an induction over the text.  The other two conjuncts are `AnswersTheorem` and
  `DispatchTheorem`.
* The suites `MCTexts` and `MCRapid`, whose readers are recursive operators or are
  compared with recursive definitions of what a text means.

## Disagreements met

`multi_exchange_price` is kept as a run: `multibidder_collector` sorts by price, but
`serialize(Bid)` in `rtb/messaging/serialization.hpp` writes no price, so every bid that
reaches the collector has price 0 and any bid may be in front, against the comparator
that compares prices (`rtb/exchange/multibidder_collector.hpp:65`).  `multi` therefore checks what is left, `BidBeatsNoBid`.

While modelling, more places came up where the code and a comment, an assertion or a doc
of the repository differ.  The models do what the code does, and the properties checked
are stated so that they hold beside them.  The definitions named state the other side in
the module; no run checks them, but for those marked "exempted there", which a run checks
with the exception they state, and "restricted", which it checks in an instance where the
case cannot come up.

| Place | Definition | What the code does |
|---|---|---|
| `benchmarks/audit_buffer.hpp:189` | `SlotFreeForNextSegment` | the assert that the slot is empty fails when a thread slept through several switches |
| `benchmarks/audit_buffer.hpp:170` | `CurrentSegmentAvailable` | of two threads that store the index the last may store the smaller one, and `reserve` spins |
| `benchmarks/audit_buffer.hpp:139` | `SwitchOnlyWhenNoSpaceLeft` | a request of `filesize_ - 1` passes the check and fits no segment |
| `examples/multiexchange/multi_exchange_handler.cpp:106` | `AllBiddersResponded` | a repeated or late answer stands in for a bidder in "all bidders responsed" |
| `examples/bidder/ad_selector.hpp:113` | `NothingAuthorizedNoBid` | a campaign with nothing left bids 0 |
| `rtb/datacache/entity_cache.hpp:204` | `NoAccessBeyondMapping` | the segment grows under processes that only insert and update reattach |
| `rtb/datacache/entity_cache.hpp:212` | `WalksStayInRange` | iterators are walked after the lock was released |
| `CRUD/service/persistent_connection.hpp:90` | `GoodMeansComplete`, `PiecesAwaited` | the body is taken before it has arrived; a content-length that has not arrived throws |
| `CRUD/service/persistent_connection.hpp:119` | `CleanlyStopped` | handlers keep `this` alive by nothing |
| `CRUD/service/connection_manager.hpp:62`, `server.hpp:99` | `SetIsGuarded`, `RunReturns` | `stop_all` walks the set without the lock; a connection started behind it keeps `run` |
| `CRUD/service/request_handler.cpp:93` | `InvalidIsRefused` | "%2g" and "%+2" are decoded |
| `CRUD/service/request_handler.cpp:62` | `TypeOfTheFile` | a "%00" cuts the name that is opened, not the one the type comes from |
| `rtb/messaging/communicator.hpp:121`, `:277` | `AnswersAreWhole`, `DispatchDoesNotReturn` | one send buffer for all; a datagram that was cut leaves `dispatch` by an exception |
| `rtb/messaging/communicator.hpp:301`, `:313` | `AuctionReturns` (exempted there) | an answer that was cut, or is no archive, leaves `collect` by an exception that nothing on the server thread catches |
| `CRUD/handlers/crud_matcher.hpp:48` | `MapsAreOnlyRead` | a request of a method without a handler inserts into a map that the threads of a server share without a lock |
| `rtb/messaging/serialization.hpp:231` | (archive of views, not modelled) | all texts of a thread share one string of the size of the first |
| `rtb/DSL/extractors.hpp:313`, `benchmarks/audit_codec.hpp:254` | `NoAssertionFails` | a geo without a country, and a bool in a record, fail an assertion; the run checks that it is bools, and nothing else, at which the codec's fail (`AssertsAtBools`) |
| `rtb/common/uri_grammar.hpp:150` | `HostIsWhole` | of 1.1.1.1.example the host is 1.1.1.1 |
| `rapidjson/reader.h:621`, `:1021` | `NextReportsErrors`, `AcceptedIsUtf8` | an error in a comment is not seen by the iterative next; a low surrogate alone is accepted |
| `rapidjson/reader.h:1642` | `NumberReadAsWritten` (exempted there) | "prevent overflow exponent": an exponent that passes the check still overflows when the decimals are added |
| `rapidjson/error/en.h:57` | `NumberErrorsInPlace` (exempted there) | 0e309 is "too big to be stored in double", and 10e308 is accepted |
| `rapidjson/reader.h:157` | `NamedAsWritten` (exempted there) | "Allow parsing NaN, Inf": Inf.5 is read as 0.5 |
| `rapidjson/filereadstream.h:62`, `encodings.h:226` | `ReadsBackWhatWasWritten` (exempted there), `OnlyTheMarkIsDropped` | nothing is detected in a full buffer of four bytes; the beginning of a mark is lost |
| `rapidjson/internal/strtod.h:97`, `biginteger.h:199` | `KeptWithinHalfUlp`, `DifferenceIsAbsolute` | shifts by whole words, and borrows through words of ones |
| `rapidjson/document.h:819`, `:926`, `:949` | `ReadsAsMeant` (restricted), `DuplicatedIsUnequal`, `EqualIntegersAreTheSame` | assignment of an own element, names that repeat, -1 beside 2^64 - 1 |
| `rapidjson/prettywriter.h:94`, `writer.h:135`, `:145` | `CompleteIsFlushed` (restricted to the plain writer), `ResetRestores`, `CompleteIsJson` | a pretty scalar root is not flushed; `Reset` keeps the decimal places; a refused NaN counts |
| `rapidjson/pointer.h:771`, `:873`, `:906` | `AppendAppends`, `FragmentsAsSpecified`, `TooGreatIsName` | user-supplied tokens, escapes behind `~`, indices that wrap |
| `rapidjson/internal/regex.h:204`, `:398`, `:472`, `:672`, `:691` | `SearchFindsEmpty`, `AssertionsHold`, `GreatNumberRefused`, `AddStateReturns` | anchors, open parentheses, great quantifiers, empty matches, loops of splits |
| `rapidjson/schema.h:201`, `:436`, `:646` | `AcceptsAsSpecified`, `RefusesAsSpecified`; `AcceptsOnlyRight`, `RefusesOnlyWrong`, `BlameIsRight` (exempted there) | equal members cancel in a hash (`MembersCancel`); a name that is only required, or in a dependency, counts as a property beside additional properties (`NamedIsDeclared`); beside a schema of additional properties it is enough to conform to either (`EitherIsEnough`) |
| `rapidjson/schema.h:640`, `:1504` | `PatternBlameIsRight`, `ConstructionEnds` | the blame of patterns; references to themselves |
| `rapidjson/allocators.h:180` | (pool, not modelled) | sizes just below 2^64 wrap |
| `jsonv/src/jsonv/tokenizer.cpp:137`, `:224` | `PutsTheRestBack`, `TrueMeansToken` | part of the current token is put back; a read of nothing leaves zeros |
| `jsonv/src/jsonv/parse.cpp:362`, `:421`, `:449`, `:515`, `:704` | `FailuresEnd`, `StrictTakesNumbers`, `NumbersAreTaken`, `ParseEnds`, `MaximumDepthIsAllowed` | the limit of failures, 0.5 when strict, 1e5.5, arrays left open, the maximum depth |
| `jsonv/include/jsonv/serialization_builder.hpp:674` to `:1030` | `InputsChecked`, `KeysRequired`, `NullNeedsDefault`, `NullTakesDefault`, `EmptyVersionBounded`, `SinceIsGreater` | `check_input` checks nothing; missing keys, nulls and versions beside the docs |

## Not modelled

* The asynchronous key value client (`rtb/client`): what connect and request do is what
  the wrapper they are given does, and the repository has none but an empty adapter.
* The unicode string, conversions of the standard library around a `std::u32string`.
* Of rapidjson: buffered files, the chunks of the memory pool, and the conversions between
  binary and decimal numbers (`dtoa`, and `strtod` beyond `StrtodNormalPrecision` and the
  big integers of its slow path), whose tables and 64-bit products are beyond small
  instances.  The doubles of `ParseNumber` are decimal here, so that what rounding does to
  them is left out.
* Of jsonv: values over the containers of the standard library, and encoders.
* The archive of views, socket errors, `exec` and the copying of arguments, formatting of
  replies, configuration, the campaign UI, docker files and benchmark drivers.

## Plan

The plan was carried out in this order: the budgets with their caches; the auction with
its timers and datagrams; the cache and the audit buffer; the server; the parsers and
the two JSON libraries; then the proofs, component by component.  What is left:

1. `AuditBuffer`: that the index moves forward while no thread is overtaken.
2. `HttpConnection`: its replies, with the parser as a recursive function over the text
   and its equation as a lemma, as `AdsUpTo` has one.
