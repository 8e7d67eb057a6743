--------------------------- MODULE HttpConnection ----------------------------
(* CRUD/service/persistent_connection.hpp and connection.hpp: one connection  *)
(* of a client that sends its requests one after the other, each after the    *)
(* reply to the one before.  The connection owns a read buffer, a parser, a   *)
(* request and a reply, all of which outlive a request.                       *)
EXTENDS RequestParser, Integers

CONSTANTS
    Kinds,        \* the requests a client may send: [text, body, known, split]; one
                  \* that is not split arrives in a single read
    MaxRequests,  \* BOUND: requests on the connection
    MaxPieces,    \* BOUND: reads a request is spread over
    Persistent,   \* TRUE for persistent_connection, FALSE for connection
    BufferSize    \* size of buffer_

PersistentIsBoolean == Persistent \in BOOLEAN
BufferHoldsARequest ==
    \A r \in Kinds : Len(r.text \o r.body) <= BufferSize

Junk == "junk"

(* A reply: its status line, and the bodies its content was made from.  The   *)
(* constructor of a connection leaves the status uninitialized.               *)
NewReply == [status |-> "uninitialized", content |-> <<>>]
BadRequest == [status |-> "bad_request", content |-> <<>>]

VARIABLES
    sent,      \* the requests the client has sent
    pending,   \* bytes sent and not yet read
    pieces,    \* reads of the last request so far
    buffer,    \* buffer_, of which a read overwrites a prefix
    parser,    \* request_parser_ and request_
    reply,     \* reply_
    gone,      \* a write has failed: the client is gone
    phase,     \* "reading", "writing", "closed", or "terminated": the process is gone
    replies,   \* replies the client got
    handled,   \* history: the body each call of handle_request was given
    waited     \* history: body bytes missing at a call of handle_request

vars == <<sent, pending, pieces, buffer, parser, reply, gone, phase, replies, handled, waited>>

TypeOK ==
    /\ sent \in Seq(Kinds)
    /\ buffer \in [1 .. BufferSize -> Char \cup {Junk}]
    /\ parser.state \in State
    /\ phase \in {"reading", "writing", "closed", "terminated"}
    /\ waited \/ Len(replies) <= Len(sent)

Init ==
    /\ sent = <<>>
    /\ pending = <<>>
    /\ pieces = 0
    /\ buffer = [i \in 1 .. BufferSize |-> Junk]
    /\ parser = Fresh
    /\ reply = NewReply
    /\ gone = FALSE
    /\ phase = "reading"
    /\ replies = <<>>
    /\ handled = <<>>
    /\ waited = FALSE

(* The client: it sends the next request once it has the reply to the last.   *)
Send ==
    /\ Len(sent) < MaxRequests
    /\ Len(replies) >= Len(sent)
    /\ \E r \in Kinds :
         /\ sent' = Append(sent, r)
         /\ pending' = pending \o r.text \o r.body
    /\ pieces' = 0
    /\ UNCHANGED <<buffer, parser, reply, gone, phase, replies, handled, waited>>

(* boost::lexical_cast<long> of the header's value: -1 where it throws.       *)
LengthOf(digits) ==
    CASE digits = <<"1">> -> 1
      [] digits = <<"2">> -> 2
      [] digits = <<"1", "1">> -> 11
      [] digits = <<"1", "2">> -> 12
      [] OTHER -> -1

(* Mutant of BytesAt: the last character of the headers is part of the body.  *)
BytesAtLast(buf, from, n) ==
    [i \in 1 .. n |-> buf[from + i - 1]]

(* std::string(data, n): n bytes of the buffer from the end of the headers    *)
(* on, whatever they are.                                                     *)
BytesAt(buf, from, n) ==
    [i \in 1 .. n |-> IF from + i <= BufferSize THEN buf[from + i] ELSE Junk]

(* The dispatcher: a request it knows is answered, appending to the content;  *)
(* for one it does not know no handler runs and the reply stays as it is.     *)
Dispatch(rep, data) ==
    IF sent[Len(sent)].known
    THEN [status |-> "ok", content |-> Append(rep.content, data)]
    ELSE rep

(* The completion of a read of n bytes.                                       *)
ReadDone(n, now) ==
    LET buf == [i \in 1 .. BufferSize |-> IF i <= n THEN pending[i] ELSE buffer[i]]
        named == now.req.length # NoLength
        data == IF named THEN BytesAt(buf, now.read, LengthOf(now.req.length)) ELSE <<>>
    IN
    /\ pending' = SubSeq(pending, n + 1, Len(pending))
    /\ pieces' = pieces + 1
    /\ buffer' = buf
    /\ parser' = now
    /\ IF named /\ LengthOf(now.req.length) = -1
       THEN phase' = "terminated" /\ UNCHANGED <<reply, handled, waited>>
       ELSE CASE now.result = "good" ->
                   /\ reply' = Dispatch(reply, data)
                   /\ handled' = Append(handled, data)
                   /\ waited' = (waited \/ n - now.read < Len(data))
                   /\ phase' = "writing"
              [] now.result = "bad" ->
                   /\ reply' = BadRequest
                   /\ phase' = "writing"
                   /\ UNCHANGED <<handled, waited>>
              [] OTHER -> UNCHANGED <<reply, handled, waited, phase>>
    /\ UNCHANGED <<sent, gone, replies>>

Read ==
    /\ phase = "reading" /\ ~gone /\ pending # <<>>
    /\ \E n \in 1 .. Len(pending) :
         /\ ~sent[Len(sent)].split \/ pieces + 1 = MaxPieces => n = Len(pending)
         /\ \E now \in {Parse(parser, SubSeq(pending, 1, n))} : ReadDone(n, now)

(* Mutant of ReadFailed: every error is taken for a cancelled read.           *)
ReadFailedIgnored ==
    /\ phase = "reading"
    /\ UNCHANGED vars

(* The completion of a read that failed: the manager stops the connection.    *)
ReadFailed ==
    /\ phase = "reading"
    /\ phase' = "closed"
    /\ UNCHANGED <<sent, pending, pieces, buffer, parser, reply, gone, replies, handled, waited>>

(* Mutant of Reset: the next request finds the reply as it was left.          *)
ResetKeepsReply ==
    /\ parser' = Fresh
    /\ UNCHANGED reply

(* persistent_connection, after a write: parser, reply and request.           *)
Reset ==
    /\ parser' = Fresh
    /\ reply' = [status |-> "ok", content |-> <<>>]

(* The completion of a write, whatever its error code: the next read begins.  *)
Written ==
    /\ phase = "writing"
    /\ Persistent
    /\ replies' = Append(replies, reply)
    /\ Reset
    /\ phase' = "reading"
    /\ UNCHANGED <<sent, pending, pieces, buffer, gone, handled, waited>>

WriteFailed ==
    /\ phase = "writing"
    /\ Persistent
    /\ gone' = TRUE
    /\ Reset
    /\ phase' = "reading"
    /\ UNCHANGED <<sent, pending, pieces, buffer, replies, handled, waited>>

(* Mutant of WrittenOnce: only a reply that was delivered ends a connection.  *)
WrittenOnceForgotten ==
    /\ phase = "writing"
    /\ ~Persistent
    /\ \/ replies' = Append(replies, reply) /\ phase' = "closed"
       \/ UNCHANGED replies /\ phase' = "reading"
    /\ UNCHANGED <<sent, pending, pieces, buffer, parser, reply, gone, handled, waited>>

(* connection: one reply, or none, then the manager stops it.                 *)
WrittenOnce ==
    /\ phase = "writing"
    /\ ~Persistent
    /\ \E delivered \in BOOLEAN :
         replies' = IF delivered THEN Append(replies, reply) ELSE replies
    /\ phase' = "closed"
    /\ UNCHANGED <<sent, pending, pieces, buffer, parser, reply, gone, handled, waited>>

Next == Send \/ Read \/ ReadFailed \/ Written \/ WriteFailed \/ WrittenOnce

Spec == Init /\ [][Next]_vars

Answer == Written \/ WriteFailed \/ WrittenOnce

(* The server thread runs completions; the network delivers what was sent,    *)
(* and reports a client that is gone.                                         *)
FairSpec ==
    /\ Spec
    /\ WF_vars(Read)
    /\ WF_vars(gone /\ ReadFailed)
    /\ WF_vars(Answer)

------------------------------------------------------------------------------
WellFormed(i) == Parse(Fresh, sent[i].text).result = "good"

(* Each reply is about its own request: the body it was sent with, nothing    *)
(* of the requests before it, and a status someone chose, except that the     *)
(* first request of a connection may be answered with an uninitialized one.   *)
(* Once a body was taken before it had arrived, what is left of it is read as *)
(* a request, and nothing is said of the replies after that.                  *)
RepliesOwn ==
    waited \/ \A i \in 1 .. Len(replies) :
        CASE ~WellFormed(i) -> replies[i] = BadRequest
          [] WellFormed(i) /\ sent[i].known ->
                 replies[i] = [status |-> "ok", content |-> <<sent[i].body>>]
          [] OTHER -> /\ replies[i].content = <<>>
                      /\ replies[i].status = "ok" \/ i = 1

(* A request is answered, its connection is closed or the process is gone,    *)
(* also when the write of a reply failed and persistent_connection reads on.  *)
Answered ==
    \A i \in 1 .. MaxRequests :
        Len(sent) = i ~> (Len(replies) >= i \/ phase \in {"closed", "terminated"})

(* "good when a complete request has been parsed" (request_parser.hpp:34):    *)
(* a handler gets a request whose body has arrived.                           *)
GoodMeansComplete == ~waited

(* "indeterminate when more data is required" (request_parser.hpp:35): a      *)
(* request that arrives in pieces is waited for.                              *)
PiecesAwaited == phase # "terminated"
==============================================================================
