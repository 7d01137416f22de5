---------------------------- MODULE RsmLinkClient ----------------------------
(***************************************************************************)
(* One connection of the link's client, protocol/client.py: requests of    *)
(* several tasks, the task that receives, and close.  Between two awaits   *)
(* nothing else runs, so an action reaches from one await to the next.     *)
(*                                                                         *)
(* The node is outside: it answers a request once or never, in any order,  *)
(* and may send what is no frame, close the connection or break it.  What  *)
(* it sends arrives in chunks of any number of frames.                     *)
(***************************************************************************)
EXTENDS Naturals, Sequences

CONSTANTS
  LinkCalls,  \* the calls of request
  Hello,      \* the one that connect makes
  IdMod       \* 2^32: request ids are 1..IdMod-1

ASSUME LinkClientAssumption == Hello \in LinkCalls /\ IdMod \in Nat /\ IdMod > 2

VARIABLES
  session,    \* client.state
  nextId,     \* client._next
  pendingIds, \* client._pending: ids and the requests whose futures they name
  idOf,       \* the id of each request, 0 before it has one
  call,       \* where each request stands, or how it ended
  answer,     \* what its future holds
  receiver,   \* the task of _receive: running, ended, failed or malformed
  shutting,   \* how far close has come
  asked,      \* requests that the node has and has not answered
  incoming,   \* what the node has sent and the client has not read
  severed     \* the connection is lost or closed: nothing can be sent

linkVars == <<session, nextId, pendingIds, idOf, call, answer, receiver, shutting, asked, incoming, severed>>

InProgress == {"draining", "waiting"}
Undone == [kind |-> "undone"]
Gone == [kind |-> "gone"]   \* taken, or cancelled with the wait for it
Exception == [kind |-> "exception"]
Ends == {"malformed", "eof", "reset"}

Without(f, id) == [j \in DOMAIN f \ {id} |-> f[j]]

\* connect has a connection, and sends the first request.
ClientInit ==
  /\ session = "NEGOTIATING" /\ nextId = 1 /\ pendingIds = <<>> /\ receiver = "running"
  /\ idOf = [r \in LinkCalls |-> 0]
  /\ call = [r \in LinkCalls |-> "idle"] /\ answer = [r \in LinkCalls |-> Undone]
  /\ shutting = "no" /\ asked = {} /\ incoming = <<>> /\ severed = FALSE

-----------------------------------------------------------------------------
(* request                                                                 *)

IdAfter(id) == IF (id + 1) % IdMod = 0 THEN 1 ELSE id + 1

\* An id comes back after IdMod - 1 requests, when nothing is left of the last
\* one that had it: a bound of the instances explored.
Forgotten(id) ==
  /\ id \notin DOMAIN pendingIds
  /\ \A r \in LinkCalls : idOf[r] = id => call[r] \notin InProgress /\ r \notin asked
  /\ \A k \in DOMAIN incoming : incoming[k].id # id

\* Every other request comes after connect has returned.
Send(r) ==
  /\ call[r] = "idle" /\ (r = Hello \/ session # "NEGOTIATING")
  /\ Forgotten(nextId)
  /\ idOf' = [idOf EXCEPT ![r] = nextId]
  /\ nextId' = IdAfter(nextId)
  /\ pendingIds' = [id \in DOMAIN pendingIds \cup {nextId} |->
                      IF id = nextId THEN r ELSE pendingIds[id]]
  /\ call' = [call EXCEPT ![r] = "draining"]
  /\ asked' = IF severed THEN asked ELSE asked \cup {r}
  /\ UNCHANGED <<session, answer, receiver, shutting, incoming, severed>>

EndCall(r, how) ==
  /\ call' = [call EXCEPT ![r] = how]
  /\ answer' = IF call[r] = "waiting" THEN [answer EXCEPT ![r] = Gone] ELSE answer

Drained(r) ==
  /\ call[r] = "draining" /\ call' = [call EXCEPT ![r] = "waiting"]
  /\ UNCHANGED <<session, nextId, pendingIds, idOf, answer, receiver, shutting, asked, incoming, severed>>

\* drain raises, outside the try: the id stays in _pending.
DrainRaises(r) ==
  /\ call[r] = "draining" /\ severed /\ EndCall(r, "raised")
  /\ UNCHANGED <<session, nextId, pendingIds, idOf, receiver, shutting, asked, incoming, severed>>

Outcome(r) == IF answer[r].kind = "OK" THEN "returned" ELSE "raised"

\* The future is done; connect goes on when its request has been answered.
Finish(r) ==
  /\ call[r] = "waiting" /\ answer[r] # Undone
  /\ EndCall(r, Outcome(r))
  /\ session' = IF r = Hello /\ Outcome(r) = "returned" THEN "CONNECTED" ELSE session
  /\ UNCHANGED <<nextId, pendingIds, idOf, receiver, shutting, asked, incoming, severed>>

\* The wait ends first, and may (from Python 3.12 on) lose an answer just set.
RequestTimeout(r) ==
  /\ call[r] = "waiting"
  /\ EndCall(r, "raised")
  /\ pendingIds' = Without(pendingIds, idOf[r])
  /\ UNCHANGED <<session, nextId, idOf, receiver, shutting, asked, incoming, severed>>

\* The task that called is cancelled: the id stays in _pending.
CancelRequest(r) ==
  /\ call[r] \in InProgress
  /\ EndCall(r, "raised")
  /\ UNCHANGED <<session, nextId, pendingIds, idOf, receiver, shutting, asked, incoming, severed>>

-----------------------------------------------------------------------------
(* _receive                                                                *)

\* The frames of a chunk that reach their futures: the ones before the first
\* whose payload cannot be decoded, which is looked at only for a future that
\* is not done.
Expected(f) == f.id \in DOMAIN pendingIds /\ answer[pendingIds[f.id]] = Undone
Faulty(chunk) == {k \in DOMAIN chunk : chunk[k].kind = "garbled" /\ Expected(chunk[k])}
Delivered(chunk) == {k \in DOMAIN chunk : \A j \in Faulty(chunk) : k < j}

\* Mutant: an answer goes to the request that has waited longest.
ToldInOrder(chunk, r) ==
  {k \in Delivered(chunk) : Expected(chunk[k]) /\
     \A id \in DOMAIN pendingIds :
       pendingIds[id] = r => \A j \in DOMAIN pendingIds : id <= j}
\* Its future is the one that _pending has under the answer's id.
Told(chunk, r) == {k \in Delivered(chunk) : Expected(chunk[k]) /\ pendingIds[chunk[k].id] = r}

\* What the futures hold after a chunk, or after the failure of one.
AnswersAfter(chunk, r) ==
  IF Told(chunk, r) # {} THEN LET k == CHOOSE k \in Told(chunk, r) : TRUE
                              IN [kind |-> chunk[k].kind, to |-> chunk[k].to]
  ELSE answer[r]

Popped(chunk) == {chunk[k].id : k \in Delivered(chunk) \cup Faulty(chunk)}

\* The exception goes to the futures that are still in _pending, which is then
\* emptied; a request whose payload was at fault is no longer there.
FailReceiver(chunk) ==
  LET left == {pendingIds[id] : id \in DOMAIN pendingIds \ Popped(chunk)}
  IN answer' = [r \in LinkCalls |->
       LET now == AnswersAfter(chunk, r)
       IN IF r \in left /\ now = Undone THEN Exception ELSE now]

First(n) == SubSeq(incoming, 1, n)
Rest(n) == SubSeq(incoming, n + 1, Len(incoming))
FramesOnly(chunk) == \A k \in DOMAIN chunk : chunk[k].kind \notin Ends

ReceiverEnds(how) ==
  /\ receiver' = how /\ pendingIds' = <<>>
  /\ UNCHANGED <<session, nextId, idOf, call, shutting, asked, severed>>

\* A chunk of frames.
ReceiveFrames(n) ==
  /\ receiver = "running" /\ FramesOnly(First(n)) /\ Faulty(First(n)) = {}
  /\ answer' = [r \in LinkCalls |-> AnswersAfter(First(n), r)]
  /\ pendingIds' = [id \in DOMAIN pendingIds \ Popped(First(n)) |-> pendingIds[id]]
  /\ incoming' = Rest(n)
  /\ UNCHANGED <<session, nextId, idOf, call, receiver, shutting, asked, severed>>

\* A payload that cannot be decoded.
ReceiveGarbled(n) ==
  /\ receiver = "running" /\ FramesOnly(First(n)) /\ Faulty(First(n)) # {}
  /\ FailReceiver(First(n)) /\ incoming' = Rest(n) /\ ReceiverEnds("failed")

\* feed decodes the whole chunk first: no frame before the malformed one is
\* delivered.
ReceiveMalformed(n) ==
  /\ receiver = "running"
  /\ FramesOnly(First(n - 1)) /\ incoming[n].kind = "malformed"
  /\ FailReceiver(<<>>) /\ incoming' = Rest(n) /\ ReceiverEnds("malformed")

ReceiveEnd ==
  /\ receiver = "running" /\ incoming # <<>>
  /\ \/ Head(incoming).kind = "eof" /\ UNCHANGED answer /\ ReceiverEnds("ended")
     \/ Head(incoming).kind = "reset" /\ FailReceiver(<<>>) /\ ReceiverEnds("failed")
  /\ incoming' = Tail(incoming)

-----------------------------------------------------------------------------
(* close: the writer, then the wait for it, then the receiver.             *)

StartClose ==
  /\ shutting = "no" /\ session # "NEGOTIATING"
  /\ shutting' = (IF severed THEN "failing" ELSE "shutting") /\ severed' = TRUE
  /\ UNCHANGED <<session, nextId, pendingIds, idOf, call, answer, receiver, asked, incoming>>

\* wait_closed raises what the connection was lost to: the receiver is not
\* cancelled, and the state stays.
CloseFails ==
  /\ shutting = "failing" /\ shutting' = "raised"
  /\ UNCHANGED <<session, nextId, pendingIds, idOf, call, answer, receiver, asked, incoming, severed>>

Cancelled == IF receiver = "running" THEN "ended" ELSE receiver

FinishClose ==
  /\ shutting = "shutting" /\ shutting' = "closed"
  /\ session' = "CLOSED" /\ receiver' = Cancelled
  /\ pendingIds' = IF receiver = "running" THEN <<>> ELSE pendingIds
  /\ UNCHANGED <<nextId, idOf, call, answer, asked, incoming, severed>>

-----------------------------------------------------------------------------
(* The node.                                                               *)

\* What the node sends is of interest until it has sent an end, and while the
\* client receives.
Sends == ~severed /\ receiver = "running" /\ FramesOnly(incoming)

NodeAnswers(r, kind) ==
  /\ r \in asked /\ Sends
  /\ asked' = asked \ {r}
  /\ incoming' = Append(incoming, [kind |-> kind, id |-> idOf[r], to |-> r])
  /\ UNCHANGED <<session, nextId, pendingIds, idOf, call, answer, receiver, shutting, severed>>

\* Bytes that are no frame, the end of the stream, or a reset; the last breaks
\* the connection both ways.
NodeEnds(kind) ==
  /\ Sends
  /\ incoming' = Append(incoming, [kind |-> kind, id |-> 0])
  /\ severed' = (kind = "reset")
  /\ UNCHANGED <<session, nextId, pendingIds, idOf, call, answer, receiver, shutting, asked>>

-----------------------------------------------------------------------------
RequestSteps(r) ==
  Send(r) \/ Drained(r) \/ DrainRaises(r) \/ Finish(r) \/ RequestTimeout(r) \/ CancelRequest(r)

ReceiverSteps ==
  \/ \E n \in 1..Len(incoming) : ReceiveFrames(n) \/ ReceiveGarbled(n) \/ ReceiveMalformed(n)
  \/ ReceiveEnd

ClientNext ==
  \/ \E r \in LinkCalls : RequestSteps(r)
  \/ ReceiverSteps
  \/ StartClose \/ CloseFails \/ FinishClose
  \/ \E r \in LinkCalls, kind \in {"OK", "ERROR", "garbled"} : NodeAnswers(r, kind)
  \/ \E kind \in Ends : NodeEnds(kind)

ClientSpec == ClientInit /\ [][ClientNext]_linkVars

-----------------------------------------------------------------------------
\* However answers, timeouts, cancellations and chunks interleave, a request is
\* told only the answer to itself; and as long as the client receives, one that
\* has not been told is found by the id its answer will carry.
AnswersFindRequests ==
  /\ \A r \in LinkCalls : answer[r].kind \in {"OK", "ERROR"} => answer[r].to = r
  /\ receiver = "running" =>
       \A r \in LinkCalls :
         call[r] \in InProgress /\ answer[r] = Undone =>
           idOf[r] \in DOMAIN pendingIds /\ pendingIds[idOf[r]] = r

\* docs/rsm-link.md: a malformed frame terminates the session.  Nothing more is
\* asked of the node on a session that has met one.
MalformedTerminates ==
  [][receiver = "malformed" /\ session = "CONNECTED" => asked' \subseteq asked]_linkVars
==============================================================================
