-------------------------------- MODULE McpSse --------------------------------
(***************************************************************************)
(* The HTTP+SSE transport (mcp/http_transport.go): calls are POSTed to an  *)
(* endpoint that the server names in its event stream, and one loop routes *)
(* the messages of the stream to the waiting calls by their id, through a  *)
(* channel of capacity one per call.  The map of pending calls is behind a *)
(* mutex, but the loop sends on the channel after it has let the mutex go. *)
(*                                                                         *)
(* The server is external: it answers a request at most once, at any time  *)
(* after it arrived, or never, and its own requests have ids that no call  *)
(* has.                                                                    *)
(***************************************************************************)
EXTENDS Integers, Sequences, FiniteSets

CONSTANTS
    Calls,          \* the calls, each by a goroutine of its own
    Deadlined,      \* the calls whose context has a deadline
    MaxExtra,       \* bound: the events that are not replies
    PostFails,      \* may a POST fail?
    NoResult, Failed, Nobody

ASSUME SseAssumption ==
    /\ IsFiniteSet(Calls) /\ Deadlined \subseteq Calls /\ MaxExtra \in Nat
    /\ PostFails \in BOOLEAN

VARIABLES
    pc,         \* where each call is
    id,         \* the JSON-RPC id of each call; 0 before it has one
    chan,       \* the channel of each call
    result,     \* what each call has returned
    next,       \* sseTransport.next
    pending,    \* sseTransport.pending: the ids of the waiting calls
    expired,    \* the calls whose context is done
    endpoint,   \* is endpointCh closed?
    stream,     \* the events on their way from the server
    open,       \* is the event stream open?
    loop,       \* the call the loop is about to send to, and the message
    closed,     \* is sseTransport.closed closed: has the loop exited?
    closer,     \* close(): "no", "waiting" for the loop, or "done"
    received,   \* the ids of the requests that reached the server
    answered,   \* history: the calls the server has replied to
    extra       \* the number of events that are not replies

callVars   == <<pc, id, chan, result, next, pending, expired>>
loopVars   == <<endpoint, loop, closed>>
serverVars == <<received, answered, extra>>
vars       == <<callVars, loopVars, stream, open, closer, serverVars>>

Ids        == 1..Cardinality(Calls)
Reply(i)   == [kind |-> "reply", id |-> i]
Request    == [kind |-> "request", id |-> 0]
Endpoint   == [kind |-> "endpoint", id |-> 0]
Other      == [kind |-> "notification", id |-> 0]
Messages   == {Request} \cup {Reply(i) : i \in Ids}
Idle       == [to |-> Nobody, msg |-> Other]

ASSUME ResultAssumption == \A m \in Messages : m \notin {NoResult, Failed}

Init ==
    /\ pc = [k \in Calls |-> "new"] /\ id = [k \in Calls |-> 0]
    /\ chan = [k \in Calls |-> <<>>] /\ result = [k \in Calls |-> NoResult]
    /\ next = 0 /\ pending = {} /\ expired = {}
    /\ endpoint = FALSE /\ loop = Idle /\ closed = FALSE
    /\ stream = <<>> /\ open = TRUE /\ closer = "no"
    /\ received = {} /\ answered = {} /\ extra = 0

-----------------------------------------------------------------------------
(* A call.                                                                 *)

Begin(k) ==
    /\ pc[k] = "new"
    /\ pc' = [pc EXCEPT ![k] = "endpoint"]
    /\ UNCHANGED <<id, chan, result, next, pending, expired, loopVars, stream, open,
                   closer, serverVars>>

Expire(k) ==
    /\ k \in Deadlined \ expired /\ pc[k] \notin {"new", "done"}
    /\ expired' = expired \cup {k}
    /\ UNCHANGED <<pc, id, chan, result, next, pending, loopVars, stream, open,
                   closer, serverVars>>

\* waitEndpoint fails; the select takes any branch that is ready.
NoEndpoint(k) ==
    /\ pc[k] = "endpoint" /\ (k \in expired \/ closed)
    /\ pc' = [pc EXCEPT ![k] = "done"]
    /\ result' = [result EXCEPT ![k] = Failed]
    /\ UNCHANGED <<id, chan, next, pending, expired, loopVars, stream, open, closer, serverVars>>

NewId == next + 1

\* waitEndpoint succeeds, and the call registers its channel.
Register(k) ==
    /\ pc[k] = "endpoint" /\ endpoint
    /\ next' = next + 1
    /\ id' = [id EXCEPT ![k] = NewId]
    /\ pending' = pending \cup {NewId}
    /\ pc' = [pc EXCEPT ![k] = "post"]
    /\ UNCHANGED <<chan, result, expired, loopVars, stream, open, closer, serverVars>>

\* The request reaches the server; its answer may be quicker than the POST.
Arrive(k) ==
    /\ pc[k] = "post" /\ id[k] \notin received
    /\ received' = received \cup {id[k]}
    /\ UNCHANGED <<callVars, loopVars, stream, open, closer, answered, extra>>

Posted(k) ==
    /\ pc[k] = "post" /\ id[k] \in received
    /\ pc' = [pc EXCEPT ![k] = "select"]
    /\ UNCHANGED <<id, chan, result, next, pending, expired, loopVars, stream, open,
                   closer, serverVars>>

\* The call has its result; the deferred delete is still to come.
Decided(k, r) ==
    /\ pc' = [pc EXCEPT ![k] = "leave"]
    /\ result' = [result EXCEPT ![k] = r]
    /\ UNCHANGED <<id, next, pending, expired, loopVars, stream, open, closer, serverVars>>

PostError(k) ==
    /\ pc[k] = "post" /\ (PostFails \/ k \in expired)
    /\ Decided(k, Failed)
    /\ UNCHANGED chan

Take(k) ==
    /\ pc[k] = "select" /\ chan[k] # <<>>
    /\ \E r \in {Failed, Head(chan[k])} : Decided(k, r)      \* an error reply, or a result
    /\ chan' = [chan EXCEPT ![k] = Tail(@)]

\* A slip, as everywhere in this project: a definition named *_<slip> is the
\* one after it with a plausible programming error.
\* (Only the end of the connection is waited for.)
Abandon_ClosedOnly(k) ==
    /\ pc[k] = "select" /\ closed
    /\ Decided(k, Failed)
    /\ UNCHANGED chan

\* The context or the connection ends before the answer comes.
Abandon(k) ==
    /\ pc[k] = "select" /\ (k \in expired \/ closed)
    /\ Decided(k, Failed)
    /\ UNCHANGED chan

\* (The entry stays in the map when the call did not get a reply.)
Forgotten_OnReply(k) == IF result[k] = Failed THEN pending ELSE pending \ {id[k]}

\* The pending calls after the deferred delete.
Forgotten(k) == pending \ {id[k]}

Leave(k) ==
    /\ pc[k] = "leave"
    /\ pending' = Forgotten(k)
    /\ pc' = [pc EXCEPT ![k] = "done"]
    /\ UNCHANGED <<id, chan, result, next, expired, loopVars, stream, open, closer, serverVars>>

-----------------------------------------------------------------------------
(* The loop.                                                               *)

\* (The id of the message is not looked at.)
Waiting_Any(m) == {k \in Calls : id[k] \in pending}

\* The call that waits for message m, if there is one.
Waiting(m) == {k \in Calls : id[k] \in pending /\ id[k] = m.id}

\* Read an event: the first endpoint is announced, a message is looked up, and
\* anything else is skipped.
Scan ==
    /\ ~closed /\ loop = Idle /\ stream # <<>>
    /\ LET e == Head(stream) IN
       /\ endpoint' = (endpoint \/ e = Endpoint)
       /\ IF e \in Messages /\ Waiting(e) # {}
            THEN loop' = [to |-> CHOOSE k \in Waiting(e) : TRUE, msg |-> e]
            ELSE loop' = Idle
    /\ stream' = Tail(stream)
    /\ UNCHANGED <<callVars, closed, open, closer, serverVars>>

\* (The channel has no buffer: the call must be there to receive.)
Room_Unbuffered(k) == chan[k] = <<>> /\ pc[k] = "select"

\* The channel of the call, which has capacity one, has room.
Room(k) == chan[k] = <<>>

Route ==
    /\ loop # Idle /\ Room(loop.to)
    /\ chan' = [chan EXCEPT ![loop.to] = Append(@, loop.msg)]
    /\ loop' = Idle
    /\ UNCHANGED <<pc, id, result, next, pending, expired, endpoint, closed, stream, open,
                   closer, serverVars>>

\* The stream has ended, or close cancelled it; what was not read may be lost.
LoopExit ==
    /\ ~closed /\ loop = Idle /\ ~open
    /\ closed' = TRUE
    /\ UNCHANGED <<callVars, endpoint, loop, stream, open, closer, serverVars>>

-----------------------------------------------------------------------------
(* close, and the server.                                                  *)

Close ==
    /\ closer = "no" /\ closer' = "waiting"
    /\ open' = FALSE
    /\ UNCHANGED <<callVars, loopVars, stream, serverVars>>

Closed ==
    /\ closer = "waiting" /\ closed
    /\ closer' = "done"
    /\ UNCHANGED <<callVars, loopVars, stream, open, serverVars>>

Answer(k) ==
    /\ open /\ id[k] \in received /\ k \notin answered
    /\ stream' = Append(stream, Reply(id[k]))
    /\ answered' = answered \cup {k}
    /\ UNCHANGED <<callVars, loopVars, open, closer, received, extra>>

Say ==
    /\ open /\ extra < MaxExtra
    /\ \E e \in {Endpoint, Other, Request} : stream' = Append(stream, e)
    /\ extra' = extra + 1
    /\ UNCHANGED <<callVars, loopVars, open, closer, received, answered>>

Hangup ==
    /\ open /\ open' = FALSE
    /\ UNCHANGED <<callVars, loopVars, stream, closer, serverVars>>

Step(k) ==
    \/ NoEndpoint(k) \/ Register(k) \/ Posted(k) \/ PostError(k)
    \/ Take(k) \/ Abandon(k) \/ Leave(k)

LoopStep == Scan \/ Route \/ LoopExit

Next == \/ \E k \in Calls : Begin(k) \/ Expire(k) \/ Step(k) \/ Arrive(k) \/ Answer(k)
        \/ LoopStep \/ Close \/ Closed \/ Say \/ Hangup

SafetySpec == Init /\ [][Next]_vars

\* Goroutines run, deadlines pass, and a POST arrives or fails.
Spec == /\ SafetySpec /\ WF_vars(LoopStep) /\ WF_vars(Closed)
        /\ \A k \in Calls : WF_vars(Step(k) \/ Arrive(k)) /\ WF_vars(Expire(k))

-----------------------------------------------------------------------------
(* Properties.                                                             *)

\* The map holds the calls that are under way and no others, however they end.
PendingIsOpen ==
    pending = {id[k] : k \in {j \in Calls : pc[j] \in {"post", "select", "leave"}}}

\* A call with a deadline returns.
CallsReturn == \A k \in Deadlined : pc[k] # "new" ~> pc[k] = "done"

\* A call that the server answered returns: the loop, or the end of the
\* connection, or its context lets it go.
AnswerArrives == \A k \in Calls : k \in answered ~> pc[k] = "done"

\* close returns: it "tears the connection down" and waits for the loop.
CloseReturns == closer = "waiting" ~> closer = "done"

\* What the calls have returned, a reply being named by the call it answers.
Returned == [k \in Calls |-> IF result[k] \in {NoResult, Failed} THEN result[k]
                             ELSE CHOOSE j \in Calls : id[j] = result[k].id]

\* The transport keeps the promise of its interface.
Rpc == INSTANCE McpRpc WITH result <- Returned
ImplementsRpc == Rpc!RpcSpec
=============================================================================
