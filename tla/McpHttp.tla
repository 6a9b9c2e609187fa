-------------------------------- MODULE McpHttp --------------------------------
(***************************************************************************)
(* The streamable HTTP transport (mcp/http_transport.go): every call is a  *)
(* POST of its own, and the reply comes back in the response to it, as a   *)
(* JSON body or as a stream of events among which the call looks for its   *)
(* id.  The calls share a counter for the ids behind a mutex, and the      *)
(* session id, which is only passed back to the server and is left out.    *)
(*                                                                         *)
(* The server is external: it may refuse a request, send a body or events  *)
(* that are no reply, answer at most once, or never, and stop anywhere.    *)
(***************************************************************************)
EXTENDS Integers, Sequences, FiniteSets

CONSTANTS
    Calls,          \* the calls, each by a goroutine of its own
    Deadlined,      \* the calls whose context has a deadline
    MaxExtra,       \* bound: the messages that are not replies
    PostFails,      \* may a POST fail?
    NoResult, Failed

VARIABLES
    pc,         \* where each call is
    id,         \* the JSON-RPC id of each call; 0 before it has one
    result,     \* what each call has returned
    next,       \* streamableHTTPTransport.next
    expired,    \* the calls whose context is done
    status,     \* the response to each POST: "none" yet, "refused", "json", "events"
    body,       \* what came of its body and was not read
    ended,      \* the calls whose response is complete, or broken off
    answered,   \* history: the calls the server has replied to
    extra       \* the number of messages that are not replies

callVars     == <<pc, id, result, next, expired>>
responseVars == <<status, body, ended>>
serverVars   == <<answered, extra>>
vars         == <<callVars, responseVars, serverVars>>

\* A message is a reply, some other event (a request, a notification, one without
\* data), or not JSON.
Reply(i) == [kind |-> "reply", id |-> i]
Other    == [kind |-> "other", id |-> 0]
Invalid  == [kind |-> "invalid", id |-> 0]

Init ==
    /\ pc = [k \in Calls |-> "new"] /\ id = [k \in Calls |-> 0]
    /\ result = [k \in Calls |-> NoResult]
    /\ next = 0 /\ expired = {}
    /\ status = [k \in Calls |-> "none"] /\ body = [k \in Calls |-> <<>>] /\ ended = {}
    /\ answered = {} /\ extra = 0

-----------------------------------------------------------------------------
(* A call.                                                                 *)

\* Take an id under the mutex, and POST the request.
Post(k) ==
    /\ pc[k] = "new"
    /\ next' = next + 1
    /\ id' = [id EXCEPT ![k] = next']
    /\ pc' = [pc EXCEPT ![k] = "do"]
    /\ UNCHANGED <<result, expired, responseVars, serverVars>>

Expire(k) ==
    /\ k \in Deadlined \ expired /\ pc[k] \notin {"new", "done"}
    /\ expired' = expired \cup {k}
    /\ UNCHANGED <<pc, id, result, next, responseVars, serverVars>>

Return(k, r) ==
    /\ pc' = [pc EXCEPT ![k] = "done"]
    /\ result' = [result EXCEPT ![k] = r]
    /\ UNCHANGED <<id, next, expired, status, ended, serverVars>>

\* client.Do fails, for the network or for the context.
PostError(k) ==
    /\ pc[k] = "do" /\ (PostFails \/ k \in expired)
    /\ Return(k, Failed)
    /\ UNCHANGED body

\* The header is there: give up on an error status, or read the body.
Header(k) ==
    /\ pc[k] = "do" /\ status[k] # "none"
    /\ IF status[k] = "refused"
       THEN Return(k, Failed) /\ UNCHANGED body
       ELSE /\ pc' = [pc EXCEPT ![k] = "read"]
            /\ UNCHANGED <<id, result, next, expired, responseVars, serverVars>>

\* (A message with any id will do.)
Matches_AnyId(k, m) == m.kind = "reply"

\* matchRPCResultOptional: is this the reply to the call?
Matches(k, m) == m.kind = "reply" /\ m.id = id[k]

\* A reply is a result or an error of the server.
Results(m) == {m, Failed}

\* The next event: return the reply, stop at what is not JSON, and skip the rest.
ReadEvent(k) ==
    /\ pc[k] = "read" /\ status[k] = "events" /\ body[k] # <<>>
    /\ LET m == Head(body[k]) IN
       \/ Matches(k, m) /\ \E r \in Results(m) : Return(k, r)
       \/ m = Invalid /\ Return(k, Failed)
       \/ /\ ~Matches(k, m) /\ m # Invalid
          /\ UNCHANGED <<callVars, status, ended, serverVars>>
    /\ body' = [body EXCEPT ![k] = Tail(@)]

\* The whole body is one message, which must be the reply.
ReadBody(k) ==
    /\ pc[k] = "read" /\ status[k] = "json" /\ k \in ended /\ body[k] # <<>>
    /\ \E r \in IF Matches(k, Head(body[k])) THEN Results(Head(body[k])) ELSE {Failed} :
          Return(k, r)
    /\ body' = [body EXCEPT ![k] = Tail(@)]

\* The body ends without a reply, or its reading is given up with the context.
Abandon(k) ==
    /\ pc[k] = "read"
    /\ k \in expired \/ (k \in ended /\ body[k] = <<>>)
    /\ Return(k, Failed)
    /\ UNCHANGED body

-----------------------------------------------------------------------------
(* The server.                                                             *)

Respond(k) ==
    /\ pc[k] = "do" /\ status[k] = "none"
    /\ \E s \in {"refused", "json", "events"} : status' = [status EXCEPT ![k] = s]
    /\ UNCHANGED <<callVars, body, ended, serverVars>>

\* The body of the response to k can still grow: the call has not closed it, and
\* a JSON body is one message.
Writing(k) ==
    /\ pc[k] # "done" /\ k \notin ended
    /\ \/ status[k] = "events"
       \/ status[k] = "json" /\ body[k] = <<>>

\* A JSON body ends with its message.
Closed(k) == ended' = IF status[k] = "json" THEN ended \cup {k} ELSE ended

Answer(k) ==
    /\ Writing(k) /\ k \notin answered
    /\ body' = [body EXCEPT ![k] = Append(@, Reply(id[k]))]
    /\ answered' = answered \cup {k}
    /\ Closed(k)
    /\ UNCHANGED <<callVars, status, extra>>

\* Anything else, a reply that another call was given included.
Say(k) ==
    /\ Writing(k) /\ extra < MaxExtra
    /\ \E m \in {Other, Invalid} \cup {Reply(id[j]) : j \in answered \ {k}} :
          body' = [body EXCEPT ![k] = Append(@, m)]
    /\ extra' = extra + 1
    /\ Closed(k)
    /\ UNCHANGED <<callVars, status, answered>>

End(k) ==
    /\ pc[k] # "done" /\ status[k] \in {"json", "events"} /\ k \notin ended
    /\ ended' = ended \cup {k}
    /\ UNCHANGED <<callVars, status, body, serverVars>>

Step(k) == PostError(k) \/ Header(k) \/ ReadEvent(k) \/ ReadBody(k) \/ Abandon(k)

Next == \E k \in Calls : \/ Post(k) \/ Expire(k) \/ Step(k)
                         \/ Respond(k) \/ Answer(k) \/ Say(k) \/ End(k)

\* Goroutines run and deadlines pass; the server owes nothing.
Spec == /\ Init /\ [][Next]_vars
        /\ \A k \in Calls : WF_vars(Step(k)) /\ WF_vars(Expire(k))

-----------------------------------------------------------------------------
(* Properties.                                                             *)

\* A call with a deadline returns.
CallsReturn == \A k \in Deadlined : pc[k] # "new" ~> pc[k] = "done"

\* A call that the server answered returns: no mutex and no other call is in
\* its way.
AnswerArrives == \A k \in Calls : k \in answered ~> pc[k] = "done"

\* The transport keeps the promise of its interface.
Rpc == INSTANCE McpRpc WITH
    result <- [k \in Calls |-> IF result[k] \in {NoResult, Failed} THEN result[k]
                               ELSE CHOOSE j \in Calls : id[j] = result[k].id]
ImplementsRpc == Rpc!RpcSpec
=============================================================================
