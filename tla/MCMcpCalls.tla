----------------------------- MODULE MCMcpCalls -----------------------------
(* Calls to an MCP server over one of the three transports: what only the   *)
(* others have rests.                                                       *)
EXTENDS McpSse, SequenceTheorems, TLAPS

CONSTANTS NoCall, EOF, Garbled

VARIABLES transport, lock, deadlined, reader, line, strays, stdout, alive,
          status, body, ended

Stdio == INSTANCE McpStdio
Http  == INSTANCE McpHttp WITH MaxExtra <- 1

\* What stands for the end of the output, or for a line that came in pieces, is no line.
ASSUME LineAssumption == \A l \in Stdio!Lines : l \notin {EOF, Garbled}

stdioOnly == <<lock, deadlined, reader, line, strays, stdout, alive>>
sseOnly   == <<chan, pending, loopVars, stream, open, closer>>
httpOnly  == <<status, body, ended>>
callsVars == <<transport, vars, stdioOnly, httpOnly>>

CallsInit ==
    transport \in {"stdio", "sse", "http"} /\ Init /\ Stdio!Init /\ Http!Init

Over(name, other) == transport = name /\ UNCHANGED <<transport, other>>
OverStdio == Over("stdio", <<sseOnly, httpOnly>>)
OverSse   == Over("sse", <<stdioOnly, httpOnly>>)
OverHttp  == Over("http", <<stdioOnly, sseOnly, received>>)

CallsNext ==
    \/ \E k \in Calls :
         \/ OverStdio /\ Stdio!Begin(k)
         \/ OverStdio /\ Stdio!Expire(k)
         \/ OverStdio /\ Stdio!Send(k)
         \/ OverStdio /\ Stdio!SendFails(k)
         \/ OverStdio /\ Stdio!GiveUp(k)
         \/ OverStdio /\ Stdio!Read(k)
         \/ OverStdio /\ Stdio!Receive(k)
         \/ OverStdio /\ Stdio!Abandon(k)
         \/ OverStdio /\ Stdio!ReadLine(k)
         \/ OverStdio /\ Stdio!ReadEOF(k)
         \/ OverStdio /\ Stdio!Answer(k)
         \/ OverSse /\ Begin(k)
         \/ OverSse /\ Expire(k)
         \/ OverSse /\ NoEndpoint(k)
         \/ OverSse /\ Register(k)
         \/ OverSse /\ Arrive(k)
         \/ OverSse /\ Posted(k)
         \/ OverSse /\ PostError(k)
         \/ OverSse /\ Take(k)
         \/ OverSse /\ Abandon(k)
         \/ OverSse /\ Leave(k)
         \/ OverSse /\ Answer(k)
         \/ OverHttp /\ Http!Post(k)
         \/ OverHttp /\ Http!Expire(k)
         \/ OverHttp /\ Http!PostError(k)
         \/ OverHttp /\ Http!Header(k)
         \/ OverHttp /\ Http!ReadEvent(k)
         \/ OverHttp /\ Http!ReadBody(k)
         \/ OverHttp /\ Http!Abandon(k)
         \/ OverHttp /\ Http!Respond(k)
         \/ OverHttp /\ Http!Answer(k)
         \/ OverHttp /\ Http!Say(k)
         \/ OverHttp /\ Http!End(k)
    \/ OverStdio /\ Stdio!StrayRead
    \/ OverStdio /\ Stdio!Say
    \/ OverStdio /\ Stdio!Exit
    \/ OverSse /\ Scan
    \/ OverSse /\ Route
    \/ OverSse /\ LoopExit
    \/ OverSse /\ Close
    \/ OverSse /\ Closed
    \/ OverSse /\ Say
    \/ OverSse /\ Hangup

\* The fairness of each transport's specification.
CallsSpec ==
    /\ CallsInit /\ [][CallsNext]_callsVars
    /\ WF_callsVars(OverSse /\ LoopStep) /\ WF_callsVars(OverSse /\ Closed)
    /\ \A k \in Calls :
         /\ WF_callsVars(OverStdio /\ Stdio!Step(k)) /\ WF_callsVars(OverStdio /\ Stdio!Expire(k))
         /\ WF_callsVars(OverSse /\ (Step(k) \/ Arrive(k))) /\ WF_callsVars(OverSse /\ Expire(k))
         /\ WF_callsVars(OverHttp /\ Http!Step(k)) /\ WF_callsVars(OverHttp /\ Http!Expire(k))

-----------------------------------------------------------------------------
\* On every transport a call that the server answers returns (over stdio as long
\* as no context ends): mcp/client.go call, mcp/http_transport.go readLoop.
AnswersArrive ==
    /\ transport = "stdio" => Stdio!AnswerArrives
    /\ transport = "sse" => AnswerArrives
    /\ transport = "http" => Http!AnswerArrives

\* On every transport calls with deadlines return, also those that wait behind
\* others for the mutex; and close returns.
EveryCallReturns ==
    /\ transport = "stdio" => Stdio!CallsReturn
    /\ transport = "sse" => CallsReturn /\ CloseReturns
    /\ transport = "http" => Http!CallsReturn

\* Calls end, with their answer if there is one in time (mcp/client.go call,
\* mcp/http_transport.go).
CallsEnd == AnswersArrive /\ EveryCallReturns

-----------------------------------------------------------------------------
(* The proofs, for any calls, deadlines and servers: over SSE.             *)

Open == {"post", "select", "leave"}

SseTypeOK ==
    /\ pc \in [Calls -> {"new", "endpoint", "done"} \cup Open]
    /\ id \in [Calls -> Nat] /\ next \in Nat

\* Calls that are under way have ids, which are all different, since they come from
\* one counter.
PendingInv ==
    /\ SseTypeOK /\ PendingIsOpen
    /\ \A k \in Calls : id[k] <= next
    /\ \A k \in Calls : pc[k] \in Open => id[k] # 0
    /\ \A k \in Calls : pc[k] \in {"new", "endpoint"} => id[k] = 0
    /\ \A j, k \in Calls : id[j] = id[k] => j = k \/ id[j] = 0

LEMMA PendingInvInit == Init => PendingInv
  BY DEF Init, PendingInv, SseTypeOK, PendingIsOpen, Open

\* A step that leaves the ids and the map alone, and lets a call move between the
\* steps of an open call only, or end before it is open.
LEMMA PendingKept ==
    ASSUME PendingInv, UNCHANGED <<id, next, pending>>, NEW k \in Calls,
           \/ UNCHANGED pc
           \/ /\ pc[k] \in Open
              /\ \E at \in Open : pc' = [pc EXCEPT ![k] = at]
           \/ /\ pc[k] \in {"new", "endpoint"}
              /\ \E at \in {"endpoint", "done"} : pc' = [pc EXCEPT ![k] = at]
    PROVE  PendingInv'
  <1>1. /\ pc' \in [Calls -> {"new", "endpoint", "done"} \cup Open]
        /\ \A j \in Calls : pc'[j] \in Open <=> pc[j] \in Open
        /\ \A j \in Calls : pc'[j] \in {"new", "endpoint"} => pc[j] \in {"new", "endpoint"}
    BY DEF PendingInv, SseTypeOK, Open
  <1>2. PendingIsOpen'  BY <1>1 DEF PendingInv, PendingIsOpen, Open
  <1>. QED  BY <1>1, <1>2 DEF PendingInv, SseTypeOK

LEMMA PendingInvStep == PendingInv /\ [Next]_vars => PendingInv'
  <1> SUFFICES ASSUME PendingInv, [Next]_vars PROVE PendingInv'
    OBVIOUS
  <1>1. ASSUME NEW k \in Calls, Register(k) PROVE PendingInv'
    <2>1. /\ pc[k] = "endpoint" /\ id[k] = 0 /\ next' = next + 1 /\ next \in Nat
          /\ id' = [id EXCEPT ![k] = next'] /\ pending' = pending \cup {next'}
          /\ pc' = [pc EXCEPT ![k] = "post"]
      BY <1>1 DEF Register, NewId, PendingInv, SseTypeOK
    <2>2. SseTypeOK'  BY <2>1 DEF PendingInv, SseTypeOK, Open
    <2>3. \A j \in Calls \ {k} : id'[j] = id[j] /\ id'[j] < next' /\ pc'[j] = pc[j]
      BY <2>1 DEF PendingInv, SseTypeOK
    <2>4. id'[k] = next' /\ pc'[k] = "post" /\ next' # 0
      BY <2>1 DEF PendingInv, SseTypeOK
    <2>5. PendingIsOpen'
      BY <2>1, <2>3, <2>4 DEF PendingInv, PendingIsOpen, Open
    <2>6. \A j \in Calls : id'[j] <= next'
      BY <2>1, <2>2, <2>3, <2>4 DEF SseTypeOK
    <2>7. \A i, j \in Calls : id'[i] = id'[j] => i = j \/ id'[i] = 0
      BY <2>2, <2>3, <2>4 DEF PendingInv, SseTypeOK
    <2>. QED  BY <2>2, <2>3, <2>4, <2>5, <2>6, <2>7 DEF PendingInv, Open
  <1>2. ASSUME NEW k \in Calls, Leave(k) PROVE PendingInv'
    <2>1. /\ pc[k] = "leave" /\ UNCHANGED <<id, next>>
          /\ pc' = [pc EXCEPT ![k] = "done"] /\ pending' = pending \ {id[k]}
      BY <1>2 DEF Leave, Forgotten
    <2>2. SseTypeOK'  BY <2>1 DEF PendingInv, SseTypeOK
    <2>3. id[k] # 0 /\ \A j \in Calls \ {k} : id[j] # id[k] /\ pc'[j] = pc[j]
      BY <2>1 DEF PendingInv, SseTypeOK, Open
    <2>4. pc'[k] = "done"  BY <2>1 DEF PendingInv, SseTypeOK
    <2>5. PendingIsOpen'
      BY <2>1, <2>3, <2>4 DEF PendingInv, PendingIsOpen, Open
    <2>. QED  BY <2>1, <2>2, <2>3, <2>4, <2>5 DEF PendingInv, Open
  <1>3. ASSUME NEW k \in Calls, Begin(k) \/ NoEndpoint(k) \/ Posted(k) \/ PostError(k)
                                \/ Take(k) \/ Abandon(k)
        PROVE  PendingInv'
    BY <1>3, PendingKept DEF Begin, NoEndpoint, Posted, PostError, Take, Abandon, Decided, Open
  <1>4. ASSUME NEW k \in Calls, Expire(k) \/ Arrive(k) \/ Answer(k) PROVE PendingInv'
    BY <1>4, PendingKept DEF Expire, Arrive, Answer, callVars
  <1>5. CASE LoopStep \/ Close \/ Closed \/ Say \/ Hangup \/ UNCHANGED vars
    <2>1. UNCHANGED <<pc, id, next, pending>>
      BY <1>5 DEF LoopStep, Scan, Route, LoopExit, Close, Closed, Say, Hangup, callVars, vars
    <2>2. PendingIsOpen'  BY <2>1 DEF PendingInv, PendingIsOpen
    <2>. QED  BY <2>1, <2>2 DEF PendingInv, SseTypeOK
  <1>. QED  BY <1>1, <1>2, <1>3, <1>4, <1>5 DEF Next, Step

\* The map of pending calls does not leak, however a call ends (http_transport.go
\* call).
THEOREM PendingDoesNotLeak == SafetySpec => []PendingIsOpen
  <1>1. PendingInv => PendingIsOpen  BY DEF PendingInv
  <1>. QED  BY PendingInvInit, PendingInvStep, <1>1, PTL DEF SafetySpec
-----------------------------------------------------------------------------
(* Every reply stays with its call, on the way from the server to the result. *)

\* A message that is the server's reply to k.
OwnReply(k, m) == m = Reply(id[k]) /\ m \in Messages /\ k \in answered /\ id[k] # 0

\* What the server has had to say so far.
Events == {Request, Endpoint, Other} \cup {Reply(id[k]) : k \in {j \in answered : id[j] # 0}}

\* Wherever a message is (in the hand of the loop, in a channel or returned), it is
\* the reply to the call it is there for.
ReplyInv ==
    /\ answered \subseteq Calls /\ 0 \notin received
    /\ stream \in Seq(Events)
    /\ loop = Idle \/ (loop.to \in Calls /\ OwnReply(loop.to, loop.msg))
    /\ chan = [k \in Calls |-> chan[k]] /\ result = [k \in Calls |-> result[k]]
    /\ \A k \in Calls : chan[k] = <<>> \/ \E m \in Messages : chan[k] = <<m>> /\ OwnReply(k, m)
    /\ \A k \in Calls : result[k] \in {NoResult, Failed} \/ OwnReply(k, result[k])
    /\ \A k \in Calls : pc[k] \notin {"leave", "done"} => result[k] = NoResult

LEMMA ReplyInvInit == Init => ReplyInv
  BY DEF Init, ReplyInv

\* An id is given once, so a reply stays the reply to its call.
LEMMA RepliesStay ==
    ASSUME PendingInv, ReplyInv, [Next]_vars
    PROVE  /\ \A k \in Calls : id[k] # 0 => id'[k] = id[k]
           /\ answered \subseteq answered' /\ answered' \subseteq Calls
           /\ Events \subseteq Events'
           /\ \A k \in Calls : \A m : OwnReply(k, m) => OwnReply(k, m)'
  <1>1. answered \subseteq answered' /\ answered' \subseteq Calls
    BY DEF ReplyInv, Next, Step, LoopStep, vars, serverVars, Begin, Expire, NoEndpoint, Register,
           Posted, PostError, Take, Abandon, Decided, Leave, Arrive, Answer, Scan, Route, LoopExit,
           Close, Closed, Say, Hangup
  <1>2. id' = id \/ \E k \in Calls : pc[k] = "endpoint" /\ id' = [id EXCEPT ![k] = NewId]
    BY DEF Next, Step, LoopStep, vars, callVars, Begin, Expire, NoEndpoint, Register,
           Posted, PostError, Take, Abandon, Decided, Leave, Arrive, Answer, Scan, Route, LoopExit,
           Close, Closed, Say, Hangup
  <1>3. \A k \in Calls : id[k] # 0 => id'[k] = id[k]
    BY <1>2 DEF PendingInv, SseTypeOK
  <1>. QED  BY <1>1, <1>3 DEF ReplyInv, Events, OwnReply, Messages, Ids, Reply

LEMMA ReplyInvStep == PendingInv /\ ReplyInv /\ [Next]_vars => ReplyInv'
  <1> SUFFICES ASSUME PendingInv, ReplyInv, [Next]_vars PROVE ReplyInv'
    OBVIOUS
  <1>0. /\ stream \in Seq(Events') /\ answered' \subseteq Calls
        /\ \A k \in Calls : \A m : OwnReply(k, m) => OwnReply(k, m)'
    BY RepliesStay, SeqMonotonic DEF ReplyInv
  \* A step that leaves the loop, the channels and the results alone.
  <1>1. ASSUME UNCHANGED <<loop, chan, result>>, 0 \notin received', stream' \in Seq(Events'),
               \A k \in Calls : pc'[k] \notin {"leave", "done"} => pc[k] \notin {"leave", "done"}
        PROVE  ReplyInv'
    BY <1>0, <1>1 DEF ReplyInv
  <1>2. ASSUME NEW k \in Calls, Begin(k) \/ Expire(k) \/ Register(k) \/ Posted(k) \/ Leave(k)
        PROVE  ReplyInv'
    <2>1. UNCHANGED <<loop, chan, result, received, stream>>
      BY <1>2 DEF Begin, Expire, Register, Posted, Leave, loopVars, serverVars
    <2>2. \A j \in Calls : pc'[j] \notin {"leave", "done"} => pc[j] \notin {"leave", "done"}
      BY <1>2 DEF Begin, Expire, Register, Posted, Leave, PendingInv, SseTypeOK
    <2>. QED  BY <1>0, <1>1, <2>1, <2>2 DEF ReplyInv
  <1>3. ASSUME NEW k \in Calls, Arrive(k) PROVE ReplyInv'
    <2>1. UNCHANGED <<loop, chan, result, stream, pc>> /\ received' = received \cup {id[k]}
      BY <1>3 DEF Arrive, callVars, loopVars
    <2>2. id[k] # 0  BY <1>3 DEF Arrive, PendingInv, Open
    <2>. QED  BY <1>0, <1>1, <2>1, <2>2 DEF ReplyInv
  <1>4. ASSUME NEW k \in Calls, Answer(k) PROVE ReplyInv'
    <2>1. /\ UNCHANGED <<loop, chan, result, pc, id, received>>
          /\ stream' = Append(stream, Reply(id[k])) /\ answered' = answered \cup {k}
      BY <1>4 DEF Answer, callVars, loopVars
    <2>2. id[k] # 0  BY <1>4 DEF Answer, ReplyInv
    <2>3. Reply(id[k]) \in Events'  BY <2>1, <2>2 DEF Events, Reply
    <2>4. stream' \in Seq(Events')  BY <1>0, <2>1, <2>3, AppendProperties
    <2>. QED  BY <1>1, <2>1, <2>4 DEF ReplyInv
  <1>5. CASE Say
    <2>1. UNCHANGED <<loop, chan, result, pc, received>>
      BY <1>5 DEF Say, callVars, loopVars
    <2>2. stream' \in Seq(Events')
      BY <1>0, <1>5, AppendProperties DEF Say, Events
    <2>. QED  BY <1>1, <2>1, <2>2 DEF ReplyInv
  <1>6. CASE LoopExit \/ Close \/ Closed \/ Hangup \/ UNCHANGED vars
    <2>1. UNCHANGED <<loop, chan, result, pc, received, stream>>
      BY <1>6 DEF LoopExit, Close, Closed, Hangup, vars, callVars, loopVars, serverVars
    <2>. QED  BY <1>0, <1>1, <2>1 DEF ReplyInv
  \* A call ends, with an error or with what is in its channel.
  <1>7. ASSUME NEW k \in Calls, NoEndpoint(k) \/ PostError(k) \/ Abandon(k) \/ Take(k)
        PROVE  ReplyInv'
    <2>1. /\ UNCHANGED <<loop, received, stream>>
          /\ chan' = chan \/ (chan[k] # <<>> /\ chan' = [chan EXCEPT ![k] = Tail(@)])
          /\ \E at \in {"leave", "done"} : pc' = [pc EXCEPT ![k] = at]
          /\ \/ result' = [result EXCEPT ![k] = Failed]
             \/ chan[k] # <<>> /\ result' = [result EXCEPT ![k] = Head(chan[k])]
      BY <1>7 DEF NoEndpoint, PostError, Abandon, Take, Decided, loopVars, serverVars
    <2>2. \A m : Head(<<m>>) = m /\ Tail(<<m>>) = <<>>
      OBVIOUS
    <2>3. chan' = [j \in Calls |-> chan'[j]] /\ result' = [j \in Calls |-> result'[j]]
      BY <2>1 DEF ReplyInv
    <2>4. ASSUME NEW j \in Calls
          PROVE  /\ chan'[j] = <<>> \/ \E m \in Messages : chan'[j] = <<m>> /\ OwnReply(j, m)
                 /\ result'[j] \in {NoResult, Failed} \/ OwnReply(j, result'[j])
      <3>1. CASE j # k  BY <2>1, <3>1 DEF ReplyInv
      <3>2. CASE j = k /\ chan[k] = <<>>  BY <2>1, <3>2 DEF ReplyInv
      <3>3. CASE j = k /\ chan[k] # <<>>
        <4>1. PICK m \in Messages : chan[k] = <<m>> /\ OwnReply(k, m)
          BY <3>3 DEF ReplyInv
        <4>2. Head(chan[k]) = m /\ Tail(chan[k]) = <<>>  BY <2>2, <4>1
        <4>3. result'[k] = Failed \/ result'[k] = m  BY <2>1, <4>2 DEF ReplyInv
        <4>4. chan'[k] = chan[k] \/ chan'[k] = <<>>  BY <2>1, <4>2 DEF ReplyInv
        <4>. QED  BY <3>3, <4>1, <4>3, <4>4
      <3>. QED  BY <3>1, <3>2, <3>3
    <2>5. \A j \in Calls : pc'[j] \notin {"leave", "done"} => result'[j] = NoResult
      BY <2>1 DEF ReplyInv, PendingInv, SseTypeOK
    <2>. QED  BY <1>0, <2>1, <2>3, <2>4, <2>5 DEF ReplyInv
  \* The loop finds the call whose id the message has.
  <1>8. CASE Scan
    <2>. DEFINE e == Head(stream)
    <2>1. UNCHANGED <<pc, id, chan, result, received, answered>> /\ stream # <<>>
          /\ stream' = Tail(stream)
          /\ \/ loop' = Idle
             \/ e \in Messages /\ Waiting(e) # {}
                /\ loop' = [to |-> CHOOSE k \in Waiting(e) : TRUE, msg |-> e]
      BY <1>8 DEF Scan, callVars, serverVars
    <2>2. e \in Events /\ stream' \in Seq(Events')
      BY <1>0, <2>1, HeadTailProperties DEF ReplyInv
    <2>3. ASSUME e \in Messages, NEW k \in Waiting(e) PROVE k \in Calls /\ OwnReply(k, e)
      <3>1. k \in Calls /\ id[k] = e.id /\ id[k] # 0
        BY <2>3 DEF Waiting, PendingInv, PendingIsOpen, Open
      <3>2. PICK j \in answered : e = Reply(id[j]) /\ id[j] # 0
        BY <2>2, <3>1 DEF Events, Request, Endpoint, Other
      <3>3. j = k  BY <3>1, <3>2 DEF PendingInv, ReplyInv, Reply
      <3>. QED  BY <2>3, <3>1, <3>2, <3>3 DEF OwnReply
    <2>4. loop' = Idle \/ (loop'.to \in Calls /\ OwnReply(loop'.to, loop'.msg))
      BY <2>1, <2>3
    <2>. QED  BY <1>0, <2>1, <2>2, <2>4 DEF ReplyInv, OwnReply
  <1>9. CASE Route
    <2>1. /\ UNCHANGED <<pc, result, received, stream>>
          /\ chan[loop.to] = <<>> /\ loop # Idle /\ loop' = Idle
          /\ chan' = [chan EXCEPT ![loop.to] = Append(@, loop.msg)]
      BY <1>9 DEF Route, Room, serverVars
    <2>2. loop.to \in Calls /\ OwnReply(loop.to, loop.msg)
      BY <2>1 DEF ReplyInv
    <2>3. chan' = [chan EXCEPT ![loop.to] = <<loop.msg>>] /\ loop.msg \in Messages
      BY <2>1, <2>2 DEF ReplyInv, OwnReply
    <2>. QED  BY <1>0, <2>1, <2>2, <2>3 DEF ReplyInv
  <1>. QED
    BY <1>2, <1>3, <1>4, <1>5, <1>6, <1>7, <1>8, <1>9 DEF Next, Step, LoopStep

-----------------------------------------------------------------------------
(* The refinement.                                                         *)

\* A reply that a call has returned, named by the call that has it.
ByCall == [k \in Calls |-> IF result[k] \in {NoResult, Failed} THEN result[k] ELSE k]

LEMMA ReturnedIs == PendingInv /\ ReplyInv => Returned = ByCall
  <1> SUFFICES ASSUME PendingInv, ReplyInv, NEW k \in Calls, result[k] \notin {NoResult, Failed}
               PROVE  (CHOOSE j \in Calls : id[j] = result[k].id) = k
    BY DEF Returned, ByCall
  <1>1. id[k] # 0 /\ result[k].id = id[k]  BY DEF ReplyInv, OwnReply, Reply
  <1>2. \A j \in Calls : id[j] = id[k] <=> j = k  BY <1>1 DEF PendingInv
  <1>. QED  BY <1>1, <1>2

\* What the promise sees of a step: nothing, an end, or a reply.
Sees ==
    \/ UNCHANGED <<result, answered>>
    \/ \E k \in Calls :
         \/ result' = result /\ k \notin answered /\ answered' = answered \cup {k}
         \/ /\ result[k] = NoResult /\ answered' = answered
            /\ \E r : /\ result' = [result EXCEPT ![k] = r]
                      /\ r = Failed \/ (r = Reply(id[k]) /\ k \in answered)

LEMMA SeesSteps ==
    ASSUME result = [k \in Calls |-> result[k]], Returned = ByCall, Returned' = ByCall', Sees
    PROVE  [\E k \in Calls : Rpc!RpcAnswer(k) \/ Rpc!RpcReturn(k)]_(Rpc!rpcVars)
<1>1. CASE UNCHANGED <<result, answered>>
  BY <1>1 DEF Rpc!rpcVars, ByCall
<1>2. ASSUME NEW k \in Calls, result' = result, k \notin answered,
             answered' = answered \cup {k}
      PROVE  Rpc!RpcAnswer(k)
  BY <1>2 DEF Rpc!RpcAnswer, ByCall
<1>3. ASSUME NEW k \in Calls, result[k] = NoResult, answered' = answered,
             NEW r, result' = [result EXCEPT ![k] = r],
             r = Failed \/ (r = Reply(id[k]) /\ k \in answered)
      PROVE  Rpc!RpcReturn(k) \/ UNCHANGED Rpc!rpcVars
  <2>1. CASE r = NoResult
    <3>1. result' = result BY <1>3, <2>1
    <3> QED BY <1>3, <3>1 DEF Rpc!rpcVars, ByCall
  <2>2. CASE r = Failed
    <3>1. ByCall' = [ByCall EXCEPT ![k] = Failed] /\ ByCall[k] = NoResult
      BY <1>3, <2>2 DEF ByCall
    <3> QED BY <1>3, <3>1 DEF Rpc!RpcReturn
  <2>3. CASE r \notin {NoResult, Failed}
    <3>1. ByCall' = [ByCall EXCEPT ![k] = k] /\ ByCall[k] = NoResult /\ k \in answered
      BY <1>3, <2>3 DEF ByCall
    <3> QED BY <1>3, <3>1 DEF Rpc!RpcReturn
  <2> QED BY <2>1, <2>2, <2>3
<1> QED BY <1>1, <1>2, <1>3 DEF Sees

LEMMA SseSees == PendingInv /\ ReplyInv /\ [Next]_vars => Sees
  <1> SUFFICES ASSUME PendingInv, ReplyInv, [Next]_vars PROVE Sees
    OBVIOUS
  <1>1. ASSUME NEW k \in Calls, Answer(k) PROVE Sees
    BY <1>1 DEF Answer, callVars, Sees
  <1>2. ASSUME NEW k \in Calls, NoEndpoint(k) \/ PostError(k) \/ Abandon(k) \/ Take(k)
        PROVE  Sees
    <2>1. /\ result[k] = NoResult /\ answered' = answered
          /\ \/ result' = [result EXCEPT ![k] = Failed]
             \/ chan[k] # <<>> /\ result' = [result EXCEPT ![k] = Head(chan[k])]
      BY <1>2 DEF NoEndpoint, PostError, Abandon, Take, Decided, serverVars, ReplyInv
    <2>2. CASE result' = [result EXCEPT ![k] = Failed]
      BY <2>1, <2>2 DEF Sees
    <2>3. CASE chan[k] # <<>> /\ result' = [result EXCEPT ![k] = Head(chan[k])]
      <3>1. PICK m \in Messages : chan[k] = <<m>> /\ OwnReply(k, m)
        BY <2>3 DEF ReplyInv
      <3>2. Head(chan[k]) = Reply(id[k]) /\ k \in answered
        BY <3>1 DEF OwnReply
      <3>. QED  BY <2>1, <2>3, <3>2 DEF Sees
    <2>. QED  BY <2>1, <2>2, <2>3
  <1>3. ASSUME NEW k \in Calls,
               Begin(k) \/ Expire(k) \/ Register(k) \/ Posted(k) \/ Leave(k) \/ Arrive(k)
        PROVE  Sees
    BY <1>3 DEF Begin, Expire, Register, Posted, Leave, Arrive, callVars, serverVars, Sees
  <1>4. CASE LoopStep \/ Close \/ Closed \/ Say \/ Hangup \/ UNCHANGED vars
    BY <1>4 DEF LoopStep, Scan, Route, LoopExit, Close, Closed, Say, Hangup, callVars,
                serverVars, vars, Sees
  <1>. QED  BY <1>1, <1>2, <1>3, <1>4 DEF Next, Step

\* A call returns once, with the server's reply to that very call or with an error,
\* however its reply, its deadline and the end of the connection race
\* (http_transport.go call, loop, route).
THEOREM SseImplementsRpc == SafetySpec => ImplementsRpc
  <1>1. Init => Rpc!RpcInit  BY DEF Init, Rpc!RpcInit, Returned
  <1>2. PendingInv /\ ReplyInv => Returned = ByCall /\ result = [k \in Calls |-> result[k]]
    BY ReturnedIs DEF ReplyInv
  <1>3. /\ Returned = ByCall /\ (Returned = ByCall)' /\ result = [k \in Calls |-> result[k]]
        /\ Sees
        => [\E k \in Calls : Rpc!RpcAnswer(k) \/ Rpc!RpcReturn(k)]_(Rpc!rpcVars)
    BY SeesSteps
  <1>. QED
    BY <1>1, <1>2, <1>3, PendingInvInit, PendingInvStep, ReplyInvInit, ReplyInvStep, SseSees, PTL
    DEF SafetySpec, ImplementsRpc, Rpc!RpcSpec

-----------------------------------------------------------------------------
(* The proofs: over all three transports.                                  *)

\* The server's reply to k.
Mine(k, m) == m = Reply(id[k]) /\ id[k] # 0 /\ k \in answered

\* What is the same over stdio and streamable HTTP: ids come from one counter, and a
\* call has returned nothing, an error, or the reply that has its id.
IdsInv ==
    /\ pc = [k \in Calls |-> pc[k]] /\ result = [k \in Calls |-> result[k]]
    /\ id \in [Calls -> Nat] /\ next \in Nat
    /\ \A k \in Calls : id[k] <= next
    /\ \A j, k \in Calls : id[j] = id[k] => j = k \/ id[j] = 0
    /\ answered \subseteq {k \in Calls : id[k] # 0}
    /\ \A k \in Calls : pc[k] = "new" => id[k] = 0
    /\ \A k \in Calls : pc[k] # "done" => result[k] = NoResult
    /\ \A k \in Calls : result[k] \in {NoResult, Failed} \/ Mine(k, result[k])

StdioLines == {Stdio!Notification, Stdio!Request, Garbled} \cup {Reply(id[k]) : k \in answered}

StdioInv ==
    /\ IdsInv
    /\ \A k \in Calls : pc[k] = "lock" => id[k] = 0
    /\ \A k \in Calls : pc[k] \in {"loop", "read"} => id[k] # 0
    /\ 0 \notin received
    /\ stdout \in Seq(StdioLines)
    /\ line \in [Calls -> StdioLines \cup {EOF, Stdio!NoLine}]

HttpMessages == {Http!Other, Http!Invalid} \cup {Reply(id[k]) : k \in answered}

HttpInv ==
    /\ IdsInv
    /\ \A k \in Calls : pc[k] # "new" => id[k] # 0
    /\ \A k \in Calls : status[k] # "none" => pc[k] # "new"
    /\ status = [k \in Calls |-> status[k]]
    /\ body \in [Calls -> Seq(HttpMessages)]

CallsInv ==
    /\ transport \in {"stdio", "sse", "http"}
    /\ transport = "stdio" => StdioInv
    /\ transport = "sse" => PendingInv /\ ReplyInv
    /\ transport = "http" => HttpInv

LEMMA CallsInvInit == CallsInit => CallsInv
<1> SUFFICES ASSUME CallsInit PROVE CallsInv
  OBVIOUS
<1>1. PendingInv /\ ReplyInv
  BY PendingInvInit, ReplyInvInit DEF CallsInit
<1>2. IdsInv BY DEF CallsInit, Init, IdsInv
<1>3. StdioInv BY <1>2 DEF CallsInit, Stdio!Init, StdioInv
<1>4. HttpInv BY <1>2 DEF CallsInit, Http!Init, HttpInv
<1> QED BY <1>1, <1>3, <1>4 DEF CallsInv, CallsInit

-----------------------------------------------------------------------------
\* An id is given once, so a reply stays the reply to its call.
LEMMA IdsStay ==
    ASSUME IdsInv, answered \subseteq answered',
           \/ id' = id
           \/ \E k \in Calls : id[k] = 0 /\ id' = [id EXCEPT ![k] = next + 1]
    PROVE  /\ \A k \in Calls : id[k] # 0 => id'[k] = id[k]
           /\ \A k \in Calls : \A m : Mine(k, m) => Mine(k, m)'
           /\ StdioLines \subseteq StdioLines' /\ HttpMessages \subseteq HttpMessages'
<1>1. \A k \in Calls : id[k] # 0 => id'[k] = id[k] BY DEF IdsInv
<1>2. \A k \in answered : id'[k] = id[k] BY <1>1 DEF IdsInv
<1> QED
  BY <1>1, <1>2
  DEF Mine, StdioLines, HttpMessages, Stdio!Notification, Stdio!Request, Http!Other, Http!Invalid

\* What a step may do: give a call that has none the next id, or leave the ids; end a
\* call that is under way, with an error or its own reply, or leave the results; and
\* let the server reply to one that has an id.
LEMMA IdsKept ==
    ASSUME IdsInv, NEW k \in Calls,
           \/ id' = id /\ next' = next /\ \A j \in Calls : pc'[j] = "new" => pc[j] = "new"
           \/ /\ id[k] = 0 /\ id' = [id EXCEPT ![k] = next + 1] /\ next' = next + 1
              /\ pc'[k] # "new" /\ \A j \in Calls : pc'[j] = "new" => pc[j] = "new",
           answered' = answered \/ (id[k] # 0 /\ answered' = answered \cup {k}),
           pc' = [j \in Calls |-> pc'[j]],
           \/ /\ result' = result
              /\ \A j \in Calls : pc'[j] # "done" => pc[j] # "done"
           \/ \E r : /\ result' = [result EXCEPT ![k] = r] /\ (r = Failed \/ Mine(k, r))
                     /\ pc'[k] = "done" /\ \A j \in Calls \ {k} : pc'[j] = pc[j]
    PROVE  IdsInv'
<1>1. answered \subseteq answered' OBVIOUS
<1>2. \A j \in Calls : \A m : Mine(j, m) => Mine(j, m)' BY <1>1, IdsStay
<1>3. /\ id' \in [Calls -> Nat] /\ next' \in Nat
      /\ \A j \in Calls : id'[j] <= next'
      /\ \A i, j \in Calls : id'[i] = id'[j] => i = j \/ id'[i] = 0
      /\ \A j \in Calls : pc'[j] = "new" => id'[j] = 0
      /\ \A j \in Calls : id[j] # 0 => id'[j] # 0
  BY DEF IdsInv
<1>4. answered' \subseteq {j \in Calls : id'[j] # 0} BY <1>3 DEF IdsInv
<1>5. /\ result' = [j \in Calls |-> result'[j]]
      /\ \A j \in Calls : pc'[j] # "done" => result'[j] = NoResult
      /\ \A j \in Calls : \/ result'[j] \in {NoResult, Failed}
                          \/ result'[j] = Reply(id'[j]) /\ id'[j] # 0 /\ j \in answered'
  BY <1>2 DEF IdsInv, Mine
<1> QED BY <1>3, <1>4, <1>5 DEF IdsInv, Mine

\* Nobody else has the id of a reply.
LEMMA IdsReturned == IdsInv => Returned = ByCall
<1> SUFFICES ASSUME IdsInv, NEW k \in Calls, result[k] \notin {NoResult, Failed}
             PROVE  (CHOOSE j \in Calls : id[j] = result[k].id) = k
  BY DEF Returned, ByCall
<1>1. id[k] # 0 /\ result[k].id = id[k] BY DEF IdsInv, Mine, Reply
<1>2. \A j \in Calls : id[j] = id[k] <=> j = k BY <1>1 DEF IdsInv
<1> QED BY <1>1, <1>2

-----------------------------------------------------------------------------
\* Over stdio.
LEMMA StdioInvStep == StdioInv /\ Stdio!Next => StdioInv' /\ Sees
<1> SUFFICES ASSUME StdioInv, Stdio!Next PROVE StdioInv' /\ Sees
  OBVIOUS
<1> DEFINE Held == StdioLines \cup {EOF, Stdio!NoLine}
\* Lines that are on their way stay what they are.
<1>0. ASSUME answered \subseteq answered',
             \/ id' = id
             \/ \E k \in Calls : id[k] = 0 /\ id' = [id EXCEPT ![k] = next + 1]
      PROVE  stdout \in Seq(StdioLines') /\ line \in [Calls -> Held']
  <2>1. StdioLines \subseteq StdioLines' BY <1>0, IdsStay DEF StdioInv
  <2>2. EOF' = EOF /\ Stdio!NoLine' = Stdio!NoLine BY DEF Stdio!NoLine
  <2> QED BY <2>1, <2>2, SeqMonotonic DEF StdioInv
<1>1. ASSUME UNCHANGED <<pc, id, result, next, received, answered>>,
             stdout' \in Seq(StdioLines'), line' \in [Calls -> Held']
      PROVE  StdioInv' /\ Sees
  BY <1>1 DEF StdioInv, IdsInv, Mine, Sees
<1>2. ASSUME NEW k \in Calls, Stdio!Begin(k) \/ Stdio!Expire(k) \/ Stdio!Read(k)
      PROVE  StdioInv' /\ Sees
  <2>1. UNCHANGED <<id, result, next, stdout, line, received, answered>>
    BY <1>2 DEF Stdio!Begin, Stdio!Expire, Stdio!Read, Stdio!readVars, Stdio!serverVars
  <2>2. /\ pc' = [j \in Calls |-> pc'[j]]
        /\ \A j \in Calls : pc'[j] = "new" => pc[j] = "new"
        /\ \A j \in Calls : pc'[j] # "done" => pc[j] # "done"
        /\ \A j \in Calls : pc'[j] = "lock" => pc[j] \in {"new", "lock"}
        /\ \A j \in Calls : pc'[j] \in {"loop", "read"} => pc[j] \in {"loop", "read"}
    BY <1>2 DEF Stdio!Begin, Stdio!Expire, Stdio!Read, StdioInv, IdsInv
  <2>3. IdsInv' BY <2>1, <2>2, IdsKept DEF StdioInv
  <2> QED BY <1>0, <2>1, <2>2, <2>3 DEF StdioInv, IdsInv, Sees
<1>3. ASSUME NEW k \in Calls, Stdio!Send(k) \/ Stdio!SendFails(k) PROVE StdioInv' /\ Sees
  <2>1. /\ UNCHANGED <<stdout, line, answered>> /\ pc[k] = "lock" /\ id[k] = 0
        /\ id' = [id EXCEPT ![k] = next + 1] /\ next' = next + 1
        /\ received' \in {received, received \cup {next + 1}}
        /\ \/ pc' = [pc EXCEPT ![k] = "loop"] /\ result' = result
           \/ pc' = [pc EXCEPT ![k] = "done"] /\ result' = [result EXCEPT ![k] = Failed]
    BY <1>3 DEF Stdio!Send, Stdio!SendFails, Stdio!NewId, Stdio!readVars, Stdio!serverVars, StdioInv
  <2>2. /\ pc' = [j \in Calls |-> pc'[j]] /\ pc'[k] # "new"
        /\ \A j \in Calls \ {k} : pc'[j] = pc[j]
        /\ result' = result => pc'[k] = "loop" \/ pc'[k] = "done"
    BY <2>1 DEF StdioInv, IdsInv
  <2>3. /\ \A j \in Calls : pc'[j] = "new" => pc[j] = "new"
        /\ \/ result' = result /\ \A j \in Calls : pc'[j] # "done" => pc[j] # "done"
           \/ result' = [result EXCEPT ![k] = Failed] /\ pc'[k] = "done"
    BY <2>1, <2>2 DEF StdioInv, IdsInv
  <2>4. IdsInv' BY <2>1, <2>2, <2>3, IdsKept DEF StdioInv
  <2>5. id'[k] # 0 /\ pc'[k] # "lock" /\ 0 \notin received'
    BY <2>1 DEF StdioInv, IdsInv
  <2>6. \A j \in Calls \ {k} : id'[j] = id[j] BY <2>1 DEF StdioInv, IdsInv
  <2>7. Sees BY <2>1 DEF Sees, StdioInv, IdsInv
  <2>8. stdout' \in Seq(StdioLines') /\ line' \in [Calls -> Held'] BY <1>0, <2>1
  <2>9. \A j \in Calls : pc'[j] = "lock" => id'[j] = 0
    BY <2>2, <2>5, <2>6 DEF StdioInv
  <2>10. \A j \in Calls : pc'[j] \in {"loop", "read"} => id'[j] # 0
    BY <2>2, <2>5, <2>6 DEF StdioInv
  <2> QED BY <2>4, <2>5, <2>7, <2>8, <2>9, <2>10 DEF StdioInv
\* A call returns, or goes on to the next line.
<1>4. ASSUME NEW k \in Calls, Stdio!GiveUp(k) \/ Stdio!Receive(k) \/ Stdio!Abandon(k)
      PROVE  StdioInv' /\ Sees
  <2>1. /\ UNCHANGED <<id, next, stdout, received, answered>>
        /\ pc[k] \in {"loop", "read"} /\ line' \in {line, [line EXCEPT ![k] = Stdio!NoLine]}
        /\ \/ pc' = [pc EXCEPT ![k] = "loop"] /\ result' = result
           \/ /\ pc' = [pc EXCEPT ![k] = "done"]
              /\ \E r : /\ result' = [result EXCEPT ![k] = r]
                        /\ \/ r = Failed
                           \/ line[k] = r /\ r \in Stdio!Lines /\ Stdio!Matches(k, r)
    BY <1>4 DEF Stdio!GiveUp, Stdio!Receive, Stdio!Abandon, Stdio!Return, Stdio!Again,
                Stdio!readVars, Stdio!serverVars
  <2>2. id[k] # 0 /\ result[k] = NoResult BY <2>1 DEF StdioInv, IdsInv
  <2>3. ASSUME line[k] \in Stdio!Lines, Stdio!Matches(k, line[k]) PROVE Mine(k, line[k])
    <3>1. line[k] \notin {EOF, Garbled, Stdio!NoLine}
      BY <2>3, LineAssumption
      DEF Stdio!Lines, Stdio!NoLine, Stdio!Notification, Stdio!Request, Stdio!Reply
    <3>2. line[k] # Stdio!Notification /\ line[k] # Stdio!Request
      BY <2>2, <2>3 DEF Stdio!Matches, Stdio!Request
    <3>3. PICK j \in answered : line[k] = Reply(id[j])
      BY <3>1, <3>2 DEF StdioInv, StdioLines
    <3>4. id[j] = id[k] BY <2>3, <3>3 DEF Stdio!Matches, Reply
    <3>5. j = k BY <2>2, <3>4 DEF StdioInv, IdsInv
    <3> QED BY <2>2, <3>3, <3>5 DEF Mine
  <2>4. line' \in [Calls -> Held'] BY <1>0, <2>1
  <2>5. CASE pc' = [pc EXCEPT ![k] = "loop"] /\ result' = result
    <3>1. /\ pc' = [j \in Calls |-> pc'[j]] /\ pc'[k] = "loop"
          /\ \A j \in Calls \ {k} : pc'[j] = pc[j]
      BY <2>5 DEF StdioInv, IdsInv
    <3>2. IdsInv' BY <2>1, <2>5, <3>1, IdsKept DEF StdioInv
    <3> QED BY <1>0, <2>1, <2>2, <2>4, <2>5, <3>1, <3>2 DEF StdioInv, Sees
  <2>6. CASE result' # result \/ pc' # [pc EXCEPT ![k] = "loop"]
    <3>1. pc' = [pc EXCEPT ![k] = "done"] BY <2>1, <2>6
    <3>2. /\ pc' = [j \in Calls |-> pc'[j]] /\ pc'[k] = "done"
          /\ \A j \in Calls \ {k} : pc'[j] = pc[j]
      BY <3>1 DEF StdioInv, IdsInv
    <3>3. PICK r : result' = [result EXCEPT ![k] = r] /\ (r = Failed \/ Mine(k, r))
      BY <2>1, <2>3, <2>6
    <3>4. IdsInv' BY <2>1, <3>2, <3>3, IdsKept DEF StdioInv
    <3>5. Sees BY <2>1, <2>2, <3>3 DEF Sees, Mine
    <3> QED BY <1>0, <2>1, <2>4, <3>2, <3>4, <3>5 DEF StdioInv
  <2> QED BY <2>5, <2>6
\* Lines are read, by the call or by a reader that was left behind.
<1>5. ASSUME NEW k \in Calls, Stdio!ReadLine(k) \/ Stdio!ReadEOF(k) PROVE StdioInv' /\ Sees
  <2>1. /\ UNCHANGED <<pc, id, result, next, received, answered>>
        /\ \/ UNCHANGED stdout
           \/ stdout # <<>> /\ stdout' = Tail(stdout)
        /\ \/ line' = [line EXCEPT ![k] = EOF] \/ line' = [line EXCEPT ![k] = Garbled]
           \/ stdout # <<>> /\ line' = [line EXCEPT ![k] = Head(stdout)]
    BY <1>5 DEF Stdio!ReadLine, Stdio!ReadEOF, Stdio!callVars, Stdio!serverVars
  <2>2. stdout # <<>> => Head(stdout) \in StdioLines' /\ Tail(stdout) \in Seq(StdioLines')
    BY <1>0, <2>1, HeadTailProperties
  <2>3. Garbled \in StdioLines' BY DEF StdioLines
  <2>4. stdout' \in Seq(StdioLines') BY <1>0, <2>1, <2>2
  <2>5. line' \in [Calls -> Held'] BY <1>0, <2>1, <2>2, <2>3
  <2> QED BY <1>1, <2>1, <2>4, <2>5
<1>6. CASE Stdio!StrayRead
  <2>1. UNCHANGED <<pc, id, result, next, received, answered, line>> /\ stdout # <<>>
        /\ stdout' = Tail(stdout)
    BY <1>6 DEF Stdio!StrayRead, Stdio!callVars, Stdio!serverVars
  <2>2. stdout' \in Seq(StdioLines') BY <1>0, <2>1, HeadTailProperties
  <2> QED BY <1>0, <1>1, <2>1, <2>2
\* The server replies to a call that has an id.
<1>7. ASSUME NEW k \in Calls, Stdio!Answer(k) PROVE StdioInv' /\ Sees
  <2>1. /\ UNCHANGED <<pc, id, result, next, received, line>>
        /\ k \notin answered /\ answered' = answered \cup {k} /\ id[k] \in received
        /\ stdout' = Append(stdout, Reply(id[k]))
    BY <1>7 DEF Stdio!Answer, Stdio!callVars, Stdio!readVars, Stdio!Reply, Reply
  <2>2. id[k] # 0 BY <2>1 DEF StdioInv
  <2>3. IdsInv' BY <2>1, <2>2, IdsKept DEF StdioInv, IdsInv
  <2>4. Reply(id[k]) \in StdioLines' BY <2>1 DEF StdioLines
  <2>5. stdout \in Seq(StdioLines') /\ line \in [Calls -> Held'] BY <1>0, <2>1
  <2>6. stdout' \in Seq(StdioLines') BY <2>1, <2>4, <2>5, AppendProperties
  <2>7. Sees BY <2>1 DEF Sees
  <2> QED BY <2>1, <2>3, <2>5, <2>6, <2>7 DEF StdioInv
<1>8. CASE Stdio!Say \/ Stdio!Exit
  <2>1. /\ UNCHANGED <<pc, id, result, next, received, line, answered>>
        /\ \/ UNCHANGED stdout
           \/ \E l \in {Stdio!Notification, Stdio!Request, Garbled} : stdout' = Append(stdout, l)
    BY <1>8 DEF Stdio!Say, Stdio!Exit, Stdio!callVars, Stdio!readVars
  <2>2. stdout \in Seq(StdioLines') /\ line \in [Calls -> Held'] BY <1>0, <2>1
  <2>3. \A l \in {Stdio!Notification, Stdio!Request, Garbled} : l \in StdioLines'
    BY DEF StdioLines, Stdio!Notification, Stdio!Request
  <2>4. stdout' \in Seq(StdioLines') BY <2>1, <2>2, <2>3, AppendProperties
  <2> QED BY <1>1, <2>1, <2>2, <2>4
<1> QED BY <1>2, <1>3, <1>4, <1>5, <1>6, <1>7, <1>8 DEF Stdio!Next, Stdio!Step

-----------------------------------------------------------------------------
\* Over streamable HTTP.
LEMMA HttpInvStep == HttpInv /\ Http!Next => HttpInv' /\ Sees
<1> SUFFICES ASSUME HttpInv, Http!Next PROVE HttpInv' /\ Sees
  OBVIOUS
\* Messages that are on their way stay what they are.
<1>0. ASSUME answered \subseteq answered',
             \/ id' = id
             \/ \E k \in Calls : id[k] = 0 /\ id' = [id EXCEPT ![k] = next + 1]
      PROVE  body \in [Calls -> Seq(HttpMessages')]
  <2>1. HttpMessages \subseteq HttpMessages' BY <1>0, IdsStay DEF HttpInv
  <2> QED BY <2>1, SeqMonotonic DEF HttpInv
<1>1. ASSUME NEW k \in Calls, Http!Post(k) PROVE HttpInv' /\ Sees
  <2>1. /\ UNCHANGED <<result, status, body, answered>> /\ pc[k] = "new" /\ id[k] = 0
        /\ id' = [id EXCEPT ![k] = next + 1] /\ next' = next + 1
        /\ pc' = [pc EXCEPT ![k] = "do"]
    BY <1>1 DEF Http!Post, Http!responseVars, Http!serverVars, HttpInv, IdsInv
  <2>2. /\ pc' = [j \in Calls |-> pc'[j]] /\ pc'[k] = "do"
        /\ \A j \in Calls \ {k} : pc'[j] = pc[j]
    BY <2>1 DEF HttpInv, IdsInv
  <2>3. id'[k] = next + 1 /\ next + 1 # 0 /\ \A j \in Calls \ {k} : id'[j] = id[j]
    BY <2>1 DEF HttpInv, IdsInv
  <2>4. IdsInv' BY <2>1, <2>2, IdsKept DEF HttpInv
  <2>5. \A j \in Calls : pc'[j] # "new" => id'[j] # 0 BY <2>2, <2>3 DEF HttpInv
  <2>6. \A j \in Calls : status'[j] # "none" => pc'[j] # "new" BY <2>1, <2>2 DEF HttpInv
  <2>7. status' = [j \in Calls |-> status'[j]] BY <2>1 DEF HttpInv
  <2>8. body' \in [Calls -> Seq(HttpMessages')] BY <1>0, <2>1
  <2>9. Sees BY <2>1 DEF Sees
  <2> QED BY <2>4, <2>5, <2>6, <2>7, <2>8, <2>9 DEF HttpInv
<1>2. ASSUME UNCHANGED <<id, result, next, answered>>, status' = [j \in Calls |-> status'[j]],
             body' \in [Calls -> Seq(HttpMessages')], pc' = [j \in Calls |-> pc'[j]],
             NEW k \in Calls, pc[k] \notin {"new", "done"}, pc'[k] \notin {"new", "done"},
             \A j \in Calls \ {k} : pc'[j] = pc[j] /\ status'[j] = status[j]
      PROVE  HttpInv' /\ Sees
  <2>1. IdsInv' BY <1>2, IdsKept DEF HttpInv
  <2> QED BY <1>2, <2>1 DEF HttpInv, Sees
<1>3. ASSUME UNCHANGED <<pc, id, result, next, status, answered>>,
             body' \in [Calls -> Seq(HttpMessages')]
      PROVE  HttpInv' /\ Sees
  BY <1>3 DEF HttpInv, IdsInv, Mine, Sees
<1>4. ASSUME NEW k \in Calls, Http!Expire(k) \/ Http!End(k) PROVE HttpInv' /\ Sees
  <2>1. UNCHANGED <<pc, id, result, next, status, answered, body>>
    BY <1>4 DEF Http!Expire, Http!End, Http!callVars, Http!responseVars, Http!serverVars
  <2> QED BY <1>0, <1>3, <2>1
\* A call returns, with an error or with a message of its response that is its reply.
<1>5. ASSUME NEW k \in Calls, pc[k] \in {"do", "read"}, pc' = [pc EXCEPT ![k] = "done"],
             UNCHANGED <<id, next, status, answered>>, body' \in [Calls -> Seq(HttpMessages')],
             NEW r, result' = [result EXCEPT ![k] = r], r = Failed \/ Mine(k, r)
      PROVE  HttpInv' /\ Sees
  <2>1. /\ pc' = [j \in Calls |-> pc'[j]] /\ pc'[k] = "done"
        /\ \A j \in Calls \ {k} : pc'[j] = pc[j]
    BY <1>5 DEF HttpInv, IdsInv
  <2>2. IdsInv' BY <1>5, <2>1, IdsKept DEF HttpInv
  <2>3. result[k] = NoResult /\ id[k] # 0 BY <1>5 DEF HttpInv, IdsInv
  <2>4. Sees BY <1>5, <2>3 DEF Sees, Mine
  <2> QED BY <1>5, <2>1, <2>2, <2>3, <2>4 DEF HttpInv
<1>6. ASSUME NEW k \in Calls, Http!PostError(k) \/ Http!Abandon(k) PROVE HttpInv' /\ Sees
  BY <1>0, <1>5, <1>6 DEF Http!PostError, Http!Abandon, Http!Return, Http!serverVars
<1>7. ASSUME NEW k \in Calls, Http!Header(k) PROVE HttpInv' /\ Sees
  <2>1. CASE status[k] = "refused"
    BY <1>0, <1>5, <1>7, <2>1 DEF Http!Header, Http!Return, Http!serverVars
  <2>2. CASE status[k] # "refused"
    <3>1. /\ UNCHANGED <<id, result, next, answered, status, body>>
          /\ pc[k] = "do" /\ pc' = [pc EXCEPT ![k] = "read"]
      BY <1>7, <2>2 DEF Http!Header, Http!responseVars, Http!serverVars
    <3>2. status' = [j \in Calls |-> status'[j]] /\ pc' = [j \in Calls |-> pc'[j]]
      BY <3>1 DEF HttpInv, IdsInv
    <3>3. pc'[k] = "read" /\ \A j \in Calls \ {k} : pc'[j] = pc[j] /\ status'[j] = status[j]
      BY <3>1 DEF HttpInv, IdsInv
    <3> QED BY <1>0, <1>2, <3>1, <3>2, <3>3
  <2> QED BY <2>1, <2>2
<1>8. ASSUME NEW k \in Calls, Http!ReadEvent(k) \/ Http!ReadBody(k) PROVE HttpInv' /\ Sees
  <2> DEFINE m == Head(body[k])
  <2>1. /\ UNCHANGED <<id, next, status, answered>> /\ pc[k] = "read"
        /\ body[k] # <<>> /\ body' = [body EXCEPT ![k] = Tail(@)]
        /\ \/ UNCHANGED <<pc, result>>
           \/ /\ pc' = [pc EXCEPT ![k] = "done"]
              /\ \E r : /\ result' = [result EXCEPT ![k] = r]
                        /\ r = Failed \/ (r = m /\ Http!Matches(k, m))
    BY <1>8 DEF Http!ReadEvent, Http!ReadBody, Http!Return, Http!Results, Http!callVars,
                Http!serverVars
  <2>2. m \in HttpMessages /\ Tail(body[k]) \in Seq(HttpMessages')
    BY <1>0, <2>1, HeadTailProperties DEF HttpInv
  <2>3. body' \in [Calls -> Seq(HttpMessages')] BY <1>0, <2>1, <2>2
  <2>4. ASSUME Http!Matches(k, m) PROVE Mine(k, m)
    <3>1. PICK j \in answered : m = Reply(id[j])
      BY <2>2, <2>4 DEF HttpMessages, Http!Matches, Http!Other, Http!Invalid
    <3>2. id[j] = id[k] /\ id[k] # 0 BY <2>1, <2>4, <3>1 DEF Http!Matches, Reply, HttpInv
    <3>3. j = k BY <3>2 DEF HttpInv, IdsInv
    <3> QED BY <3>1, <3>2, <3>3 DEF Mine
  <2> QED BY <1>3, <1>5, <2>1, <2>3, <2>4
<1>9. ASSUME NEW k \in Calls, Http!Respond(k) PROVE HttpInv' /\ Sees
  <2>1. /\ UNCHANGED <<pc, id, result, next, answered, body>> /\ pc[k] = "do"
        /\ \E s : status' = [status EXCEPT ![k] = s]
    BY <1>9 DEF Http!Respond, Http!callVars, Http!serverVars
  <2>2. /\ status' = [j \in Calls |-> status'[j]] /\ pc' = [j \in Calls |-> pc'[j]]
        /\ \A j \in Calls \ {k} : pc'[j] = pc[j] /\ status'[j] = status[j]
    BY <2>1 DEF HttpInv, IdsInv
  <2> QED BY <1>0, <1>2, <2>1, <2>2
\* The server writes a reply, or anything else.
<1>10. ASSUME NEW k \in Calls, Http!Answer(k) PROVE HttpInv' /\ Sees
  <2>1. /\ UNCHANGED <<pc, id, result, next, status>> /\ status[k] \in {"events", "json"}
        /\ k \notin answered /\ answered' = answered \cup {k}
        /\ body' = [body EXCEPT ![k] = Append(@, Reply(id[k]))]
    BY <1>10 DEF Http!Answer, Http!Writing, Http!callVars, Http!Reply, Reply
  <2>2. id[k] # 0 BY <2>1 DEF HttpInv
  <2>3. IdsInv' BY <2>1, <2>2, IdsKept DEF HttpInv, IdsInv
  <2>4. Reply(id[k]) \in HttpMessages' BY <2>1 DEF HttpMessages
  <2>5. body \in [Calls -> Seq(HttpMessages')] BY <1>0, <2>1
  <2>6. body' \in [Calls -> Seq(HttpMessages')] BY <2>1, <2>4, <2>5, AppendProperties
  <2>7. Sees BY <2>1 DEF Sees
  <2> QED BY <2>1, <2>3, <2>6, <2>7 DEF HttpInv
<1>11. ASSUME NEW k \in Calls, Http!Say(k) PROVE HttpInv' /\ Sees
  <2>1. UNCHANGED <<pc, id, result, next, status, answered>>
    BY <1>11 DEF Http!Say, Http!callVars
  <2>2. PICK m \in {Http!Other, Http!Invalid} \cup {Reply(id[j]) : j \in answered} :
             body' = [body EXCEPT ![k] = Append(@, m)]
    BY <1>11 DEF Http!Say, Http!Reply, Reply
  <2>3. m \in HttpMessages' BY <2>1, <2>2 DEF HttpMessages, Http!Other, Http!Invalid
  <2>4. body \in [Calls -> Seq(HttpMessages')] BY <1>0, <2>1
  <2>5. body' \in [Calls -> Seq(HttpMessages')] BY <2>2, <2>3, <2>4, AppendProperties
  <2> QED BY <1>3, <2>1, <2>5
<1> QED
  BY <1>1, <1>4, <1>6, <1>7, <1>8, <1>9, <1>10, <1>11 DEF Http!Next, Http!Step

-----------------------------------------------------------------------------
(* Over whichever transport.                                               *)

LEMMA CallsInvStep == CallsInv /\ [CallsNext]_callsVars => CallsInv' /\ Sees
<1> SUFFICES ASSUME CallsInv, [CallsNext]_callsVars PROVE CallsInv' /\ Sees
  OBVIOUS
<1>1. \/ transport = "stdio" /\ transport' = transport /\ Stdio!Next
      \/ transport = "sse" /\ transport' = transport /\ Next
      \/ transport = "http" /\ transport' = transport /\ Http!Next
      \/ UNCHANGED callsVars
  BY DEF CallsNext, OverStdio, OverSse, OverHttp, Over, Stdio!Next, Stdio!Step, Next, Step,
         LoopStep, Http!Next, Http!Step
<1>2. CASE transport = "stdio" /\ transport' = transport /\ Stdio!Next
  BY <1>2, StdioInvStep DEF CallsInv
<1>3. CASE transport = "sse" /\ transport' = transport /\ Next
  BY <1>3, PendingInvStep, ReplyInvStep, SseSees DEF CallsInv
<1>4. CASE transport = "http" /\ transport' = transport /\ Http!Next
  BY <1>4, HttpInvStep DEF CallsInv
<1>5. CASE UNCHANGED callsVars
  <2>1. UNCHANGED <<transport, vars, stdout, line, status, body>>
    BY <1>5 DEF callsVars, stdioOnly, httpOnly
  <2>2. UNCHANGED <<pc, id, next, result, answered, received>>
    BY <2>1 DEF vars, callVars, serverVars
  <2>3. PendingInv /\ ReplyInv => (PendingInv /\ ReplyInv)'
    BY <2>1, PendingInvStep, ReplyInvStep
  <2>4. IdsInv => IdsInv' BY <2>2 DEF IdsInv, Mine
  <2>5. StdioInv => StdioInv' BY <2>1, <2>2, <2>4 DEF StdioInv, StdioLines
  <2>6. HttpInv => HttpInv' BY <2>1, <2>2, <2>4 DEF HttpInv, HttpMessages
  <2>7. Sees BY <2>2 DEF Sees
  <2> QED BY <2>1, <2>3, <2>5, <2>6, <2>7 DEF CallsInv
<1> QED BY <1>1, <1>2, <1>3, <1>4, <1>5

\* A call returns once, with the server's reply to that very call or with an error,
\* over each of the three transports: among the other lines of a shared output and
\* the readers that were left behind (mcp/client.go), the events of a shared stream,
\* and whatever else a response holds (mcp/http_transport.go).
THEOREM TransportsImplementRpc == CallsSpec => ImplementsRpc
<1>1. CallsInit => Rpc!RpcInit BY DEF CallsInit, Init, Rpc!RpcInit, Returned
<1>2. CallsInv => Returned = ByCall /\ result = [k \in Calls |-> result[k]]
  BY ReturnedIs, IdsReturned DEF CallsInv, StdioInv, HttpInv, IdsInv, ReplyInv
<1>3. /\ Returned = ByCall /\ (Returned = ByCall)' /\ result = [k \in Calls |-> result[k]]
      /\ Sees
      => [\E k \in Calls : Rpc!RpcAnswer(k) \/ Rpc!RpcReturn(k)]_(Rpc!rpcVars)
  BY SeesSteps
<1> QED
  BY <1>1, <1>2, <1>3, CallsInvInit, CallsInvStep, PTL
  DEF CallsSpec, ImplementsRpc, Rpc!RpcSpec

=============================================================================
