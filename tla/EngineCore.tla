------------------------------ MODULE EngineCore ------------------------------
(***************************************************************************)
(* The engine core (enginecore/core.go) driving the scheduler for the HTTP *)
(* handlers (routes/chat.go and its siblings).                             *)
(*                                                                         *)
(* Three kinds of goroutines meet here.  A handler calls Submit, receives  *)
(* from the request's channel until it closes, and calls Abort when its    *)
(* client hangs up.  The loop goroutine drains submissions into the        *)
(* scheduler, runs Step and delivers the increments, never blocking on a   *)
(* slow handler: a full channel makes it coalesce.  The server cancels the *)
(* loop's context to stop it.                                              *)
(*                                                                         *)
(* The loop moves through                                                  *)
(*                                                                         *)
(*   drain -> flush -> poll -> step -> deliver -> drain ...                *)
(*              |        |--> (no work) drain                              *)
(*              |-> idle |--> exit -> stopped                              *)
(*                                                                         *)
(* and "step" runs the actions of Scheduler.  The wake channel is left     *)
(* out: it only ends an idle wait early, and IdleWake may end it anytime.  *)
(***************************************************************************)
EXTENDS Scheduler

CONSTANTS
    ChanCap,        \* capacity of a request's channel (64 in the code)
    SubmitCap,      \* capacity of submitCh (64 in the code)
    MaxConcurrent   \* Core.maxConcurrent; 0 disables admission control

ASSUME CoreAssumption ==
    /\ ChanCap \in Nat \ {0}
    /\ SubmitCap \in Nat \ {0}
    /\ MaxConcurrent \in Nat

VARIABLES
    loop,       \* where the loop goroutine is
    serving,    \* Core.running
    ctxDone,    \* has the context passed to Start been cancelled?
    submitCh,   \* Core.submitCh
    outs,       \* keys of Core.outs: the requests with an open channel
    ch,         \* the buffer of each request's channel
    held,       \* outChan.pending: <<>>, or the coalesced backlog <<o>>
    closed,     \* the requests whose channel was closed
    inFlight,   \* Core.inFlight
    outbox,     \* the outputs of the last Step not delivered yet
    client,     \* the state of each request's handler
    got         \* what each handler has received

chanVars == <<outs, ch, held, closed, inFlight>>
coreVars == <<loop, serving, ctxDone, submitCh, chanVars, outbox, client, got>>
allVars  == <<vars, coreVars>>

LoopStates   == {"drain", "flush", "poll", "idle", "step", "deliver", "exit",
                 "stopped"}
\* new: not submitted; refused: Submit returned an error; sending: admitted,
\* about to send on submitCh; open: receiving; gone: hung up; done: answered.
ClientStates == {"new", "refused", "sending", "open", "gone", "done"}

Nothing == [toks |-> <<>>, reason |-> "none", total |-> 0]

-----------------------------------------------------------------------------
CoreInit ==
    /\ Init
    /\ loop = "drain" /\ serving = TRUE /\ ctxDone = FALSE
    /\ submitCh = <<>> /\ outbox = <<>>
    /\ outs = {} /\ closed = {} /\ inFlight = 0
    /\ ch = [r \in Requests |-> <<>>]
    /\ held = [r \in Requests |-> <<>>]
    /\ client = [r \in Requests |-> "new"]
    /\ got = [r \in Requests |-> Nothing]

-----------------------------------------------------------------------------
(* Handlers.                                                               *)

\* As in Scheduler, a definition named *_<slip> is the one after it with a
\* plausible programming error, and no part of the specification.

AtCapacity == MaxConcurrent > 0 /\ inFlight >= MaxConcurrent

\* Submit up to the unlock: admission control and the delivery slot ...
Register(r) ==
    /\ client[r] = "new"
    /\ IF ~serving \/ AtCapacity
       THEN /\ client' = [client EXCEPT ![r] = "refused"]
            /\ UNCHANGED <<inFlight, outs>>
       ELSE /\ client' = [client EXCEPT ![r] = "sending"]
            /\ inFlight' = inFlight + 1
            /\ outs' = outs \cup {r}
    /\ UNCHANGED <<vars, loop, serving, ctxDone, submitCh, ch, held, closed,
                   outbox, got>>

\* ... and the send, outside the lock, which blocks while submitCh is full.
SendSubmit(r) ==
    /\ client[r] = "sending"
    /\ Len(submitCh) < SubmitCap
    /\ submitCh' = Append(submitCh, r)
    /\ client' = [client EXCEPT ![r] = "open"]
    /\ UNCHANGED <<vars, loop, serving, ctxDone, chanVars, outbox, got>>

\* A handler receives an increment.  On an error it stops reading; the
\* aggregating handlers also abort the request, the streaming ones do not.
Receive(r) ==
    /\ client[r] = "open"
    /\ ch[r] # <<>>
    /\ LET o == Head(ch[r]) IN
         /\ got' = [got EXCEPT ![r] = [toks   |-> @.toks \o o.toks,
                                       reason |-> o.reason,
                                       total  |-> o.total]]
         /\ IF o.reason = "error"
            THEN /\ client' = [client EXCEPT ![r] = "done"]
                 /\ Abort(r) \/ UNCHANGED vars
            ELSE UNCHANGED <<client, vars>>
    /\ ch' = [ch EXCEPT ![r] = Tail(@)]
    /\ UNCHANGED <<loop, serving, ctxDone, submitCh, outs, held, closed,
                   inFlight, outbox>>

\* It sees the channel closed and answers; an aggregating handler whose client
\* has left meanwhile aborts instead.
SeeClosed(r) ==
    /\ client[r] = "open"
    /\ ch[r] = <<>> /\ r \in closed
    /\ client' = [client EXCEPT ![r] = "done"]
    /\ Abort(r) \/ UNCHANGED vars
    /\ UNCHANGED <<loop, serving, ctxDone, submitCh, chanVars, outbox, got>>

\* (The handler's goroutine edits the queue itself.)
HangUp_InPlace(r) ==
    /\ client[r] = "open"
    /\ client' = [client EXCEPT ![r] = "gone"]
    /\ waiting' = Remove(waiting, r)
    /\ UNCHANGED <<phase, running, uid, uidToReq, aborts, pending, active,
                   nextUid, results, out, status, generated, arrival,
                   arrivals, stream>>
    /\ UNCHANGED <<loop, serving, ctxDone, submitCh, chanVars, outbox, got>>

\* A streaming handler's client hangs up: Abort, and nobody reads any more.
HangUp(r) ==
    /\ client[r] = "open"
    /\ client' = [client EXCEPT ![r] = "gone"]
    /\ Abort(r)
    /\ UNCHANGED <<loop, serving, ctxDone, submitCh, chanVars, outbox, got>>

\* The server's context is cancelled.
Cancel ==
    /\ ~ctxDone
    /\ ctxDone' = TRUE
    /\ UNCHANGED <<vars, loop, serving, submitCh, chanVars, outbox, client, got>>

-----------------------------------------------------------------------------
(* Delivery.                                                               *)

\* (The older delta is dropped.)
Coalesce_Newest(prev, next) == next

\* (The deltas are joined in the wrong order.)
Coalesce_Swapped(prev, next) == [next EXCEPT !.toks = @ \o prev.toks]

\* coalesce: cumulative fields take the newer value, deltas concatenate.
Coalesce(prev, next) == [next EXCEPT !.toks = prev.toks \o @]

\* (Finished is not looked at.)
IsFinal_Always(o) == TRUE

IsFinal(o) == o.reason # "none"

\* (The count is left alone.)
CloseAll_NotCounted(S) ==
    /\ outs' = outs \ S
    /\ closed' = closed \cup S
    /\ UNCHANGED inFlight

\* (The count goes down with every delivery.)
CloseAll_EachTime(S) ==
    /\ outs' = outs \ S
    /\ closed' = closed \cup S
    /\ inFlight' = inFlight - 1

\* closeLocked for each request of S.
CloseAll(S) ==
    /\ outs' = outs \ S
    /\ closed' = closed \cup S
    /\ inFlight' = inFlight - Cardinality(S)

\* deliver: increments of a request without a slot are dropped.
Deliver ==
    /\ loop = "deliver"
    /\ outbox # <<>>
    /\ outbox' = Tail(outbox)
    /\ LET r == Head(outbox).id
           o == IF held[r] = <<>> THEN Head(outbox)
                ELSE Coalesce(Head(held[r]), Head(outbox))
       IN  IF r \notin outs THEN UNCHANGED chanVars
           ELSE IF Len(ch[r]) < ChanCap
           THEN /\ ch' = [ch EXCEPT ![r] = Append(@, o)]
                /\ held' = [held EXCEPT ![r] = <<>>]
                /\ CloseAll(IF IsFinal(o) THEN {r} ELSE {})
           ELSE /\ held' = [held EXCEPT ![r] = <<o>>]
                /\ UNCHANGED <<outs, ch, closed, inFlight>>
    /\ UNCHANGED <<vars, loop, serving, ctxDone, submitCh, client, got>>

EndDeliver ==
    /\ loop = "deliver"
    /\ outbox = <<>>
    /\ loop' = "drain"
    /\ UNCHANGED <<vars, serving, ctxDone, submitCh, chanVars, outbox, client, got>>

-----------------------------------------------------------------------------
(* The loop.                                                               *)

DrainOne ==
    /\ loop = "drain"
    /\ submitCh # <<>>
    /\ AddRequest(Head(submitCh))
    /\ submitCh' = Tail(submitCh)
    /\ UNCHANGED <<loop, serving, ctxDone, chanVars, outbox, client, got>>

EndDrain ==
    /\ loop = "drain"
    /\ submitCh = <<>>
    /\ loop' = "flush"
    /\ UNCHANGED <<vars, serving, ctxDone, submitCh, chanVars, outbox, client, got>>

\* flushPending retries every backlog; then the loop decides whether to idle.
Flush ==
    /\ loop = "flush"
    /\ LET backlog == {r \in outs : held[r] # <<>>}
           sent    == {r \in backlog : Len(ch[r]) < ChanCap}
       IN  /\ ch' = [r \in Requests |-> IF r \in sent THEN ch[r] \o held[r] ELSE ch[r]]
           /\ held' = [r \in Requests |-> IF r \in sent THEN <<>> ELSE held[r]]
           /\ CloseAll({r \in sent : IsFinal(Head(held[r]))})
           /\ loop' = IF HasUnfinished \/ sent # backlog THEN "poll" ELSE "idle"
    /\ UNCHANGED <<vars, serving, ctxDone, submitCh, outbox, client, got>>

\* Nothing to do: wait for a submission, a wake or the tick, or the context.
IdleSubmit ==
    /\ loop = "idle"
    /\ submitCh # <<>>
    /\ AddRequest(Head(submitCh))
    /\ submitCh' = Tail(submitCh)
    /\ loop' = "drain"
    /\ UNCHANGED <<serving, ctxDone, chanVars, outbox, client, got>>

IdleWake ==
    /\ loop = "idle"
    /\ loop' = "drain"
    /\ UNCHANGED <<vars, serving, ctxDone, submitCh, chanVars, outbox, client, got>>

\* (The select has no case for the context.)
IdleStop_Missing == FALSE

IdleStop ==
    /\ loop = "idle"
    /\ ctxDone
    /\ loop' = "exit"
    /\ UNCHANGED <<vars, serving, ctxDone, submitCh, chanVars, outbox, client, got>>

\* Something to do: look at the context, then step if the scheduler has work.
PollStop ==
    /\ loop = "poll"
    /\ ctxDone
    /\ loop' = "exit"
    /\ UNCHANGED <<vars, serving, ctxDone, submitCh, chanVars, outbox, client, got>>

PollStep ==
    /\ loop = "poll"
    /\ ~ctxDone
    /\ IF HasUnfinished THEN BeginStep /\ loop' = "step"
                        ELSE UNCHANGED vars /\ loop' = "drain"
    /\ UNCHANGED <<serving, ctxDone, submitCh, chanVars, outbox, client, got>>

\* Inside sched.Step; when it returns, its outputs are delivered.
RunStep ==
    /\ loop = "step"
    /\ StepMove
    /\ IF phase = "return" THEN outbox' = out /\ loop' = "deliver"
                           ELSE UNCHANGED <<outbox, loop>>
    /\ UNCHANGED <<serving, ctxDone, submitCh, chanVars, client, got>>

\* The deferred shutdown closes every open channel and forgets its backlog.
Shutdown ==
    /\ loop = "exit"
    /\ loop' = "stopped"
    /\ closed' = closed \cup outs
    /\ outs' = {}
    /\ inFlight' = 0
    /\ serving' = FALSE
    /\ held' = [r \in Requests |-> <<>>]
    /\ UNCHANGED <<vars, ctxDone, submitCh, ch, outbox, client, got>>

-----------------------------------------------------------------------------
LoopMove ==
    \/ DrainOne \/ EndDrain \/ Flush
    \/ IdleSubmit \/ IdleWake \/ IdleStop
    \/ PollStop \/ PollStep \/ RunStep
    \/ Deliver \/ EndDeliver \/ Shutdown

CoreNext ==
    \/ \E r \in Requests :
         Register(r) \/ SendSubmit(r) \/ Receive(r) \/ SeeClosed(r) \/ HangUp(r)
    \/ Cancel
    \/ LoopMove

\* The loop keeps running; its idle select cannot pass over a cancelled context
\* for ever; a handler that sits in a send or a receive gets to complete it.
\* Nobody has to submit, hang up or cancel.
CoreFairness ==
    /\ WF_allVars(LoopMove) /\ SF_allVars(IdleStop)
    /\ \A r \in Requests : /\ WF_allVars(SendSubmit(r))
                           /\ WF_allVars(Receive(r))
                           /\ WF_allVars(SeeClosed(r))

CoreSpec == CoreInit /\ [][CoreNext]_allVars /\ CoreFairness

-----------------------------------------------------------------------------
(* Properties.                                                             *)

\* Every variable stays in its type; inFlight never goes below zero.
CoreTypeOK ==
    /\ TypeOK
    /\ loop \in LoopStates /\ serving \in BOOLEAN /\ ctxDone \in BOOLEAN
    /\ submitCh \in Seq(Requests)
    /\ outs \subseteq Requests /\ closed \subseteq Requests
    /\ ch \in [Requests -> Seq(Increments)]
    /\ held \in [Requests -> Seq(Increments)]
    /\ inFlight \in Nat
    /\ outbox \in Seq(Increments)
    /\ client \in [Requests -> ClientStates]
    /\ got \in [Requests -> [toks : Seq(Nat), reason : Reasons \cup {"none"},
                             total : Nat]]

\* Each slot is counted once: inFlight is the number of open channels, an
\* admitted request has one until its channel closes, and admission control
\* holds its limit.
SlotsCounted ==
    /\ inFlight = Cardinality(outs)
    /\ \A r \in Requests :
         r \in outs <=> client[r] \notin {"new", "refused"} /\ r \notin closed
    /\ MaxConcurrent > 0 => inFlight <= MaxConcurrent

\* With admission control no tighter a queue than submitCh, the send in Submit
\* never blocks, not even when the loop has already exited: nobody would ever
\* receive.
SubmitNeverBlocks ==
    MaxConcurrent \in 1..SubmitCap =>
        \A r \in Requests : client[r] = "sending" => Len(submitCh) < SubmitCap

\* Submit counts who is there and blocks nobody (enginecore/core.go Submit).
SubmitSound == SlotsCounted /\ SubmitNeverBlocks

\* The tokens of increments; those of other requests count as nothing.
Toks(s)   == FlattenSeq([i \in DOMAIN s |-> s[i].toks])
Of(r, s)  == [i \in DOMAIN s |-> IF s[i].id = r THEN s[i] ELSE Nothing]

\* Everything on its way to the handler of r, in order.
InTransit(r) == ch[r] \o held[r] \o Of(r, outbox) \o Of(r, out)

\* Is the last of these increments a final one?
HasEnded(s) == Last(s).reason # "none"

\* A channel is closed only behind the final increment, which is its last one;
\* only shutdown may cut it short.
ClosedBehindEnd ==
    \A r \in Requests :
        LET s == <<got[r]>> \o ch[r] IN
        /\ r \in closed => HasEnded(s) \/ ~serving
        /\ \A i \in 1..(Len(s) - 1) : s[i].reason = "none"
        /\ HasEnded(s) => r \in closed

\* Coalescing under backpressure loses, repeats and reorders nothing: what the
\* handler received and what is on its way are the tokens of r, and cumulative
\* counts match the deltas they come with.  A closed channel holds a prefix,
\* and is closed behind the end.
DeliveredExactly ==
    /\ ClosedBehindEnd
    /\ \A r \in Requests :
        /\ r \in outs => got[r].toks \o Toks(InTransit(r)) = stream[r].toks
        /\ r \in closed => IsPrefix(got[r].toks \o Toks(ch[r]), stream[r].toks)
        /\ \A i \in DOMAIN ch[r] : ch[r][i].reason # "error" =>
             ch[r][i].total = Len(got[r].toks \o Toks(SubSeq(ch[r], 1, i)))

\* The channels implement the stream each handler is promised.
Promise == INSTANCE RequestStream WITH
    made  <- [r \in Requests |-> stream[r].toks],
    ended <- [r \in Requests |-> stream[r].ends > 0],
    taken <- [r \in Requests |-> got[r].toks],
    told  <- [r \in Requests |-> got[r].reason # "none"]
ImplementsStream == Promise!StreamSpec

\* The loop drives the scheduler as its specification allows.
DrivesScheduler == SafetySpec

\* A handler that keeps receiving sees its channel close, whatever other
\* handlers do, also when the server stops (as long as Insert rejects nobody).
ChannelCloses ==
    \A r \in Requests : client[r] = "open" ~> client[r] \in {"done", "gone"}

\* The loop exits once its context is cancelled, even with backlogs nobody reads.
ContextStops == ctxDone ~> loop = "stopped"

\* An abort takes effect on the next Step: once the mark was taken no token is
\* produced for a request whose handler is gone.
AbortNotLost ==
    [][\A r \in Requests :
          client[r] = "gone" /\ r \notin aborts => stream'[r].toks = stream[r].toks]_allVars

\* The slot of a request whose handler is gone is released.
HangUpFreesSlot == \A r \in Requests : client[r] = "gone" ~> r \notin outs
=============================================================================
