------------------------------ MODULE Scheduler ------------------------------
(***************************************************************************)
(* The continuous-batching scheduler (scheduler/scheduler.go) over the     *)
(* decode seam (pipeline/pipeline.go).                                     *)
(*                                                                         *)
(* AddRequest and Step run on one goroutine, the engine loop; Abort runs   *)
(* on any.  Step is cut at its loops, one action per iteration, so that an *)
(* Abort may land between any two of them.  The phase variable says where  *)
(* in Step the loop goroutine is:                                          *)
(*                                                                         *)
(*   idle -> abort -> admit -> decode -> process -> return -> idle         *)
(*                         \            \-> fail ->/                       *)
(*                          \-------------------->/                        *)
(*                                                                         *)
(* Token ids and text are abstracted: the i-th token of a request is i,    *)
(* and what processToken tells apart about a token (ordinary, a stop token *)
(* id, the completion of a stop string, declared final by the backend) is  *)
(* a choice.                                                               *)
(***************************************************************************)
EXTENDS Naturals, Sequences, FiniteSets, SequencesExt

CONSTANTS
    Requests,      \* the request ids clients use; each is added at most once
    MaxNumSeqs,    \* Config.MaxNumSeqs, as configured
    MaxTokens,     \* Sampling.MaxTokens of every request; 0 means no cap
    GenBound,      \* bound: the backend ends a sequence at this many tokens
    InsertFails,   \* may decode.Insert reject a sequence?
    StepFails      \* may decode.Step return an error?

ASSUME SchedulerAssumption ==
    /\ MaxNumSeqs \in Nat
    /\ MaxTokens \in Nat
    /\ GenBound \in Nat \ {0}
    /\ InsertFails \in BOOLEAN
    /\ StepFails \in BOOLEAN

VARIABLES
    phase,      \* where in Step the loop goroutine is
    waiting,    \* Scheduler.waiting, the admission queue
    running,    \* keys of Scheduler.running
    uid,        \* Request.BatchUID (and seqState.uid) of an admitted request
    uidToReq,   \* Scheduler.uidToReq
    aborts,     \* Scheduler.aborts, guarded by abortMu
    pending,    \* the abort set applyAborts swapped out in this Step
    active,     \* uids the backend is decoding
    nextUid,    \* the backend's next uid
    results,    \* uids of decode.Step's results still to be processed
    out,        \* Output.Outputs of this Step
    status,     \* Request.Status; "new" before AddRequest
    generated,  \* len(Request.OutputTokenIDs)
    arrival,    \* history: the rank at which AddRequest saw the request
    arrivals,   \* history: number of AddRequest calls
    stream      \* history: what the increments of a request said so far

backendVars == <<active, nextUid>>
tableVars   == <<running, uid, uidToReq>>
historyVars == <<arrival, arrivals>>
vars == <<phase, waiting, running, uid, uidToReq, aborts, pending, active,
          nextUid, results, out, status, generated, arrival, arrivals, stream>>

\* The finish reason "" of a request that goes on is written "none".
Phases   == {"idle", "abort", "admit", "decode", "process", "fail", "return"}
Ended    == {"stopped", "length", "aborted", "error"}
Statuses == {"new", "waiting", "running"} \cup Ended
Reasons  == {"stop", "length", "abort", "error"}
Kinds    == {"text", "stopToken", "stopText"}

\* Slips: the definitions named *_<slip> are not part of the specification.
\* Each is the definition after it with a plausible programming error; some
\* property below fails when it takes that definition's place.
\* (The default is not applied.)
Slots_NoDefault == MaxNumSeqs

\* New replaces a non-positive MaxNumSeqs by 1.
Slots == IF MaxNumSeqs = 0 THEN 1 ELSE MaxNumSeqs

Increments == [id : Requests, toks : Seq(Nat),
               reason : Reasons \cup {"none"}, total : Nat]
Streams    == [toks : Seq(Nat), ends : Nat]

\* engine.RequestOutput: the new tokens, the finish reason ("none" when
\* not Finished) and the cumulative CompletionTokens.
Increment(r, toks, reason, total) ==
    [id |-> r, toks |-> toks, reason |-> reason, total |-> total]

\* The map uidToReq with an entry more, and with an entry less.
Bind(f, u, r) == [v \in DOMAIN f \cup {u} |-> IF v = u THEN r ELSE f[v]]
Unbind(f, u)  == [v \in DOMAIN f \ {u} |-> f[v]]

IsWaiting(r) == \E i \in DOMAIN waiting : waiting[i] = r

HasUnfinished == waiting # <<>> \/ running # {}

\* (The wire name of the reason is stored as it is.)
StatusFor_Raw(reason) == reason

StatusFor(reason) ==
    CASE reason = "length" -> "length"
      [] reason = "abort"  -> "aborted"
      [] reason = "error"  -> "error"
      [] OTHER             -> "stopped"

-----------------------------------------------------------------------------
Init ==
    /\ phase = "idle"
    /\ waiting = <<>> /\ running = {}
    /\ uid = [r \in Requests |-> 0]
    /\ uidToReq = [u \in {} |-> u]
    /\ aborts = {} /\ pending = {}
    /\ active = {} /\ nextUid = 1
    /\ results = {} /\ out = <<>>
    /\ status = [r \in Requests |-> "new"]
    /\ generated = [r \in Requests |-> 0]
    /\ arrival = [r \in Requests |-> 0] /\ arrivals = 0
    /\ stream = [r \in Requests |-> [toks |-> <<>>, ends |-> 0]]

-----------------------------------------------------------------------------
(* Building blocks of the actions.                                         *)

\* Append an increment to this Step's output.
Extend(st, inc) ==
    [toks |-> st.toks \o inc.toks,
     ends |-> IF inc.reason = "none" THEN st.ends ELSE st.ends + 1]

Emit(inc) ==
    /\ out' = Append(out, inc)
    /\ stream' = [stream EXCEPT ![inc.id] = Extend(@, inc)]

\* (decode.Remove is not called.)
Retire_KeepsSequence(r) ==
    /\ running' = running \ {r}
    /\ uidToReq' = Unbind(uidToReq, uid[r])
    /\ UNCHANGED <<active, uid, nextUid>>

\* (Nothing is removed.)
Retire_Nothing(r) == UNCHANGED <<active, running, uidToReq, uid, nextUid>>

\* Remove a finished request from the running set and the backend.
Retire(r) ==
    /\ active' = active \ {uid[r]}
    /\ running' = running \ {r}
    /\ uidToReq' = Unbind(uidToReq, uid[r])
    /\ UNCHANGED <<uid, nextUid>>

-----------------------------------------------------------------------------
(* The goroutine-safe entry point.                                         *)

Abort(r) ==
    /\ aborts' = aborts \cup {r}
    /\ UNCHANGED <<phase, waiting, running, uid, uidToReq, pending, active,
                   nextUid, results, out, status, generated, arrival,
                   arrivals, stream>>

-----------------------------------------------------------------------------
(* The entry points of the engine loop goroutine.                          *)

\* (The queue is filled from its head, a stack.)
AddRequest_AtHead(r) ==
    /\ phase = "idle"
    /\ status[r] = "new"
    /\ waiting' = <<r>> \o waiting
    /\ status' = [status EXCEPT ![r] = "waiting"]
    /\ arrivals' = arrivals + 1
    /\ arrival' = [arrival EXCEPT ![r] = arrivals + 1]
    /\ UNCHANGED <<phase, tableVars, aborts, pending, backendVars, results,
                   out, generated, stream>>

AddRequest(r) ==
    /\ phase = "idle"
    /\ status[r] = "new"
    /\ waiting' = Append(waiting, r)
    /\ status' = [status EXCEPT ![r] = "waiting"]
    /\ arrivals' = arrivals + 1
    /\ arrival' = [arrival EXCEPT ![r] = arrivals + 1]
    /\ UNCHANGED <<phase, tableVars, aborts, pending, backendVars, results,
                   out, generated, stream>>

\* Step starts by swapping out the abort set.
BeginStep ==
    /\ phase = "idle"
    /\ phase' = "abort"
    /\ pending' = aborts
    /\ aborts' = {}
    /\ UNCHANGED <<waiting, tableVars, backendVars, results, out, status,
                   generated, historyVars, stream>>

\* (The increment is emitted but the filtered slice is not stored back.)
CancelWaiting_StaysQueued ==
    /\ phase = "abort"
    /\ \E i \in DOMAIN waiting :
         /\ waiting[i] \in pending
         /\ status[waiting[i]] = "waiting"
         /\ status' = [status EXCEPT ![waiting[i]] = "aborted"]
         /\ Emit(Increment(waiting[i], <<>>, "abort", generated[waiting[i]]))
    /\ UNCHANGED <<phase, waiting, tableVars, aborts, pending, backendVars,
                   results, generated, historyVars>>

\* applyAborts: the next waiting request that is marked leaves the queue ...
CancelWaiting ==
    /\ phase = "abort"
    /\ \E i \in DOMAIN waiting :
         /\ waiting[i] \in pending
         /\ \A j \in 1..(i - 1) : waiting[j] \notin pending
         /\ waiting' = RemoveAt(waiting, i)
         /\ status' = [status EXCEPT ![waiting[i]] = "aborted"]
         /\ Emit(Increment(waiting[i], <<>>, "abort", generated[waiting[i]]))
    /\ UNCHANGED <<phase, tableVars, aborts, pending, backendVars, results,
                   generated, historyVars>>

\* ... then each marked running request is retired, in map order.
CancelRunning(r) ==
    /\ phase = "abort"
    /\ \A i \in DOMAIN waiting : waiting[i] \notin pending
    /\ r \in pending \cap running
    /\ status' = [status EXCEPT ![r] = "aborted"]
    /\ Emit(Increment(r, <<>>, "abort", generated[r]))
    /\ Retire(r)
    /\ UNCHANGED <<phase, waiting, aborts, pending, results, generated,
                   historyVars>>

\* (Only the waiting set is searched.)
EndAborts_WaitingOnly ==
    /\ phase = "abort"
    /\ \A r \in pending : ~IsWaiting(r)
    /\ phase' = "admit"
    /\ UNCHANGED <<waiting, tableVars, aborts, pending, backendVars, results,
                   out, status, generated, historyVars, stream>>

\* Marks that name neither a waiting nor a running request are forgotten.
EndAborts ==
    /\ phase = "abort"
    /\ \A r \in pending : ~IsWaiting(r) /\ r \notin running
    /\ phase' = "admit"
    /\ UNCHANGED <<waiting, tableVars, aborts, pending, backendVars, results,
                   out, status, generated, historyVars, stream>>

\* A slot, and somebody who waits for it.
SlotFree == waiting # <<>> /\ Cardinality(running) < Slots

\* scheduleWaiting, one iteration: decode.Insert accepts the head ...
Admit ==
    /\ phase = "admit"
    /\ SlotFree
    /\ LET r == Head(waiting) IN
         /\ uid' = [uid EXCEPT ![r] = nextUid]
         /\ uidToReq' = Bind(uidToReq, nextUid, r)
         /\ running' = running \cup {r}
         /\ status' = [status EXCEPT ![r] = "running"]
    /\ active' = active \cup {nextUid}
    /\ nextUid' = nextUid + 1
    /\ waiting' = Tail(waiting)
    /\ UNCHANGED <<phase, aborts, pending, results, out, generated,
                   historyVars, stream>>

\* ... or rejects it, and the request is dropped: no increment is emitted.
RejectInsert ==
    /\ InsertFails
    /\ phase = "admit"
    /\ SlotFree
    /\ waiting' = Tail(waiting)
    /\ status' = [status EXCEPT ![Head(waiting)] = "error"]
    /\ UNCHANGED <<phase, tableVars, aborts, pending, backendVars, results,
                   out, generated, historyVars, stream>>

EndAdmit ==
    /\ phase = "admit"
    /\ ~SlotFree
    /\ phase' = IF active = {} THEN "return" ELSE "decode"
    /\ UNCHANGED <<waiting, tableVars, aborts, pending, backendVars, results,
                   out, status, generated, historyVars, stream>>

\* decode.Step returns one result per active sequence ...
Decode ==
    /\ phase = "decode"
    /\ phase' = "process"
    /\ results' = active
    /\ UNCHANGED <<waiting, tableVars, aborts, pending, backendVars, out,
                   status, generated, historyVars, stream>>

\* ... or an error.
DecodeError ==
    /\ StepFails
    /\ phase = "decode"
    /\ phase' = "fail"
    /\ UNCHANGED <<waiting, tableVars, aborts, pending, backendVars, results,
                   out, status, generated, historyVars, stream>>

\* (The cap is compared with > instead of >=.)
Verdict_PastCap(kind, declared, n) ==
    CASE kind = "stopToken" -> IF declared = "none" THEN "stop" ELSE declared
      [] kind = "stopText"  -> "stop"
      [] OTHER              -> IF declared # "none" THEN declared
                               ELSE IF MaxTokens > 0 /\ n > MaxTokens
                                    THEN "length" ELSE "none"

\* The reason processToken finishes with, "none" to go on, from the token's
\* kind, what the backend declared, and the token count with this one appended.
Verdict(kind, declared, n) ==
    CASE kind = "stopToken" -> IF declared = "none" THEN "stop" ELSE declared
      [] kind = "stopText"  -> "stop"
      [] OTHER              -> IF declared # "none" THEN declared
                               ELSE IF MaxTokens > 0 /\ n >= MaxTokens
                                    THEN "length" ELSE "none"

\* processToken for the result of uid u; results are in uid order.  A stop
\* token is not appended; an unknown uid is skipped.
ProcessToken(u, kind, declared) ==
    /\ phase = "process"
    /\ u \in results
    /\ \A v \in results : u <= v
    /\ results' = results \ {u}
    /\ IF u \notin DOMAIN uidToReq
       THEN UNCHANGED <<tableVars, backendVars, out, status, generated, stream>>
       ELSE LET r      == uidToReq[u]
                n      == generated[r] + (IF kind = "stopToken" THEN 0 ELSE 1)
                toks   == IF kind = "stopToken" THEN <<>> ELSE <<n>>
                reason == Verdict(kind, declared, n)
            IN  /\ n >= GenBound => declared # "none"
                /\ generated' = [generated EXCEPT ![r] = n]
                /\ Emit(Increment(r, toks, reason, n))
                /\ IF reason = "none"
                   THEN UNCHANGED <<tableVars, backendVars, status>>
                   ELSE /\ status' = [status EXCEPT ![r] = StatusFor(reason)]
                        /\ Retire(r)
    /\ UNCHANGED <<phase, waiting, aborts, pending, historyVars>>

EndProcess ==
    /\ phase = "process"
    /\ results = {}
    /\ phase' = "return"
    /\ UNCHANGED <<waiting, tableVars, aborts, pending, backendVars, results,
                   out, status, generated, historyVars, stream>>

\* (failAll leaves the running map as it is.)
FailOne_NoRetire(r) ==
    /\ phase = "fail"
    /\ r \in running
    /\ \A i \in DOMAIN out : out[i].id # r
    /\ Emit(Increment(r, <<>>, "error", 0))
    /\ UNCHANGED <<phase, waiting, tableVars, backendVars, aborts, pending,
                   results, status, generated, historyVars>>

\* failAll: an error increment, with no cumulative fields, to each running one.
FailOne(r) ==
    /\ phase = "fail"
    /\ r \in running
    /\ status' = [status EXCEPT ![r] = "error"]
    /\ Emit(Increment(r, <<>>, "error", 0))
    /\ Retire(r)
    /\ UNCHANGED <<phase, waiting, aborts, pending, results, generated,
                   historyVars>>

EndFail ==
    /\ phase = "fail"
    /\ running = {}
    /\ phase' = "return"
    /\ UNCHANGED <<waiting, tableVars, aborts, pending, backendVars, results,
                   out, status, generated, historyVars, stream>>

\* Step returns its output to the caller.
Return ==
    /\ phase = "return"
    /\ phase' = "idle"
    /\ out' = <<>>
    /\ UNCHANGED <<waiting, tableVars, aborts, pending, backendVars, results,
                   status, generated, historyVars, stream>>

-----------------------------------------------------------------------------
\* One move of the loop goroutine inside Step.
StepMove ==
    \/ CancelWaiting
    \/ \E r \in Requests : CancelRunning(r)
    \/ EndAborts
    \/ Admit
    \/ RejectInsert
    \/ EndAdmit
    \/ Decode
    \/ DecodeError
    \/ \E u \in results, kind \in Kinds, declared \in {"none", "stop", "length"} :
         ProcessToken(u, kind, declared)
    \/ EndProcess
    \/ \E r \in Requests : FailOne(r)
    \/ EndFail
    \/ Return

Next ==
    \/ \E r \in Requests : AddRequest(r) \/ Abort(r)
    \/ BeginStep
    \/ StepMove

\* Fairness is the engine loop's business (EngineCore).
SafetySpec == Init /\ [][Next]_vars

-----------------------------------------------------------------------------
(* Properties.                                                             *)

\* Every variable stays in its type.
TypeOK ==
    /\ phase \in Phases
    /\ waiting \in Seq(Requests)
    /\ running \subseteq Requests
    /\ uid \in [Requests -> Nat]
    /\ uidToReq \in [DOMAIN uidToReq -> Requests]
    /\ aborts \subseteq Requests /\ pending \subseteq Requests
    /\ active \subseteq Nat /\ nextUid \in Nat
    /\ results \subseteq Nat
    /\ out \in Seq(Increments)
    /\ status \in [Requests -> Statuses]
    /\ generated \in [Requests -> Nat]
    /\ arrival \in [Requests -> Nat] /\ arrivals \in Nat
    /\ stream \in [Requests -> Streams]

\* The batch slots, the uid table and the backend agree: a sequence decodes in
\* the backend exactly while one running request owns its uid, so retire leaks
\* no backend sequence (and no KV cache) and results never go astray.
SlotsConsistent ==
    /\ DOMAIN uidToReq = active
    /\ \A r \in running : uid[r] \in active /\ uidToReq[uid[r]] = r
    /\ \A u \in active : uidToReq[u] \in running /\ uid[uidToReq[u]] = u
    /\ \A u \in active \cup results : u < nextUid
    /\ results \subseteq active

\* A request is in one place: once in the queue, in the batch, or nowhere, as
\* its status says.
OnePlace ==
    /\ \A i, j \in DOMAIN waiting : waiting[i] = waiting[j] => i = j
    /\ \A r \in Requests : /\ status[r] = "waiting" <=> IsWaiting(r)
                           /\ status[r] = "running" <=> r \in running

\* The batch never exceeds MaxNumSeqs.
BatchBounded == IsFiniteSet(running) /\ Cardinality(running) <= Slots

\* The request table, the uid table, the batch and the backend agree, a request is
\* in one place and the batch within its limit, at every lock release of a Step and
\* of the calls around it; and results are there only while they are processed.
Consistent ==
    /\ TypeOK
    /\ SlotsConsistent
    /\ OnePlace
    /\ BatchBounded
    /\ results # {} => phase = "process"

\* Admission is work conserving: when decoding starts, a request waits only if
\* the batch is full.
WorkConserving ==
    phase = "decode" /\ waiting # <<>> => Cardinality(running) = Slots

\* First come, first served (PolicyFCFS): the queue is in arrival order, nobody
\* in it arrived before a running request, and uids, hence the order of the
\* results of a decode step, follow arrival.
FirstComeFirstServed ==
    /\ \A i, j \in DOMAIN waiting :
         i < j => arrival[waiting[i]] < arrival[waiting[j]]
    /\ \A r \in running, i \in DOMAIN waiting : arrival[r] < arrival[waiting[i]]
    /\ \A r, s \in running : arrival[r] < arrival[s] => uid[r] < uid[s]

\* Admission is fair, and leaves no slot free for nothing.
AdmissionFair == WorkConserving /\ FirstComeFirstServed

\* An abort mark that Step took is honoured by that Step: past applyAborts no
\* marked request waits or runs, so none gets another token.
AbortsApplied ==
    phase \in {"admit", "decode", "process", "fail"} =>
        \A r \in pending : ~IsWaiting(r) /\ r \notin running

\* MaxTokens caps the tokens of every request, and a request at the cap is no
\* longer running.
TokenBudget ==
    MaxTokens > 0 =>
        \A r \in Requests : /\ generated[r] <= MaxTokens
                            /\ r \in running => generated[r] < MaxTokens

\* The increments of a request carry its tokens in order, each once, and it
\* ends exactly once, when and only when it leaves the scheduler (a request
\* that Insert rejected leaves it unanswered).
StreamExact ==
    \A r \in Requests :
        /\ stream[r].toks = [i \in 1..generated[r] |-> i]
        /\ stream[r].ends = (IF status[r] \in Ended THEN 1 ELSE 0)
              \/ (InsertFails /\ status[r] = "error" /\ stream[r].ends = 0)

\* One Step produces at most one increment per request, so the order in which
\* the loop delivers the increments of a Step does not matter.
OneIncrementPerStep ==
    \A i, j \in DOMAIN out : out[i].id = out[j].id => i = j

\* After its end a request is never touched again: no token, no second end, no
\* other status.
EndIsFinal ==
    [][\A r \in Requests : status[r] \in Ended =>
          UNCHANGED <<status[r], stream[r], generated[r]>>]_vars

\* Requests are interchangeable, also to EngineCore.
Symmetry == Permutations(Requests)
=============================================================================
