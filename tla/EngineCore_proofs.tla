--------------------------- MODULE EngineCore_proofs ---------------------------
(***************************************************************************)
(* Theorems about the engine core, for any number of handlers and any      *)
(* capacities.  The first one carries every safety theorem about the       *)
(* scheduler over to the scheduler as the loop drives it.                  *)
(***************************************************************************)
EXTENDS EngineCore, Scheduler_proofs, Induction

-----------------------------------------------------------------------------
(* The loop and the handlers use the scheduler as its specification says.  *)

SubmitTyped == submitCh \in Seq(Requests)

\* Only Submit fills submitCh, and only the loop empties it.
LEMMA SubmitTypeStep == SubmitTyped /\ [CoreNext]_allVars => SubmitTyped'
<1> SUFFICES ASSUME SubmitTyped, [CoreNext]_allVars PROVE SubmitTyped'
  OBVIOUS
<1>1. ASSUME NEW r \in Requests, SendSubmit(r) PROVE SubmitTyped'
  BY <1>1, AppendProperties DEF SendSubmit, SubmitTyped
<1>2. CASE DrainOne \/ IdleSubmit
  BY <1>2, HeadTailProperties DEF DrainOne, IdleSubmit, SubmitTyped
<1>3. CASE UNCHANGED allVars
  BY <1>3 DEF allVars, coreVars, SubmitTyped
<1>4. ASSUME NEW r \in Requests,
             Register(r) \/ Receive(r) \/ SeeClosed(r) \/ HangUp(r)
      PROVE  SubmitTyped'
  BY <1>4 DEF Register, Receive, SeeClosed, HangUp, SubmitTyped
<1>5. CASE \/ Cancel \/ EndDrain \/ Flush \/ IdleWake \/ IdleStop \/ PollStop
           \/ PollStep \/ RunStep \/ Deliver \/ EndDeliver \/ Shutdown
  BY <1>5 DEF Cancel, EndDrain, Flush, IdleWake, IdleStop, PollStop, PollStep,
              RunStep, Deliver, EndDeliver, Shutdown, SubmitTyped
<1> QED BY <1>1, <1>2, <1>3, <1>4, <1>5 DEF CoreNext, LoopMove

\* Every step of the core is a step of the scheduler, or leaves it alone.
LEMMA CoreStepDrives == SubmitTyped /\ [CoreNext]_allVars => [Next]_vars
<1> SUFFICES ASSUME SubmitTyped, [CoreNext]_allVars PROVE [Next]_vars
  OBVIOUS
<1>1. CASE DrainOne \/ IdleSubmit
  <2>1. submitCh # <<>> /\ AddRequest(Head(submitCh))
    BY <1>1 DEF DrainOne, IdleSubmit
  <2>2. Head(submitCh) \in Requests
    BY <2>1, HeadTailProperties DEF SubmitTyped
  <2> QED BY <2>1, <2>2 DEF Next
<1>2. CASE UNCHANGED allVars
  BY <1>2 DEF allVars
<1>3. ASSUME NEW r \in Requests,
             Register(r) \/ SendSubmit(r) \/ SeeClosed(r) \/ HangUp(r)
      PROVE  [Next]_vars
  BY <1>3 DEF Register, SendSubmit, SeeClosed, HangUp, Next
<1>4. ASSUME NEW r \in Requests, Receive(r) PROVE [Next]_vars
  <2>1. Abort(r) \/ UNCHANGED vars
    BY <1>4 DEF Receive
  <2> QED BY <2>1 DEF Next
<1>5. CASE \/ Cancel \/ EndDrain \/ Flush \/ IdleWake \/ IdleStop \/ PollStop
           \/ Deliver \/ EndDeliver \/ Shutdown
  BY <1>5 DEF Cancel, EndDrain, Flush, IdleWake, IdleStop, PollStop, Deliver,
              EndDeliver, Shutdown
<1>6. CASE PollStep \/ RunStep
  BY <1>6 DEF PollStep, RunStep, Next
<1> QED BY <1>1, <1>2, <1>3, <1>4, <1>5, <1>6 DEF CoreNext, LoopMove

\* The loop drives the scheduler as its specification allows.
THEOREM CoreDrivesScheduler == CoreSpec => DrivesScheduler
<1>1. CoreInit => Init /\ SubmitTyped
  BY DEF CoreInit, SubmitTyped
<1> QED BY <1>1, SubmitTypeStep, CoreStepDrives, PTL
        DEF CoreSpec, DrivesScheduler, SafetySpec

\* So what is proved of the scheduler holds while the core runs.
THEOREM CoreKeepsScheduler ==
    CoreSpec => /\ [](TypeOK /\ SlotsConsistent /\ OnePlace /\ BatchBounded)
                /\ [](FirstComeFirstServed /\ WorkConserving)
                /\ [](AbortsApplied /\ TokenBudget /\ StreamExact /\ OneIncrementPerStep)
                /\ EndIsFinal
BY CoreDrivesScheduler, TypeCorrect, SlotsAgree, InOnePlace, BatchWithinLimit,
   ServedInOrder, AdmissionConserves, AbortsTakeEffect, BudgetKept, StreamsExact,
   OneIncrement, EndsAreFinal, PTL DEF DrivesScheduler

-----------------------------------------------------------------------------
(* Type correctness.                                                       *)

\* Coalescing and extending keep increments well formed.
LEMMA CoalesceType ==
    ASSUME NEW a \in Increments, NEW b \in Increments
    PROVE  Coalesce(a, b) \in Increments
<1>1. a.toks \in Seq(Nat) /\ b.toks \in Seq(Nat)
  BY DEF Increments
<1>2. a.toks \o b.toks \in Seq(Nat)
  BY <1>1, ConcatProperties
<1>3. \A toks \in Seq(Nat) : [b EXCEPT !.toks = toks] \in Increments
  BY DEF Increments
<1>4. Coalesce(a, b) = [b EXCEPT !.toks = a.toks \o b.toks]
  BY DEF Coalesce
<1> QED BY <1>2, <1>3, <1>4

Received == [toks : Seq(Nat), reason : Reasons \cup {"none"}, total : Nat]

\* CoreTypeOK but for the scheduler and for inFlight, which never goes negative
\* because it counts (SlotsCounted below).
ChanType ==
    /\ loop \in LoopStates /\ serving \in BOOLEAN /\ ctxDone \in BOOLEAN
    /\ outs \subseteq Requests /\ closed \subseteq Requests
    /\ ch \in [Requests -> Seq(Increments)]
    /\ held \in [Requests -> Seq(Increments)]
    /\ outbox \in Seq(Increments)
    /\ client \in [Requests -> ClientStates]
    /\ got \in [Requests -> Received]

\* The channels, the backlogs and the handlers keep their types.
LEMMA ChanTypeStep ==
    TypeOK /\ SubmitTyped /\ ChanType /\ [CoreNext]_allVars => ChanType'
<1> SUFFICES ASSUME TypeOK, SubmitTyped, ChanType, [CoreNext]_allVars PROVE ChanType'
  OBVIOUS
<1> USE DEF ChanType
<1>1. CASE UNCHANGED allVars
  BY <1>1 DEF allVars, coreVars, chanVars
<1>2. ASSUME NEW r \in Requests, Register(r) \/ SendSubmit(r) \/ SeeClosed(r) \/ HangUp(r)
      PROVE  ChanType'
  BY <1>2 DEF Register, SendSubmit, SeeClosed, HangUp, chanVars, ClientStates
<1>3. ASSUME NEW r \in Requests, Receive(r) PROVE ChanType'
  <2>1. /\ ch[r] \in Seq(Increments) /\ ch[r] # <<>>
        /\ Head(ch[r]) \in Increments /\ Tail(ch[r]) \in Seq(Increments)
    BY <1>3, HeadTailProperties DEF Receive
  <2> DEFINE o == Head(ch[r])
  <2>2. /\ o.toks \in Seq(Nat) /\ o.reason \in Reasons \cup {"none"} /\ o.total \in Nat
        /\ got[r].toks \in Seq(Nat)
    BY <2>1 DEF Increments, Received
  <2>3. got[r].toks \o o.toks \in Seq(Nat)
    BY <2>2, ConcatProperties
  <2>4. [toks |-> got[r].toks \o o.toks, reason |-> o.reason, total |-> o.total]
           \in Received
    BY <2>2, <2>3 DEF Received
  <2>5. /\ got' = [got EXCEPT ![r] = [toks |-> got[r].toks \o o.toks,
                                     reason |-> o.reason, total |-> o.total]]
        /\ ch' = [ch EXCEPT ![r] = Tail(ch[r])]
        /\ client' \in [Requests -> ClientStates]
        /\ UNCHANGED <<loop, serving, ctxDone, outs, held, closed, outbox>>
    BY <1>3 DEF Receive, ClientStates
  <2> HIDE DEF o
  <2> QED BY <2>1, <2>4, <2>5
<1>4. CASE Cancel \/ EndDeliver \/ DrainOne \/ EndDrain \/ IdleSubmit \/ IdleWake
           \/ IdleStop \/ PollStop \/ PollStep
  BY <1>4 DEF Cancel, EndDeliver, DrainOne, EndDrain, IdleSubmit, IdleWake,
              IdleStop, PollStop, PollStep, chanVars, LoopStates
<1>5. CASE Deliver
  <2> DEFINE r == Head(outbox).id
             o == IF held[r] = <<>> THEN Head(outbox)
                  ELSE Coalesce(Head(held[r]), Head(outbox))
  <2>1. /\ Head(outbox) \in Increments /\ outbox' = Tail(outbox)
        /\ Tail(outbox) \in Seq(Increments)
    BY <1>5, HeadTailProperties DEF Deliver
  <2>2. r \in Requests
    BY <2>1 DEF Increments
  <2>3. o \in Increments
    <3>1. CASE held[r] = <<>>
      BY <2>1, <3>1
    <3>2. CASE held[r] # <<>>
      <4>1. Head(held[r]) \in Increments
        BY <2>2, <3>2, HeadTailProperties
      <4> QED BY <2>1, <3>2, <4>1, CoalesceType
    <3> QED BY <3>1, <3>2
  <2>4. UNCHANGED <<loop, serving, ctxDone, client, got>>
    BY <1>5 DEF Deliver
  <2>5. \/ UNCHANGED chanVars
        \/ /\ ch' = [ch EXCEPT ![r] = Append(ch[r], o)]
           /\ held' = [held EXCEPT ![r] = <<>>]
           /\ CloseAll(IF IsFinal(o) THEN {r} ELSE {})
        \/ held' = [held EXCEPT ![r] = <<o>>] /\ UNCHANGED <<outs, ch, closed>>
    BY <1>5 DEF Deliver
  <2> HIDE DEF r, o
  <2>6. /\ Append(ch[r], o) \in Seq(Increments) /\ <<o>> \in Seq(Increments)
        /\ <<>> \in Seq(Increments)
    BY <2>2, <2>3, AppendProperties
  <2>7. CASE UNCHANGED chanVars
    BY <2>1, <2>4, <2>7 DEF chanVars
  <2>8. CASE /\ ch' = [ch EXCEPT ![r] = Append(ch[r], o)]
             /\ held' = [held EXCEPT ![r] = <<>>]
             /\ CloseAll(IF IsFinal(o) THEN {r} ELSE {})
    <3>1. outs' \subseteq Requests /\ closed' \subseteq Requests
      BY <2>2, <2>8 DEF CloseAll
    <3> QED BY <2>1, <2>2, <2>4, <2>6, <2>8, <3>1
  <2>9. CASE held' = [held EXCEPT ![r] = <<o>>] /\ UNCHANGED <<outs, ch, closed>>
    BY <2>1, <2>2, <2>4, <2>6, <2>9
  <2> QED BY <2>5, <2>7, <2>8, <2>9
<1>6. CASE Flush
  <2> DEFINE backlog == {r \in outs : held[r] # <<>>}
             sent    == {r \in backlog : Len(ch[r]) < ChanCap}
  <2>1. /\ ch' = [r \in Requests |-> IF r \in sent THEN ch[r] \o held[r] ELSE ch[r]]
        /\ held' = [r \in Requests |-> IF r \in sent THEN <<>> ELSE held[r]]
        /\ CloseAll({r \in sent : IsFinal(Head(held[r]))})
        /\ loop' \in LoopStates
        /\ UNCHANGED <<serving, ctxDone, outbox, client, got>>
    BY <1>6 DEF Flush, LoopStates
  <2>2. sent \subseteq Requests
    OBVIOUS
  <2>3. <<>> \in Seq(Increments) /\ \A r \in Requests : ch[r] \o held[r] \in Seq(Increments)
    BY ConcatProperties, EmptySeq
  <2> HIDE DEF sent, backlog
  <2>4. ch' \in [Requests -> Seq(Increments)] /\ held' \in [Requests -> Seq(Increments)]
    BY <2>1, <2>3
  <2>5. outs' \subseteq Requests /\ closed' \subseteq Requests
    BY <2>1, <2>2 DEF CloseAll
  <2> QED BY <2>1, <2>4, <2>5
<1>7. CASE RunStep
  <2>1. out \in Seq(Increments)
    BY DEF TypeOK
  <2> QED BY <1>7, <2>1 DEF RunStep, chanVars, LoopStates
<1>8. CASE Shutdown
  <2>1. <<>> \in Seq(Increments)
    BY EmptySeq
  <2> QED BY <1>8, <2>1 DEF Shutdown, LoopStates
<1> QED BY <1>1, <1>2, <1>3, <1>4, <1>5, <1>6, <1>7, <1>8 DEF CoreNext, LoopMove

-----------------------------------------------------------------------------
(* The slots: admission control counts the open channels.                  *)

\* SlotsCounted, with what makes it inductive: a closed channel had a slot.
SlotsInv ==
    /\ IsFiniteSet(outs) /\ SlotsCounted
    /\ \A r \in closed : client[r] \notin {"new", "refused"}

\* Closing channels frees their slots.
LEMMA CloseAllCounts ==
    ASSUME ChanType, SlotsInv, NEW S \in SUBSET outs, CloseAll(S), client' = client
    PROVE  SlotsInv'
<1>1. /\ outs' = outs \ S /\ closed' = closed \cup S
      /\ inFlight' = inFlight - Cardinality(S)
  BY DEF CloseAll
<1>2. /\ IsFiniteSet(outs \ S) /\ IsFiniteSet(S)
      /\ Cardinality(outs \ S) = Cardinality(outs) - Cardinality(outs \cap S)
      /\ Cardinality(S) \in Nat /\ Cardinality(outs) \in Nat
  BY FS_Difference, FS_Subset, FS_CardinalityType DEF SlotsInv
<1>3. outs \cap S = S
  OBVIOUS
<1>4. inFlight' = Cardinality(outs')
  BY <1>1, <1>2, <1>3 DEF SlotsInv, SlotsCounted
<1>5. MaxConcurrent > 0 => inFlight' <= MaxConcurrent
  BY <1>1, <1>2, CoreAssumption DEF SlotsInv, SlotsCounted
<1>6. \A r \in Requests :
        r \in outs' <=> client'[r] \notin {"new", "refused"} /\ r \notin closed'
  BY <1>1 DEF SlotsInv, SlotsCounted, ChanType
<1>7. \A r \in closed' : client'[r] \notin {"new", "refused"}
  BY <1>1 DEF SlotsInv, SlotsCounted, ChanType
<1> QED BY <1>1, <1>2, <1>4, <1>5, <1>6, <1>7 DEF SlotsInv, SlotsCounted

\* A handler's move that leaves the slots alone.
LEMMA HandlerCounts ==
    ASSUME ChanType, SlotsInv, UNCHANGED <<outs, closed, inFlight>>,
           NEW r \in Requests, client[r] \notin {"new", "refused"},
           NEW st, st \notin {"new", "refused"},
           client' = [client EXCEPT ![r] = st] \/ client' = client
    PROVE  SlotsInv'
BY DEF ChanType, SlotsInv, SlotsCounted

\* Each step keeps the count.
LEMMA SlotsStep == ChanType /\ SlotsInv /\ [CoreNext]_allVars => SlotsInv'
<1> SUFFICES ASSUME ChanType, SlotsInv, [CoreNext]_allVars PROVE SlotsInv'
  OBVIOUS
<1>1. ASSUME UNCHANGED <<outs, closed, inFlight, client>> PROVE SlotsInv'
  BY <1>1 DEF SlotsInv, SlotsCounted
<1>2. CASE \/ UNCHANGED allVars
           \/ Cancel \/ EndDeliver \/ DrainOne \/ EndDrain \/ IdleSubmit \/ IdleWake
           \/ IdleStop \/ PollStop \/ PollStep \/ RunStep
  BY <1>1, <1>2 DEF allVars, coreVars, chanVars, Cancel, EndDeliver, DrainOne,
       EndDrain, IdleSubmit, IdleWake, IdleStop, PollStop, PollStep, RunStep
<1>3. ASSUME NEW r \in Requests, Register(r) PROVE SlotsInv'
  <2>1. CASE client' = [client EXCEPT ![r] = "refused"] /\ UNCHANGED <<inFlight, outs>>
    <3>1. closed' = closed /\ client[r] = "new"
      BY <1>3 DEF Register
    <3> QED BY <2>1, <3>1 DEF SlotsInv, SlotsCounted, ChanType
  <2>2. CASE /\ ~AtCapacity /\ client' = [client EXCEPT ![r] = "sending"]
             /\ inFlight' = inFlight + 1 /\ outs' = outs \cup {r}
    <3>1. closed' = closed /\ client[r] = "new" /\ r \notin outs /\ r \notin closed
      BY <1>3 DEF Register, SlotsInv, SlotsCounted
    <3>2. /\ IsFiniteSet(outs \cup {r})
          /\ Cardinality(outs \cup {r}) = Cardinality(outs) + 1
          /\ Cardinality(outs) \in Nat
      BY <3>1, FS_AddElement, FS_CardinalityType DEF SlotsInv
    <3>3. /\ inFlight' = Cardinality(outs')
          /\ MaxConcurrent > 0 => inFlight' <= MaxConcurrent
      BY <2>2, <3>2, CoreAssumption DEF SlotsInv, SlotsCounted, AtCapacity
    <3>4. /\ \A s \in Requests :
               s \in outs' <=> client'[s] \notin {"new", "refused"} /\ s \notin closed'
          /\ \A s \in closed' : client'[s] \notin {"new", "refused"}
      BY <2>2, <3>1 DEF SlotsInv, SlotsCounted, ChanType
    <3> QED BY <2>2, <3>2, <3>3, <3>4 DEF SlotsInv, SlotsCounted
  <2> QED BY <1>3, <2>1, <2>2 DEF Register
<1>4. ASSUME NEW r \in Requests,
             SendSubmit(r) \/ Receive(r) \/ SeeClosed(r) \/ HangUp(r)
      PROVE  SlotsInv'
  <2>1. /\ client[r] \in {"sending", "open"} /\ UNCHANGED <<outs, closed, inFlight>>
        /\ \/ client' = client
           \/ \E st \in {"open", "done", "gone"} : client' = [client EXCEPT ![r] = st]
    BY <1>4 DEF SendSubmit, Receive, SeeClosed, HangUp, chanVars
  <2> QED BY <2>1, HandlerCounts
<1>5. CASE Deliver
  <2>1. client' = client
    BY <1>5 DEF Deliver
  <2>2. \/ UNCHANGED <<outs, closed, inFlight>>
        \/ \E S \in SUBSET outs : CloseAll(S)
    BY <1>5 DEF Deliver, chanVars
  <2> QED BY <1>1, <2>1, <2>2, CloseAllCounts
<1>6. CASE Flush
  <2> DEFINE S == {r \in {s \in {t \in outs : held[t] # <<>>} : Len(ch[s]) < ChanCap} :
                     IsFinal(Head(held[r]))}
  <2>1. CloseAll(S) /\ client' = client
    BY <1>6 DEF Flush
  <2>2. S \in SUBSET outs
    OBVIOUS
  <2> HIDE DEF S
  <2> QED BY <2>1, <2>2, CloseAllCounts
<1>7. CASE Shutdown
  <2>1. /\ outs' = {} /\ closed' = closed \cup outs /\ inFlight' = 0 /\ client' = client
    BY <1>7 DEF Shutdown
  <2>2. IsFiniteSet({}) /\ Cardinality({}) = 0
    BY FS_EmptySet
  <2>3. /\ \A s \in Requests :
             s \in outs' <=> client'[s] \notin {"new", "refused"} /\ s \notin closed'
        /\ \A s \in closed' : client'[s] \notin {"new", "refused"}
    BY <2>1 DEF SlotsInv, SlotsCounted, ChanType
  <2> QED BY <2>1, <2>2, <2>3, CoreAssumption DEF SlotsInv, SlotsCounted
<1> QED BY <1>2, <1>3, <1>4, <1>5, <1>6, <1>7 DEF CoreNext, LoopMove

\* The initial state has no request anywhere.
LEMMA CoreInitInv == CoreInit => SubmitTyped /\ ChanType /\ SlotsInv
<1> SUFFICES ASSUME CoreInit PROVE SubmitTyped /\ ChanType /\ SlotsInv
  OBVIOUS
<1>1. SubmitTyped
  BY DEF CoreInit, SubmitTyped
<1>2. ChanType
  <2>1. Nothing \in Received
    <3>1. <<>> \in Seq(Nat)
      BY EmptySeq
    <3> QED BY <3>1 DEF Nothing, Received
  <2>2. /\ ch \in [Requests -> Seq(Increments)]
        /\ held \in [Requests -> Seq(Increments)] /\ outbox \in Seq(Increments)
    BY DEF CoreInit
  <2>3. client \in [Requests -> ClientStates] /\ got \in [Requests -> Received]
    BY <2>1 DEF CoreInit, ClientStates
  <2> QED BY <2>2, <2>3 DEF CoreInit, ChanType, LoopStates
<1>3. SlotsInv
  <2>1. IsFiniteSet({}) /\ Cardinality({}) = 0
    BY FS_EmptySet
  <2> QED BY <2>1, CoreAssumption DEF CoreInit, SlotsInv, SlotsCounted
<1> QED BY <1>1, <1>2, <1>3

\* inFlight is the number of open channels, and admission control holds.
THEOREM SlotsAreCounted == CoreSpec => []SlotsCounted
<1>1. SlotsInv => SlotsCounted
  BY DEF SlotsInv
<1>2. CoreSpec => []TypeOK
  BY CoreDrivesScheduler, TypeCorrect, PTL DEF DrivesScheduler
<1> QED BY <1>1, <1>2, CoreInitInv, SubmitTypeStep, ChanTypeStep, SlotsStep, PTL
        DEF CoreSpec

\* Every variable of the core stays in its type; the count never goes negative.
THEOREM CoreTypeCorrect == CoreSpec => []CoreTypeOK
<1>1. TypeOK /\ SubmitTyped /\ ChanType /\ SlotsInv => CoreTypeOK
  BY FS_CardinalityType
     DEF CoreTypeOK, SubmitTyped, ChanType, SlotsInv, SlotsCounted, Received
<1>2. CoreSpec => []TypeOK
  BY CoreDrivesScheduler, TypeCorrect, PTL DEF DrivesScheduler
<1> QED BY <1>1, <1>2, CoreInitInv, SubmitTypeStep, ChanTypeStep, SlotsStep, PTL
        DEF CoreSpec

-----------------------------------------------------------------------------
(* Submit never blocks: whoever is on the way into the scheduler holds a   *)
(* slot, so no more of them than slots can be in front of the queue.       *)

Known(inc) == inc.id \in Requests /\ status[inc.id] # "new"

\* While it is not submitting, the loop moves no request away from "new", and what it
\* says is about requests that the scheduler has.
LEMMA NewUntouched ==
    ASSUME Consistent, BeginStep \/ StepMove \/ (\E r \in Requests : Abort(r)) \/ UNCHANGED vars
    PROVE  /\ \A s \in Requests : status'[s] = "new" <=> status[s] = "new"
           /\ \/ out' = out \/ out' = <<>>
              \/ \E inc : Known(inc) /\ out' = Append(out, inc)
<1>0. /\ status \in [Requests -> Statuses] /\ waiting \in Seq(Requests)
      /\ running \subseteq Requests
      /\ \A i \in DOMAIN waiting : waiting[i] \in Requests
      /\ \A s \in Requests : /\ status[s] = "waiting" <=> IsWaiting(s)
                             /\ status[s] = "running" <=> s \in running
  BY ElementOfSeq, LenProperties DEF Consistent, TypeOK, OnePlace
<1> DEFINE Goal == /\ \A s \in Requests : status'[s] = "new" <=> status[s] = "new"
                   /\ \/ out' = out \/ out' = <<>>
                      \/ \E inc : Known(inc) /\ out' = Append(out, inc)
<1>1. CASE \/ BeginStep \/ EndAborts \/ EndAdmit \/ Decode \/ DecodeError
           \/ EndProcess \/ EndFail \/ Return \/ UNCHANGED vars
           \/ \E r \in Requests : Abort(r)
  BY <1>1 DEF BeginStep, EndAborts, EndAdmit, Decode, DecodeError, EndProcess,
              EndFail, Return, vars, Abort
<1>2. ASSUME NEW r \in Requests, status[r] # "new", NEW st, st # "new",
             status' = status \/ status' = [status EXCEPT ![r] = st],
             out' = out \/ \E inc : inc.id = r /\ out' = Append(out, inc)
      PROVE  Goal
  BY <1>0, <1>2 DEF Known
<1>3. CASE CancelWaiting
  <2>1. PICK i \in DOMAIN waiting :
          /\ status' = [status EXCEPT ![waiting[i]] = "aborted"]
          /\ Emit(Increment(waiting[i], <<>>, "abort", generated[waiting[i]]))
    BY <1>3 DEF CancelWaiting
  <2>2. waiting[i] \in Requests /\ status[waiting[i]] # "new"
    BY <1>0 DEF IsWaiting
  <2> QED BY <2>1, <2>2, <1>2 DEF Emit, Increment
<1>4. ASSUME NEW r \in Requests, CancelRunning(r) \/ FailOne(r) PROVE Goal
  <2>1. /\ status[r] # "new"
        /\ \E st \in {"aborted", "error"} : status' = [status EXCEPT ![r] = st]
        /\ \E inc : inc.id = r /\ out' = Append(out, inc)
    BY <1>0, <1>4 DEF CancelRunning, FailOne, Emit, Increment
  <2> HIDE DEF Goal
  <2> QED BY <2>1, <1>2
<1>5. CASE Admit \/ RejectInsert
  <2>1. waiting # <<>>
    BY <1>5 DEF Admit, RejectInsert, SlotFree
  <2>2. Head(waiting) \in Requests /\ status[Head(waiting)] = "waiting"
    BY <1>0, <2>1, TailIsRemoveFirst DEF IsWaiting
  <2>3. /\ out' = out
        /\ \E st \in {"running", "error"} : status' = [status EXCEPT ![Head(waiting)] = st]
    BY <1>5 DEF Admit, RejectInsert
  <2> HIDE DEF Goal
  <2> QED BY <2>2, <2>3, <1>2
<1>6. ASSUME NEW u \in results, NEW kind \in Kinds,
             NEW declared \in {"none", "stop", "length"}, ProcessToken(u, kind, declared)
      PROVE  Goal
  <2> DEFINE r == uidToReq[u]
  <2>1. u \in DOMAIN uidToReq /\ r \in running /\ r \in Requests
    BY <1>0 DEF Consistent, SlotsConsistent
  <2>2. status[r] = "running"
    BY <1>0, <2>1
  <2>3. /\ \E inc : inc.id = r /\ out' = Append(out, inc)
        /\ \/ status' = status
           \/ \E st \in Ended : status' = [status EXCEPT ![r] = st]
    BY <1>6, <2>1, StatusForType DEF ProcessToken, Emit, Increment
  <2>4. \A st \in Ended : st # "new"
    BY DEF Ended
  <2> HIDE DEF Goal, r
  <2> QED BY <2>1, <2>2, <2>3, <2>4, <1>2
<1> QED BY <1>1, <1>3, <1>4, <1>5, <1>6 DEF StepMove

\* A request is "new" until the loop takes it from submitCh, and nothing is said about
\* it before; so its channel is not closed while the loop runs.
Unheard ==
    /\ \A i \in DOMAIN out : status[out[i].id] # "new"
    /\ \A i \in DOMAIN outbox : status[outbox[i].id] # "new"
    /\ \A r \in Requests : held[r] # <<>> => status[r] # "new"
    /\ serving => \A r \in closed : status[r] # "new"

\* submitCh holds requests that are sent and not yet taken, each once.
QueueInv ==
    /\ \A i, j \in DOMAIN submitCh : submitCh[i] = submitCh[j] => i = j
    /\ \A i \in DOMAIN submitCh : /\ client[submitCh[i]] \notin {"new", "refused", "sending"}
                                  /\ status[submitCh[i]] = "new"
    /\ \A r \in Requests : client[r] \in {"new", "refused", "sending"} => status[r] = "new"

\* What a step of the core does to statuses, to submitCh and to what the step says.
Told ==
    /\ \A s \in Requests : status'[s] = "new" <=> status[s] = "new"
    /\ \/ out' = out \/ out' = <<>>
       \/ \E inc : Known(inc) /\ out' = Append(out, inc)
    /\ UNCHANGED submitCh \/ \E r \in Requests : SendSubmit(r)

Taken ==
    /\ submitCh # <<>> /\ submitCh' = Tail(submitCh)
    /\ status' = [status EXCEPT ![Head(submitCh)] = "waiting"]
    /\ UNCHANGED <<out, outbox, held, closed, outs, serving, client>>

LEMMA QueueEffect ==
    ASSUME Consistent, [CoreNext]_allVars
    PROVE  Told \/ Taken
<1>1. CASE DrainOne \/ IdleSubmit
  BY <1>1 DEF DrainOne, IdleSubmit, AddRequest, chanVars, Taken
<1>2. ASSUME BeginStep \/ StepMove \/ (\E r \in Requests : Abort(r)) \/ UNCHANGED vars,
             UNCHANGED submitCh \/ \E r \in Requests : SendSubmit(r)
      PROVE  Told
  BY <1>2, NewUntouched DEF Told
<1>3. CASE UNCHANGED allVars
  BY <1>2, <1>3 DEF allVars, coreVars
<1>4. ASSUME NEW r \in Requests,
             Register(r) \/ SendSubmit(r) \/ Receive(r) \/ SeeClosed(r) \/ HangUp(r)
      PROVE  Told
  BY <1>2, <1>4 DEF Register, SendSubmit, Receive, SeeClosed, HangUp
<1>5. CASE \/ Cancel \/ EndDrain \/ Flush \/ IdleWake \/ IdleStop \/ PollStop
           \/ PollStep \/ RunStep \/ Deliver \/ EndDeliver \/ Shutdown
  BY <1>2, <1>5 DEF Cancel, EndDrain, Flush, IdleWake, IdleStop, PollStop, PollStep,
              RunStep, Deliver, EndDeliver, Shutdown
<1> QED BY <1>1, <1>3, <1>4, <1>5 DEF CoreNext, LoopMove

LEMMA UnheardStep ==
    ASSUME Consistent, SubmitTyped, ChanType, QueueInv, Unheard, [CoreNext]_allVars
    PROVE  Unheard'
<1>0. /\ status \in [Requests -> Statuses] /\ out \in Seq(Increments)
      /\ outbox \in Seq(Increments) /\ held \in [Requests -> Seq(Increments)]
      /\ closed \subseteq Requests /\ outs \subseteq Requests
      /\ \A i \in DOMAIN out : out[i].id \in Requests
      /\ \A i \in DOMAIN outbox : outbox[i].id \in Requests
  <2>1. out \in Seq(Increments) /\ outbox \in Seq(Increments)
    BY DEF Consistent, TypeOK, ChanType
  <2>2. \A inc \in Increments : inc.id \in Requests
    BY DEF Increments
  <2> QED BY <2>1, <2>2, ElementOfSeq, LenProperties DEF Consistent, TypeOK, ChanType
<1>1. CASE Taken
  <2>1. Head(submitCh) \in Requests
    BY <1>1, HeadTailProperties DEF SubmitTyped, Taken
  <2>2. \A s \in Requests : status'[s] = "new" => status[s] = "new"
    BY <1>0, <1>1, <2>1 DEF Taken
  <2> QED BY <1>0, <1>1, <2>2 DEF Unheard, Taken
<1>2. CASE Told
  <2>0. \A s \in Requests : status'[s] = "new" <=> status[s] = "new"
    BY <1>2 DEF Told
  <2>1. \A i \in DOMAIN out' : status'[out'[i].id] # "new"
    <3>1. CASE out' = out \/ out' = <<>>
      BY <1>0, <1>2, <3>1 DEF Unheard, Told
    <3>2. ASSUME NEW inc, Known(inc), out' = Append(out, inc)
          PROVE  \A i \in DOMAIN out' : status'[out'[i].id] # "new"
      <4>1. out \in Seq(Increments \cup {inc})
        BY <1>0
      <4>2. /\ DOMAIN out' = 1..Len(out) + 1 /\ DOMAIN out = 1..Len(out) /\ Len(out) \in Nat
            /\ \A i \in DOMAIN out : out'[i] = out[i]
            /\ out'[Len(out) + 1] = inc
        BY <3>2, <4>1, AppendProperties, LenProperties
      <4>3. \A i \in DOMAIN out' : i \in DOMAIN out \/ i = Len(out) + 1
        BY <4>2
      <4>4. \A i \in DOMAIN out : status'[out[i].id] # "new"
        BY <1>0, <2>0 DEF Unheard
      <4>5. status'[inc.id] # "new"
        BY <2>0, <3>2 DEF Known
      <4> QED BY <4>2, <4>3, <4>4, <4>5
    <3> QED BY <1>2, <3>1, <3>2 DEF Told
  <2>2. \A i \in DOMAIN outbox' : status'[outbox'[i].id] # "new"
    <3>1. CASE outbox' = outbox \/ outbox' = out
      BY <1>0, <1>2, <3>1 DEF Unheard, Told
    <3>2. CASE outbox # <<>> /\ outbox' = Tail(outbox)
      <4>1. /\ DOMAIN outbox' = 1..Len(outbox) - 1 /\ DOMAIN outbox = 1..Len(outbox)
            /\ Len(outbox) \in Nat
            /\ \A i \in DOMAIN outbox' : outbox'[i] = outbox[i + 1]
        BY <1>0, <3>2, HeadTailProperties, LenProperties
      <4>2. \A i \in DOMAIN outbox' : i + 1 \in DOMAIN outbox
        BY <4>1
      <4> QED BY <1>0, <1>2, <4>1, <4>2 DEF Unheard, Told
    <3>3. outbox' = outbox \/ outbox' = out \/ (outbox # <<>> /\ outbox' = Tail(outbox))
      <4>1. ASSUME NEW r \in Requests,
                   Register(r) \/ SendSubmit(r) \/ Receive(r) \/ SeeClosed(r) \/ HangUp(r)
            PROVE  outbox' = outbox
        BY <4>1 DEF Register, SendSubmit, Receive, SeeClosed, HangUp
      <4>2. CASE \/ Cancel \/ EndDrain \/ Flush \/ IdleWake \/ IdleStop \/ PollStop
                 \/ PollStep \/ EndDeliver \/ Shutdown \/ DrainOne \/ IdleSubmit
                 \/ UNCHANGED allVars
        BY <4>2 DEF Cancel, EndDrain, Flush, IdleWake, IdleStop, PollStop, PollStep,
                    EndDeliver, Shutdown, DrainOne, IdleSubmit, allVars, coreVars
      <4>3. CASE RunStep
        BY <4>3 DEF RunStep
      <4>4. CASE Deliver
        BY <4>4 DEF Deliver
      <4> QED BY <4>1, <4>2, <4>3, <4>4 DEF CoreNext, LoopMove
    <3> QED BY <3>1, <3>2, <3>3
  <2>3. \/ UNCHANGED <<held, closed, serving>>
        \/ Deliver \/ Flush \/ Shutdown
    BY DEF CoreNext, LoopMove, allVars, coreVars, chanVars, Register, SendSubmit, Receive,
           SeeClosed, HangUp, Cancel, EndDrain, IdleWake, IdleStop, PollStop, PollStep,
           RunStep, EndDeliver, DrainOne, IdleSubmit
  <2>4. CASE UNCHANGED <<held, closed, serving>>
    BY <1>0, <1>2, <2>1, <2>2, <2>4 DEF Unheard, Told
  <2>5. CASE Deliver
    <3>1. /\ Head(outbox).id \in Requests /\ status[Head(outbox).id] # "new"
          /\ \A r \in Requests \ {Head(outbox).id} : held'[r] = held[r]
          /\ closed' \subseteq closed \cup {Head(outbox).id} /\ serving' = serving
      <4>1. outbox # <<>> /\ outbox[1] = Head(outbox) /\ 1 \in DOMAIN outbox
        BY <1>0, <2>5, HeadTailProperties, LenProperties, TailIsRemoveFirst DEF Deliver
      <4>2. /\ \A r \in Requests \ {Head(outbox).id} : held'[r] = held[r]
            /\ closed' \subseteq closed \cup {Head(outbox).id} /\ serving' = serving
        BY <1>0, <2>5 DEF Deliver, CloseAll, chanVars
      <4> QED BY <1>0, <4>1, <4>2 DEF Unheard
    <3> QED BY <1>0, <1>2, <2>1, <2>2, <3>1 DEF Unheard, Told
  <2>6. CASE Flush
    <3>1. /\ \A r \in Requests : held'[r] = held[r] \/ held'[r] = <<>>
          /\ \A r \in closed' : r \in closed \/ (r \in Requests /\ held[r] # <<>>)
          /\ serving' = serving
      <4> DEFINE backlog == {r \in outs : held[r] # <<>>}
                 sent    == {r \in backlog : Len(ch[r]) < ChanCap}
      <4>1. /\ held' = [r \in Requests |-> IF r \in sent THEN <<>> ELSE held[r]]
            /\ CloseAll({r \in sent : IsFinal(Head(held[r]))})
            /\ serving' = serving
        BY <2>6 DEF Flush
      <4>2. \A r \in sent : r \in Requests /\ held[r] # <<>>
        BY <1>0
      <4> HIDE DEF sent, backlog
      <4>3. \A r \in Requests : held'[r] = held[r] \/ held'[r] = <<>>
        BY <4>1
      <4>4. closed' \subseteq closed \cup sent
        BY <4>1 DEF CloseAll
      <4>5. \A r \in closed' : r \in closed \/ (r \in Requests /\ held[r] # <<>>)
        BY <4>2, <4>4
      <4> HIDE DEF sent, backlog
      <4> QED BY <2>6, <4>3, <4>5 DEF Flush
    <3> QED BY <1>0, <1>2, <2>1, <2>2, <3>1 DEF Unheard, Told
  <2>7. CASE Shutdown
    <3>1. (\A r \in Requests : held'[r] = <<>>) /\ serving' = FALSE
      BY <2>7 DEF Shutdown
    <3> QED BY <2>1, <2>2, <3>1 DEF Unheard
  <2> QED BY <2>3, <2>4, <2>5, <2>6, <2>7
<1> QED BY <1>1, <1>2, QueueEffect

\* Submissions are sent once, and taken from the head.
LEMMA QueueStep ==
    ASSUME Consistent, SubmitTyped, ChanType, QueueInv, [CoreNext]_allVars
    PROVE  QueueInv'
<1>0. /\ status \in [Requests -> Statuses] /\ client \in [Requests -> ClientStates]
      /\ \A i \in DOMAIN submitCh : submitCh[i] \in Requests
      /\ DOMAIN submitCh = 1..Len(submitCh) /\ Len(submitCh) \in Nat
  BY ElementOfSeq, LenProperties DEF Consistent, TypeOK, ChanType, SubmitTyped
<1>1. CASE Taken
  <2>1. /\ Head(submitCh) = submitCh[1] /\ 1 \in DOMAIN submitCh
        /\ DOMAIN submitCh' = 1..Len(submitCh) - 1
        /\ \A i \in DOMAIN submitCh' : submitCh'[i] = submitCh[i + 1]
    BY <1>0, <1>1, HeadTailProperties, LenProperties, TailIsRemoveFirst DEF SubmitTyped, Taken
  <2>2. \A i \in DOMAIN submitCh' : i + 1 \in DOMAIN submitCh /\ i + 1 # 1
    BY <1>0, <2>1
  <2>3. \A i, j \in DOMAIN submitCh' : submitCh'[i] = submitCh'[j] => i = j
    BY <2>1, <2>2 DEF QueueInv
  <2>4. /\ client' = client
        /\ \A r \in Requests \ {submitCh[1]} : status'[r] = status[r]
    BY <1>0, <1>1, <2>1 DEF Taken
  <2>5. \A i \in DOMAIN submitCh' : submitCh'[i] # submitCh[1]
    BY <2>1, <2>2 DEF QueueInv
  <2> QED BY <1>0, <2>1, <2>2, <2>3, <2>4, <2>5 DEF QueueInv
<1>2. ASSUME Told, NEW r \in Requests, SendSubmit(r) PROVE QueueInv'
  <2>1. /\ client[r] = "sending" /\ submitCh' = Append(submitCh, r)
        /\ client' = [client EXCEPT ![r] = "open"]
    BY <1>2 DEF SendSubmit
  <2>2. /\ DOMAIN submitCh' = 1..Len(submitCh) + 1
        /\ \A i \in DOMAIN submitCh : submitCh'[i] = submitCh[i]
        /\ submitCh'[Len(submitCh) + 1] = r
    BY <1>0, <2>1, AppendProperties, LenProperties DEF SubmitTyped
  <2>3. \A i \in DOMAIN submitCh : submitCh[i] # r
    BY <2>1 DEF QueueInv
  <2>4. \A i \in DOMAIN submitCh' : i \in DOMAIN submitCh \/ i = Len(submitCh) + 1
    BY <1>0, <2>2
  <2>5. \A s \in Requests : status'[s] = "new" <=> status[s] = "new"
    BY <1>2 DEF Told
  <2>6. \A s \in Requests \ {r} : client'[s] = client[s]
    BY <1>0, <2>1
  <2>7. client'[r] = "open" /\ status[r] = "new"
    BY <1>0, <2>1 DEF QueueInv
  <2>8. \A i, j \in DOMAIN submitCh' : submitCh'[i] = submitCh'[j] => i = j
    BY <2>2, <2>3, <2>4 DEF QueueInv
  <2> QED BY <1>0, <2>2, <2>3, <2>4, <2>5, <2>6, <2>7, <2>8 DEF QueueInv
<1>3. CASE Told /\ UNCHANGED submitCh
  <2>1. \A s \in Requests : status'[s] = "new" <=> status[s] = "new"
    BY <1>3 DEF Told
  <2>2. \/ UNCHANGED client
        \/ \E r \in Requests : \/ /\ client[r] = "new"
                                  /\ \E st \in {"refused", "sending"} :
                                       client' = [client EXCEPT ![r] = st]
                               \/ /\ client[r] = "open"
                                  /\ \E st \in {"done", "gone"} :
                                       client' = [client EXCEPT ![r] = st]
    <3>1. ASSUME NEW r \in Requests, SendSubmit(r) PROVE FALSE
      <4>1. submitCh' = Append(submitCh, r)
        BY <3>1 DEF SendSubmit
      <4>2. Len(submitCh') = Len(submitCh) + 1
        BY <4>1, AppendProperties DEF SubmitTyped
      <4> QED BY <1>0, <1>3, <4>2
    <3>2. ASSUME NEW r \in Requests, Register(r) \/ Receive(r) \/ SeeClosed(r) \/ HangUp(r)
          PROVE  \/ UNCHANGED client
                 \/ /\ client[r] = "new"
                    /\ \E st \in {"refused", "sending"} : client' = [client EXCEPT ![r] = st]
                 \/ /\ client[r] = "open"
                    /\ \E st \in {"done", "gone"} : client' = [client EXCEPT ![r] = st]
      BY <3>2 DEF Register, Receive, SeeClosed, HangUp
    <3>3. CASE Cancel \/ LoopMove \/ UNCHANGED allVars
      BY <3>3 DEF Cancel, LoopMove, allVars, coreVars, EndDrain, Flush, IdleWake, IdleStop,
           PollStop, PollStep, RunStep, Deliver, EndDeliver, Shutdown, DrainOne, IdleSubmit
    <3> QED BY <3>1, <3>2, <3>3 DEF CoreNext
  <2> QED BY <1>0, <1>3, <2>1, <2>2 DEF QueueInv
<1> QED BY <1>1, <1>2, <1>3, QueueEffect DEF Told

\* Those who hold a slot and are not in the scheduler yet.
Entering == {r \in Requests : client[r] = "sending"} \cup {submitCh[i] : i \in DOMAIN submitCh}

EnteringBounded ==
    IsFiniteSet(Entering) /\ (MaxConcurrent > 0 => Cardinality(Entering) <= MaxConcurrent)

\* While the loop runs they all have slots; after it nobody enters.
LEMMA EnteringHaveSlots ==
    ASSUME SubmitTyped, ChanType, SlotsInv, QueueInv, Unheard, serving
    PROVE  EnteringBounded
<1>1. Entering \subseteq outs
  <2>1. \A i \in DOMAIN submitCh : submitCh[i] \in Requests
    BY ElementOfSeq, LenProperties DEF SubmitTyped
  <2>2. \A r \in Entering : /\ r \in Requests /\ status[r] = "new"
                            /\ client[r] \notin {"new", "refused"}
    BY <2>1 DEF Entering, QueueInv
  <2>3. \A r \in Entering : r \notin closed
    BY <2>2 DEF Unheard
  <2> QED BY <2>2, <2>3 DEF SlotsInv, SlotsCounted
<1>2. /\ IsFiniteSet(Entering) /\ Cardinality(Entering) <= Cardinality(outs)
      /\ Cardinality(Entering) \in Nat /\ Cardinality(outs) \in Nat
  BY <1>1, FS_Subset, FS_CardinalityType DEF SlotsInv
<1> QED BY <1>2, CoreAssumption DEF SlotsInv, SlotsCounted, EnteringBounded

LEMMA EnteringStep ==
    ASSUME SubmitTyped, ChanType, EnteringBounded, ~serving', [CoreNext]_allVars
    PROVE  EnteringBounded'
<1>1. Entering' \subseteq Entering
  <2>1. ASSUME NEW r \in Requests, Register(r) \/ Receive(r) \/ SeeClosed(r) \/ HangUp(r)
        PROVE  Entering' \subseteq Entering
    BY <2>1 DEF Register, Receive, SeeClosed, HangUp, ChanType, Entering
  <2>2. ASSUME NEW r \in Requests, SendSubmit(r) PROVE Entering' \subseteq Entering
    <3>1. /\ client[r] = "sending" /\ submitCh' = Append(submitCh, r)
          /\ client' = [client EXCEPT ![r] = "open"]
      BY <2>2 DEF SendSubmit
    <3>2. /\ DOMAIN submitCh' = 1..Len(submitCh) + 1 /\ DOMAIN submitCh = 1..Len(submitCh)
          /\ Len(submitCh) \in Nat
          /\ \A i \in DOMAIN submitCh : submitCh'[i] = submitCh[i]
          /\ submitCh'[Len(submitCh) + 1] = r
      BY <3>1, AppendProperties, LenProperties DEF SubmitTyped
    <3>3. \A i \in DOMAIN submitCh' : i \in DOMAIN submitCh \/ i = Len(submitCh) + 1
      BY <3>2
    <3>4. \A i \in DOMAIN submitCh' : submitCh'[i] \in Entering
      BY <3>1, <3>2, <3>3 DEF Entering
    <3> QED BY <3>1, <3>4 DEF Entering, ChanType
  <2>3. CASE DrainOne \/ IdleSubmit
    <3>1. submitCh # <<>> /\ submitCh' = Tail(submitCh) /\ client' = client
      BY <2>3 DEF DrainOne, IdleSubmit
    <3>2. /\ DOMAIN submitCh' = 1..Len(submitCh) - 1 /\ DOMAIN submitCh = 1..Len(submitCh)
          /\ Len(submitCh) \in Nat
          /\ \A i \in DOMAIN submitCh' : submitCh'[i] = submitCh[i + 1]
      BY <3>1, HeadTailProperties, LenProperties DEF SubmitTyped
    <3>3. \A i \in DOMAIN submitCh' : i + 1 \in DOMAIN submitCh
      BY <3>2
    <3> QED BY <3>1, <3>2, <3>3 DEF Entering
  <2>4. CASE \/ Cancel \/ EndDrain \/ Flush \/ IdleWake \/ IdleStop \/ PollStop
             \/ PollStep \/ RunStep \/ Deliver \/ EndDeliver \/ Shutdown \/ UNCHANGED allVars
    BY <2>4 DEF Cancel, EndDrain, Flush, IdleWake, IdleStop, PollStop, PollStep, RunStep,
                Deliver, EndDeliver, Shutdown, allVars, coreVars, Entering
  <2> QED BY <2>1, <2>2, <2>3, <2>4 DEF CoreNext, LoopMove
<1>2. /\ IsFiniteSet(Entering') /\ Cardinality(Entering') <= Cardinality(Entering)
      /\ Cardinality(Entering') \in Nat /\ Cardinality(Entering) \in Nat
  BY <1>1, FS_Subset, FS_CardinalityType DEF EnteringBounded
<1> QED BY <1>2, CoreAssumption DEF EnteringBounded

\* Each place of submitCh holds another one of those who are entering, and a request
\* that is being sent is one more.
LEMMA RoomToSend ==
    ASSUME SubmitTyped, QueueInv, EnteringBounded PROVE SubmitNeverBlocks
<1> SUFFICES ASSUME MaxConcurrent \in 1..SubmitCap, NEW r \in Requests, client[r] = "sending"
             PROVE  Len(submitCh) < SubmitCap
  BY DEF SubmitNeverBlocks
<1> DEFINE Queued == {submitCh[i] : i \in DOMAIN submitCh}
           n      == Len(submitCh)
<1>1. DOMAIN submitCh = 1..n /\ n \in Nat
  BY LenProperties DEF SubmitTyped
<1>2. Queued \subseteq Entering /\ r \in Entering /\ r \notin Queued
  BY DEF Entering, QueueInv
<1>3. IsFiniteSet(Queued)
  BY <1>2, FS_Subset DEF EnteringBounded
<1>4. Cardinality(Queued) = n
  <2>1. submitCh \in Bijection(1..n, Queued)
    <3>1. submitCh \in [1..n -> Queued] /\ \A q \in Queued : \E i \in 1..n : submitCh[i] = q
      BY <1>1 DEF SubmitTyped
    <3>2. \A i, j \in 1..n : submitCh[i] = submitCh[j] => i = j
      BY <1>1 DEF QueueInv
    <3> HIDE DEF Queued, n
    <3> QED BY <3>1, <3>2 DEF Bijection, Injection, Surjection, IsInjective
  <2>2. IsFiniteSet(1..n) /\ Cardinality(1..n) = n
    <3>1. 1 \in Int /\ n \in Int /\ (1 > n => n = 0)
      BY <1>1
    <3> HIDE DEF n
    <3>2. IsFiniteSet(1..n) /\ Cardinality(1..n) = IF 1 > n THEN 0 ELSE n - 1 + 1
      BY <3>1, FS_Interval
    <3> QED BY <3>1, <3>2
  <2> QED BY <2>1, <2>2, FS_Bijection DEF ExistsBijection
<1>5. Cardinality(Queued \cup {r}) = n + 1 /\ Queued \cup {r} \subseteq Entering
  BY <1>2, <1>3, <1>4, FS_AddElement
<1>6. n + 1 <= Cardinality(Entering) /\ Cardinality(Entering) \in Nat
  BY <1>5, FS_Subset, FS_CardinalityType DEF EnteringBounded
<1> QED BY <1>1, <1>6, CoreAssumption DEF EnteringBounded

EnteringInv == QueueInv /\ Unheard /\ EnteringBounded

\* What was submitted and what enters the queue, along every behaviour.
LEMMA QueueKept == CoreSpec => []EnteringInv
<1>1. CoreInit => EnteringInv
  <2> SUFFICES ASSUME CoreInit PROVE EnteringInv
    OBVIOUS
  <2>1. Entering = {}
    BY DEF CoreInit, Entering
  <2>2. EnteringBounded
    BY <2>1, FS_EmptySet, CoreAssumption DEF EnteringBounded
  <2>3. QueueInv /\ Unheard
    BY DEF CoreInit, Init, QueueInv, Unheard
  <2> QED BY <2>2, <2>3 DEF EnteringInv
<1>2. Consistent /\ SubmitTyped /\ ChanType /\ EnteringInv /\ [CoreNext]_allVars
      => QueueInv' /\ Unheard' /\ (~serving' => EnteringBounded')
  BY QueueStep, UnheardStep, EnteringStep DEF EnteringInv
<1>3. SubmitTyped /\ ChanType /\ SlotsInv /\ QueueInv /\ Unheard /\ serving => EnteringBounded
  BY EnteringHaveSlots
<1>4. EnteringInv <=> QueueInv /\ Unheard /\ EnteringBounded
  BY DEF EnteringInv
<1>6. CoreSpec => []Consistent /\ []TypeOK
  BY CoreDrivesScheduler, TablesConsistent, TypeCorrect, PTL DEF DrivesScheduler
<1>7. CoreSpec => [](SubmitTyped /\ ChanType /\ SlotsInv)
  BY <1>6, CoreInitInv, SubmitTypeStep, ChanTypeStep, SlotsStep, PTL DEF CoreSpec
<1> QED BY <1>1, <1>2, <1>3, <1>4, <1>6, <1>7, PTL DEF CoreSpec

\* The send in Submit never blocks, also after the loop has exited, if the admission limit
\* is no larger than submitCh (core.go Submit, loop, shutdown).
THEOREM SendHasRoom == CoreSpec => []SubmitNeverBlocks
<1>1. SubmitTyped /\ EnteringInv => SubmitNeverBlocks
  BY RoomToSend DEF EnteringInv
<1>2. CoreSpec => []TypeOK
  BY CoreDrivesScheduler, TypeCorrect, PTL DEF DrivesScheduler
<1>3. CoreSpec => []SubmitTyped
  BY <1>2, CoreInitInv, SubmitTypeStep, PTL DEF CoreSpec
<1> QED BY <1>1, <1>3, QueueKept, PTL

\* Submit counts every channel, for every admission limit, and blocks nobody (core.go
\* Submit, unregister, closeAll).
THEOREM SubmitIsSound == CoreSpec => []SubmitSound
<1>1. SlotsCounted /\ SubmitNeverBlocks => SubmitSound
  BY DEF SubmitSound
<1> QED BY <1>1, SlotsAreCounted, SendHasRoom, PTL

-----------------------------------------------------------------------------
(* Channels are closed behind the end.                                     *)

NotFinal(o) == o.reason = "none"

\* What a channel holds for r: nothing final before it is closed; the end, behind
\* everything else, when the loop has closed it.
EndsLast(r) ==
    /\ Len(held[r]) <= 1
    /\ r \notin closed => NotFinal(got[r]) /\ \A i \in DOMAIN ch[r] : NotFinal(ch[r][i])
    /\ ch[r] # <<>> => NotFinal(got[r]) /\ \A i \in 1..Len(ch[r]) - 1 : NotFinal(ch[r][i])
    /\ r \in closed /\ serving =>
         IF ch[r] = <<>> THEN ~NotFinal(got[r]) ELSE ~NotFinal(ch[r][Len(ch[r])])

\* It is about the request's own channel.
LEMMA EndsLastKept ==
    ASSUME NEW r \in Requests, EndsLast(r), UNCHANGED <<ch[r], held[r], got[r], serving>>,
           r \in closed' <=> r \in closed
    PROVE  EndsLast(r)'
BY DEF EndsLast, NotFinal

\* The loop puts an increment at the end of an open channel, and closes it behind a
\* final one.
LEMMA EndsLastSent ==
    ASSUME ChanType, NEW r \in Requests, EndsLast(r), r \notin closed, NEW o \in Increments,
           ch'[r] = Append(ch[r], o), held'[r] = <<>>, got' = got, serving' = serving,
           r \in closed' <=> IsFinal(o)
    PROVE  EndsLast(r)'
<1>1. /\ ch[r] \in Seq(Increments) /\ Len(ch[r]) \in Nat /\ DOMAIN ch[r] = 1..Len(ch[r])
  BY LenProperties DEF ChanType
<1>2. /\ DOMAIN ch'[r] = 1..Len(ch[r]) + 1 /\ Len(ch'[r]) = Len(ch[r]) + 1 /\ ch'[r] # <<>>
      /\ \A i \in DOMAIN ch[r] : ch'[r][i] = ch[r][i]
      /\ ch'[r][Len(ch[r]) + 1] = o
  BY <1>1, AppendProperties
<1>3. \A i \in DOMAIN ch'[r] : i \in DOMAIN ch[r] \/ i = Len(ch[r]) + 1
  BY <1>1, <1>2
<1>4. \A i \in 1..Len(ch'[r]) - 1 : i \in DOMAIN ch[r]
  BY <1>1, <1>2
<1>5. Len(held'[r]) = 0
  BY EmptySeq
<1> QED BY <1>1, <1>2, <1>3, <1>4, <1>5 DEF EndsLast, NotFinal, IsFinal

LEMMA EndsLastStep ==
    ASSUME SubmitTyped, ChanType, SlotsInv, \A r \in Requests : EndsLast(r), [CoreNext]_allVars,
           NEW r \in Requests
    PROVE  EndsLast(r)'
<1>0. EndsLast(r) /\ (r \in outs => r \notin closed)
  BY DEF SlotsInv, SlotsCounted
<1>1. ASSUME UNCHANGED <<ch, held, got, serving, closed>> PROVE EndsLast(r)'
  BY <1>0, <1>1, EndsLastKept
<1>2. ASSUME NEW s \in Requests, Register(s) \/ SendSubmit(s) \/ SeeClosed(s) \/ HangUp(s)
      PROVE  EndsLast(r)'
  BY <1>1, <1>2 DEF Register, SendSubmit, SeeClosed, HangUp, chanVars
<1>3. CASE \/ Cancel \/ EndDeliver \/ DrainOne \/ EndDrain \/ IdleSubmit \/ IdleWake
           \/ IdleStop \/ PollStop \/ PollStep \/ RunStep \/ UNCHANGED allVars
  BY <1>1, <1>3 DEF allVars, coreVars, chanVars, Cancel, EndDeliver, DrainOne, EndDrain,
       IdleSubmit, IdleWake, IdleStop, PollStop, PollStep, RunStep
<1>4. ASSUME NEW s \in Requests, Receive(s) PROVE EndsLast(r)'
  <2>1. /\ ch[s] # <<>> /\ ch' = [ch EXCEPT ![s] = Tail(ch[s])]
        /\ UNCHANGED <<held, serving, closed>>
        /\ \A t \in Requests \ {s} : got'[t] = got[t]
        /\ got'[s].reason = Head(ch[s]).reason
    BY <1>4 DEF Receive, ChanType
  <2>2. CASE r # s
    BY <1>0, <2>1, <2>2, EndsLastKept DEF ChanType
  <2>3. CASE r = s
    <3>0. ch[r] \in Seq(Increments) /\ ch[r] # <<>> /\ ch'[r] = Tail(ch[r])
      BY <2>1, <2>3 DEF ChanType
    <3>1. /\ Len(ch[r]) \in Nat \ {0} /\ Head(ch[r]) = ch[r][1]
          /\ Tail(ch[r]) \in Seq(Increments)
          /\ Len(ch'[r]) = Len(ch[r]) - 1 /\ DOMAIN ch'[r] = 1..Len(ch[r]) - 1
          /\ DOMAIN ch[r] = 1..Len(ch[r])
          /\ \A i \in DOMAIN ch'[r] : ch'[r][i] = ch[r][i + 1]
          /\ ch'[r] = <<>> <=> Len(ch'[r]) = 0
      BY <3>0, HeadTailProperties, LenProperties, EmptySeq, TailIsRemoveFirst
    <3>2. \A i \in DOMAIN ch'[r] : i + 1 \in DOMAIN ch[r]
      BY <3>1
    <3>3. ch'[r] # <<>> => Len(ch[r]) > 1
      BY <3>1
    <3> QED BY <1>0, <2>1, <2>3, <3>1, <3>2, <3>3 DEF EndsLast, NotFinal
  <2> QED BY <2>2, <2>3
<1>5. CASE Shutdown
  <2>1. /\ held' = [s \in Requests |-> <<>>] /\ ch' = ch /\ got' = got /\ serving' = FALSE
        /\ closed' = closed \cup outs
    BY <1>5 DEF Shutdown
  <2>2. Len(held'[r]) = 0
    BY <2>1, EmptySeq
  <2> QED BY <1>0, <2>1, <2>2 DEF EndsLast, NotFinal
<1>6. CASE Deliver
  <2> DEFINE s == Head(outbox).id
             o == IF held[s] = <<>> THEN Head(outbox)
                  ELSE Coalesce(Head(held[s]), Head(outbox))
  <2>1. Head(outbox) \in Increments /\ s \in Requests
    <3>1. Head(outbox) \in Increments
      BY <1>6, HeadTailProperties DEF Deliver, ChanType
    <3> QED BY <3>1 DEF Increments
  <2>2. o \in Increments
    <3>1. CASE held[s] = <<>>
      BY <2>1, <3>1
    <3>2. CASE held[s] # <<>>
      <4>1. Head(held[s]) \in Increments
        BY <2>1, <3>2, HeadTailProperties DEF ChanType
      <4> QED BY <2>1, <3>2, <4>1, CoalesceType
    <3> QED BY <3>1, <3>2
  <2>3. got' = got /\ serving' = serving
    BY <1>6 DEF Deliver
  <2>4. \/ UNCHANGED <<ch, held, closed>>
        \/ /\ s \in outs /\ ch' = [ch EXCEPT ![s] = Append(ch[s], o)]
           /\ held' = [held EXCEPT ![s] = <<>>]
           /\ CloseAll(IF IsFinal(o) THEN {s} ELSE {})
        \/ held' = [held EXCEPT ![s] = <<o>>] /\ UNCHANGED <<ch, closed>>
    BY <1>6 DEF Deliver, chanVars
  <2> HIDE DEF s, o
  <2>5. CASE UNCHANGED <<ch, held, closed>>
    BY <1>1, <2>3, <2>5
  <2>6. CASE /\ s \in outs /\ ch' = [ch EXCEPT ![s] = Append(ch[s], o)]
             /\ held' = [held EXCEPT ![s] = <<>>]
             /\ CloseAll(IF IsFinal(o) THEN {s} ELSE {})
    <3>1. closed' = IF IsFinal(o) THEN closed \cup {s} ELSE closed
      BY <2>6 DEF CloseAll
    <3>2. CASE r # s
      BY <1>0, <2>3, <2>6, <3>1, <3>2, EndsLastKept DEF ChanType
    <3>3. CASE r = s
      <4>1. /\ ch'[r] = Append(ch[r], o) /\ held'[r] = <<>>
            /\ r \notin closed /\ (r \in closed' <=> IsFinal(o))
        BY <1>0, <2>6, <3>1, <3>3 DEF ChanType
      <4> QED BY <1>0, <2>2, <2>3, <4>1, EndsLastSent
    <3> QED BY <3>2, <3>3
  <2>7. CASE held' = [held EXCEPT ![s] = <<o>>] /\ UNCHANGED <<ch, closed>>
    <3>1. Len(held'[r]) <= 1
      <4>1. Len(<<o>>) = 1
        OBVIOUS
      <4> QED BY <1>0, <2>7, <4>1 DEF ChanType, EndsLast
    <3> QED BY <1>0, <2>3, <2>7, <3>1 DEF EndsLast, NotFinal
  <2> QED BY <2>4, <2>5, <2>6, <2>7
<1>7. CASE Flush
  <2> DEFINE backlog == {s \in outs : held[s] # <<>>}
             sent    == {s \in backlog : Len(ch[s]) < ChanCap}
             final   == {s \in sent : IsFinal(Head(held[s]))}
  <2>1. /\ ch' = [s \in Requests |-> IF s \in sent THEN ch[s] \o held[s] ELSE ch[s]]
        /\ held' = [s \in Requests |-> IF s \in sent THEN <<>> ELSE held[s]]
        /\ CloseAll(final)
        /\ got' = got /\ serving' = serving
    BY <1>7 DEF Flush
  <2>2. closed' = closed \cup final
    BY <2>1 DEF CloseAll
  <2>3. CASE r \notin sent
    <3>1. UNCHANGED <<ch[r], held[r], got[r], serving>> /\ (r \in closed' <=> r \in closed)
      <4>1. r \notin final
        BY <2>3
      <4> HIDE DEF sent, final
      <4>2. r \in closed' <=> r \in closed
        BY <2>2, <4>1
      <4>3. ch'[r] = ch[r] /\ held'[r] = held[r]
        BY <2>1, <2>3 DEF ChanType
      <4> QED BY <2>1, <4>2, <4>3
    <3> QED BY <1>0, <3>1, EndsLastKept
  <2>4. CASE r \in sent
    <3>1. r \in outs /\ held[r] # <<>> /\ held[r] \in Seq(Increments) /\ ch[r] \in Seq(Increments)
      BY <2>4 DEF ChanType
    <3>2. held[r] = <<Head(held[r])>> /\ Head(held[r]) \in Increments
      <4>1. Len(held[r]) = 1
        <5>1. Len(held[r]) <= 1
          BY <1>0 DEF EndsLast
        <5>2. Len(held[r]) \in Nat /\ Len(held[r]) # 0
          BY <3>1, LenProperties, EmptySeq
        <5>3. \A k \in Nat : k <= 1 /\ k # 0 => k = 1
          OBVIOUS
        <5> QED BY <5>1, <5>2, <5>3
      <4> QED BY <3>1, <4>1, HeadTailProperties, LenProperties, TailIsRemoveFirst
    <3>3. r \in closed' <=> IsFinal(Head(held[r]))
      BY <1>0, <2>2, <2>4, <3>1
    <3> HIDE DEF sent, final
    <3>4. ch'[r] = ch[r] \o <<Head(held[r])>> /\ held'[r] = <<>>
      BY <2>1, <2>4, <3>2
    <3>5. ch'[r] = Append(ch[r], Head(held[r]))
      BY <3>1, <3>2, <3>4, AppendIsConcat
    <3> QED BY <1>0, <2>1, <3>1, <3>2, <3>3, <3>4, <3>5, EndsLastSent
  <2> QED BY <2>3, <2>4
<1> QED BY <1>2, <1>3, <1>4, <1>5, <1>6, <1>7 DEF CoreNext, LoopMove

\* A channel is closed only behind the final increment, which is its last; only shutdown
\* cuts it short (core.go deliver, flushPending, closeLocked, shutdown).
THEOREM ClosedLast == CoreSpec => []ClosedBehindEnd
<1>1. CoreInit => \A r \in Requests : EndsLast(r)
  <2>1. Len(<<>>) = 0
    BY EmptySeq
  <2> QED BY <2>1 DEF CoreInit, EndsLast, NotFinal, Nothing
<1>2. SubmitTyped /\ ChanType /\ SlotsInv /\ (\A r \in Requests : EndsLast(r)) /\ [CoreNext]_allVars
      => (\A r \in Requests : EndsLast(r))'
  BY EndsLastStep
<1>3. ChanType /\ (\A r \in Requests : EndsLast(r)) => ClosedBehindEnd
  <2> SUFFICES ASSUME ChanType, NEW r \in Requests, EndsLast(r)
               PROVE  LET s == <<got[r]>> \o ch[r] IN
                      /\ r \in closed => HasEnded(s) \/ ~serving
                      /\ \A i \in 1..(Len(s) - 1) : s[i].reason = "none"
                      /\ HasEnded(s) => r \in closed
    BY DEF ClosedBehindEnd
  <2> DEFINE s == <<got[r]>> \o ch[r]
             n == Len(ch[r])
  <2>1. n \in Nat /\ DOMAIN ch[r] = 1..n /\ (ch[r] = <<>> <=> n = 0)
    BY LenProperties, EmptySeq DEF ChanType
  <2>2. /\ Len(s) = n + 1 /\ s[1] = got[r]
        /\ \A i \in 2..n + 1 : s[i] = ch[r][i - 1]
    BY <2>1 DEF ChanType
  <2>3. HasEnded(s) <=> ~NotFinal(s[n + 1])
    BY <2>2 DEF HasEnded, Last, NotFinal
  <2> HIDE DEF s
  <2>4. \A i \in 1..n : NotFinal(s[i])
    <3> SUFFICES ASSUME NEW i \in 1..n PROVE NotFinal(s[i])
      OBVIOUS
    <3>1. CASE i = 1
      BY <2>1, <2>2, <3>1 DEF EndsLast
    <3>2. CASE i # 1
      <4>1. i \in 2..n + 1 /\ i - 1 \in 1..n - 1
        BY <2>1, <3>2
      <4> QED BY <2>1, <2>2, <4>1 DEF EndsLast
    <3> QED BY <3>1, <3>2
  <2>0. s[n + 1] = IF ch[r] = <<>> THEN got[r] ELSE ch[r][n]
    BY <2>1, <2>2
  <2>5. r \in closed /\ serving => ~NotFinal(s[n + 1])
    BY <2>0 DEF EndsLast
  <2>6. r \notin closed => NotFinal(s[n + 1])
    BY <2>0, <2>1 DEF EndsLast
  <2> QED BY <2>1, <2>2, <2>3, <2>4, <2>5, <2>6 DEF NotFinal, s
<1>4. CoreSpec => []TypeOK
  BY CoreDrivesScheduler, TypeCorrect, PTL DEF DrivesScheduler
<1>5. CoreSpec => [](SubmitTyped /\ ChanType /\ SlotsInv)
  BY <1>4, CoreInitInv, SubmitTypeStep, ChanTypeStep, SlotsStep, PTL DEF CoreSpec
<1> QED BY <1>1, <1>2, <1>3, <1>5, PTL DEF CoreSpec

-----------------------------------------------------------------------------
(* The channels implement the stream that each handler is promised.        *)

\* How many tokens of a request precede what follows increment o, when it has made g:
\* errors carry no count, but nothing follows them.
EndOf(o, g) == IF o.reason = "error" THEN g ELSE o.total

\* o carries the tokens after the first m, of g made so far; a final one carries the last
\* of a request that has ended.
Carries(o, m, g, ended) ==
    /\ EndOf(o, g) \in m..g
    /\ o.toks = [i \in 1..EndOf(o, g) - m |-> m + i]
    /\ o.reason # "none" => EndOf(o, g) = g /\ ended

\* What was received, and behind it the buffer of the channel, carry on from each other.
Linked(gt, c, g, ended) ==
    /\ Carries(gt, 0, g, ended)
    /\ \A i \in DOMAIN c :
         Carries(c[i], IF i = 1 THEN EndOf(gt, g) ELSE EndOf(c[i - 1], g), g, ended)

ChanEnd(gt, c, g)    == IF c = <<>> THEN EndOf(gt, g) ELSE EndOf(c[Len(c)], g)
HeldEnd(gt, c, h, g) == IF h = <<>> THEN ChanEnd(gt, c, g) ELSE EndOf(h[1], g)

LEMMA CarriesOn ==
    ASSUME NEW g \in Nat, NEW h \in Nat, g <= h, NEW m \in Nat, NEW o, Carries(o, m, g, FALSE),
           NEW ended
    PROVE  Carries(o, m, h, ended) /\ EndOf(o, h) = EndOf(o, g)
BY DEF Carries, EndOf

LEMMA LinkedEnds ==
    ASSUME NEW g \in Nat, NEW gt, NEW c \in Seq(Increments), NEW ended, Linked(gt, c, g, ended)
    PROVE  /\ EndOf(gt, g) \in Nat
           /\ \A i \in DOMAIN c : EndOf(c[i], g) \in Nat
           /\ ChanEnd(gt, c, g) \in Nat
           /\ ChanEnd(gt, c, g) <= g
<1>1. EndOf(gt, g) \in 0..g
  BY DEF Linked, Carries
<1>2. DOMAIN c = 1..Len(c) /\ Len(c) \in Nat /\ (c = <<>> <=> Len(c) = 0)
  BY LenProperties, EmptySeq
<1>3. \A o, m : Carries(o, m, g, ended) => EndOf(o, g) <= g /\ EndOf(o, g) >= m
  BY DEF Carries
<1> DEFINE Ok(i) == EndOf(c[i], g) \in Nat
<1>4. \A i \in DOMAIN c : c[i] \in Increments
  BY ElementOfSeq, <1>2
<1>5. \A i \in DOMAIN c : EndOf(c[i], g) \in Nat
  BY <1>4 DEF EndOf, Increments
<1>6. \A i \in DOMAIN c : EndOf(c[i], g) <= g
  BY <1>3 DEF Linked
<1> QED BY <1>1, <1>2, <1>5, <1>6 DEF ChanEnd

LEMMA LinkedOn ==
    ASSUME NEW g \in Nat, NEW h \in Nat, g <= h, NEW gt, NEW c \in Seq(Increments),
           Linked(gt, c, g, FALSE), NEW ended
    PROVE  Linked(gt, c, h, ended) /\ ChanEnd(gt, c, h) = ChanEnd(gt, c, g)
<1>1. /\ EndOf(gt, g) \in Nat
      /\ \A i \in DOMAIN c : EndOf(c[i], g) \in Nat
  BY LinkedEnds
<1>2. DOMAIN c = 1..Len(c) /\ Len(c) \in Nat /\ (c = <<>> <=> Len(c) = 0)
  BY LenProperties, EmptySeq
<1>3. Carries(gt, 0, h, ended) /\ EndOf(gt, h) = EndOf(gt, g)
  BY CarriesOn DEF Linked
<1>4. ASSUME NEW i \in DOMAIN c
      PROVE  /\ Carries(c[i], IF i = 1 THEN EndOf(gt, g) ELSE EndOf(c[i - 1], g), h, ended)
             /\ EndOf(c[i], h) = EndOf(c[i], g)
  <2> DEFINE m == IF i = 1 THEN EndOf(gt, g) ELSE EndOf(c[i - 1], g)
  <2>1. m \in Nat
    BY <1>1, <1>2
  <2>2. Carries(c[i], m, g, FALSE)
    BY DEF Linked
  <2> HIDE DEF m
  <2>3. Carries(c[i], m, h, ended) /\ EndOf(c[i], h) = EndOf(c[i], g)
    BY <2>1, <2>2, CarriesOn
  <2> QED BY <2>3 DEF m
<1>5. \A i \in DOMAIN c : i # 1 => i - 1 \in DOMAIN c
  BY <1>2
<1>6. \A i \in DOMAIN c :
        Carries(c[i], IF i = 1 THEN EndOf(gt, h) ELSE EndOf(c[i - 1], h), h, ended)
  BY <1>3, <1>4, <1>5
<1>7. ChanEnd(gt, c, h) = ChanEnd(gt, c, g)
  BY <1>2, <1>3, <1>4 DEF ChanEnd
<1> QED BY <1>3, <1>6, <1>7 DEF Linked

LEMMA LinkedSend ==
    ASSUME NEW g \in Nat, NEW gt, NEW c \in Seq(Increments), NEW ended, Linked(gt, c, g, ended),
           NEW o \in Increments, Carries(o, ChanEnd(gt, c, g), g, ended)
    PROVE  /\ Linked(gt, Append(c, o), g, ended)
           /\ ChanEnd(gt, Append(c, o), g) = EndOf(o, g)
<1> DEFINE d == Append(c, o)
           n == Len(c)
<1>1. /\ DOMAIN c = 1..n /\ n \in Nat /\ (c = <<>> <=> n = 0)
      /\ DOMAIN d = 1..n + 1 /\ Len(d) = n + 1 /\ d # <<>>
      /\ \A i \in DOMAIN c : d[i] = c[i]
      /\ d[n + 1] = o
  BY LenProperties, EmptySeq, AppendProperties
<1> HIDE DEF d, n
<1>2. ASSUME NEW i \in DOMAIN d
      PROVE  Carries(d[i], IF i = 1 THEN EndOf(gt, g) ELSE EndOf(d[i - 1], g), g, ended)
  <2>1. CASE i \in DOMAIN c
    <3>1. i # 1 => i - 1 \in DOMAIN c
      BY <1>1, <2>1
    <3> QED BY <1>1, <2>1, <3>1 DEF Linked
  <2>2. CASE i = n + 1
    <3>1. ChanEnd(gt, c, g) = IF i = 1 THEN EndOf(gt, g) ELSE EndOf(d[i - 1], g)
      <4>1. n # 0 => n \in DOMAIN c
        BY <1>1
      <4> QED BY <1>1, <2>2, <4>1 DEF ChanEnd, n
    <3> QED BY <1>1, <2>2, <3>1
  <2>3. i \in DOMAIN c \/ i = n + 1
    BY <1>1
  <2> QED BY <2>1, <2>2, <2>3
<1>3. ChanEnd(gt, d, g) = EndOf(o, g)
  BY <1>1 DEF ChanEnd
<1> QED BY <1>2, <1>3 DEF Linked, d

LEMMA CountUp ==
    ASSUME NEW m \in Nat, NEW n \in Nat, NEW k \in Nat, m <= n, n <= k
    PROVE  [i \in 1..n - m |-> m + i] \o [i \in 1..k - n |-> n + i] = [i \in 1..k - m |-> m + i]
<1> DEFINE a == [i \in 1..n - m |-> m + i]
           b == [i \in 1..k - n |-> n + i]
           s == [i \in 1..k - m |-> m + i]
<1>1. /\ a \in Seq(Nat) /\ Len(a) = n - m
      /\ b \in Seq(Nat) /\ Len(b) = k - n
      /\ s \in Seq(Nat) /\ Len(s) = k - m
  OBVIOUS
<1>2. /\ a \o b \in Seq(Nat) /\ Len(a \o b) = k - m
      /\ \A i \in 1..k - m : (a \o b)[i] = IF i <= n - m THEN a[i] ELSE b[i - (n - m)]
  BY <1>1, ConcatProperties
<1>3. \A i \in 1..k - m : (a \o b)[i] = s[i]
  BY <1>2
<1> HIDE DEF a, b, s
<1>4. a \o b = s
  BY <1>1, <1>2, <1>3, SeqEqual
<1> QED BY <1>4 DEF a, b, s

LEMMA CoalesceCarries ==
    ASSUME NEW g \in Nat, NEW m \in Nat, NEW ended, NEW a \in Increments, NEW b \in Increments,
           Carries(a, m, g, ended), Carries(b, EndOf(a, g), g, ended)
    PROVE  Carries(Coalesce(a, b), m, g, ended) /\ EndOf(Coalesce(a, b), g) = EndOf(b, g)
<1> DEFINE o == Coalesce(a, b)
<1>1. o.toks = a.toks \o b.toks /\ o.reason = b.reason /\ o.total = b.total
  BY DEF Coalesce, Increments
<1>2. EndOf(o, g) = EndOf(b, g)
  BY <1>1 DEF EndOf
<1>3. /\ EndOf(a, g) \in Nat /\ EndOf(b, g) \in Nat
      /\ m <= EndOf(a, g) /\ EndOf(a, g) <= EndOf(b, g) /\ EndOf(b, g) <= g
  BY DEF Carries, EndOf, Increments
<1>4. o.toks = [i \in 1..EndOf(b, g) - m |-> m + i]
  <2>1. /\ a.toks = [i \in 1..EndOf(a, g) - m |-> m + i]
        /\ b.toks = [i \in 1..EndOf(b, g) - EndOf(a, g) |-> EndOf(a, g) + i]
    BY DEF Carries
  <2>2. [i \in 1..EndOf(a, g) - m |-> m + i]
           \o [i \in 1..EndOf(b, g) - EndOf(a, g) |-> EndOf(a, g) + i]
          = [i \in 1..EndOf(b, g) - m |-> m + i]
    BY <1>3, CountUp
  <2> QED BY <1>1, <2>1, <2>2
<1> HIDE DEF o
<1>5. EndOf(o, g) \in m..g
  BY <1>2, <1>3
<1>6. o.reason # "none" => EndOf(o, g) = g /\ ended
  BY <1>1, <1>2 DEF Carries
<1>7. Carries(o, m, g, ended)
  BY <1>2, <1>4, <1>5, <1>6 DEF Carries
<1> QED BY <1>2, <1>7 DEF o

\* What the handler has, when it takes the first increment of the buffer.
TakeOf(gt, o) == [toks |-> gt.toks \o o.toks, reason |-> o.reason, total |-> o.total]

LEMMA LinkedTake ==
    ASSUME NEW g \in Nat, NEW gt \in Received, NEW c \in Seq(Increments), c # <<>>, NEW ended,
           Linked(gt, c, g, ended)
    PROVE  /\ Linked(TakeOf(gt, Head(c)), Tail(c), g, ended)
           /\ ChanEnd(TakeOf(gt, Head(c)), Tail(c), g) = ChanEnd(gt, c, g)
<1> DEFINE n == Len(c)
           d == Tail(c)
           o == Head(c)
           t == TakeOf(gt, o)
<1>1. /\ DOMAIN c = 1..n /\ n \in Nat \ {0} /\ o = c[1] /\ o \in Increments
      /\ d \in Seq(Increments) /\ Len(d) = n - 1 /\ DOMAIN d = 1..n - 1
      /\ \A i \in DOMAIN d : d[i] = c[i + 1]
      /\ d = <<>> <=> Len(d) = 0
  BY LenProperties, EmptySeq, HeadTailProperties, TailIsRemoveFirst
<1>2. /\ EndOf(gt, g) \in Nat /\ \A i \in DOMAIN c : EndOf(c[i], g) \in Nat
  BY LinkedEnds
<1>3. 1 \in DOMAIN c
  BY <1>1
<1> HIDE DEF d, o, n
<1>4. Carries(o, EndOf(gt, g), g, ended) /\ EndOf(o, g) \in Nat
  BY <1>1, <1>2, <1>3 DEF Linked
<1>5. EndOf(t, g) = EndOf(o, g) /\ t.toks = gt.toks \o o.toks /\ t.reason = o.reason
  BY DEF EndOf, TakeOf
<1>6. Carries(t, 0, g, ended)
  <2>1. /\ gt.toks = [i \in 1..EndOf(gt, g) - 0 |-> 0 + i] /\ EndOf(gt, g) <= g
        /\ o.toks = [i \in 1..EndOf(o, g) - EndOf(gt, g) |-> EndOf(gt, g) + i]
        /\ EndOf(gt, g) <= EndOf(o, g) /\ EndOf(o, g) <= g
    BY <1>2, <1>4 DEF Linked, Carries
  <2>2. [i \in 1..EndOf(gt, g) - 0 |-> 0 + i]
           \o [i \in 1..EndOf(o, g) - EndOf(gt, g) |-> EndOf(gt, g) + i]
          = [i \in 1..EndOf(o, g) - 0 |-> 0 + i]
    <3> DEFINE x == EndOf(gt, g)
               y == EndOf(o, g)
               z == 0
    <3>1. x \in Nat /\ y \in Nat /\ x <= y /\ z \in Nat /\ z <= x
      BY <1>2, <1>4, <2>1
    <3> HIDE DEF x, y, z
    <3>2. [i \in 1..x - z |-> z + i] \o [i \in 1..y - x |-> x + i] = [i \in 1..y - z |-> z + i]
      BY <3>1, CountUp
    <3> QED BY <3>2 DEF x, y, z
  <2>3. t.toks = [i \in 1..EndOf(t, g) - 0 |-> 0 + i]
    BY <1>5, <2>1, <2>2
  <2>4. EndOf(t, g) \in 0..g
    BY <1>2, <1>4, <1>5, <2>1
  <2>5. t.reason # "none" => EndOf(t, g) = g /\ ended
    BY <1>4, <1>5 DEF Carries
  <2> HIDE DEF t
  <2> QED BY <2>3, <2>4, <2>5 DEF Carries
<1>7. ASSUME NEW i \in DOMAIN d
      PROVE  Carries(d[i], IF i = 1 THEN EndOf(t, g) ELSE EndOf(d[i - 1], g), g, ended)
  <2>1. /\ i + 1 \in DOMAIN c /\ i + 1 # 1 /\ (i + 1) - 1 = i
        /\ i # 1 => i - 1 \in DOMAIN d /\ (i - 1) + 1 = i
    BY <1>1
  <2>2. Carries(c[i + 1], EndOf(c[i], g), g, ended)
    BY <2>1 DEF Linked
  <2>3. EndOf(c[i], g) = IF i = 1 THEN EndOf(t, g) ELSE EndOf(d[i - 1], g)
    BY <1>1, <1>5, <2>1
  <2> QED BY <1>1, <2>2, <2>3
<1>8. ChanEnd(t, d, g) = ChanEnd(gt, c, g)
  <2>1. CASE n = 1
    BY <1>1, <1>5, <2>1 DEF ChanEnd, n
  <2>2. CASE n # 1
    <3>1. n - 1 \in DOMAIN d /\ (n - 1) + 1 = n /\ d # <<>> /\ c # <<>>
      BY <1>1, <2>2
    <3> QED BY <1>1, <3>1 DEF ChanEnd, n
  <2> QED BY <2>1, <2>2
<1> QED BY <1>6, <1>7, <1>8 DEF Linked, d, o

Done(r) == stream[r].ends > 0

\* What q says of r comes behind the first m tokens and goes up to the last one.
Due(q, r, m, g, ended) ==
    \A i \in DOMAIN q : q[i].id = r => Carries(q[i], m, g, ended) /\ EndOf(q[i], g) = g

Says(q, r) == \E i \in DOMAIN q : q[i].id = r

\* The tokens of r that its open channel has not taken are in its backlog, or in the one
\* increment about r that is not delivered yet.
Pending(gt, c, h, q, p, r, g, ended) ==
    /\ h # <<>> => Carries(h[1], ChanEnd(gt, c, g), g, ended)
    /\ Due(q, r, HeldEnd(gt, c, h, g), g, ended)
    /\ Due(p, r, HeldEnd(gt, c, h, g), g, ended)
    /\ HeldEnd(gt, c, h, g) = g \/ Says(q, r) \/ Says(p, r)

Chained(r) ==
    /\ Linked(got[r], ch[r], generated[r], Done(r))
    /\ r \notin closed =>
         Pending(got[r], ch[r], held[r], outbox, out, r, generated[r], Done(r))

\* A Step's increments are in out until it returns, then in outbox until the loop goes on.
StepInv ==
    /\ loop = "step" <=> phase # "idle"
    /\ phase = "idle" => out = <<>>
    /\ outbox # <<>> => loop = "deliver"
    /\ \A i, j \in DOMAIN outbox : outbox[i].id = outbox[j].id => i = j

LEMMA StepInvStep ==
    ASSUME TypeOK, SubmitTyped, ChanType, OneIncrementPerStep, StepInv, [CoreNext]_allVars
    PROVE  StepInv'
<1>1. ASSUME UNCHANGED <<phase, out, outbox>>, loop' = loop \/ (loop # "step" /\ loop' # "step"),
             outbox # <<>> => loop' = loop
      PROVE  StepInv'
  BY <1>1 DEF StepInv
<1>2. ASSUME NEW r \in Requests,
             Register(r) \/ SendSubmit(r) \/ Receive(r) \/ SeeClosed(r) \/ HangUp(r)
      PROVE  StepInv'
  BY <1>1, <1>2 DEF Register, SendSubmit, Receive, SeeClosed, HangUp, vars, Abort
<1>3. CASE \/ UNCHANGED allVars \/ Cancel \/ EndDrain \/ Flush \/ IdleWake \/ IdleStop \/ PollStop
           \/ EndDeliver \/ Shutdown
  BY <1>1, <1>3 DEF allVars, coreVars, vars, Cancel, EndDrain, Flush, IdleWake, IdleStop, PollStop,
       EndDeliver, Shutdown, StepInv
<1>4. CASE DrainOne \/ IdleSubmit
  BY <1>1, <1>4 DEF DrainOne, IdleSubmit, AddRequest, StepInv
<1>5. CASE PollStep
  <2>1. CASE BeginStep /\ loop' = "step"
    BY <1>5, <2>1 DEF PollStep, BeginStep, StepInv
  <2>2. CASE UNCHANGED vars /\ loop' = "drain"
    BY <1>5, <2>2 DEF PollStep, vars, StepInv
  <2> QED BY <1>5, <2>1, <2>2 DEF PollStep
<1>6. CASE RunStep
  <2>1. loop = "step" /\ phase # "idle" /\ outbox = <<>> /\ StepMove
    BY <1>6 DEF RunStep, StepInv
  <2>2. CASE phase = "return"
    <3>1. phase' = "idle" /\ out' = <<>>
      BY <2>1, <2>2 DEF StepMove, CancelWaiting, CancelRunning, EndAborts, Admit, RejectInsert,
           EndAdmit, Decode, DecodeError, ProcessToken, EndProcess, FailOne, EndFail, Return
    <3>2. outbox' = out /\ loop' = "deliver"
      BY <1>6, <2>2 DEF RunStep
    <3> QED BY <3>1, <3>2 DEF StepInv, OneIncrementPerStep
  <2>3. CASE phase # "return"
    <3>1. phase' # "idle"
      BY <2>1, <2>3 DEF StepMove, CancelWaiting, CancelRunning, EndAborts, Admit, RejectInsert,
           EndAdmit, Decode, DecodeError, ProcessToken, EndProcess, FailOne, EndFail, Return
    <3>2. outbox' = outbox /\ loop' = loop
      BY <1>6, <2>3 DEF RunStep
    <3> QED BY <2>1, <3>1, <3>2 DEF StepInv
  <2> QED BY <2>2, <2>3
<1>7. CASE Deliver
  <2>1. /\ outbox # <<>> /\ outbox' = Tail(outbox) /\ UNCHANGED <<phase, out, loop>>
        /\ loop = "deliver"
    BY <1>7 DEF Deliver, vars
  <2>2. /\ Len(outbox) \in Nat /\ DOMAIN outbox = 1..Len(outbox)
        /\ DOMAIN outbox' = 1..Len(outbox) - 1
        /\ \A i \in DOMAIN outbox' : outbox'[i] = outbox[i + 1]
    BY <2>1, HeadTailProperties, LenProperties DEF ChanType
  <2>3. \A i \in DOMAIN outbox' : i + 1 \in DOMAIN outbox
    BY <2>2
  <2>4. \A i, j \in DOMAIN outbox' : outbox'[i].id = outbox'[j].id => i = j
    <3> SUFFICES ASSUME NEW i \in DOMAIN outbox', NEW j \in DOMAIN outbox',
                        outbox'[i].id = outbox'[j].id
                 PROVE  i = j
      OBVIOUS
    <3>1. i + 1 = j + 1
      BY <2>2, <2>3 DEF StepInv
    <3> QED BY <2>2, <3>1
  <2> QED BY <2>1, <2>4 DEF StepInv
<1> QED BY <1>2, <1>3, <1>4, <1>5, <1>6, <1>7 DEF CoreNext, LoopMove

\* What a step may do that neither says nor delivers anything about r.
LEMMA ChainedKept ==
    ASSUME NEW r \in Requests, Chained(r), UNCHANGED <<outbox, out>>,
           UNCHANGED <<ch[r], held[r], got[r], generated[r], stream[r]>>,
           r \notin closed' => r \notin closed
    PROVE  Chained(r)'
BY DEF Chained, Done

\* A step of the scheduler.
LEMMA ChainedSpeaks ==
    ASSUME Consistent, StreamExact, OneIncrementPerStep', TypeOK', ChanType, StepInv,
           NEW r \in Requests, Chained(r), RunStep
    PROVE  Chained(r)'
<1>0. /\ loop = "step" /\ outbox = <<>> /\ StepMove
      /\ UNCHANGED <<ch, held, got, closed>>
      /\ IF phase = "return" THEN outbox' = out ELSE outbox' = outbox
  BY DEF RunStep, StepInv, chanVars
<1>1. /\ status \in [Requests -> Statuses] /\ generated \in [Requests -> Nat]
      /\ stream \in [Requests -> Streams] /\ out \in Seq(Increments)
      /\ ch[r] \in Seq(Increments)
  BY DEF Consistent, TypeOK, ChanType
<1>2. CASE Silent
  <2>1. CASE phase # "return"
    BY <1>0, <1>2, <2>1, ChainedKept DEF Silent
  <2>2. CASE phase = "return"
    <3>1. /\ outbox' = out /\ (out' = out \/ out' = <<>>)
          /\ UNCHANGED <<generated, stream>>
      BY <1>0, <1>2, <2>2 DEF Silent
    <3> QED BY <1>0, <3>1 DEF Chained, Done, Pending, Due, Says
  <2> QED BY <2>1, <2>2
<1>3. ASSUME NEW s \in Requests, NEW toks, NEW reason, Speaks(s, toks, reason)
      PROVE  Chained(r)'
  <2>1. PICK n : /\ out' = Append(out, Increment(s, toks, reason, n))
                 /\ reason = "error" \/ n = generated'[s]
    BY <1>3 DEF Speaks
  <2> DEFINE o == Increment(s, toks, reason, n)
  <2>2. /\ DOMAIN out' = 1..Len(out) + 1 /\ DOMAIN out = 1..Len(out) /\ Len(out) \in Nat
        /\ \A i \in DOMAIN out : out'[i] = out[i]
        /\ out'[Len(out) + 1] = o /\ out' # <<>>
    <3>1. out \in Seq(Increments \cup {o})
      BY <1>1
    <3> HIDE DEF o
    <3>2. out' = Append(out, o)
      BY <2>1 DEF o
    <3> QED BY <3>1, <3>2, AppendProperties, LenProperties
  <2>3. o.id = s /\ o.toks = toks /\ o.reason = reason /\ o.total = n
    BY DEF Increment
  <2> HIDE DEF o
  <2>4. outbox' = <<>>
    <3>1. phase = "return" => out' = <<>>
      BY <1>0 DEF StepMove, CancelWaiting, CancelRunning, EndAborts, Admit, RejectInsert,
           EndAdmit, Decode, DecodeError, ProcessToken, EndProcess, FailOne, EndFail, Return
    <3> QED BY <1>0, <2>2, <3>1
  <2>5. \A i \in DOMAIN out' : i \in DOMAIN out \/ i = Len(out) + 1
    BY <2>2
  <2>6. CASE r # s
    <3>1. generated'[r] = generated[r] /\ stream'[r] = stream[r]
      BY <1>1, <1>3, <2>6 DEF Speaks
    <3>2. \A m, g, e : Due(out, r, m, g, e) => Due(out', r, m, g, e)
      BY <2>2, <2>3, <2>5, <2>6 DEF Due
    <3>3. Says(out, r) => Says(out', r)
      BY <2>2, <2>5 DEF Says
    <3> QED BY <1>0, <2>4, <3>1, <3>2, <3>3 DEF Chained, Done, Pending
  <2>7. CASE r = s
    <3> DEFINE g == generated[r]
               h == generated'[r]
               e == Done(r)'
    <3>1. g \in Nat /\ h \in Nat /\ ((toks = <<>> /\ h = g) \/ (toks = <<g + 1>> /\ h = g + 1))
      <4>1. /\ toks = <<>> \/ toks = <<g + 1>>
            /\ generated' = [generated EXCEPT ![r] = generated[r] + Len(toks)]
        BY <1>3, <2>7 DEF Speaks
      <4>2. Len(<<>>) = 0 /\ Len(<<g + 1>>) = 1
        OBVIOUS
      <4>3. g \in Nat /\ h = g + Len(toks)
        BY <1>1, <4>1
      <4> HIDE DEF g, h
      <4>4. CASE toks = <<>>
        BY <4>2, <4>3, <4>4
      <4>5. CASE toks = <<g + 1>>
        BY <4>2, <4>3, <4>5
      <4> QED BY <4>1, <4>4, <4>5
    <3>2. Done(r) = FALSE /\ (reason # "none" => e)
      <4>1. stream[r].ends = 0
        BY <1>3, <2>7 DEF Speaks, StreamExact, Ended
      <4>2. reason # "none" => stream'[r].ends = stream[r].ends + 1
        BY <1>1, <1>3, <2>7 DEF Speaks
      <4> QED BY <4>1, <4>2 DEF Done
    <3> HIDE DEF e
    <3>3. /\ Linked(got[r], ch[r], h, e)
          /\ ChanEnd(got[r], ch[r], h) = ChanEnd(got[r], ch[r], g)
          /\ ChanEnd(got[r], ch[r], g) \in Nat
      <4>1. Linked(got[r], ch[r], g, FALSE)
        BY <3>2 DEF Chained
      <4>2. g <= h
        BY <3>1
      <4> HIDE DEF g, h
      <4> QED BY <1>1, <3>1, <4>1, <4>2, LinkedOn, LinkedEnds
    <3>4. CASE r \in closed
      BY <1>0, <3>3, <3>4 DEF Chained, e
    <3>5. CASE r \notin closed
      <4>1. held[r] # <<>> =>
               /\ Carries(held[r][1], ChanEnd(got[r], ch[r], h), h, e)
               /\ EndOf(held[r][1], h) = EndOf(held[r][1], g)
        <5>1. held[r] # <<>> => Carries(held[r][1], ChanEnd(got[r], ch[r], g), g, FALSE)
          BY <3>2, <3>5 DEF Chained, Pending
        <5>2. g <= h
          BY <3>1
        <5> HIDE DEF g, h
        <5> SUFFICES ASSUME held[r] # <<>>
                     PROVE  /\ Carries(held[r][1], ChanEnd(got[r], ch[r], h), h, e)
                            /\ EndOf(held[r][1], h) = EndOf(held[r][1], g)
          OBVIOUS
        <5> DEFINE m == ChanEnd(got[r], ch[r], g)
                   b == held[r][1]
        <5>3. m \in Nat /\ Carries(b, m, g, FALSE)
          BY <3>3, <5>1
        <5> HIDE DEF m, b
        <5>4. Carries(b, m, h, e) /\ EndOf(b, h) = EndOf(b, g)
          BY <3>1, <5>2, <5>3, CarriesOn
        <5> QED BY <3>3, <5>4 DEF m, b
      <4>2. HeldEnd(got[r], ch[r], held[r], h) = HeldEnd(got[r], ch[r], held[r], g)
        BY <3>3, <4>1 DEF HeldEnd
      <4>3. \A i \in DOMAIN out : out'[i].id # r
        BY <2>2, <2>3, <2>7 DEF OneIncrementPerStep
      <4>4. HeldEnd(got[r], ch[r], held[r], g) = g
        BY <1>0, <2>2, <3>5, <4>3 DEF Chained, Pending, Says
      <4>5. EndOf(o, h) = h
        BY <2>1, <2>3, <2>7 DEF EndOf
      <4>6. Carries(o, g, h, e)
        <5>1. EndOf(o, h) \in g..h /\ (o.reason # "none" => EndOf(o, h) = h /\ e)
          BY <2>3, <3>1, <3>2, <4>5
        <5>2. o.toks = [i \in 1..EndOf(o, h) - g |-> g + i]
          <6>1. CASE toks = <<>> /\ h = g
            BY <2>3, <3>1, <4>5, <6>1
          <6>2. CASE toks = <<g + 1>> /\ h = g + 1
            BY <2>3, <3>1, <4>5, <6>2
          <6> QED BY <3>1, <6>1, <6>2
        <5> QED BY <5>1, <5>2 DEF Carries
      <4>7. Due(out', r, g, h, e)
        BY <2>2, <2>5, <4>3, <4>5, <4>6 DEF Due
      <4>8. Due(outbox', r, g, h, e)
        BY <2>4 DEF Due
      <4>9. Says(out', r)
        BY <2>2, <2>3, <2>7 DEF Says
      <4>10. Pending(got[r], ch[r], held[r], outbox', out', r, h, e)
        BY <4>1, <4>2, <4>4, <4>7, <4>8, <4>9 DEF Pending
      <4> QED BY <1>0, <3>3, <4>10 DEF Chained, e
    <3> QED BY <3>4, <3>5
  <2> QED BY <2>6, <2>7
<1> QED BY <1>0, <1>2, <1>3, StepEffect DEF Next

\* The loop puts what comes next at the end of an open channel.
LEMMA ChainedSent ==
    ASSUME ChanType, TypeOK, NEW r \in Requests, Chained(r), r \notin closed, NEW o \in Increments,
           Carries(o, ChanEnd(got[r], ch[r], generated[r]), generated[r], Done(r)),
           ch'[r] = Append(ch[r], o), held'[r] = <<>>,
           UNCHANGED <<got, generated, stream, out>>,
           Due(outbox', r, EndOf(o, generated[r]), generated[r], Done(r)),
           Due(out, r, EndOf(o, generated[r]), generated[r], Done(r)),
           EndOf(o, generated[r]) = generated[r] \/ Says(outbox', r) \/ Says(out, r)
    PROVE  Chained(r)'
<1> DEFINE g == generated[r]
           d == Append(ch[r], o)
<1>1. g \in Nat /\ ch[r] \in Seq(Increments)
  BY DEF TypeOK, ChanType
<1>2. Linked(got[r], d, g, Done(r)) /\ ChanEnd(got[r], d, g) = EndOf(o, g)
  BY <1>1, LinkedSend DEF Chained
<1>3. HeldEnd(got[r], d, <<>>, g) = EndOf(o, g)
  BY <1>2 DEF HeldEnd
<1>4. Pending(got[r], d, <<>>, outbox', out, r, g, Done(r))
  BY <1>3 DEF Pending
<1> HIDE DEF d
<1> QED BY <1>2, <1>4 DEF Chained, Done, d

LEMMA ChainedDeliver ==
    ASSUME TypeOK, ChanType, SlotsInv, QueueInv, Unheard, StepInv,
           NEW r \in Requests, EndsLast(r), Chained(r), Deliver
    PROVE  Chained(r)'
<1> DEFINE s == Head(outbox).id
           o == IF held[s] = <<>> THEN Head(outbox)
                ELSE Coalesce(Head(held[s]), Head(outbox))
           g == generated[r]
           m == HeldEnd(got[r], ch[r], held[r], g)
<1>1. /\ outbox \in Seq(Increments) /\ outbox # <<>> /\ outbox' = Tail(outbox)
      /\ UNCHANGED <<got, generated, stream, out, client, serving>>
  BY DEF Deliver, ChanType, vars
<1>2. out = <<>>
  BY DEF Deliver, StepInv
<1>3. /\ Len(outbox) \in Nat \ {0} /\ DOMAIN outbox = 1..Len(outbox)
      /\ DOMAIN outbox' = 1..Len(outbox) - 1
      /\ \A i \in DOMAIN outbox' : outbox'[i] = outbox[i + 1]
      /\ Head(outbox) = outbox[1] /\ Head(outbox) \in Increments
  BY <1>1, HeadTailProperties, LenProperties, EmptySeq, TailIsRemoveFirst
<1>4. 1 \in DOMAIN outbox /\ \A i \in DOMAIN outbox' : i + 1 \in DOMAIN outbox /\ i + 1 # 1
  BY <1>3
<1>5. /\ g \in Nat /\ s \in Requests /\ ch[r] \in Seq(Increments) /\ held[r] \in Seq(Increments)
  BY <1>3 DEF TypeOK, ChanType, Increments
<1>6. s \in outs \/ s \in closed
  <2>1. status[s] # "new"
    BY <1>3, <1>4 DEF Unheard
  <2>2. client[s] \notin {"new", "refused"}
    BY <1>5, <2>1 DEF QueueInv
  <2> QED BY <1>5, <2>2 DEF SlotsInv, SlotsCounted
<1>7. r \in outs => r \notin closed
  BY DEF SlotsInv, SlotsCounted
<1>8. \/ s \notin outs /\ UNCHANGED <<ch, held, closed>>
      \/ /\ s \in outs /\ ch' = [ch EXCEPT ![s] = Append(ch[s], o)]
         /\ held' = [held EXCEPT ![s] = <<>>]
         /\ CloseAll(IF IsFinal(o) THEN {s} ELSE {})
      \/ s \in outs /\ held' = [held EXCEPT ![s] = <<o>>] /\ UNCHANGED <<ch, closed>>
  BY DEF Deliver, chanVars
<1>9. CASE r # s
  <2>1. ch'[r] = ch[r] /\ held'[r] = held[r] /\ (r \in closed' <=> r \in closed)
    <3> HIDE DEF o, s
    <3> QED BY <1>5, <1>8, <1>9 DEF ChanType, CloseAll
  <2>2. \A k, e : Due(outbox, r, k, g, e) => Due(outbox', r, k, g, e)
    BY <1>3, <1>4 DEF Due
  <2>3. Says(outbox, r) => Says(outbox', r)
    <3> SUFFICES ASSUME NEW i \in DOMAIN outbox, outbox[i].id = r PROVE Says(outbox', r)
      BY DEF Says
    <3>1. i # 1
      BY <1>3, <1>9
    <3>2. i - 1 \in DOMAIN outbox' /\ (i - 1) + 1 = i
      BY <1>3, <3>1
    <3> QED BY <1>3, <3>2 DEF Says
  <2> QED BY <1>1, <2>1, <2>2, <2>3 DEF Chained, Done, Pending
<1>10. CASE r = s
  <2>1. \A i \in DOMAIN outbox' : outbox'[i].id # r
    BY <1>3, <1>4, <1>10 DEF StepInv
  <2>2. \A k, e : Due(outbox', r, k, g, e) /\ Due(out, r, k, g, e)
    BY <1>2, <2>1 DEF Due
  <2>3. CASE s \notin outs
    BY <1>1, <1>6, <1>8, <1>10, <2>3 DEF Chained, Done
  <2>4. CASE s \in outs
    <3>1. Pending(got[r], ch[r], held[r], outbox, out, r, g, Done(r)) /\ r \notin closed
      BY <1>7, <1>10, <2>4 DEF Chained
    <3>2. Carries(Head(outbox), m, g, Done(r)) /\ EndOf(Head(outbox), g) = g
      BY <1>3, <1>4, <1>10, <3>1 DEF Pending, Due
    <3>3. /\ Carries(o, ChanEnd(got[r], ch[r], g), g, Done(r)) /\ EndOf(o, g) = g
          /\ o \in Increments
      <4>1. CASE held[r] = <<>>
        BY <1>3, <1>10, <3>2, <4>1 DEF HeldEnd
      <4>2. CASE held[r] # <<>>
        <5>1. Head(held[r]) = held[r][1] /\ Head(held[r]) \in Increments
          BY <1>5, <4>2, HeadTailProperties, TailIsRemoveFirst
        <5>2. /\ Carries(Head(held[r]), ChanEnd(got[r], ch[r], g), g, Done(r))
              /\ m = EndOf(Head(held[r]), g)
          BY <3>1, <4>2, <5>1 DEF Pending, HeldEnd
        <5>3. ChanEnd(got[r], ch[r], g) \in Nat
          BY <1>5, LinkedEnds DEF Chained
        <5>4. o = Coalesce(Head(held[r]), Head(outbox))
          BY <1>10, <4>2
        <5> DEFINE c == ChanEnd(got[r], ch[r], g)
                   a == Head(held[r])
                   b == Head(outbox)
        <5> HIDE DEF c, a, b, g, m, o
        <5>5. Carries(Coalesce(a, b), c, g, Done(r)) /\ EndOf(Coalesce(a, b), g) = EndOf(b, g)
          BY <1>3, <1>5, <3>2, <5>1, <5>2, <5>3, CoalesceCarries DEF a, b, c
        <5>6. Coalesce(a, b) \in Increments
          BY <1>3, <5>1, CoalesceType DEF a, b
        <5> QED BY <3>2, <5>4, <5>5, <5>6 DEF a, b, c
      <4> QED BY <4>1, <4>2
    <3>4. CASE ch' = [ch EXCEPT ![s] = Append(ch[s], o)] /\ held' = [held EXCEPT ![s] = <<>>]
      <4>1. ch'[r] = Append(ch[r], o) /\ held'[r] = <<>>
        BY <1>5, <1>10, <3>4 DEF ChanType
      <4> HIDE DEF o
      <4> QED BY <1>1, <2>2, <3>1, <3>3, <4>1, ChainedSent
    <3>5. CASE held' = [held EXCEPT ![s] = <<o>>] /\ UNCHANGED <<ch, closed>>
      <4>1. held'[r] = <<o>> /\ <<o>> # <<>> /\ <<o>>[1] = o
        BY <1>5, <1>10, <3>5 DEF ChanType
      <4> HIDE DEF o
      <4>2. Pending(got[r], ch[r], held'[r], outbox', out, r, g, Done(r))
        BY <2>2, <3>3, <4>1 DEF Pending, HeldEnd
      <4> QED BY <1>1, <3>5, <4>2 DEF Chained, Done
    <3> QED BY <1>8, <2>4, <3>4, <3>5
  <2> QED BY <2>3, <2>4
<1> QED BY <1>9, <1>10

LEMMA ChainedFlush ==
    ASSUME TypeOK, ChanType, SlotsInv, NEW r \in Requests, EndsLast(r), Chained(r), Flush
    PROVE  Chained(r)'
<1> DEFINE backlog == {s \in outs : held[s] # <<>>}
           sent    == {s \in backlog : Len(ch[s]) < ChanCap}
           final   == {s \in sent : IsFinal(Head(held[s]))}
           g       == generated[r]
<1>1. /\ ch' = [s \in Requests |-> IF s \in sent THEN ch[s] \o held[s] ELSE ch[s]]
      /\ held' = [s \in Requests |-> IF s \in sent THEN <<>> ELSE held[s]]
      /\ CloseAll(final)
      /\ UNCHANGED <<got, generated, stream, out, outbox, serving>>
  BY DEF Flush, vars
<1>2. CASE r \notin sent
  <2>1. r \notin final
    BY <1>2
  <2> HIDE DEF sent, final
  <2>2. ch'[r] = ch[r] /\ held'[r] = held[r] /\ (r \notin closed' => r \notin closed)
    BY <1>1, <1>2, <2>1 DEF CloseAll, ChanType
  <2> QED BY <1>1, <2>2, ChainedKept
<1>3. CASE r \in sent
  <2>1. /\ r \in outs /\ r \notin closed /\ held[r] # <<>>
        /\ held[r] \in Seq(Increments) /\ ch[r] \in Seq(Increments)
    BY <1>3 DEF ChanType, SlotsInv, SlotsCounted
  <2>2. held[r] = <<Head(held[r])>> /\ Head(held[r]) \in Increments /\ Head(held[r]) = held[r][1]
    <3>1. Len(held[r]) = 1
      <4>1. Len(held[r]) <= 1
        BY DEF EndsLast
      <4>2. Len(held[r]) \in Nat /\ Len(held[r]) # 0
        BY <2>1, LenProperties, EmptySeq
      <4>3. \A k \in Nat : k <= 1 /\ k # 0 => k = 1
        OBVIOUS
      <4> QED BY <4>1, <4>2, <4>3
    <3> QED BY <2>1, <3>1, HeadTailProperties, LenProperties, TailIsRemoveFirst
  <2> HIDE DEF sent, final
  <2>3. ch'[r] = ch[r] \o <<Head(held[r])>> /\ held'[r] = <<>>
    BY <1>1, <1>3, <2>2
  <2>4. ch'[r] = Append(ch[r], Head(held[r]))
    BY <2>1, <2>2, <2>3, AppendIsConcat
  <2>5. /\ Pending(got[r], ch[r], held[r], outbox, out, r, g, Done(r))
        /\ HeldEnd(got[r], ch[r], held[r], g) = EndOf(Head(held[r]), g)
    BY <2>1, <2>2 DEF Chained, HeldEnd
  <2>6. /\ Carries(Head(held[r]), ChanEnd(got[r], ch[r], g), g, Done(r))
        /\ Due(outbox, r, EndOf(Head(held[r]), g), g, Done(r))
        /\ Due(out, r, EndOf(Head(held[r]), g), g, Done(r))
        /\ EndOf(Head(held[r]), g) = g \/ Says(outbox, r) \/ Says(out, r)
    BY <2>1, <2>2, <2>5 DEF Pending
  <2> DEFINE o == Head(held[r])
  <2> HIDE DEF o
  <2> QED BY <1>1, <2>1, <2>2, <2>3, <2>4, <2>6, ChainedSent DEF o
<1> QED BY <1>2, <1>3

LEMMA ChainedReceive ==
    ASSUME TypeOK, ChanType, NEW r \in Requests, Chained(r), NEW s \in Requests, Receive(s)
    PROVE  Chained(r)'
<1>1. /\ ch[s] # <<>> /\ ch' = [ch EXCEPT ![s] = Tail(ch[s])]
      /\ got' = [got EXCEPT ![s] = TakeOf(got[s], Head(ch[s]))]
      /\ UNCHANGED <<held, closed, outbox>>
  BY DEF Receive, TakeOf
<1>2. UNCHANGED <<out, generated, stream>>
  BY DEF Receive, Abort, vars
<1>3. CASE r # s
  BY <1>1, <1>2, <1>3, ChainedKept DEF ChanType
<1>4. CASE r = s
  <2> DEFINE g == generated[r]
             t == TakeOf(got[r], Head(ch[r]))
             d == Tail(ch[r])
  <2>1. ch'[r] = d /\ got'[r] = t /\ ch[r] \in Seq(Increments) /\ got[r] \in Received /\ g \in Nat
    BY <1>1, <1>4 DEF ChanType, TypeOK
  <2>2. Linked(t, d, g, Done(r)) /\ ChanEnd(t, d, g) = ChanEnd(got[r], ch[r], g)
    BY <1>1, <1>4, <2>1, LinkedTake DEF Chained
  <2> HIDE DEF t, d
  <2>3. HeldEnd(t, d, held[r], g) = HeldEnd(got[r], ch[r], held[r], g)
    BY <2>2 DEF HeldEnd
  <2> QED BY <1>1, <1>2, <2>1, <2>2, <2>3 DEF Chained, Done, Pending
<1> QED BY <1>3, <1>4

LEMMA ChainedShutdown ==
    ASSUME TypeOK, ChanType, SlotsInv, QueueInv, Unheard, NEW r \in Requests, Chained(r), Shutdown
    PROVE  Chained(r)'
<1>1. /\ closed' = closed \cup outs /\ held' = [s \in Requests |-> <<>>]
      /\ UNCHANGED <<ch, got, outbox, out, generated, stream>>
  BY DEF Shutdown, vars
<1>2. r \notin closed' => held[r] = <<>>
  BY <1>1 DEF SlotsInv, SlotsCounted, QueueInv, Unheard, ChanType, ClientStates
<1> QED BY <1>1, <1>2 DEF Chained, Done

LEMMA ChainedStep ==
    ASSUME Consistent, StreamExact, OneIncrementPerStep', TypeOK', SubmitTyped, ChanType,
           SlotsInv, QueueInv, Unheard, StepInv, NEW r \in Requests, EndsLast(r), Chained(r),
           [CoreNext]_allVars
    PROVE  Chained(r)'
<1>0. TypeOK
  BY DEF Consistent
<1>1. ASSUME UNCHANGED <<ch, held, got, closed, outbox, out, generated, stream>>
      PROVE  Chained(r)'
  BY <1>1, ChainedKept
<1>2. ASSUME NEW s \in Requests, Register(s) \/ SendSubmit(s) \/ SeeClosed(s) \/ HangUp(s)
      PROVE  Chained(r)'
  BY <1>1, <1>2 DEF Register, SendSubmit, SeeClosed, HangUp, chanVars, vars, Abort
<1>3. CASE \/ Cancel \/ EndDeliver \/ EndDrain \/ IdleWake \/ IdleStop \/ PollStop
           \/ UNCHANGED allVars
  BY <1>1, <1>3 DEF allVars, coreVars, chanVars, vars, Cancel, EndDeliver, EndDrain, IdleWake,
       IdleStop, PollStop
<1>4. CASE DrainOne \/ IdleSubmit \/ PollStep
  BY <1>1, <1>4 DEF DrainOne, IdleSubmit, PollStep, AddRequest, BeginStep, chanVars, vars
<1> QED BY <1>0, <1>2, <1>3, <1>4, ChainedReceive, ChainedDeliver, ChainedFlush, ChainedShutdown,
           ChainedSpeaks DEF CoreNext, LoopMove

\* Tokens are numbered from one on.
LEMMA Counted ==
    ASSUME NEW n \in Nat, NEW s, s = [i \in 1..n |-> i]
    PROVE  /\ s \in Seq(Nat) /\ Len(s) = n
           /\ s \o <<>> = s
           /\ s \o <<n + 1>> = Append(s, Len(s) + 1)
           /\ \A k \in 0..n : SubSeq(s, 1, k) = [i \in 1..k |-> i]
<1>1. s \in Seq(Nat) /\ Len(s) = n
  OBVIOUS
<1>2. s \o <<>> = s
  BY <1>1, ConcatEmptySeq
<1>3. s \o <<n + 1>> = Append(s, Len(s) + 1)
  <2> DEFINE x == n + 1
  <2>1. x \in Nat /\ Len(s) + 1 = x
    BY <1>1
  <2> HIDE DEF x
  <2>2. s \o <<x>> = Append(s, x)
    BY <1>1, <2>1, AppendIsConcat
  <2> QED BY <2>1, <2>2 DEF x
<1>4. ASSUME NEW k \in 0..n PROVE SubSeq(s, 1, k) = [i \in 1..k |-> i]
  <2> DEFINE a == SubSeq(s, 1, k)
             b == [i \in 1..k |-> i]
  <2>1. b \in Seq(Nat) /\ Len(b) = k /\ \A i \in 1..k : b[i] = i
    OBVIOUS
  <2>2. 1 \in 1..Len(s) + 1 /\ k \in 0..Len(s)
    BY <1>1
  <2>3. a \in Seq(Nat) /\ Len(a) = k /\ \A i \in 1..k : a[i] = s[i]
    BY <1>1, <2>2, SubSeqProperties
  <2>4. \A i \in 1..k : a[i] = b[i]
    BY <2>1, <2>3
  <2> HIDE DEF a, b
  <2>5. a = b
    BY <2>1, <2>3, <2>4, SeqEqual
  <2> QED BY <2>5 DEF a, b
<1> QED BY <1>1, <1>2, <1>3, <1>4

LEMMA CarriedFromStart ==
    ASSUME NEW g \in Nat, NEW o, NEW ended, Carries(o, 0, g, ended)
    PROVE  /\ EndOf(o, g) \in Nat /\ EndOf(o, g) <= g
           /\ o.toks = [i \in 1..EndOf(o, g) |-> i]
           /\ o.reason # "none" => EndOf(o, g) = g /\ ended
<1> DEFINE k == EndOf(o, g)
<1>1. /\ k \in 0..g /\ o.toks = [i \in 1..k - 0 |-> 0 + i]
      /\ o.reason # "none" => k = g /\ ended
  BY DEF Carries
<1> HIDE DEF k
<1>2. k \in Nat /\ k <= g /\ k - 0 = k
  BY <1>1
<1>3. [i \in 1..k - 0 |-> 0 + i] = [i \in 1..k |-> i]
  <2>1. \A i \in 1..k : 0 + i = i
    BY <1>2
  <2> QED BY <1>2, <2>1
<1> QED BY <1>1, <1>2, <1>3 DEF k

\* What a step of the core is to the stream that it promises.
LEMMA CoreStepStreams ==
    ASSUME Consistent, StreamExact, ChanType, StepInv,
           \A r \in Requests : EndsLast(r) /\ Chained(r), [CoreNext]_allVars
    PROVE  [Promise!StreamNext]_(Promise!streamVars)
<1> DEFINE made  == [r \in Requests |-> stream[r].toks]
           ended == [r \in Requests |-> stream[r].ends > 0]
           taken == [r \in Requests |-> got[r].toks]
           told  == [r \in Requests |-> got[r].reason # "none"]
<1>0. /\ generated \in [Requests -> Nat] /\ stream \in [Requests -> Streams]
      /\ status \in [Requests -> Statuses] /\ got \in [Requests -> Received]
      /\ \A r \in Requests : made[r] = [i \in 1..generated[r] |-> i]
  BY DEF Consistent, TypeOK, ChanType, StreamExact
<1>1. ASSUME UNCHANGED <<stream, got>> PROVE UNCHANGED Promise!streamVars
  BY <1>1 DEF Promise!streamVars
<1>2. ASSUME NEW s \in Requests, NEW toks, NEW reason, Speaks(s, toks, reason), got' = got
      PROVE  Promise!StreamNext
  <2> DEFINE g == generated[s]
  <2>1. /\ stream' = [stream EXCEPT ![s] =
              [toks |-> @.toks \o toks, ends |-> IF reason = "none" THEN @.ends ELSE @.ends + 1]]
        /\ stream[s].ends = 0
        /\ toks = <<>> \/ toks = <<g + 1>>
        /\ reason = "none" => toks = <<g + 1>>
    BY <1>2 DEF Speaks, StreamExact, Ended
  <2>2. UNCHANGED <<taken, told>>
    BY <1>2
  <2>3. /\ \A r \in Requests \ {s} : stream'[r] = stream[r]
        /\ stream'[s].toks = made[s] \o toks
        /\ stream'[s].ends = IF reason = "none" THEN 0 ELSE 1
    BY <1>0, <2>1
  <2>0. /\ \A r \in Requests : made[r] = stream[r].toks /\ made'[r] = stream'[r].toks
        /\ \A r \in Requests : /\ ended[r] = (stream[r].ends > 0)
                               /\ ended'[r] = (stream'[r].ends > 0)
        /\ DOMAIN made = Requests /\ DOMAIN made' = Requests
        /\ DOMAIN ended = Requests /\ DOMAIN ended' = Requests
        /\ made = [r \in Requests |-> made[r]] /\ made' = [r \in Requests |-> made'[r]]
        /\ ended = [r \in Requests |-> ended[r]] /\ ended' = [r \in Requests |-> ended'[r]]
    OBVIOUS
  <2>4. made' = [made EXCEPT ![s] = made[s] \o toks]
    <3>1. \A r \in Requests : made'[r] = IF r = s THEN made[s] \o toks ELSE made[r]
      BY <2>0, <2>3
    <3> HIDE DEF made
    <3> QED BY <2>0, <3>1
  <2>5. ended' = IF reason = "none" THEN ended ELSE [ended EXCEPT ![s] = TRUE]
    <3>1. \A r \in Requests : r # s => ended'[r] = ended[r]
      BY <2>0, <2>3
    <3>2. ended'[s] = IF reason = "none" THEN ended[s] ELSE TRUE
      <4> DEFINE p == (stream[s].ends > 0)
                 q == (stream'[s].ends > 0)
      <4>1. p = FALSE /\ q = (reason # "none")
        <5>1. CASE reason = "none"
          BY <2>1, <2>3, <5>1
        <5>2. CASE reason # "none"
          BY <2>1, <2>3, <5>2
        <5> QED BY <5>1, <5>2
      <4>2. ended[s] = p /\ ended'[s] = q
        BY <2>0
      <4> HIDE DEF p, q, ended
      <4>3. ended[s] = FALSE
        BY <4>1, <4>2
      <4>4. CASE reason = "none"
        <5>1. q = FALSE
          BY <4>1, <4>4
        <5> QED BY <4>2, <4>3, <4>4, <5>1
      <4>5. CASE reason # "none"
        <5>1. q = TRUE
          BY <4>1, <4>5
        <5> QED BY <4>2, <4>5, <5>1
      <4> QED BY <4>4, <4>5
    <3> HIDE DEF ended
    <3> QED BY <2>0, <3>1, <3>2
  <2>6. ~ended[s]
    <3>1. ~(stream[s].ends > 0)
      BY <2>1
    <3> QED BY <3>1
  <2>7. /\ made[s] \o <<>> = made[s]
        /\ made[s] \o <<g + 1>> = Append(made[s], Len(made[s]) + 1)
    <3>1. made[s] = [i \in 1..g |-> i] /\ g \in Nat
      BY <1>0
    <3> HIDE DEF made, g
    <3> QED BY <3>1, Counted
  <2>8. CASE reason = "none"
    <3>1. made' = [made EXCEPT ![s] = Append(made[s], Len(made[s]) + 1)] /\ ended' = ended
      BY <2>1, <2>4, <2>5, <2>7, <2>8
    <3>2. Promise!Make(s)
      BY <2>2, <2>6, <3>1 DEF Promise!Make
    <3> QED BY <3>2 DEF Promise!StreamNext
  <2>9. CASE reason # "none"
    <3>1. /\ \/ made' = made
             \/ made' = [made EXCEPT ![s] = Append(made[s], Len(made[s]) + 1)]
          /\ ended' = [ended EXCEPT ![s] = TRUE]
      <4>1. [made EXCEPT ![s] = made[s]] = made
        OBVIOUS
      <4> QED BY <2>1, <2>4, <2>5, <2>7, <2>9, <4>1
    <3>2. Promise!End(s)
      BY <2>2, <2>6, <3>1 DEF Promise!End
    <3> QED BY <3>2 DEF Promise!StreamNext
  <2> QED BY <2>8, <2>9
<1>3. ASSUME NEW s \in Requests, Receive(s) PROVE Promise!StreamNext
  <2> DEFINE g == generated[s]
             o == Head(ch[s])
             t == TakeOf(got[s], o)
             m == EndOf(got[s], g)
             k == EndOf(t, g)
  <2>1. /\ ch[s] # <<>> /\ got' = [got EXCEPT ![s] = t] /\ UNCHANGED stream
    BY <1>3 DEF Receive, TakeOf, Abort, vars
  <2>2. UNCHANGED <<made, ended>>
    BY <2>1
  <2>3. /\ Carries(got[s], 0, g, Done(s)) /\ Carries(t, 0, g, Done(s)) /\ g \in Nat
        /\ m \in Nat
    <3>1. ch[s] \in Seq(Increments) /\ got[s] \in Received /\ g \in Nat
      BY <1>0 DEF ChanType
    <3>2. Linked(got[s], ch[s], g, Done(s))
      BY DEF Chained
    <3>3. Linked(t, Tail(ch[s]), g, Done(s)) /\ m \in Nat
      BY <2>1, <3>1, <3>2, LinkedTake, LinkedEnds
    <3> QED BY <3>1, <3>2, <3>3 DEF Linked
  <2>4. m <= k
    <3>1. 1 \in DOMAIN ch[s] /\ o = ch[s][1]
      BY <2>1, HeadTailProperties, LenProperties, EmptySeq DEF ChanType
    <3>2. Carries(o, m, g, Done(s))
      BY <3>1 DEF Chained, Linked
    <3>3. EndOf(o, g) \in m..g /\ EndOf(t, g) = EndOf(o, g)
      BY <3>2 DEF Carries, EndOf, TakeOf
    <3> QED BY <2>3, <3>3
  <2>5. /\ k \in Nat /\ k <= g
        /\ got[s].toks = [i \in 1..m |-> i] /\ t.toks = [i \in 1..k |-> i]
        /\ t.reason # "none" => k = g /\ Done(s)
    <3> HIDE DEF g, t
    <3>1. got[s].toks = [i \in 1..m |-> i]
      BY <2>3, CarriedFromStart
    <3>2. /\ k \in Nat /\ k <= g /\ t.toks = [i \in 1..k |-> i]
          /\ t.reason # "none" => k = g /\ Done(s)
      BY <2>3, CarriedFromStart
    <3> QED BY <3>1, <3>2
  <2>6. got[s].reason = "none"
    BY <2>1 DEF EndsLast, NotFinal
  <2>7. /\ made[s] = [i \in 1..g |-> i] /\ taken[s] = got[s].toks /\ ended[s] = Done(s)
        /\ told[s] = FALSE
        /\ taken' = [r \in Requests |-> IF r = s THEN t.toks ELSE taken[r]]
        /\ told' = [r \in Requests |-> IF r = s THEN t.reason # "none" ELSE told[r]]
    <3>1. \A r \in Requests : got'[r] = IF r = s THEN t ELSE got[r]
      BY <1>0, <2>1
    <3> HIDE DEF t
    <3>2. taken' = [r \in Requests |-> IF r = s THEN t.toks ELSE taken[r]]
      BY <3>1
    <3>3. told' = [r \in Requests |-> IF r = s THEN t.reason # "none" ELSE told[r]]
      BY <3>1
    <3> QED BY <1>0, <2>6, <3>2, <3>3 DEF Done
  <2>8. /\ taken = [r \in Requests |-> taken[r]] /\ told = [r \in Requests |-> told[r]]
    OBVIOUS
  <2> HIDE DEF made, taken, ended, told, t, g, m, k
  <2>9. /\ Len(taken[s]) = m /\ Len(made[s]) = g /\ SubSeq(made[s], 1, k) = t.toks
        /\ m + (k - m) = k /\ k - m \in 0..g - m
    <3>1. k \in 0..g /\ m + (k - m) = k /\ k - m \in 0..g - m
      BY <2>3, <2>4, <2>5
    <3> QED BY <2>3, <2>5, <2>7, <3>1, Counted
  <2>10. taken' = [taken EXCEPT ![s] = SubSeq(made[s], 1, Len(taken[s]) + (k - m))]
    BY <2>7, <2>8, <2>9
  <2>11. told' \in {told, [told EXCEPT ![s] = TRUE]}
    <3>1. CASE t.reason # "none"
      BY <2>7, <2>8, <3>1
    <3>2. CASE t.reason = "none"
      BY <2>7, <2>8, <3>2
    <3> QED BY <3>1, <3>2
  <2>12. told'[s] => ended[s] /\ taken'[s] = made[s]
    BY <2>5, <2>7
  <2>13. k - m \in 0..(Len(made[s]) - Len(taken[s]))
    BY <2>9
  <2>14. PICK n \in 0..(Len(made[s]) - Len(taken[s])) : n = k - m
    BY <2>13
  <2>15. taken' = [taken EXCEPT ![s] = SubSeq(made[s], 1, Len(taken[s]) + n)] /\ told[s] = FALSE
    BY <2>7, <2>10, <2>14
  <2> USE DEF made, taken, ended, told
  <2>16. Promise!Take(s, n)
    BY <2>2, <2>11, <2>12, <2>15 DEF Promise!Take
  <2> QED BY <2>14, <2>16 DEF Promise!StreamNext
<1>4. ASSUME NEW s \in Requests, Register(s) \/ SendSubmit(s) \/ SeeClosed(s) \/ HangUp(s)
      PROVE  UNCHANGED <<stream, got>>
  BY <1>4 DEF Register, SendSubmit, SeeClosed, HangUp, vars, Abort
<1>5. CASE \/ Cancel \/ EndDeliver \/ EndDrain \/ IdleWake \/ IdleStop \/ PollStop
           \/ Deliver \/ Flush \/ Shutdown \/ UNCHANGED allVars
  BY <1>1, <1>5 DEF allVars, coreVars, vars, Cancel, EndDeliver, EndDrain, IdleWake,
       IdleStop, PollStop, Deliver, Flush, Shutdown
<1>6. CASE DrainOne \/ IdleSubmit \/ PollStep
  BY <1>1, <1>6 DEF DrainOne, IdleSubmit, PollStep, AddRequest, BeginStep, vars
<1>7. CASE RunStep
  <2>1. got' = got /\ (Silent \/ \E r \in Requests : \E toks, reason : Speaks(r, toks, reason))
    BY <1>7, StepEffect DEF RunStep, Next
  <2>2. CASE Silent
    BY <1>1, <2>1, <2>2 DEF Silent
  <2> QED BY <1>2, <2>1, <2>2
<1> QED BY <1>1, <1>3, <1>4, <1>5, <1>6, <1>7 DEF CoreNext, LoopMove

Channels == \A r \in Requests : EndsLast(r) /\ Chained(r)

LEMMA ChannelsFromStart == CoreInit => StepInv /\ Channels /\ Promise!StreamInit
<1> SUFFICES ASSUME CoreInit PROVE StepInv /\ Channels /\ Promise!StreamInit
  OBVIOUS
<1>1. StepInv
  BY DEF CoreInit, Init, StepInv
<1>2. ASSUME NEW r \in Requests PROVE EndsLast(r) /\ Chained(r)
  <2>1. /\ ch[r] = <<>> /\ held[r] = <<>> /\ got[r] = Nothing /\ generated[r] = 0
        /\ stream[r].ends = 0 /\ outbox = <<>> /\ out = <<>> /\ r \notin closed
    BY DEF CoreInit, Init
  <2>2. Len(<<>>) = 0
    BY EmptySeq
  <2>3. EndsLast(r)
    BY <2>1, <2>2 DEF EndsLast, NotFinal, Nothing
  <2>4. EndOf(Nothing, 0) = 0
    BY DEF EndOf, Nothing
  <2>5. Carries(Nothing, 0, 0, Done(r))
    <3>1. [i \in 1..0 - 0 |-> 0 + i] = <<>>
      OBVIOUS
    <3> QED BY <2>4, <3>1 DEF Carries, Nothing
  <2>6. Linked(Nothing, <<>>, 0, Done(r)) /\ ChanEnd(Nothing, <<>>, 0) = 0
    BY <2>4, <2>5 DEF Linked, ChanEnd
  <2>7. Pending(Nothing, <<>>, <<>>, <<>>, <<>>, r, 0, Done(r))
    BY <2>6 DEF Pending, HeldEnd, Due
  <2> QED BY <2>1, <2>3, <2>6, <2>7 DEF Chained
<1>3. Promise!StreamInit
  <2>1. /\ \A r \in Requests : stream[r].toks = <<>> /\ got[r].toks = <<>>
        /\ \A r \in Requests : ~(stream[r].ends > 0) /\ ~(got[r].reason # "none")
    BY DEF CoreInit, Init, Nothing
  <2>2. [r \in Requests |-> stream[r].ends > 0] = [r \in Requests |-> FALSE]
    <3>1. \A r \in Requests : (stream[r].ends > 0) = FALSE
      BY <2>1
    <3> QED BY <3>1
  <2>3. [r \in Requests |-> got[r].reason # "none"] = [r \in Requests |-> FALSE]
    <3>1. \A r \in Requests : (got[r].reason # "none") = FALSE
      BY <2>1
    <3> QED BY <3>1, Zenon
  <2> QED BY <2>1, <2>2, <2>3 DEF Promise!StreamInit
<1> QED BY <1>1, <1>2, <1>3 DEF Channels

LEMMA CoreTables ==
    CoreSpec => [](Consistent /\ TypeOK /\ StreamExact /\ OneIncrementPerStep
                   /\ SubmitTyped /\ ChanType /\ SlotsInv)
<1>1. CoreSpec => []Consistent /\ []TypeOK /\ []StreamExact /\ []OneIncrementPerStep
  BY CoreDrivesScheduler, TablesConsistent, TypeCorrect, StreamsExact, OneIncrement, PTL
     DEF DrivesScheduler
<1>2. CoreSpec => [](SubmitTyped /\ ChanType /\ SlotsInv)
  BY <1>1, CoreInitInv, SubmitTypeStep, ChanTypeStep, SlotsStep, PTL DEF CoreSpec
<1> QED BY <1>1, <1>2, PTL

LEMMA ChannelsKept == CoreSpec => [](StepInv /\ Channels)
<1>1. CoreInit => StepInv /\ Channels
  BY ChannelsFromStart
<1>2. /\ Consistent /\ StreamExact /\ OneIncrementPerStep /\ OneIncrementPerStep' /\ TypeOK'
      /\ SubmitTyped /\ ChanType /\ SlotsInv /\ QueueInv /\ Unheard
      /\ StepInv /\ Channels /\ [CoreNext]_allVars
      => StepInv' /\ Channels'
  <2> SUFFICES ASSUME Consistent, StreamExact, OneIncrementPerStep, OneIncrementPerStep', TypeOK',
                      SubmitTyped, ChanType, SlotsInv, QueueInv, Unheard, StepInv, Channels,
                      [CoreNext]_allVars
               PROVE  StepInv' /\ Channels'
    OBVIOUS
  <2>1. StepInv'
    BY StepInvStep DEF Consistent
  <2>2. ASSUME NEW r \in Requests PROVE EndsLast(r)' /\ Chained(r)'
    BY EndsLastStep, ChainedStep DEF Channels
  <2> QED BY <2>1, <2>2 DEF Channels
<1>3. EnteringInv => QueueInv /\ Unheard
  BY DEF EnteringInv
<1> QED BY <1>1, <1>2, <1>3, CoreTables, QueueKept, PTL DEF CoreSpec

\* The channels hand every handler what its request produced: the tokens in order, each
\* once, and the end behind all of them, whatever was coalesced on the way (core.go
\* deliver, flushPending, coalesce, under the scheduler's increments).
THEOREM CoreImplementsStream == CoreSpec => ImplementsStream
<1>1. CoreInit => Promise!StreamInit
  BY ChannelsFromStart
<1>2. Consistent /\ StreamExact /\ ChanType /\ StepInv /\ Channels /\ [CoreNext]_allVars
      => [Promise!StreamNext]_(Promise!streamVars)
  BY CoreStepStreams DEF Channels
<1> QED BY <1>1, <1>2, CoreTables, ChannelsKept, PTL
        DEF CoreSpec, ImplementsStream, Promise!StreamSpec

-----------------------------------------------------------------------------
(* What is on its way to a handler is, token by token, what it has not got.  *)

\* The first k tokens.
FirstOnes(k) == [i \in 1..k |-> i]

\* The tokens after the first m, up to the n-th.
Span(m, n) == [i \in 1..n - m |-> m + i]

\* What gt holds with the first k increments of c, and the count behind them.
Joined(gt, c, k)   == gt.toks \o Toks(SubSeq(c, 1, k))
EndAt(gt, c, g, k) == IF k = 0 THEN EndOf(gt, g) ELSE EndOf(c[k], g)

\* The k-th increment of s takes the count from e[k - 1] to e[k], with its tokens.
StepsUp(s, e, n) ==
    /\ \A k \in 0..n : e[k] \in Nat
    /\ \A k \in 1..n : /\ e[k - 1] <= e[k]
                      /\ s[k].toks = [i \in 1..e[k] - e[k - 1] |-> e[k - 1] + i]

\* Increments that carry on from each other carry, together, all the tokens between the
\* first and the last count.
LEMMA ToksCarriedOn ==
    ASSUME NEW n \in Nat, NEW s, DOMAIN s = 1..n, NEW e, StepsUp(s, e, n)
    PROVE  e[0] <= e[n] /\ Toks(s) = Span(e[0], e[n])
<1> USE DEF StepsUp, Span
<1> DEFINE p == [k \in 1..n |-> s[k].toks]
<1>1. Toks(s) = FlattenSeq(p)
  BY DEF Toks
<1>2. p \in Seq(Seq(Nat)) /\ Len(p) = n
  <2>1. ASSUME NEW k \in 1..n PROVE s[k].toks \in Seq(Nat)
    <3> DEFINE x == e[k - 1]
               m == e[k] - x
    <3>1. k \in 0..n /\ k - 1 \in 0..n
      OBVIOUS
    <3>2. x \in Nat /\ m \in Nat /\ s[k].toks = [i \in 1..m |-> x + i]
      BY <3>1
    <3> HIDE DEF x, m
    <3>3. \A i \in 1..m : x + i \in Nat
      BY <3>2
    <3>4. [i \in 1..m |-> x + i] \in Seq(Nat)
      BY <3>2, <3>3
    <3> QED BY <3>2, <3>4
  <2> QED BY <2>1
<1> HIDE DEF p
<1>3. CASE n = 0
  <2>1. p = <<>> /\ [i \in 1..e[0] - e[0] |-> e[0] + i] = <<>>
    BY <1>2, <1>3, EmptySeq
  <2>2. Toks(s) = <<>>
    BY <1>1, <2>1, FlattenNone
  <2> QED BY <1>3, <2>1, <2>2
<1>4. CASE n # 0
  <2>1. PICK f : /\ f = [i \in 1..n |-> IF i = 1 THEN p[i] ELSE f[i - 1] \o p[i]]
                 /\ FlattenSeq(p) = f[n]
    <3>1. n \in Nat \ {0} /\ Len(p) = n
      BY <1>2, <1>4
    <3>2. \E f : /\ f = [i \in 1..n |-> IF i = 1 THEN p[i] ELSE f[i - 1] \o p[i]]
                /\ FlattenSeq(p) = f[n]
      BY <3>1, FlattenIs
    <3> QED BY <3>2
  <2> DEFINE T == {k \in Nat : /\ e[0] <= e[k]
                               /\ k = 0 \/ f[k] = [i \in 1..e[k] - e[0] |-> e[0] + i]}
  <2>2. 0 \in T
    OBVIOUS
  <2>3. ASSUME NEW k \in 0..n - 1, k \in T PROVE k + 1 \in T
    <3>1. /\ k + 1 \in 1..n /\ (k + 1) - 1 = k /\ (k + 1 = 1 <=> k = 0) /\ k \in 0..n
          /\ k + 1 \in 0..n /\ k + 1 \in Nat
      OBVIOUS
    <3>2. /\ e[k] <= e[k + 1] /\ e[0] \in Nat /\ e[k] \in Nat /\ e[k + 1] \in Nat
          /\ p[k + 1] = [i \in 1..e[k + 1] - e[k] |-> e[k] + i]
      BY <3>1 DEF p
    <3>3. f[k + 1] = IF k = 0 THEN p[k + 1] ELSE f[k] \o p[k + 1]
      BY <2>1, <3>1
    <3>4. e[0] <= e[k]
      BY <2>3
    <3>5. e[0] <= e[k + 1]
      BY <3>2, <3>4
    <3>6. f[k + 1] = [i \in 1..e[k + 1] - e[0] |-> e[0] + i]
      <4>1. CASE k = 0
        BY <3>2, <3>3, <4>1
      <4>2. CASE k # 0
        <5>1. f[k] = [i \in 1..e[k] - e[0] |-> e[0] + i]
          BY <2>3, <4>2
        <5>2. [i \in 1..e[k] - e[0] |-> e[0] + i] \o [i \in 1..e[k + 1] - e[k] |-> e[k] + i]
                = [i \in 1..e[k + 1] - e[0] |-> e[0] + i]
          BY <3>2, <3>4, CountUp
        <5> QED BY <3>2, <3>3, <4>2, <5>1, <5>2
      <4> QED BY <4>1, <4>2
    <3> QED BY <3>1, <3>5, <3>6
  <2> HIDE DEF T
  <2>4. n \in T
    <3>1. n \in 0..n
      OBVIOUS
    <3> QED BY <2>2, <2>3, <3>1, Induct
  <2> QED BY <1>1, <1>4, <2>1, <2>4 DEF T
<1> QED BY <1>3, <1>4

LEMMA CountOn ==
    ASSUME NEW n \in Nat, NEW k \in Nat, n <= k
    PROVE  /\ FirstOnes(n) \o Span(n, k) = FirstOnes(k)
           /\ FirstOnes(n) \in Seq(Nat) /\ Len(FirstOnes(n)) = n
           /\ Span(n, k) \in Seq(Nat)
<1> DEFINE z == 0
<1>1. z \in Nat /\ z <= n
  OBVIOUS
<1>2. \A j \in Nat : [i \in 1..j - z |-> z + i] = FirstOnes(j)
  BY DEF FirstOnes
<1> HIDE DEF z
<1>3. [i \in 1..n - z |-> z + i] \o [i \in 1..k - n |-> n + i] = [i \in 1..k - z |-> z + i]
  BY <1>1, CountUp
<1>4. FirstOnes(n) \in Seq(Nat) /\ Len(FirstOnes(n)) = n
  BY DEF FirstOnes
<1>5. [i \in 1..k - n |-> n + i] \in Seq(Nat)
  <2> DEFINE m == k - n
  <2>1. m \in Nat /\ \A i \in 1..m : n + i \in Nat
    OBVIOUS
  <2> HIDE DEF m
  <2>2. [i \in 1..m |-> n + i] \in Seq(Nat)
    BY <2>1
  <2> QED BY <2>2 DEF m
<1> QED BY <1>2, <1>3, <1>4, <1>5 DEF Span

\* What a handler has, and the first k increments in its channel.
LEMMA LinkedToks ==
    ASSUME NEW g \in Nat, NEW gt, NEW c \in Seq(Increments), NEW ended, Linked(gt, c, g, ended),
           NEW k \in 0..Len(c)
    PROVE  /\ EndAt(gt, c, g, k) \in 0..g
           /\ Joined(gt, c, k) = FirstOnes(EndAt(gt, c, g, k))
<1> DEFINE x == EndAt(gt, c, g, k)
           e == [j \in 0..k |-> IF j = 0 THEN EndOf(gt, g) ELSE EndOf(c[j], g)]
           s == SubSeq(c, 1, k)
<1>1. /\ Len(c) \in Nat /\ DOMAIN c = 1..Len(c) /\ k \in Nat
      /\ EndOf(gt, g) \in Nat /\ \A j \in DOMAIN c : EndOf(c[j], g) \in Nat
  <2>1. Len(c) \in Nat /\ DOMAIN c = 1..Len(c) /\ k \in Nat
    BY LenProperties
  <2>2. EndOf(gt, g) \in Nat /\ \A j \in DOMAIN c : EndOf(c[j], g) \in Nat
    BY LinkedEnds
  <2> QED BY <2>1, <2>2
<1>2. DOMAIN s = 1..k /\ \A j \in 1..k : s[j] = c[j]
  BY <1>1
<1>3. /\ \A j \in 0..k : e[j] \in Nat
      /\ e[0] = EndOf(gt, g) /\ e[k] = x
  BY <1>1 DEF EndAt
<1>4. ASSUME NEW j \in 1..k
      PROVE  /\ e[j - 1] <= e[j]
             /\ s[j].toks = [i \in 1..e[j] - e[j - 1] |-> e[j - 1] + i]
  <2>1. /\ j \in DOMAIN c /\ j \in 0..k /\ j - 1 \in 0..k /\ j # 0
        /\ j - 1 = 0 <=> j = 1
    BY <1>1
  <2>2. Carries(c[j], IF j = 1 THEN EndOf(gt, g) ELSE EndOf(c[j - 1], g), g, ended)
    BY <2>1 DEF Linked
  <2>3. e[j] = EndOf(c[j], g) /\ e[j - 1] = IF j = 1 THEN EndOf(gt, g) ELSE EndOf(c[j - 1], g)
    BY <2>1
  <2> HIDE DEF e, s
  <2>4. Carries(s[j], e[j - 1], g, ended) /\ EndOf(s[j], g) = e[j]
    BY <1>2, <2>2, <2>3
  <2>5. e[j] \in Nat /\ e[j - 1] \in Nat
    BY <1>3, <2>1
  <2> QED BY <2>4, <2>5 DEF Carries
<1>5. /\ Carries(gt, 0, g, ended)
      /\ k # 0 => EndOf(c[k], g) <= g
  <2>1. Carries(gt, 0, g, ended)
    BY DEF Linked
  <2>2. ASSUME k # 0 PROVE EndOf(c[k], g) <= g
    <3>1. k \in DOMAIN c
      BY <1>1, <2>2
    <3>2. PICK m : Carries(c[k], m, g, ended)
      BY <3>1 DEF Linked
    <3> QED BY <3>2 DEF Carries
  <2> QED BY <2>1, <2>2
<1>. HIDE DEF e, s, x
<1>6. e[0] <= x /\ Toks(s) = Span(e[0], x)
  <2>1. StepsUp(s, e, k)
    BY <1>3, <1>4 DEF StepsUp
  <2>2. k \in Nat /\ DOMAIN s = 1..k
    BY <1>1, <1>2
  <2> QED BY <1>3, <2>1, <2>2, ToksCarriedOn
<1>7. gt.toks = FirstOnes(e[0]) /\ e[0] <= g
  BY <1>3, <1>5, CarriedFromStart DEF FirstOnes
<1>8. x \in Nat /\ e[0] \in Nat
  BY <1>1, <1>3
<1>9. FirstOnes(e[0]) \o Span(e[0], x) = FirstOnes(x)
  BY <1>6, <1>8, CountOn
<1>10. x <= g
  <2>1. CASE k = 0
    BY <1>3, <1>7, <2>1
  <2>2. CASE k # 0
    BY <1>5, <2>2 DEF x, EndAt
  <2> QED BY <2>1, <2>2
<1>11. x \in 0..g
  BY <1>8, <1>10
<1>12. gt.toks \o Toks(s) = FirstOnes(x)
  BY <1>6, <1>7, <1>9
<1> QED BY <1>11, <1>12 DEF s, x, Joined

\* What a step says about a request.
LEMMA SaidToks ==
    ASSUME NEW g \in Nat, NEW m \in Nat, m <= g, NEW r, NEW q \in Seq(Increments), NEW ended,
           Due(q, r, m, g, ended), \A i, j \in DOMAIN q : q[i].id = q[j].id => i = j
    PROVE  Toks(Of(r, q)) = IF Says(q, r) THEN Span(m, g) ELSE <<>>
<1> DEFINE n == Len(q)
           e == [k \in 0..n |-> IF \E j \in 1..k : q[j].id = r THEN g ELSE m]
           s == Of(r, q)
<1>1. n \in Nat /\ DOMAIN q = 1..n
  BY LenProperties
<1>2. DOMAIN s = 1..n /\ \A k \in 1..n : s[k] = IF q[k].id = r THEN q[k] ELSE Nothing
  BY <1>1 DEF Of
<1>3. /\ \A k \in 0..n : e[k] = IF \E j \in 1..k : q[j].id = r THEN g ELSE m
      /\ \A k \in 0..n : e[k] \in Nat
  OBVIOUS
<1>4. e[0] = m /\ e[n] = IF Says(q, r) THEN g ELSE m
  BY <1>1 DEF Says
<1> HIDE DEF n, e, s
<1>5. ASSUME NEW k \in 1..n
      PROVE  /\ e[k - 1] <= e[k]
             /\ s[k].toks = [i \in 1..e[k] - e[k - 1] |-> e[k - 1] + i]
  <2>1. k \in 0..n /\ k - 1 \in 0..n /\ 1..k = (1..k - 1) \cup {k}
    BY <1>1
  <2>2. CASE q[k].id = r
    <3>1. e[k] = g
      BY <1>3, <2>1, <2>2
    <3>2. e[k - 1] = m
      <4>1. ~ \E j \in 1..k - 1 : q[j].id = r
        BY <1>1, <2>2
      <4> QED BY <1>3, <2>1, <4>1
    <3>3. Carries(s[k], m, g, ended) /\ EndOf(s[k], g) = g
      BY <1>1, <1>2, <2>2 DEF Due
    <3> QED BY <3>1, <3>2, <3>3 DEF Carries
  <2>3. CASE q[k].id # r
    <3>1. e[k] = e[k - 1] /\ e[k] \in Nat
      BY <1>3, <2>1, <2>3
    <3>2. s[k].toks = <<>>
      BY <1>2, <2>3 DEF Nothing
    <3> DEFINE x == e[k]
    <3> HIDE DEF x
    <3>3. \A y \in Nat : [i \in 1..y - y |-> y + i] = <<>>
      OBVIOUS
    <3> QED BY <3>1, <3>2, <3>3
  <2> QED BY <2>2, <2>3
<1>6. Toks(s) = Span(e[0], e[n])
  <2>1. StepsUp(s, e, n)
    BY <1>3, <1>5 DEF StepsUp
  <2> QED BY <1>1, <1>2, <2>1, ToksCarriedOn
<1>7. Span(m, m) = <<>>
  BY DEF Span
<1> QED BY <1>4, <1>6, <1>7 DEF s

\* Joined increments carry the joined tokens.
LEMMA ToksConcat ==
    ASSUME NEW a \in Seq(Increments \cup {Nothing}), NEW b \in Seq(Increments \cup {Nothing})
    PROVE  /\ a \o b \in Seq(Increments \cup {Nothing})
           /\ Toks(a) \in Seq(Nat)
           /\ Toks(a \o b) = Toks(a) \o Toks(b)
<1> DEFINE Toked(s) == [i \in DOMAIN s |-> s[i].toks]
<1>1. \A o \in Increments \cup {Nothing} : o.toks \in Seq(Nat)
  <2>1. <<>> \in Seq(Nat) /\ Nothing.toks = <<>>
    BY DEF Nothing
  <2>2. \A o \in Increments : o.toks \in Seq(Nat)
    BY DEF Increments
  <2> QED BY <2>1, <2>2
<1>2. ASSUME NEW s \in Seq(Increments \cup {Nothing})
      PROVE  /\ Toked(s) \in Seq(Seq(Nat)) /\ Len(Toked(s)) = Len(s)
             /\ \A i \in 1..Len(s) : Toked(s)[i] = s[i].toks
  <2>1. Len(s) \in Nat /\ DOMAIN s = 1..Len(s)
    BY LenProperties
  <2>2. \A i \in 1..Len(s) : s[i].toks \in Seq(Nat)
    BY <1>1, <2>1, ElementOfSeq
  <2> QED BY <2>1, <2>2
<1>3. a \o b \in Seq(Increments \cup {Nothing}) /\ Len(a \o b) = Len(a) + Len(b)
  BY ConcatProperties, LenProperties
<1>4. Len(a) \in Nat /\ Len(b) \in Nat
  BY LenProperties
<1>5. Toked(a \o b) = Toked(a) \o Toked(b)
  <2> DEFINE x == Toked(a \o b)
             y == Toked(a) \o Toked(b)
  <2>1. /\ x \in Seq(Seq(Nat)) /\ Len(x) = Len(a) + Len(b)
        /\ \A i \in 1..Len(a) + Len(b) : x[i] = (a \o b)[i].toks
    BY <1>2, <1>3
  <2>2. /\ y \in Seq(Seq(Nat)) /\ Len(y) = Len(a) + Len(b)
        /\ \A i \in 1..Len(a) + Len(b) : y[i] = IF i <= Len(a) THEN Toked(a)[i]
                                                ELSE Toked(b)[i - Len(a)]
    <3> DEFINE ta == Toked(a)
               tb == Toked(b)
    <3>1. ta \in Seq(Seq(Nat)) /\ tb \in Seq(Seq(Nat)) /\ Len(ta) = Len(a) /\ Len(tb) = Len(b)
      BY <1>2
    <3> HIDE DEF ta, tb
    <3>2. /\ ta \o tb \in Seq(Seq(Nat)) /\ Len(ta \o tb) = Len(a) + Len(b)
          /\ \A i \in 1..Len(a) + Len(b) : (ta \o tb)[i] = IF i <= Len(a) THEN ta[i]
                                                           ELSE tb[i - Len(a)]
      <4>1. /\ ta \o tb \in Seq(Seq(Nat)) /\ Len(ta \o tb) = Len(ta) + Len(tb)
            /\ \A i \in 1..Len(ta) + Len(tb) : (ta \o tb)[i] = IF i <= Len(ta) THEN ta[i]
                                                               ELSE tb[i - Len(ta)]
        BY <3>1, ConcatProperties
      <4> QED BY <3>1, <4>1
    <3> QED BY <3>2 DEF ta, tb
  <2>3. \A i \in 1..Len(a) + Len(b) : (a \o b)[i] = IF i <= Len(a) THEN a[i] ELSE b[i - Len(a)]
    BY <1>4, ConcatProperties
  <2>4. \A i \in 1..Len(a) + Len(b) : x[i] = y[i]
    <3> SUFFICES ASSUME NEW i \in 1..Len(a) + Len(b) PROVE x[i] = y[i]
      OBVIOUS
    <3> HIDE DEF x, y, Toked
    <3>1. CASE i <= Len(a)
      <4>1. i \in 1..Len(a)
        BY <1>4, <3>1
      <4> QED BY <1>2, <2>1, <2>2, <2>3, <3>1, <4>1
    <3>2. CASE ~(i <= Len(a))
      <4>1. i - Len(a) \in 1..Len(b)
        BY <1>4, <3>2
      <4> QED BY <1>2, <2>1, <2>2, <2>3, <3>2, <4>1
    <3> QED BY <3>1, <3>2
  <2> HIDE DEF x, y
  <2>5. x = y
    BY <2>1, <2>2, <2>4, SeqEqual
  <2> QED BY <2>5 DEF x, y
<1>6. \A s : Toks(s) = FlattenSeq(Toked(s))
  BY DEF Toks
<1> HIDE DEF Toked
<1>7. FlattenSeq(Toked(a) \o Toked(b)) = FlattenSeq(Toked(a)) \o FlattenSeq(Toked(b))
  BY <1>2, FlattenConcat
<1>8. FlattenSeq(Toked(a)) \in Seq(Nat)
  BY <1>2, FlattenType
<1> QED BY <1>3, <1>5, <1>6, <1>7, <1>8

\* The backlog carries on from the channel.
LEMMA HeldToks ==
    ASSUME NEW g \in Nat, NEW m \in Nat, m <= g, NEW h \in Seq(Increments), Len(h) <= 1,
           NEW ended, h # <<>> => Carries(h[1], m, g, ended),
           NEW x, x = IF h = <<>> THEN m ELSE EndOf(h[1], g)
    PROVE  /\ x \in m..g
           /\ Toks(h) = Span(m, x)
<1> DEFINE n == Len(h)
           e == [k \in 0..n |-> IF k = 0 THEN m ELSE x]
<1>1. n \in 0..1 /\ DOMAIN h = 1..n /\ (h = <<>> <=> n = 0)
  <2>1. n \in Nat /\ DOMAIN h = 1..n /\ n <= 1
    BY LenProperties
  <2>2. h = <<>> <=> n = 0
    BY EmptySeq
  <2> QED BY <2>1, <2>2
<1>2. x \in m..g
  BY DEF Carries
<1>3. e[0] = m /\ e[n] = x /\ \A k \in 0..n : e[k] \in Nat
  BY <1>1, <1>2
<1>4. ASSUME NEW k \in 1..n
      PROVE  /\ e[k - 1] <= e[k]
             /\ h[k].toks = [i \in 1..e[k] - e[k - 1] |-> e[k - 1] + i]
  <2>1. k = 1 /\ e[k - 1] = m /\ e[k] = x /\ x = EndOf(h[1], g) /\ Carries(h[1], m, g, ended)
    BY <1>1
  <2> HIDE DEF e
  <2>2. h[k].toks = [i \in 1..x - m |-> m + i]
    BY <2>1 DEF Carries
  <2> QED BY <1>2, <2>1, <2>2
<1> HIDE DEF e, n
<1>5. Toks(h) = Span(e[0], e[n])
  <2>1. StepsUp(h, e, n)
    BY <1>3, <1>4 DEF StepsUp
  <2> QED BY <1>1, <2>1, ToksCarriedOn
<1> QED BY <1>2, <1>3, <1>5

\* What is on its way over an open channel is what its request has produced beyond what
\* its handler has.
LEMMA OpenDelivers ==
    ASSUME Consistent, StreamExact, OneIncrementPerStep, ChanType, SlotsInv, StepInv,
           NEW r \in Requests, EndsLast(r), Chained(r), r \in outs
    PROVE  got[r].toks \o Toks(InTransit(r)) = stream[r].toks
<1> DEFINE g == generated[r]
           c == ch[r]
           h == held[r]
           l == ChanEnd(got[r], c, g)
           m == HeldEnd(got[r], c, h, g)
           X == Increments \cup {Nothing}
<1>1. /\ g \in Nat /\ c \in Seq(Increments) /\ h \in Seq(Increments) /\ Len(h) <= 1
      /\ outbox \in Seq(Increments) /\ out \in Seq(Increments) /\ got[r] \in Received
      /\ stream[r].toks = FirstOnes(g)
  BY DEF Consistent, TypeOK, ChanType, StreamExact, EndsLast, FirstOnes
<1>2. Linked(got[r], c, g, Done(r)) /\ Pending(got[r], c, h, outbox, out, r, g, Done(r))
  BY DEF Chained, SlotsInv, SlotsCounted
<1> HIDE DEF c, h, g
<1>3. l \in 0..g /\ got[r].toks \o Toks(c) = FirstOnes(l)
  <2>1. Len(c) \in 0..Len(c) /\ SubSeq(c, 1, Len(c)) = c /\ (c = <<>> <=> Len(c) = 0)
    BY <1>1, LenProperties, EmptySeq, SubSeqFull
  <2>2. l = IF Len(c) = 0 THEN EndOf(got[r], g) ELSE EndOf(c[Len(c)], g)
    BY <2>1 DEF ChanEnd
  <2> HIDE DEF l
  <2>3. l \in 0..g /\ got[r].toks \o Toks(SubSeq(c, 1, Len(c))) = FirstOnes(l)
    <3> DEFINE gt == got[r]
               d == Done(r)
               k == Len(c)
    <3>1. g \in Nat /\ c \in Seq(Increments) /\ Linked(gt, c, g, d)
      BY <1>1, <1>2
    <3>2. k \in 0..Len(c) /\ l = EndAt(gt, c, g, k)
      BY <2>1, <2>2 DEF EndAt
    <3> HIDE DEF gt, d, k
    <3>3. /\ EndAt(gt, c, g, k) \in 0..g
          /\ Joined(gt, c, k) = FirstOnes(EndAt(gt, c, g, k))
      BY <3>1, <3>2, LinkedToks
    <3> QED BY <3>2, <3>3 DEF gt, k, Joined
  <2> QED BY <2>1, <2>3
<1>4. m \in l..g /\ Toks(h) = Span(l, m)
  <2>1. m = IF h = <<>> THEN l ELSE EndOf(h[1], g)
    BY DEF HeldEnd
  <2>2. h # <<>> => Carries(h[1], l, g, Done(r))
    BY <1>2 DEF Pending
  <2>3. l \in Nat /\ l <= g
    BY <1>1, <1>3
  <2>4. g \in Nat /\ h \in Seq(Increments) /\ Len(h) <= 1
    BY <1>1
  <2> HIDE DEF l, m
  <2> DEFINE d == Done(r)
  <2> HIDE DEF d
  <2>5. m \in l..g /\ Toks(h) = Span(l, m)
    <3>1. h # <<>> => Carries(h[1], l, g, d)
      BY <2>2 DEF d
    <3> QED BY <2>1, <2>3, <2>4, <3>1, HeldToks
  <2> QED BY <2>5
<1>5. /\ Due(outbox, r, m, g, Done(r)) /\ Due(out, r, m, g, Done(r))
      /\ m = g \/ Says(outbox, r) \/ Says(out, r)
  BY <1>2 DEF Pending
<1> HIDE DEF l, m
<1>6. l \in Nat /\ m \in Nat /\ l <= m /\ m <= g
  BY <1>1, <1>3, <1>4
<1>7. Toks(Of(r, outbox)) \o Toks(Of(r, out)) = Span(m, g)
  <2> DEFINE b == Span(m, g)
  <2>1. /\ Toks(Of(r, outbox)) = IF Says(outbox, r) THEN b ELSE <<>>
        /\ Toks(Of(r, out)) = IF Says(out, r) THEN b ELSE <<>>
    <3>1. /\ \A i, j \in DOMAIN outbox : outbox[i].id = outbox[j].id => i = j
          /\ \A i, j \in DOMAIN out : out[i].id = out[j].id => i = j
      BY DEF StepInv, OneIncrementPerStep
    <3>2. Toks(Of(r, outbox)) = IF Says(outbox, r) THEN b ELSE <<>>
      BY <1>1, <1>5, <1>6, <3>1, SaidToks
    <3>3. Toks(Of(r, out)) = IF Says(out, r) THEN b ELSE <<>>
      BY <1>1, <1>5, <1>6, <3>1, SaidToks
    <3> QED BY <3>2, <3>3
  <2>2. ~Says(outbox, r) \/ ~Says(out, r)
    <3>1. outbox = <<>> \/ out = <<>>
      BY DEF StepInv
    <3> QED BY <3>1 DEF Says
  <2>3. b \in Seq(Nat) /\ b \o <<>> = b /\ <<>> \o b = b
    <3>1. b \in Seq(Nat)
      BY <1>1, <1>6, CountOn
    <3> HIDE DEF b
    <3> QED BY <3>1, ConcatEmptySeq
  <2>4. m = g => b = <<>>
    <3>1. \A y \in Nat : [i \in 1..y - y |-> y + i] = <<>>
      OBVIOUS
    <3> QED BY <1>1, <3>1 DEF Span
  <2> HIDE DEF b
  <2>5. Toks(Of(r, outbox)) \o Toks(Of(r, out)) = b
    <3>1. CASE Says(outbox, r)
      BY <2>1, <2>2, <2>3, <3>1
    <3>2. CASE Says(out, r)
      BY <2>1, <2>2, <2>3, <3>2
    <3>3. CASE ~Says(outbox, r) /\ ~Says(out, r)
      BY <1>5, <2>1, <2>3, <2>4, <3>3
    <3> QED BY <3>1, <3>2, <3>3
  <2> QED BY <2>5 DEF b
<1>8. /\ c \in Seq(X) /\ h \in Seq(X) /\ Of(r, outbox) \in Seq(X) /\ Of(r, out) \in Seq(X)
  <2>1. \A q \in Seq(Increments) : q \in Seq(X)
    OBVIOUS
  <2>2. \A q \in Seq(Increments) : Of(r, q) \in Seq(X)
    <3> SUFFICES ASSUME NEW q \in Seq(Increments) PROVE Of(r, q) \in Seq(X)
      OBVIOUS
    <3>1. Len(q) \in Nat /\ DOMAIN q = 1..Len(q) /\ \A i \in 1..Len(q) : q[i] \in Increments
      BY LenProperties, ElementOfSeq
    <3>2. Of(r, q) \in [1..Len(q) -> X]
      BY <3>1 DEF Of
    <3> QED BY <3>1, <3>2
  <2> QED BY <1>1, <2>1, <2>2
<1> HIDE DEF X
<1>9. Toks(InTransit(r)) =
        ((Toks(c) \o Toks(h)) \o Toks(Of(r, outbox))) \o Toks(Of(r, out))
  <2>1. c \o h \in Seq(X) /\ Toks(c \o h) = Toks(c) \o Toks(h)
    BY <1>8, ToksConcat DEF X
  <2>2. /\ (c \o h) \o Of(r, outbox) \in Seq(X)
        /\ Toks((c \o h) \o Of(r, outbox)) = Toks(c \o h) \o Toks(Of(r, outbox))
    BY <1>8, <2>1, ToksConcat DEF X
  <2>3. Toks(((c \o h) \o Of(r, outbox)) \o Of(r, out))
          = Toks((c \o h) \o Of(r, outbox)) \o Toks(Of(r, out))
    BY <1>8, <2>2, ToksConcat DEF X
  <2> QED BY <2>1, <2>2, <2>3 DEF InTransit, c, h
<1>10. /\ got[r].toks \in Seq(Nat) /\ Toks(c) \in Seq(Nat) /\ Toks(h) \in Seq(Nat)
       /\ Toks(Of(r, outbox)) \in Seq(Nat) /\ Toks(Of(r, out)) \in Seq(Nat)
  BY <1>1, <1>8, ToksConcat DEF X, Received
<1>11. got[r].toks \o Toks(InTransit(r))
         = (FirstOnes(l) \o Span(l, m)) \o Span(m, g)
  <2>1. got[r].toks \o (((Toks(c) \o Toks(h)) \o Toks(Of(r, outbox))) \o Toks(Of(r, out)))
          = ((got[r].toks \o Toks(c)) \o Toks(h)) \o (Toks(Of(r, outbox)) \o Toks(Of(r, out)))
    <3> DEFINE a == got[r].toks
               b == Toks(c)
               d == Toks(h)
               e == Toks(Of(r, outbox))
               f == Toks(Of(r, out))
    <3>1. a \in Seq(Nat) /\ b \in Seq(Nat) /\ d \in Seq(Nat) /\ e \in Seq(Nat) /\ f \in Seq(Nat)
      BY <1>10
    <3> HIDE DEF a, b, d, e, f
    <3>2. a \o (((b \o d) \o e) \o f) = ((a \o b) \o d) \o (e \o f)
      <4> DEFINE Cat(p, q) == p \o q
      <4>1. \A p, q \in Seq(Nat) : Cat(p, q) \in Seq(Nat)
        BY ConcatProperties
      <4>2. \A p, q, t \in Seq(Nat) : Cat(Cat(p, q), t) = Cat(p, Cat(q, t))
        BY ConcatAssociative
      <4> HIDE DEF Cat
      <4>3. Cat(a, Cat(Cat(Cat(b, d), e), f)) = Cat(Cat(Cat(a, b), d), Cat(e, f))
        BY <3>1, <4>1, <4>2
      <4> QED BY <4>3 DEF Cat
    <3> QED BY <3>2 DEF a, b, d, e, f
  <2> QED BY <1>3, <1>4, <1>7, <1>9, <2>1
<1>12. FirstOnes(l) \o Span(l, m) = FirstOnes(m)
  BY <1>6, CountOn
<1>13. FirstOnes(m) \o Span(m, g) = FirstOnes(g)
  BY <1>1, <1>6, CountOn
<1> QED BY <1>1, <1>11, <1>12, <1>13

\* Whatever was coalesced and retried on the way, a handler gets the tokens of its request,
\* each once and in order, with the counts they come with; a channel that is closed holds a
\* prefix of them, and is closed behind the end (core.go deliver, flushPending, coalesce,
\* closeLocked).
THEOREM CoreDelivers == CoreSpec => []DeliveredExactly
<1>1. ASSUME Consistent, StreamExact, OneIncrementPerStep, ChanType, SlotsInv, StepInv,
             Channels, ClosedBehindEnd
      PROVE  DeliveredExactly
  <2> SUFFICES ASSUME NEW r \in Requests
               PROVE  /\ r \in outs => got[r].toks \o Toks(InTransit(r)) = stream[r].toks
                      /\ IsPrefix(got[r].toks \o Toks(ch[r]), stream[r].toks)
                      /\ \A i \in DOMAIN ch[r] : ch[r][i].reason # "error" =>
                           ch[r][i].total = Len(got[r].toks \o Toks(SubSeq(ch[r], 1, i)))
    BY <1>1 DEF DeliveredExactly
  <2> DEFINE g == generated[r]
             c == ch[r]
  <2>1. r \in outs => got[r].toks \o Toks(InTransit(r)) = stream[r].toks
    BY <1>1, OpenDelivers DEF Channels
  <2>2. /\ g \in Nat /\ c \in Seq(Increments) /\ Linked(got[r], c, g, Done(r))
        /\ stream[r].toks = FirstOnes(g)
    BY <1>1 DEF Consistent, TypeOK, ChanType, StreamExact, Channels, Chained, FirstOnes
  <2>3. Len(c) \in Nat /\ DOMAIN c = 1..Len(c) /\ SubSeq(c, 1, Len(c)) = c
    BY <2>2, LenProperties, SubSeqFull
  <2> HIDE DEF g, c
  <2>4. ASSUME NEW k \in 0..Len(c)
        PROVE  \E x \in 0..g : /\ x = IF k = 0 THEN EndOf(got[r], g) ELSE EndOf(c[k], g)
                               /\ got[r].toks \o Toks(SubSeq(c, 1, k)) = FirstOnes(x)
    <3> DEFINE gt == got[r]
               d == Done(r)
    <3>1. g \in Nat /\ c \in Seq(Increments) /\ Linked(gt, c, g, d)
      BY <2>2
    <3> HIDE DEF gt, d
    <3>2. /\ EndAt(gt, c, g, k) \in 0..g
          /\ Joined(gt, c, k) = FirstOnes(EndAt(gt, c, g, k))
      BY <3>1, LinkedToks
    <3> QED BY <3>2 DEF gt, Joined, EndAt
  <2>5. IsPrefix(got[r].toks \o Toks(c), stream[r].toks)
    <3>0. Len(c) \in 0..Len(c)
      BY <2>3
    <3>1. PICK x \in 0..g : got[r].toks \o Toks(c) = FirstOnes(x)
      BY <2>3, <2>4, <3>0
    <3>2. /\ Len(FirstOnes(x)) = x /\ Len(FirstOnes(g)) = g
          /\ SubSeq(FirstOnes(x), 1, x) = FirstOnes(x)
          /\ SubSeq(FirstOnes(g), 1, x) = FirstOnes(x)
      BY <2>2, Counted DEF FirstOnes
    <3> QED BY <2>2, <3>1, <3>2 DEF IsPrefix
  <2>6. ASSUME NEW i \in DOMAIN c, c[i].reason # "error"
        PROVE  c[i].total = Len(got[r].toks \o Toks(SubSeq(c, 1, i)))
    <3>1. i \in 0..Len(c) /\ i # 0
      BY <2>3
    <3>2. PICK x \in 0..g : /\ x = EndOf(c[i], g)
                            /\ got[r].toks \o Toks(SubSeq(c, 1, i)) = FirstOnes(x)
      BY <2>4, <3>1
    <3>3. Len(FirstOnes(x)) = x
      BY <2>2, CountOn
    <3> QED BY <2>6, <3>2, <3>3 DEF EndOf
  <2> QED BY <2>1, <2>5, <2>6 DEF c
<1> QED BY <1>1, CoreTables, ChannelsKept, ClosedLast, PTL
=============================================================================
