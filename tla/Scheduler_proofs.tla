-------------------------- MODULE Scheduler_proofs --------------------------
(***************************************************************************)
(* Theorems about Scheduler, for every set of requests and every bound.    *)
(***************************************************************************)
EXTENDS Scheduler, SequenceTheorems, FiniteSetTheorems, TLAPS

-----------------------------------------------------------------------------
(* Lemmas about the operators the actions are built from.                  *)

\* Removing the i-th entry of a sequence.
LEMMA RemoveAtProperties ==
    ASSUME NEW S, NEW s \in Seq(S), NEW i \in DOMAIN s
    PROVE  /\ RemoveAt(s, i) \in Seq(S)
           /\ Len(RemoveAt(s, i)) = Len(s) - 1
           /\ \A j \in 1..(Len(s) - 1) :
                RemoveAt(s, i)[j] = IF j < i THEN s[j] ELSE s[j + 1]
<1>1. i \in 1..Len(s) /\ Len(s) \in Nat
  BY LenProperties
<1> DEFINE front == SubSeq(s, 1, i - 1)
           back  == SubSeq(s, i + 1, Len(s))
<1>2. \A j \in 1..(i - 1) : s[j] \in S
  BY <1>1, ElementOfSeq
<1>3. /\ front \in Seq(S) /\ Len(front) = i - 1
      /\ \A j \in 1..(i - 1) : front[j] = s[j]
  <2>1. i - 1 \in Int /\ 1 \in Int
    BY <1>1
  <2> QED BY <1>1, <1>2, <2>1, SubSeqProperties
<1>4. \A j \in (i + 1)..Len(s) : s[j] \in S
  BY <1>1, ElementOfSeq
<1>5. /\ back \in Seq(S) /\ Len(back) = Len(s) - i
      /\ \A j \in 1..(Len(s) - i) : back[j] = s[i + j]
  <2>1. i + 1 \in Int /\ Len(s) \in Int
    BY <1>1
  <2> QED BY <1>1, <1>4, <2>1, SubSeqProperties
<1>6. RemoveAt(s, i) = front \o back
  BY DEF RemoveAt
<1> HIDE DEF front, back
<1>7. /\ front \o back \in Seq(S)
      /\ Len(front \o back) = Len(front) + Len(back)
      /\ \A j \in 1..(Len(front) + Len(back)) : (front \o back)[j] =
           IF j <= Len(front) THEN front[j] ELSE back[j - Len(front)]
  BY <1>3, <1>5, ConcatProperties
<1>8. Len(front) + Len(back) = Len(s) - 1
  BY <1>1, <1>3, <1>5
<1>9. ASSUME NEW j \in 1..(Len(s) - 1)
      PROVE  (front \o back)[j] = IF j < i THEN s[j] ELSE s[j + 1]
  <2>1. CASE j < i
    <3>1. j \in 1..(i - 1) /\ j <= Len(front)
      BY <1>1, <1>3, <2>1
    <3> QED BY <1>3, <1>7, <1>8, <2>1, <3>1
  <2>2. CASE ~(j < i)
    <3>1. j - (i - 1) \in 1..(Len(s) - i) /\ ~(j <= Len(front))
      BY <1>1, <1>3, <2>2
    <3>2. i + (j - (i - 1)) = j + 1
      BY <1>1
    <3> QED BY <1>3, <1>5, <1>7, <1>8, <2>2, <3>1, <3>2
  <2> QED BY <2>1, <2>2
<1> QED BY <1>6, <1>7, <1>8, <1>9

\* The increments the actions emit are well-formed.
LEMMA EmitType ==
    ASSUME TypeOK, NEW inc \in Increments, Emit(inc)
    PROVE  out' \in Seq(Increments) /\ stream' \in [Requests -> Streams]
<1>1. out' \in Seq(Increments)
  BY AppendProperties DEF Emit, TypeOK
<1>2. inc.toks \in Seq(Nat) /\ inc.id \in Requests
  BY DEF Increments
<1>3. /\ stream \in [Requests -> Streams]
      /\ stream[inc.id].toks \in Seq(Nat) /\ stream[inc.id].ends \in Nat
  BY <1>2 DEF TypeOK, Streams
<1>4. stream[inc.id].toks \o inc.toks \in Seq(Nat)
  BY <1>2, <1>3, ConcatProperties
<1>5. Extend(stream[inc.id], inc) \in Streams
  <2> DEFINE toks == stream[inc.id].toks \o inc.toks
             ends == IF inc.reason = "none" THEN stream[inc.id].ends
                     ELSE stream[inc.id].ends + 1
  <2>1. toks \in Seq(Nat)
    BY <1>4
  <2>2. ends \in Nat
    BY <1>3
  <2>3. Extend(stream[inc.id], inc) = [toks |-> toks, ends |-> ends]
    BY DEF Extend
  <2> HIDE DEF toks, ends
  <2> QED BY <2>1, <2>2, <2>3 DEF Streams
<1>6. stream' = [stream EXCEPT ![inc.id] = Extend(stream[inc.id], inc)]
  BY DEF Emit
<1> QED BY <1>1, <1>2, <1>3, <1>5, <1>6

\* Retiring a request keeps the types of what it touches.
LEMMA RetireType ==
    ASSUME TypeOK, NEW r \in Requests, Retire(r)
    PROVE  /\ active' \subseteq Nat /\ running' \subseteq Requests
           /\ uidToReq' \in [DOMAIN uidToReq' -> Requests]
           /\ uid' \in [Requests -> Nat] /\ nextUid' \in Nat
BY DEF Retire, Unbind, TypeOK

\* The increments the actions build.
LEMMA IncrementType ==
    ASSUME NEW r \in Requests, NEW reason \in Reasons \cup {"none"}, NEW n \in Nat,
           NEW toks \in Seq(Nat)
    PROVE  Increment(r, toks, reason, n) \in Increments
BY DEF Increment, Increments

LEMMA FinalIncrementType ==
    ASSUME NEW r \in Requests, NEW reason \in {"abort", "error"}, NEW n \in Nat
    PROVE  Increment(r, <<>>, reason, n) \in Increments
<1>1. <<>> \in Seq(Nat)
  BY EmptySeq
<1>2. reason \in Reasons \cup {"none"}
  BY DEF Reasons
<1> QED BY <1>1, <1>2, IncrementType

LEMMA VerdictType ==
    ASSUME NEW kind \in Kinds, NEW declared \in {"none", "stop", "length"}, NEW n \in Nat
    PROVE  Verdict(kind, declared, n) \in Reasons \cup {"none"}
BY SchedulerAssumption DEF Verdict, Kinds, Reasons

LEMMA StatusForType == \A reason : StatusFor(reason) \in Ended
BY DEF StatusFor, Ended

-----------------------------------------------------------------------------
(* Type correctness.                                                       *)

\* Every reachable state is type correct, for any number of requests.
THEOREM TypeCorrect == SafetySpec => []TypeOK
<1>1. Init => TypeOK
  <2> SUFFICES ASSUME Init PROVE TypeOK
    OBVIOUS
  <2>1. waiting \in Seq(Requests) /\ out \in Seq(Increments)
    BY DEF Init
  <2>2. stream \in [Requests -> Streams]
    BY DEF Init, Streams
  <2> QED BY <2>1, <2>2 DEF Init, TypeOK, Phases, Statuses
<1>2. TypeOK /\ [Next]_vars => TypeOK'
  <2> SUFFICES ASSUME TypeOK, [Next]_vars PROVE TypeOK'
    OBVIOUS
  <2>1. CASE UNCHANGED vars
    BY <2>1 DEF TypeOK, vars
  <2>2. ASSUME NEW r \in Requests, AddRequest(r) PROVE TypeOK'
    <3>1. waiting' \in Seq(Requests)
      BY <2>2, AppendProperties DEF TypeOK, AddRequest
    <3> QED BY <2>2, <3>1 DEF TypeOK, AddRequest, tableVars, backendVars, Statuses
  <2>3. ASSUME NEW r \in Requests, Abort(r) PROVE TypeOK'
    BY <2>3 DEF TypeOK, Abort
  <2>4. CASE BeginStep
    BY <2>4 DEF TypeOK, BeginStep, tableVars, backendVars, historyVars, Phases
  <2>5. CASE CancelWaiting
    <3>1. PICK i \in DOMAIN waiting :
            /\ waiting' = RemoveAt(waiting, i)
            /\ status' = [status EXCEPT ![waiting[i]] = "aborted"]
            /\ Emit(Increment(waiting[i], <<>>, "abort", generated[waiting[i]]))
      BY <2>5 DEF CancelWaiting
    <3>2. waiting[i] \in Requests /\ generated[waiting[i]] \in Nat
      BY ElementOfSeq, LenProperties DEF TypeOK
    <3>3. waiting' \in Seq(Requests)
      BY <3>1, RemoveAtProperties DEF TypeOK
    <3>4. Increment(waiting[i], <<>>, "abort", generated[waiting[i]]) \in Increments
      BY <3>2, FinalIncrementType
    <3>5. out' \in Seq(Increments) /\ stream' \in [Requests -> Streams]
      BY <3>1, <3>4, EmitType
    <3> QED BY <2>5, <3>1, <3>2, <3>3, <3>5
          DEF TypeOK, CancelWaiting, tableVars, backendVars, historyVars,
              Statuses, Ended
  <2>6. ASSUME NEW r \in Requests, CancelRunning(r) PROVE TypeOK'
    <3>1. Increment(r, <<>>, "abort", generated[r]) \in Increments
      BY FinalIncrementType DEF TypeOK
    <3>2. out' \in Seq(Increments) /\ stream' \in [Requests -> Streams]
      BY <2>6, <3>1, EmitType DEF CancelRunning
    <3> QED BY <2>6, <3>2, RetireType
          DEF TypeOK, CancelRunning, historyVars, Statuses, Ended
  <2>7. CASE EndAborts
    BY <2>7 DEF TypeOK, EndAborts, tableVars, backendVars, historyVars, Phases
  <2>8. CASE Admit
    <3>1. Head(waiting) \in Requests /\ Tail(waiting) \in Seq(Requests)
      BY <2>8, HeadTailProperties DEF TypeOK, Admit, SlotFree
    <3>2. uidToReq' \in [DOMAIN uidToReq' -> Requests]
      BY <2>8, <3>1 DEF TypeOK, Admit, Bind
    <3>3. active' \subseteq Nat /\ nextUid' \in Nat
      BY <2>8 DEF TypeOK, Admit
    <3>4. uid' \in [Requests -> Nat] /\ running' \subseteq Requests
      BY <2>8, <3>1 DEF TypeOK, Admit
    <3>5. status' \in [Requests -> Statuses]
      BY <2>8, <3>1 DEF TypeOK, Admit, Statuses
    <3> QED BY <2>8, <3>1, <3>2, <3>3, <3>4, <3>5 DEF TypeOK, Admit, historyVars
  <2>9. CASE RejectInsert
    <3>1. Head(waiting) \in Requests /\ Tail(waiting) \in Seq(Requests)
      BY <2>9, HeadTailProperties DEF TypeOK, RejectInsert, SlotFree
    <3> QED BY <2>9, <3>1 DEF TypeOK, RejectInsert, tableVars, backendVars,
                              historyVars, Statuses, Ended
  <2>10. CASE EndAdmit
    BY <2>10 DEF TypeOK, EndAdmit, tableVars, backendVars, historyVars, Phases
  <2>11. CASE Decode \/ DecodeError
    BY <2>11 DEF TypeOK, Decode, DecodeError, tableVars, backendVars,
                 historyVars, Phases
  <2>12. ASSUME NEW u \in results, NEW kind \in Kinds,
                NEW declared \in {"none", "stop", "length"},
                ProcessToken(u, kind, declared)
         PROVE  TypeOK'
    <3>1. CASE u \notin DOMAIN uidToReq
      BY <2>12, <3>1 DEF TypeOK, ProcessToken, tableVars, backendVars, historyVars
    <3>2. CASE u \in DOMAIN uidToReq
      <4> DEFINE r      == uidToReq[u]
                 n      == generated[r] + (IF kind = "stopToken" THEN 0 ELSE 1)
                 toks   == IF kind = "stopToken" THEN <<>> ELSE <<n>>
                 reason == Verdict(kind, declared, n)
      <4>1. r \in Requests /\ n \in Nat
        <5>1. r \in Requests /\ generated[r] \in Nat
          BY <3>2 DEF TypeOK
        <5> HIDE DEF r
        <5> QED BY <5>1
      <4>2. toks \in Seq(Nat)
        <5> HIDE DEF n
        <5>1. <<>> \in Seq(Nat) /\ <<n>> \in Seq(Nat)
          BY <4>1, EmptySeq
        <5> QED BY <5>1
      <4>3. reason \in Reasons \cup {"none"}
        BY <4>1, VerdictType
      <4>4. Increment(r, toks, reason, n) \in Increments
        BY <4>1, <4>2, <4>3, IncrementType
      <4>5. /\ generated' = [generated EXCEPT ![r] = n]
            /\ Emit(Increment(r, toks, reason, n))
            /\ \/ UNCHANGED <<tableVars, backendVars, status>>
               \/ /\ status' = [status EXCEPT ![r] = StatusFor(reason)]
                  /\ Retire(r)
            /\ results' = results \ {u}
            /\ UNCHANGED <<phase, waiting, aborts, pending, historyVars>>
        BY <2>12, <3>2 DEF ProcessToken
      <4> HIDE DEF r, n, toks, reason
      <4>6. out' \in Seq(Increments) /\ stream' \in [Requests -> Streams]
        BY <4>4, <4>5, EmitType
      <4>7. /\ active' \subseteq Nat /\ running' \subseteq Requests
            /\ uidToReq' \in [DOMAIN uidToReq' -> Requests]
            /\ uid' \in [Requests -> Nat] /\ nextUid' \in Nat
        BY <4>1, <4>5, RetireType DEF TypeOK, tableVars, backendVars
      <4>8. status' \in [Requests -> Statuses]
        <5>1. StatusFor(reason) \in Statuses
          BY StatusForType DEF Statuses
        <5> QED BY <4>1, <4>5, <5>1 DEF TypeOK
      <4> QED BY <4>1, <4>5, <4>6, <4>7, <4>8 DEF TypeOK, historyVars
    <3> QED BY <3>1, <3>2
  <2>13. CASE EndProcess \/ EndFail
    BY <2>13 DEF TypeOK, EndProcess, EndFail, tableVars, backendVars,
                 historyVars, Phases
  <2>14. ASSUME NEW r \in Requests, FailOne(r) PROVE TypeOK'
    <3>1. Increment(r, <<>>, "error", 0) \in Increments
      BY FinalIncrementType
    <3>2. out' \in Seq(Increments) /\ stream' \in [Requests -> Streams]
      BY <2>14, <3>1, EmitType DEF FailOne
    <3> QED BY <2>14, <3>2, RetireType
          DEF TypeOK, FailOne, historyVars, Statuses, Ended
  <2>15. CASE Return
    BY <2>15 DEF TypeOK, Return, tableVars, backendVars, historyVars, Phases
  <2> QED BY <2>1, <2>2, <2>3, <2>4, <2>5, <2>6, <2>7, <2>8, <2>9, <2>10,
             <2>11, <2>12, <2>13, <2>14, <2>15 DEF Next, StepMove
<1> QED BY <1>1, <1>2, PTL DEF SafetySpec
-----------------------------------------------------------------------------
(* The tables agree.  SlotsConsistent alone is not inductive: retiring a   *)
(* request must not invalidate results (they exist only while processing), *)
(* and Insert's fresh uid must go to a request that has none (a request is *)
(* in one place).                                                          *)

\* Retiring a running request whose result, if any, has been consumed.
LEMMA RetireConsistent ==
    ASSUME Consistent, NEW r \in running, Retire(r), NEW st \in Ended,
           waiting' = waiting, status' = [status EXCEPT ![r] = st],
           results' \subseteq results \ {uid[r]}
    PROVE  SlotsConsistent' /\ OnePlace' /\ BatchBounded'
<1>1. /\ r \in Requests /\ status[r] = "running" /\ uid[r] \in active
      /\ uidToReq[uid[r]] = r /\ DOMAIN uidToReq = active
      /\ active' = active \ {uid[r]} /\ running' = running \ {r}
      /\ uid' = uid /\ nextUid' = nextUid
      /\ status \in [Requests -> Statuses]
  BY DEF Consistent, TypeOK, SlotsConsistent, OnePlace, Retire
<1>2. /\ DOMAIN uidToReq' = active'
      /\ \A u \in active' : uidToReq'[u] = uidToReq[u]
  BY <1>1 DEF Retire, Unbind
<1>3. SlotsConsistent'
  <2>1. \A s \in running' : uid[s] \in active' /\ uidToReq'[uid[s]] = s
    BY <1>1, <1>2 DEF Consistent, SlotsConsistent
  <2>2. \A u \in active' : uidToReq'[u] \in running' /\ uid[uidToReq'[u]] = u
    BY <1>1, <1>2 DEF Consistent, SlotsConsistent
  <2>3. /\ \A u \in active' \cup results' : u < nextUid
        /\ results' \subseteq active'
    BY <1>1 DEF Consistent, SlotsConsistent
  <2> QED BY <1>1, <1>2, <2>1, <2>2, <2>3 DEF SlotsConsistent
<1>4. OnePlace'
  <2>1. st # "waiting" /\ st # "running"
    BY DEF Ended
  <2>2. ~IsWaiting(r)
    BY <1>1 DEF Consistent, OnePlace
  <2>3. \A s \in Requests : IsWaiting(s)' <=> IsWaiting(s)
    BY DEF IsWaiting
  <2> QED BY <1>1, <2>1, <2>2, <2>3 DEF Consistent, OnePlace
<1>5. BatchBounded'
  <2>1. IsFiniteSet(running) /\ Cardinality(running) <= Slots
    BY DEF Consistent, BatchBounded
  <2>2. /\ IsFiniteSet(running \ {r}) /\ Cardinality(running) \in Nat
        /\ Cardinality(running \ {r}) = Cardinality(running) - 1
    BY <2>1, FS_RemoveElement, FS_CardinalityType
  <2>3. Slots \in Nat
    BY SchedulerAssumption DEF Slots
  <2>4. Slots' = Slots
    BY DEF Slots
  <2> QED BY <1>1, <2>1, <2>2, <2>3, <2>4 DEF BatchBounded
<1> QED BY <1>3, <1>4, <1>5

\* Taking a request out of the queue, into the batch or for good.
LEMMA DropConsistent ==
    ASSUME Consistent, NEW i \in DOMAIN waiting, waiting' = RemoveAt(waiting, i),
           NEW st, st # "waiting", status' = [status EXCEPT ![waiting[i]] = st],
           \A s \in Requests : s \in running' <=>
               (s \in running \/ (s = waiting[i] /\ st = "running"))
    PROVE  OnePlace'
<1> DEFINE r == waiting[i]
<1>1. /\ waiting \in Seq(Requests) /\ Len(waiting) \in Nat
      /\ DOMAIN waiting = 1..Len(waiting) /\ i \in 1..Len(waiting)
      /\ r \in Requests /\ status \in [Requests -> Statuses]
  BY LenProperties, ElementOfSeq DEF Consistent, TypeOK
<1>2. /\ waiting' \in Seq(Requests) /\ Len(waiting') = Len(waiting) - 1
      /\ DOMAIN waiting' = 1..(Len(waiting) - 1)
      /\ \A j \in 1..(Len(waiting) - 1) :
           waiting'[j] = IF j < i THEN waiting[j] ELSE waiting[j + 1]
  <2>1. /\ RemoveAt(waiting, i) \in Seq(Requests)
        /\ Len(RemoveAt(waiting, i)) = Len(waiting) - 1
        /\ \A j \in 1..(Len(waiting) - 1) : RemoveAt(waiting, i)[j] =
             IF j < i THEN waiting[j] ELSE waiting[j + 1]
    BY <1>1, RemoveAtProperties
  <2> QED BY <2>1, LenProperties
<1>3. \A j, k \in 1..Len(waiting) : waiting[j] = waiting[k] => j = k
  BY <1>1 DEF Consistent, OnePlace
<1>4. \A j, k \in DOMAIN waiting' : waiting'[j] = waiting'[k] => j = k
  <2> SUFFICES ASSUME NEW j \in 1..(Len(waiting) - 1),
                      NEW k \in 1..(Len(waiting) - 1), waiting'[j] = waiting'[k]
               PROVE  j = k
    BY <1>2
  <2>1. /\ j \in 1..Len(waiting) /\ j + 1 \in 1..Len(waiting)
        /\ k \in 1..Len(waiting) /\ k + 1 \in 1..Len(waiting)
    BY <1>1
  <2>2. CASE j < i /\ k < i
    BY <1>2, <1>3, <2>1, <2>2
  <2>3. CASE j < i /\ ~(k < i)
    BY <1>1, <1>2, <1>3, <2>1, <2>3
  <2>4. CASE ~(j < i) /\ k < i
    BY <1>1, <1>2, <1>3, <2>1, <2>4
  <2>5. CASE ~(j < i) /\ ~(k < i)
    <3>1. j + 1 = k + 1
      BY <1>2, <1>3, <2>1, <2>5
    <3> QED BY <2>1, <3>1
  <2> QED BY <2>2, <2>3, <2>4, <2>5
<1>5. \A s \in Requests : IsWaiting(s)' <=> (IsWaiting(s) /\ s # r)
  <2> TAKE s \in Requests
  <2>1. ASSUME NEW j \in DOMAIN waiting', waiting'[j] = s
        PROVE  IsWaiting(s) /\ s # r
    <3>1. PICK k \in 1..Len(waiting) : k # i /\ waiting[k] = s
      <4>1. /\ j \in 1..Len(waiting) /\ j + 1 \in 1..Len(waiting)
            /\ waiting'[j] = IF j < i THEN waiting[j] ELSE waiting[j + 1]
        BY <1>1, <1>2, <2>1
      <4>2. CASE j < i
        BY <1>1, <2>1, <4>1, <4>2
      <4>3. CASE ~(j < i)
        BY <1>1, <2>1, <4>1, <4>3
      <4> QED BY <4>2, <4>3
    <3> QED BY <1>1, <1>3, <3>1 DEF IsWaiting
  <2>2. ASSUME NEW k \in DOMAIN waiting, waiting[k] = s, s # r
        PROVE  \E j \in DOMAIN waiting' : waiting'[j] = s
    <3>1. k # i /\ k \in 1..Len(waiting)
      BY <1>1, <2>2
    <3>2. CASE k < i
      <4>1. k \in 1..(Len(waiting) - 1)
        BY <1>1, <3>1, <3>2
      <4> QED BY <1>2, <2>2, <3>2, <4>1
    <3>3. CASE k > i
      <4>1. k - 1 \in 1..(Len(waiting) - 1) /\ ~(k - 1 < i) /\ (k - 1) + 1 = k
        BY <1>1, <3>1, <3>3
      <4> QED BY <1>2, <2>2, <4>1
    <3> QED BY <1>1, <3>1, <3>2, <3>3
  <2> QED BY <2>1, <2>2 DEF IsWaiting
<1>6. IsWaiting(r)
  BY DEF IsWaiting
<1>7. \A s \in Requests : s \in running' <=>
           (s \in running \/ (s = r /\ st = "running"))
  OBVIOUS
<1>8. \A s \in Requests : /\ status[s] = "waiting" <=> IsWaiting(s)
                          /\ status[s] = "running" <=> s \in running
  BY DEF Consistent, OnePlace
<1>9. \A s \in Requests : status'[s] = IF s = r THEN st ELSE status[s]
  BY <1>1
<1> HIDE DEF r
<1>10. \A s \in Requests : /\ status'[s] = "waiting" <=> IsWaiting(s)'
                           /\ status'[s] = "running" <=> s \in running'
  BY <1>1, <1>5, <1>6, <1>7, <1>8, <1>9
<1> QED BY <1>4, <1>10 DEF OnePlace

\* The head of the queue is its first entry.
LEMMA TailIsRemoveFirst ==
    ASSUME NEW S, NEW s \in Seq(S), s # <<>>
    PROVE  /\ 1 \in DOMAIN s /\ Head(s) = s[1]
           /\ Tail(s) = RemoveAt(s, 1)
<1>1. Len(s) \in Nat \ {0} /\ DOMAIN s = 1..Len(s)
  BY EmptySeq, LenProperties
<1>2. Tail(s) = SubSeq(s, 2, Len(s)) /\ Tail(s) \in Seq(S)
  BY TailIsSubSeq, HeadTailProperties
<1>3. SubSeq(s, 1, 0) = <<>>
  BY SubSeqEmpty
<1>4. <<>> \o Tail(s) = Tail(s)
  BY <1>2, ConcatEmptySeq
<1>5. RemoveAt(s, 1) = SubSeq(s, 1, 0) \o SubSeq(s, 2, Len(s))
  BY DEF RemoveAt
<1> QED BY <1>1, <1>2, <1>3, <1>4, <1>5

\* The slots, the uid table and the backend agree, a request is in one place,
\* and the batch stays within MaxNumSeqs.
THEOREM TablesConsistent == SafetySpec => []Consistent
<1> DEFINE Rest == /\ SlotsConsistent /\ OnePlace /\ BatchBounded
                   /\ results # {} => phase = "process"
<1>1. Init => Rest
  <2> SUFFICES ASSUME Init PROVE Rest
    OBVIOUS
  <2>1. BatchBounded
    BY FS_EmptySet, SchedulerAssumption DEF Init, BatchBounded, Slots
  <2>2. SlotsConsistent
    BY DEF Init, SlotsConsistent
  <2>3. OnePlace
    BY DEF Init, OnePlace, IsWaiting
  <2> QED BY <2>1, <2>2, <2>3 DEF Init
<1>2. TypeOK /\ TypeOK' /\ Rest /\ [Next]_vars => Rest'
  <2> SUFFICES ASSUME TypeOK, TypeOK', Rest, [Next]_vars PROVE Rest'
    OBVIOUS
  <2>0. Consistent
    BY DEF Consistent
  <2> USE <2>0
  <2>1. CASE UNCHANGED vars
    BY <2>1 DEF vars, SlotsConsistent, OnePlace, IsWaiting, BatchBounded, Slots
  <2>2. ASSUME NEW r \in Requests, AddRequest(r) PROVE Rest'
    <3>1. /\ waiting \in Seq(Requests) /\ DOMAIN waiting = 1..Len(waiting)
          /\ Len(waiting) \in Nat
      BY LenProperties DEF TypeOK
    <3>2. /\ DOMAIN waiting' = 1..(Len(waiting) + 1)
          /\ \A j \in 1..Len(waiting) : waiting'[j] = waiting[j]
          /\ waiting'[Len(waiting) + 1] = r
      <4>1. waiting' = Append(waiting, r)
        BY <2>2 DEF AddRequest
      <4>2. /\ Append(waiting, r) \in Seq(Requests)
            /\ Len(Append(waiting, r)) = Len(waiting) + 1
            /\ \A j \in 1..Len(waiting) : Append(waiting, r)[j] = waiting[j]
            /\ Append(waiting, r)[Len(waiting) + 1] = r
        BY <3>1, AppendProperties
      <4>3. DOMAIN Append(waiting, r) = 1..Len(Append(waiting, r))
        BY <4>2, LenProperties
      <4> QED BY <4>1, <4>2, <4>3
    <3>3. ~IsWaiting(r) /\ r \notin running
      <4>1. status[r] # "waiting" /\ status[r] # "running"
        BY <2>2 DEF AddRequest
      <4> QED BY <4>1 DEF OnePlace
    <3>4. \A s \in Requests : IsWaiting(s)' <=> (IsWaiting(s) \/ s = r)
      <4> TAKE s \in Requests
      <4>1. ASSUME NEW j \in DOMAIN waiting', waiting'[j] = s
            PROVE  IsWaiting(s) \/ s = r
        <5>1. CASE j = Len(waiting) + 1
          BY <3>2, <4>1, <5>1
        <5>2. CASE j # Len(waiting) + 1
          <6>1. j \in DOMAIN waiting
            BY <3>1, <3>2, <5>2
          <6> QED BY <3>1, <3>2, <4>1, <6>1 DEF IsWaiting
        <5> QED BY <5>1, <5>2
      <4>2. ASSUME NEW j \in DOMAIN waiting, waiting[j] = s PROVE IsWaiting(s)'
        <5>1. j \in DOMAIN waiting' /\ waiting'[j] = s
          BY <3>1, <3>2, <4>2
        <5> QED BY <5>1 DEF IsWaiting
      <4>3. IsWaiting(r)'
        <5>1. Len(waiting) + 1 \in DOMAIN waiting'
          BY <3>1, <3>2
        <5> QED BY <3>2, <5>1 DEF IsWaiting
      <4> QED BY <4>1, <4>2, <4>3 DEF IsWaiting
    <3>5. \A i, j \in DOMAIN waiting' : waiting'[i] = waiting'[j] => i = j
      BY <3>1, <3>2, <3>3 DEF OnePlace, IsWaiting
    <3>6. /\ status' = [status EXCEPT ![r] = "waiting"]
          /\ UNCHANGED <<running, uid, uidToReq, active, nextUid, results, phase>>
      BY <2>2 DEF AddRequest, tableVars, backendVars
    <3>7. OnePlace'
      BY <3>3, <3>4, <3>5, <3>6 DEF OnePlace, TypeOK
    <3> QED BY <3>6, <3>7 DEF SlotsConsistent, BatchBounded, Slots
  <2>3. ASSUME NEW r \in Requests, Abort(r) PROVE Rest'
    BY <2>3 DEF Abort, SlotsConsistent, OnePlace, IsWaiting, BatchBounded, Slots
  <2>4. CASE BeginStep \/ EndAborts \/ EndAdmit \/ DecodeError \/ EndProcess
             \/ EndFail \/ Return
    <3>1. /\ UNCHANGED <<waiting, running, uid, uidToReq, active, nextUid,
                         results, status>>
          /\ results # {} => phase' = "process"
      BY <2>4 DEF BeginStep, EndAborts, EndAdmit, DecodeError, EndProcess,
                  EndFail, Return, tableVars, backendVars
    <3> QED BY <3>1 DEF SlotsConsistent, OnePlace, IsWaiting, BatchBounded, Slots
  <2>5. CASE CancelWaiting
    <3>1. PICK i \in DOMAIN waiting :
            /\ waiting' = RemoveAt(waiting, i)
            /\ status' = [status EXCEPT ![waiting[i]] = "aborted"]
      BY <2>5 DEF CancelWaiting
    <3>2. UNCHANGED <<running, uid, uidToReq, active, nextUid, results, phase>>
      BY <2>5 DEF CancelWaiting, tableVars, backendVars
    <3>3. OnePlace'
      <4>1. "aborted" # "waiting" /\ "aborted" # "running"
        OBVIOUS
      <4> QED BY <3>1, <3>2, <4>1, DropConsistent
    <3> QED BY <3>2, <3>3 DEF SlotsConsistent, BatchBounded, Slots
  <2>6. ASSUME NEW r \in Requests, CancelRunning(r) PROVE Rest'
    <3>1. /\ r \in running /\ Retire(r) /\ waiting' = waiting
          /\ status' = [status EXCEPT ![r] = "aborted"]
          /\ results = {} /\ results' = results /\ "aborted" \in Ended
      BY <2>6 DEF CancelRunning, Ended
    <3>2. SlotsConsistent' /\ OnePlace' /\ BatchBounded'
      BY <3>1, RetireConsistent
    <3> QED BY <3>1, <3>2
  <2>7. CASE Admit
    <3> DEFINE r == Head(waiting)
    <3>1. /\ waiting \in Seq(Requests) /\ waiting # <<>> /\ results = {}
          /\ Cardinality(running) < Slots
          /\ uid' = [uid EXCEPT ![r] = nextUid]
          /\ uidToReq' = Bind(uidToReq, nextUid, r)
          /\ running' = running \cup {r}
          /\ active' = active \cup {nextUid} /\ nextUid' = nextUid + 1
          /\ waiting' = Tail(waiting) /\ UNCHANGED <<results, phase>>
          /\ status' = [status EXCEPT ![r] = "running"]
      BY <2>7 DEF Admit, SlotFree, TypeOK
    <3>2. 1 \in DOMAIN waiting /\ r = waiting[1] /\ waiting' = RemoveAt(waiting, 1)
      BY <3>1, TailIsRemoveFirst
    <3>3. r \in Requests /\ r \notin running
      BY <3>1, <3>2, HeadTailProperties DEF OnePlace, IsWaiting
    <3>4. OnePlace'
      <4>1. \A s \in Requests : s \in running' <=>
              (s \in running \/ (s = waiting[1] /\ "running" = "running"))
        BY <3>1, <3>2
      <4>2. status' = [status EXCEPT ![waiting[1]] = "running"]
        BY <3>1, <3>2
      <4> QED BY <3>2, <4>1, <4>2, DropConsistent
    <3>5. SlotsConsistent'
      <4>1. /\ nextUid \in Nat /\ nextUid \notin active
            /\ uid \in [Requests -> Nat] /\ running \subseteq Requests
            /\ \A u \in active : u \in Nat /\ u < nextUid
        BY DEF SlotsConsistent, TypeOK
      <4>2. /\ DOMAIN uidToReq' = active'
            /\ \A u \in active' : uidToReq'[u] = IF u = nextUid THEN r ELSE uidToReq[u]
        BY <3>1 DEF Bind, SlotsConsistent
      <4>3. /\ uid'[r] = nextUid
            /\ \A s \in Requests : s # r => uid'[s] = uid[s]
        BY <3>1, <3>3, <4>1
      <4> HIDE DEF r
      <4>4. \A s \in running' : uid'[s] \in active' /\ uidToReq'[uid'[s]] = s
        BY <3>1, <3>3, <4>1, <4>2, <4>3 DEF SlotsConsistent
      <4>5. \A u \in active' : uidToReq'[u] \in running' /\ uid'[uidToReq'[u]] = u
        BY <3>1, <3>3, <4>1, <4>2, <4>3 DEF SlotsConsistent
      <4>6. /\ \A u \in active' \cup results' : u < nextUid'
            /\ results' \subseteq active'
        BY <3>1, <4>1
      <4> QED BY <4>2, <4>4, <4>5, <4>6 DEF SlotsConsistent
    <3>6. BatchBounded'
      <4>1. /\ IsFiniteSet(running \cup {r})
            /\ Cardinality(running \cup {r}) = Cardinality(running) + 1
            /\ Cardinality(running) \in Nat
        BY <3>3, FS_AddElement, FS_CardinalityType DEF BatchBounded
      <4>2. Slots \in Nat /\ Slots' = Slots
        BY SchedulerAssumption DEF Slots
      <4> QED BY <3>1, <4>1, <4>2 DEF BatchBounded
    <3> QED BY <3>1, <3>4, <3>5, <3>6
  <2>8. CASE RejectInsert
    <3>1. /\ waiting \in Seq(Requests) /\ waiting # <<>>
          /\ waiting' = Tail(waiting)
          /\ status' = [status EXCEPT ![Head(waiting)] = "error"]
          /\ UNCHANGED <<running, uid, uidToReq, active, nextUid, results, phase>>
      BY <2>8 DEF RejectInsert, SlotFree, TypeOK, tableVars, backendVars
    <3>2. /\ 1 \in DOMAIN waiting /\ Head(waiting) = waiting[1]
          /\ waiting' = RemoveAt(waiting, 1)
      BY <3>1, TailIsRemoveFirst
    <3>3. OnePlace'
      <4>1. status' = [status EXCEPT ![waiting[1]] = "error"]
        BY <3>1, <3>2
      <4>2. "error" # "waiting" /\ "error" # "running"
        OBVIOUS
      <4> QED BY <3>1, <3>2, <4>1, <4>2, DropConsistent
    <3> QED BY <3>1, <3>3 DEF SlotsConsistent, BatchBounded, Slots
  <2>9. CASE Decode
    BY <2>9 DEF Decode, SlotsConsistent, OnePlace, IsWaiting, BatchBounded,
                Slots, tableVars, backendVars
  <2>10. ASSUME NEW u \in results, NEW kind \in Kinds,
                NEW declared \in {"none", "stop", "length"},
                ProcessToken(u, kind, declared)
         PROVE  Rest'
    <3> DEFINE r      == uidToReq[u]
               n      == generated[r] + (IF kind = "stopToken" THEN 0 ELSE 1)
               reason == Verdict(kind, declared, n)
    <3>1. u \in DOMAIN uidToReq /\ r \in running /\ uid[r] = u
      BY DEF SlotsConsistent
    <3>2. /\ \/ UNCHANGED <<tableVars, backendVars, status>>
             \/ /\ status' = [status EXCEPT ![r] = StatusFor(reason)]
                /\ Retire(r)
          /\ results' = results \ {u} /\ phase = "process"
          /\ UNCHANGED <<phase, waiting>>
      BY <2>10, <3>1 DEF ProcessToken
    <3> HIDE DEF r, n, reason
    <3>3. CASE UNCHANGED <<tableVars, backendVars, status>>
      BY <3>2, <3>3 DEF SlotsConsistent, OnePlace, IsWaiting, BatchBounded,
                        Slots, tableVars, backendVars
    <3>4. CASE /\ status' = [status EXCEPT ![r] = StatusFor(reason)]
               /\ Retire(r)
      <4>1. StatusFor(reason) \in Ended
        BY StatusForType
      <4>2. SlotsConsistent' /\ OnePlace' /\ BatchBounded'
        BY <3>1, <3>2, <3>4, <4>1, RetireConsistent
      <4> QED BY <3>2, <4>2
    <3> QED BY <3>2, <3>3, <3>4
  <2>11. ASSUME NEW r \in Requests, FailOne(r) PROVE Rest'
    <3>1. /\ r \in running /\ Retire(r) /\ waiting' = waiting
          /\ status' = [status EXCEPT ![r] = "error"]
          /\ results = {} /\ results' = results /\ "error" \in Ended
      BY <2>11 DEF FailOne, Ended
    <3>2. SlotsConsistent' /\ OnePlace' /\ BatchBounded'
      BY <3>1, RetireConsistent
    <3> QED BY <3>1, <3>2
  <2> QED BY <2>1, <2>2, <2>3, <2>4, <2>5, <2>6, <2>7, <2>8, <2>9, <2>10,
             <2>11 DEF Next, StepMove
<1>3. Consistent <=> TypeOK /\ Rest
  BY DEF Consistent
<1> QED BY <1>1, <1>2, <1>3, TypeCorrect, PTL DEF SafetySpec

\* The slots, the uid table and the backend agree.
THEOREM SlotsAgree == SafetySpec => []SlotsConsistent
<1>1. Consistent => SlotsConsistent
  BY DEF Consistent
<1> QED BY <1>1, TablesConsistent, PTL

\* A request is in one place, as its status says.
THEOREM InOnePlace == SafetySpec => []OnePlace
<1>1. Consistent => OnePlace
  BY DEF Consistent
<1> QED BY <1>1, TablesConsistent, PTL

\* The batch never exceeds MaxNumSeqs.
THEOREM BatchWithinLimit == SafetySpec => []BatchBounded
<1>1. Consistent => BatchBounded
  BY DEF Consistent
<1> QED BY <1>1, TablesConsistent, PTL

-----------------------------------------------------------------------------
(* First come, first served.                                               *)

\* What Append leaves at each index.
LEMMA AppendEntries ==
    ASSUME NEW S, NEW s \in Seq(S), NEW x \in S
    PROVE  /\ DOMAIN s = 1..Len(s) /\ Len(s) \in Nat
           /\ DOMAIN Append(s, x) = 1..(Len(s) + 1)
           /\ \A j \in 1..Len(s) : Append(s, x)[j] = s[j]
           /\ Append(s, x)[Len(s) + 1] = x
<1>1. /\ Append(s, x) \in Seq(S) /\ Len(Append(s, x)) = Len(s) + 1
      /\ \A j \in 1..Len(s) : Append(s, x)[j] = s[j]
      /\ Append(s, x)[Len(s) + 1] = x
  BY AppendProperties
<1> QED BY <1>1, LenProperties

\* RemoveAt keeps the order of the entries that stay.
LEMMA RemoveAtKeepsOrder ==
    ASSUME NEW S, NEW s \in Seq(S), NEW i \in DOMAIN s,
           NEW j \in DOMAIN RemoveAt(s, i), NEW k \in DOMAIN RemoveAt(s, i)
    PROVE  \E m, n \in DOMAIN s :
              /\ m # i /\ n # i
              /\ RemoveAt(s, i)[j] = s[m] /\ RemoveAt(s, i)[k] = s[n]
              /\ j < k => m < n
<1>1. /\ Len(s) \in Nat /\ DOMAIN s = 1..Len(s) /\ i \in 1..Len(s)
      /\ RemoveAt(s, i) \in Seq(S) /\ Len(RemoveAt(s, i)) = Len(s) - 1
      /\ \A l \in 1..(Len(s) - 1) :
           RemoveAt(s, i)[l] = IF l < i THEN s[l] ELSE s[l + 1]
  BY RemoveAtProperties, LenProperties
<1>2. j \in 1..(Len(s) - 1) /\ k \in 1..(Len(s) - 1)
  BY <1>1, LenProperties
<1> DEFINE m == IF j < i THEN j ELSE j + 1
           n == IF k < i THEN k ELSE k + 1
<1>3. /\ m \in 1..Len(s) /\ n \in 1..Len(s) /\ m # i /\ n # i
      /\ j < k => m < n
  BY <1>1, <1>2
<1>4. RemoveAt(s, i)[j] = s[m] /\ RemoveAt(s, i)[k] = s[n]
  BY <1>1, <1>2
<1> HIDE DEF m, n
<1> QED BY <1>1, <1>3, <1>4

InOrder == FirstComeFirstServed /\ \A r \in Requests : arrival[r] <= arrivals

\* Taking a request out of the queue keeps what is left in order.
LEMMA DropInOrder ==
    ASSUME Consistent, InOrder, NEW i \in DOMAIN waiting,
           waiting' = RemoveAt(waiting, i), arrival' = arrival
    PROVE  /\ \A j, k \in DOMAIN waiting' :
                j < k => arrival'[waiting'[j]] < arrival'[waiting'[k]]
           /\ \A k \in DOMAIN waiting' :
                \E n \in DOMAIN waiting : n # i /\ waiting'[k] = waiting[n]
<1>1. waiting \in Seq(Requests)
  BY DEF Consistent, TypeOK
<1>2. ASSUME NEW j \in DOMAIN waiting', NEW k \in DOMAIN waiting'
      PROVE  \E m, n \in DOMAIN waiting :
                /\ m # i /\ n # i
                /\ waiting'[j] = waiting[m] /\ waiting'[k] = waiting[n]
                /\ j < k => m < n
  BY <1>1, <1>2, RemoveAtKeepsOrder
<1>3. \A m, n \in DOMAIN waiting : m < n => arrival[waiting[m]] < arrival[waiting[n]]
  BY DEF InOrder, FirstComeFirstServed
<1>4. ASSUME NEW j \in DOMAIN waiting', NEW k \in DOMAIN waiting', j < k
      PROVE  arrival'[waiting'[j]] < arrival'[waiting'[k]]
  <2>1. PICK m \in DOMAIN waiting, n \in DOMAIN waiting :
           waiting'[j] = waiting[m] /\ waiting'[k] = waiting[n] /\ m < n
    BY <1>2, <1>4
  <2> QED BY <1>3, <2>1
<1> QED BY <1>2, <1>4

\* Requests are admitted in the order in which they arrived.
THEOREM ServedInOrder == SafetySpec => []FirstComeFirstServed
<1>1. Init => InOrder
  <2> SUFFICES ASSUME Init PROVE InOrder
    OBVIOUS
  <2>1. DOMAIN waiting = {}
    BY DEF Init
  <2> QED BY <2>1 DEF Init, InOrder, FirstComeFirstServed
<1>2. Consistent /\ Consistent' /\ InOrder /\ [Next]_vars => InOrder'
  <2> SUFFICES ASSUME Consistent, Consistent', InOrder, [Next]_vars PROVE InOrder'
    OBVIOUS
  <2>0. /\ waiting \in Seq(Requests) /\ running \subseteq Requests
        /\ uid \in [Requests -> Nat] /\ nextUid \in Nat
        /\ arrival \in [Requests -> Nat] /\ arrivals \in Nat
        /\ DOMAIN waiting = 1..Len(waiting) /\ Len(waiting) \in Nat
        /\ \A i \in DOMAIN waiting : waiting[i] \in Requests
    BY LenProperties, ElementOfSeq DEF Consistent, TypeOK
  <2>a. ASSUME UNCHANGED <<waiting, uid, arrival, arrivals>>, running' \subseteq running
        PROVE  InOrder'
    BY <2>a DEF InOrder, FirstComeFirstServed
  <2>1. CASE UNCHANGED vars
    BY <2>1, <2>a DEF vars
  <2>2. ASSUME NEW r \in Requests, AddRequest(r) PROVE InOrder'
    <3>1. /\ waiting' = Append(waiting, r) /\ arrivals' = arrivals + 1
          /\ arrival' = [arrival EXCEPT ![r] = arrivals + 1]
          /\ UNCHANGED <<running, uid>> /\ status[r] = "new"
      BY <2>2 DEF AddRequest, tableVars
    <3>2. ~IsWaiting(r) /\ r \notin running
      BY <3>1 DEF Consistent, OnePlace
    <3>3. /\ DOMAIN waiting' = 1..(Len(waiting) + 1)
          /\ \A j \in 1..Len(waiting) : waiting'[j] = waiting[j] /\ waiting[j] # r
          /\ waiting'[Len(waiting) + 1] = r
      <4>1. /\ DOMAIN Append(waiting, r) = 1..(Len(waiting) + 1)
            /\ \A j \in 1..Len(waiting) : Append(waiting, r)[j] = waiting[j]
            /\ Append(waiting, r)[Len(waiting) + 1] = r
        BY <2>0, AppendEntries
      <4>2. \A j \in 1..Len(waiting) : waiting[j] # r
        BY <2>0, <3>2 DEF IsWaiting
      <4> QED BY <3>1, <4>1, <4>2
    <3>4. /\ arrival'[r] = arrivals + 1
          /\ \A s \in Requests : s # r => arrival'[s] = arrival[s]
          /\ \A s \in Requests : arrival[s] <= arrivals
      BY <2>0, <3>1 DEF InOrder
    <3>5. \A i, j \in DOMAIN waiting' :
             i < j => arrival'[waiting'[i]] < arrival'[waiting'[j]]
      <4> SUFFICES ASSUME NEW i \in 1..(Len(waiting) + 1),
                          NEW j \in 1..(Len(waiting) + 1), i < j
                   PROVE  arrival'[waiting'[i]] < arrival'[waiting'[j]]
        BY <3>3
      <4>1. i \in 1..Len(waiting)
        BY <2>0
      <4>2. CASE j = Len(waiting) + 1
        BY <2>0, <3>3, <3>4, <4>1, <4>2
      <4>3. CASE j \in 1..Len(waiting)
        <5>1. arrival[waiting[i]] < arrival[waiting[j]]
          BY <2>0, <4>1, <4>3 DEF InOrder, FirstComeFirstServed
        <5>2. /\ arrival'[waiting'[i]] = arrival[waiting[i]]
              /\ arrival'[waiting'[j]] = arrival[waiting[j]]
          <6>1. /\ waiting'[i] = waiting[i] /\ waiting[i] \in Requests \ {r}
                /\ waiting'[j] = waiting[j] /\ waiting[j] \in Requests \ {r}
            BY <2>0, <3>3, <4>1, <4>3
          <6> QED BY <3>4, <6>1
        <5> QED BY <5>1, <5>2
      <4>4. j = Len(waiting) + 1 \/ j \in 1..Len(waiting)
        <5>1. Len(waiting) \in Nat
          BY <2>0
        <5> QED BY <5>1
      <4> QED BY <4>2, <4>3, <4>4
    <3>6. \A s \in running, i \in DOMAIN waiting' : arrival'[s] < arrival'[waiting'[i]]
      <4> SUFFICES ASSUME NEW s \in running, NEW i \in 1..(Len(waiting) + 1)
                   PROVE  arrival'[s] < arrival'[waiting'[i]]
        BY <3>3
      <4>1. s # r /\ arrival'[s] = arrival[s] /\ arrival[s] <= arrivals
            /\ arrival[s] \in Nat
        BY <2>0, <3>2, <3>4
      <4>2. CASE i = Len(waiting) + 1
        BY <2>0, <3>3, <3>4, <4>1, <4>2
      <4>3. CASE i \in 1..Len(waiting)
        BY <2>0, <3>3, <3>4, <4>1, <4>3 DEF InOrder, FirstComeFirstServed
      <4>4. i = Len(waiting) + 1 \/ i \in 1..Len(waiting)
        BY <2>0
      <4> QED BY <4>2, <4>3, <4>4
    <3>7. \A s, t \in running : arrival'[s] < arrival'[t] => uid[s] < uid[t]
      BY <2>0, <3>2, <3>4 DEF InOrder, FirstComeFirstServed
    <3>8. \A s \in Requests : arrival'[s] <= arrivals'
      BY <2>0, <3>1, <3>4
    <3> QED BY <3>1, <3>5, <3>6, <3>7, <3>8 DEF InOrder, FirstComeFirstServed
  <2>3. ASSUME NEW r \in Requests, Abort(r) PROVE InOrder'
    BY <2>3, <2>a DEF Abort
  <2>4. CASE BeginStep \/ EndAborts \/ EndAdmit \/ Decode \/ DecodeError
             \/ EndProcess \/ EndFail \/ Return
    BY <2>4, <2>a DEF BeginStep, EndAborts, EndAdmit, Decode, DecodeError,
                EndProcess, EndFail, Return, tableVars, historyVars
  <2>5. CASE CancelWaiting \/ RejectInsert
    <3>1. PICK i \in DOMAIN waiting : waiting' = RemoveAt(waiting, i)
      <4>1. CASE CancelWaiting
        BY <4>1 DEF CancelWaiting
      <4>2. CASE RejectInsert
        BY <2>0, <4>2, TailIsRemoveFirst DEF RejectInsert, SlotFree
      <4> QED BY <2>5, <4>1, <4>2
    <3>2. UNCHANGED <<running, uid, arrival, arrivals>>
      BY <2>5 DEF CancelWaiting, RejectInsert, tableVars, historyVars
    <3>3. /\ \A j, k \in DOMAIN waiting' :
               j < k => arrival'[waiting'[j]] < arrival'[waiting'[k]]
          /\ \A k \in DOMAIN waiting' :
               \E n \in DOMAIN waiting : n # i /\ waiting'[k] = waiting[n]
      BY <3>1, <3>2, DropInOrder
    <3> QED BY <3>2, <3>3 DEF InOrder, FirstComeFirstServed
  <2>6. ASSUME NEW r \in Requests, CancelRunning(r) \/ FailOne(r) PROVE InOrder'
    BY <2>6, <2>a DEF CancelRunning, FailOne, Retire, historyVars
  <2>7. CASE Admit
    <3> DEFINE r == Head(waiting)
    <3>1. /\ waiting # <<>> /\ running' = running \cup {r}
          /\ uid' = [uid EXCEPT ![r] = nextUid] /\ waiting' = Tail(waiting)
          /\ UNCHANGED <<arrival, arrivals>>
      BY <2>7 DEF Admit, SlotFree, historyVars
    <3>2. /\ 1 \in DOMAIN waiting /\ r = waiting[1]
          /\ waiting' = RemoveAt(waiting, 1) /\ r \in Requests
      BY <2>0, <3>1, TailIsRemoveFirst
    <3>3. /\ \A j, k \in DOMAIN waiting' :
               j < k => arrival'[waiting'[j]] < arrival'[waiting'[k]]
          /\ \A k \in DOMAIN waiting' :
               \E n \in DOMAIN waiting : n # 1 /\ waiting'[k] = waiting[n]
      BY <3>1, <3>2, DropInOrder
    <3>4. /\ uid'[r] = nextUid /\ \A s \in Requests : s # r => uid'[s] = uid[s]
          /\ \A s \in running : uid[s] < nextUid
      BY <2>0, <3>1, <3>2 DEF Consistent, SlotsConsistent
    <3>5. \A s \in running : arrival[s] < arrival[r]
      BY <3>2 DEF InOrder, FirstComeFirstServed
    <3> HIDE DEF r
    <3>6. \A s \in running', k \in DOMAIN waiting' : arrival'[s] < arrival'[waiting'[k]]
      <4> SUFFICES ASSUME NEW s \in running', NEW k \in DOMAIN waiting'
                   PROVE  arrival[s] < arrival[waiting'[k]]
        BY <3>1
      <4>1. PICK n \in DOMAIN waiting : n # 1 /\ waiting'[k] = waiting[n]
        BY <3>3
      <4>2. CASE s = r
        <5>1. 1 < n
          BY <2>0, <4>1
        <5> QED BY <3>2, <4>1, <4>2, <5>1 DEF InOrder, FirstComeFirstServed
      <4>3. CASE s \in running
        BY <4>1, <4>3 DEF InOrder, FirstComeFirstServed
      <4> QED BY <3>1, <4>2, <4>3
    <3>7. \A s, t \in running' : arrival'[s] < arrival'[t] => uid'[s] < uid'[t]
      <4> SUFFICES ASSUME NEW s \in running', NEW t \in running', arrival[s] < arrival[t]
                   PROVE  uid'[s] < uid'[t]
        BY <3>1
      <4>1. s \in Requests /\ t \in Requests /\ arrival[s] \in Nat /\ arrival[t] \in Nat
        BY <2>0, <3>1, <3>2
      <4>2. s # t /\ s \in running
        BY <3>1, <3>5, <4>1
      <4>3. CASE t = r
        BY <3>4, <4>1, <4>2, <4>3
      <4>4. CASE t # r
        <5>1. t \in running
          BY <3>1, <4>4
        <5>2. s # r
          BY <3>5, <4>1, <5>1
        <5> QED BY <3>4, <4>1, <4>2, <4>4, <5>1, <5>2 DEF InOrder, FirstComeFirstServed
      <4> QED BY <4>3, <4>4
    <3> QED BY <3>1, <3>3, <3>6, <3>7 DEF InOrder, FirstComeFirstServed
  <2>8. ASSUME NEW u \in results, NEW kind \in Kinds,
               NEW declared \in {"none", "stop", "length"},
               ProcessToken(u, kind, declared)
        PROVE  InOrder'
    <3>1. /\ UNCHANGED <<waiting, arrival, arrivals>>
          /\ \/ UNCHANGED tableVars
             \/ Retire(uidToReq[u])
      BY <2>8 DEF ProcessToken, historyVars
    <3> QED BY <2>a, <3>1 DEF Retire, tableVars
  <2> QED BY <2>1, <2>2, <2>3, <2>4, <2>5, <2>6, <2>7, <2>8 DEF Next, StepMove
<1>3. InOrder => FirstComeFirstServed
  BY DEF InOrder
<1> QED BY <1>1, <1>2, <1>3, TablesConsistent, PTL DEF SafetySpec
-----------------------------------------------------------------------------
(* What the clients of the scheduler may rely on: ends are final, the token  *)
(* cap holds, streams are exact, aborts take effect, and one Step says at    *)
(* most one thing about a request.  StepEffect below reduces a step to what  *)
(* it does to status, generated and stream: whoever emits an increment for a *)
(* request finds it waiting or running, by the invariant Consistent.         *)


\* A step that says nothing; requests may arrive, be admitted or be rejected.
Silent ==
    /\ stream' = stream /\ generated' = generated
    /\ out' = out \/ (phase = "return" /\ out' = <<>>)
    /\ \A s \in Requests :
         \/ status'[s] = status[s]
         \/ status[s] = "new" /\ status'[s] = "waiting"
         \/ status[s] = "waiting" /\ status'[s] = "running"
         \/ status[s] = "waiting" /\ status'[s] = "error" /\ InsertFails

\* A step that emits an increment with these tokens and reason for r.
Speaks(r, toks, reason) ==
    /\ r \in Requests
    /\ \/ toks = <<>> /\ status[r] \in {"waiting", "running"}
       \/ toks = <<generated[r] + 1>> /\ status[r] = "running"
    /\ stream' = [stream EXCEPT ![r] =
         [toks |-> @.toks \o toks,
          ends |-> IF reason = "none" THEN @.ends ELSE @.ends + 1]]
    /\ generated' = [generated EXCEPT ![r] = @ + Len(toks)]
    /\ \E n : /\ out' = Append(out, Increment(r, toks, reason, n))
              /\ reason = "error" \/ n = generated'[r]
    /\ \A s \in Requests \ {r} : status'[s] = status[s]
    /\ IF reason = "none"
       THEN /\ status'[r] = "running" /\ status[r] = "running"
            /\ toks = <<generated[r] + 1>>
            /\ MaxTokens > 0 => generated[r] + 1 < MaxTokens
       ELSE status'[r] \in Ended

\* applyAborts and failAll end a request without a token.
LEMMA CancelSpeaks ==
    ASSUME Consistent, NEW r \in Requests, status[r] \in {"waiting", "running"},
           NEW reason \in {"abort", "error"}, NEW n \in Nat, NEW st \in Ended,
           reason = "error" \/ n = generated[r],
           Emit(Increment(r, <<>>, reason, n)),
           status' = [status EXCEPT ![r] = st], generated' = generated
    PROVE  Speaks(r, <<>>, reason)
<1>1. /\ status \in [Requests -> Statuses] /\ generated \in [Requests -> Nat]
      /\ stream \in [Requests -> Streams]
  BY DEF Consistent, TypeOK
<1>2. Len(<<>>) = 0
  BY EmptySeq
<1>3. generated' = [generated EXCEPT ![r] = @ + Len(<<>>)]
  BY <1>1, <1>2
<1>4. stream' = [stream EXCEPT ![r] =
         [toks |-> @.toks \o <<>>,
          ends |-> IF reason = "none" THEN @.ends ELSE @.ends + 1]]
  BY DEF Emit, Increment, Extend
<1>5. reason # "none"
  OBVIOUS
<1>6. \E m : /\ out' = Append(out, Increment(r, <<>>, reason, m))
             /\ reason = "error" \/ m = generated'[r]
  <2>1. out' = Append(out, Increment(r, <<>>, reason, n))
    BY DEF Emit
  <2>2. reason = "error" \/ n = generated'[r]
    OBVIOUS
  <2> QED BY <2>1, <2>2
<1> QED BY <1>1, <1>3, <1>4, <1>5, <1>6 DEF Speaks

\* What a step may do to a request's status, token count and stream.
LEMMA StepEffect ==
    ASSUME Consistent, [Next]_vars
    PROVE  \/ Silent
           \/ \E r \in Requests : \E toks, reason : Speaks(r, toks, reason)
<1>0. /\ status \in [Requests -> Statuses] /\ generated \in [Requests -> Nat]
      /\ stream \in [Requests -> Streams] /\ waiting \in Seq(Requests)
      /\ running \subseteq Requests
      /\ \A i \in DOMAIN waiting : waiting[i] \in Requests
      /\ \A s \in Requests : /\ status[s] = "waiting" <=> IsWaiting(s)
                             /\ status[s] = "running" <=> s \in running
  BY ElementOfSeq, LenProperties DEF Consistent, TypeOK, OnePlace
<1>1. CASE UNCHANGED vars
  BY <1>1 DEF vars, Silent
<1>2. ASSUME NEW r \in Requests, AddRequest(r) PROVE Silent
  BY <1>0, <1>2 DEF AddRequest, Silent
<1>3. ASSUME NEW r \in Requests, Abort(r) PROVE Silent
  BY <1>3 DEF Abort, Silent
<1>4. CASE BeginStep \/ EndAborts \/ EndAdmit \/ Decode \/ DecodeError
           \/ EndProcess \/ EndFail \/ Return
  BY <1>4 DEF BeginStep, EndAborts, EndAdmit, Decode, DecodeError, EndProcess,
              EndFail, Return, Silent
<1>5. CASE CancelWaiting
  <2>1. PICK i \in DOMAIN waiting :
          /\ status' = [status EXCEPT ![waiting[i]] = "aborted"]
          /\ Emit(Increment(waiting[i], <<>>, "abort", generated[waiting[i]]))
          /\ generated' = generated
    BY <1>5 DEF CancelWaiting
  <2>2. /\ waiting[i] \in Requests /\ status[waiting[i]] \in {"waiting", "running"}
        /\ generated[waiting[i]] \in Nat /\ "aborted" \in Ended
    BY <1>0 DEF IsWaiting, Ended
  <2>3. Speaks(waiting[i], <<>>, "abort")
    BY <2>1, <2>2, CancelSpeaks
  <2> QED BY <2>2, <2>3
<1>6. ASSUME NEW r \in Requests, CancelRunning(r)
      PROVE  Speaks(r, <<>>, "abort")
  <2>1. /\ status' = [status EXCEPT ![r] = "aborted"] /\ generated' = generated
        /\ Emit(Increment(r, <<>>, "abort", generated[r]))
        /\ status[r] \in {"waiting", "running"}
        /\ generated[r] \in Nat /\ "aborted" \in Ended
    BY <1>0, <1>6 DEF CancelRunning, Ended
  <2> QED BY <2>1, CancelSpeaks
<1>7. CASE Admit \/ RejectInsert
  <2>1. waiting # <<>>
    BY <1>7 DEF Admit, RejectInsert, SlotFree
  <2>2. Head(waiting) \in Requests /\ status[Head(waiting)] = "waiting"
    BY <1>0, <2>1, TailIsRemoveFirst DEF IsWaiting
  <2> QED BY <1>0, <1>7, <2>2 DEF Admit, RejectInsert, Silent
<1>8. ASSUME NEW u \in results, NEW kind \in Kinds,
             NEW declared \in {"none", "stop", "length"},
             ProcessToken(u, kind, declared)
      PROVE  \E r \in Requests : \E toks, reason : Speaks(r, toks, reason)
  <2> DEFINE r      == uidToReq[u]
             n      == generated[r] + (IF kind = "stopToken" THEN 0 ELSE 1)
             toks   == IF kind = "stopToken" THEN <<>> ELSE <<n>>
             reason == Verdict(kind, declared, n)
  <2>1. u \in DOMAIN uidToReq /\ r \in running /\ r \in Requests
    BY <1>0 DEF Consistent, SlotsConsistent
  <2>2. status[r] = "running" /\ generated[r] \in Nat
    BY <1>0, <2>1
  <2>3. /\ generated' = [generated EXCEPT ![r] = n]
        /\ Emit(Increment(r, toks, reason, n))
        /\ reason = "none" => status' = status
        /\ reason # "none" => status' = [status EXCEPT ![r] = StatusFor(reason)]
    BY <1>8, <2>1 DEF ProcessToken
  <2>4. stream' = [stream EXCEPT ![r] =
           [toks |-> @.toks \o toks,
            ends |-> IF reason = "none" THEN @.ends ELSE @.ends + 1]]
    BY <2>3 DEF Emit, Increment, Extend
  <2>5. /\ toks = <<>> \/ toks = <<generated[r] + 1>>
        /\ n = generated[r] + Len(toks)
    BY <2>2
  <2>6. StatusFor(reason) \in Ended
    BY StatusForType
  <2>7. reason = "none" => /\ toks = <<generated[r] + 1>>
                           /\ MaxTokens > 0 => generated[r] + 1 < MaxTokens
    BY <2>2, SchedulerAssumption DEF Verdict, Kinds
  <2>10. \E m : /\ out' = Append(out, Increment(r, toks, reason, m))
                /\ reason = "error" \/ m = generated'[r]
    <3>1. generated'[r] = n
      BY <1>0, <2>1, <2>3
    <3>2. out' = Append(out, Increment(r, toks, reason, n))
      BY <2>3 DEF Emit
    <3> HIDE DEF r, n, toks, reason
    <3> QED BY <3>1, <3>2
  <2> HIDE DEF r, n, toks, reason
  <2>8. /\ generated' = [generated EXCEPT ![r] = @ + Len(toks)]
        /\ \A s \in Requests \ {r} : status'[s] = status[s]
        /\ reason = "none" => status'[r] = "running"
        /\ reason # "none" => status'[r] \in Ended
    BY <1>0, <2>1, <2>2, <2>3, <2>5, <2>6
  <2>9. Speaks(r, toks, reason)
    BY <2>1, <2>2, <2>4, <2>5, <2>7, <2>8, <2>10 DEF Speaks
  <2> QED BY <2>1, <2>9
<1>9. ASSUME NEW r \in Requests, FailOne(r)
      PROVE  Speaks(r, <<>>, "error")
  <2>1. /\ status' = [status EXCEPT ![r] = "error"] /\ generated' = generated
        /\ Emit(Increment(r, <<>>, "error", 0))
        /\ status[r] \in {"waiting", "running"} /\ 0 \in Nat /\ "error" \in Ended
    BY <1>0, <1>9 DEF FailOne, Ended
  <2> QED BY <2>1, CancelSpeaks
<1> QED BY <1>1, <1>2, <1>3, <1>4, <1>5, <1>6, <1>7, <1>8, <1>9 DEF Next, StepMove

-----------------------------------------------------------------------------
\* After its end a request is never touched again.
THEOREM EndsAreFinal == SafetySpec => EndIsFinal
<1>1. Consistent /\ [Next]_vars =>
        [\A r \in Requests : status[r] \in Ended =>
            UNCHANGED <<status[r], stream[r], generated[r]>>]_vars
  <2> SUFFICES ASSUME Consistent, [Next]_vars, NEW s \in Requests, status[s] \in Ended
               PROVE  UNCHANGED <<status[s], stream[s], generated[s]>>
    OBVIOUS
  <2>1. status[s] \notin {"new", "waiting", "running"}
    BY DEF Ended
  <2>2. CASE Silent
    BY <2>1, <2>2 DEF Silent
  <2>3. ASSUME NEW r \in Requests, NEW toks, NEW reason, Speaks(r, toks, reason)
        PROVE  UNCHANGED <<status[s], stream[s], generated[s]>>
    <3>1. s # r
      BY <2>1, <2>3 DEF Speaks
    <3> QED BY <2>3, <3>1 DEF Speaks, Consistent, TypeOK
  <2> QED BY <2>2, <2>3, StepEffect
<1> QED BY <1>1, TablesConsistent, PTL DEF SafetySpec, EndIsFinal

-----------------------------------------------------------------------------
\* Nothing is generated before a request runs.
Budget ==
    /\ TokenBudget
    /\ \A r \in Requests : status[r] \in {"new", "waiting"} => generated[r] = 0

\* MaxTokens caps the tokens of every request, and no running request is at it.
THEOREM BudgetKept == SafetySpec => []TokenBudget
<1>1. Init => Budget
  BY SchedulerAssumption DEF Init, Budget, TokenBudget
<1>2. Consistent /\ Consistent' /\ Budget /\ [Next]_vars => Budget'
  <2> SUFFICES ASSUME Consistent, Consistent', Budget, [Next]_vars,
                      NEW s \in Requests
               PROVE  /\ MaxTokens > 0 => /\ generated'[s] <= MaxTokens
                                          /\ s \in running' => generated'[s] < MaxTokens
                      /\ status'[s] \in {"new", "waiting"} => generated'[s] = 0
    BY DEF Budget, TokenBudget
  <2>1. /\ MaxTokens > 0 => /\ generated[s] <= MaxTokens
                            /\ status[s] = "running" => generated[s] < MaxTokens
        /\ status[s] \in {"new", "waiting"} => generated[s] = 0
        /\ s \in running' <=> status'[s] = "running"
        /\ generated \in [Requests -> Nat]
    BY DEF Budget, TokenBudget, Consistent, TypeOK, OnePlace
  <2>2. CASE Silent
    BY <2>1, <2>2, SchedulerAssumption DEF Silent
  <2>3. ASSUME NEW r \in Requests, NEW toks, NEW reason, Speaks(r, toks, reason)
        PROVE  /\ MaxTokens > 0 => /\ generated'[s] <= MaxTokens
                                   /\ s \in running' => generated'[s] < MaxTokens
               /\ status'[s] \in {"new", "waiting"} => generated'[s] = 0
    <3>1. CASE s # r
      BY <2>1, <2>3, <3>1 DEF Speaks
    <3>2. CASE s = r
      <4>1. generated'[s] = generated[s] + Len(toks)
        BY <2>1, <2>3, <3>2 DEF Speaks
      <4>2. \/ toks = <<>> /\ Len(toks) = 0
            \/ toks = <<generated[s] + 1>> /\ Len(toks) = 1 /\ status[s] = "running"
        BY <2>3, <3>2 DEF Speaks
      <4>3. \/ reason # "none" /\ status'[s] \in Ended
            \/ /\ reason = "none" /\ status'[s] = "running" /\ Len(toks) = 1
               /\ MaxTokens > 0 => generated[s] + 1 < MaxTokens
        BY <2>3, <3>2 DEF Speaks
      <4>4. status'[s] \in Ended => status'[s] \notin {"new", "waiting", "running"}
        BY DEF Ended
      <4>5. generated'[s] = generated[s] \/ generated'[s] = generated[s] + 1
        <5>1. Len(toks) = 0 \/ Len(toks) = 1
          BY <4>2
        <5>2. generated[s] \in Nat
          BY <2>1
        <5>3. CASE Len(toks) = 0
          BY <4>1, <5>2, <5>3
        <5>4. CASE Len(toks) = 1
          BY <4>1, <5>4
        <5> QED BY <5>1, <5>3, <5>4
      <4>6. generated'[s] = generated[s] + 1 => status[s] = "running"
        <5>1. Len(toks) = 0 \/ status[s] = "running"
          BY <4>2
        <5>2. generated[s] \in Nat
          BY <2>1
        <5> QED BY <4>1, <5>1, <5>2
      <4>7. CASE status'[s] \in Ended
        BY <2>1, <4>4, <4>5, <4>6, <4>7, SchedulerAssumption
      <4>8. CASE status'[s] = "running" /\ Len(toks) = 1
                 /\ (MaxTokens > 0 => generated[s] + 1 < MaxTokens)
        BY <2>1, <4>1, <4>8, SchedulerAssumption
      <4> QED BY <4>3, <4>7, <4>8
    <3> QED BY <3>1, <3>2
  <2> QED BY <2>2, <2>3, StepEffect
<1>3. Budget => TokenBudget
  BY DEF Budget
<1> QED BY <1>1, <1>2, <1>3, TablesConsistent, PTL DEF SafetySpec

-----------------------------------------------------------------------------
\* The increments of a request carry its tokens in order, each once, and it
\* ends exactly once, when it leaves the scheduler.
THEOREM StreamsExact == SafetySpec => []StreamExact
<1>1. Init => StreamExact
  <2> SUFFICES ASSUME Init, NEW r \in Requests
               PROVE  /\ stream[r].toks = [i \in 1..generated[r] |-> i]
                      /\ stream[r].ends = (IF status[r] \in Ended THEN 1 ELSE 0)
    BY DEF StreamExact
  <2>1. [i \in 1..0 |-> i] = <<>>
    BY EmptySeq
  <2> QED BY <2>1 DEF Init, Ended
<1>2. Consistent /\ StreamExact /\ [Next]_vars => StreamExact'
  <2> DEFINE Ends(s) == \/ stream[s].ends = (IF status[s] \in Ended THEN 1 ELSE 0)
                        \/ InsertFails /\ status[s] = "error" /\ stream[s].ends = 0
  <2> SUFFICES ASSUME Consistent, StreamExact, [Next]_vars, NEW s \in Requests
               PROVE  /\ stream'[s].toks = [i \in 1..generated'[s] |-> i]
                      /\ Ends(s)'
    BY DEF StreamExact
  <2>1. /\ stream[s].toks = [i \in 1..generated[s] |-> i] /\ Ends(s)
        /\ stream \in [Requests -> Streams] /\ generated \in [Requests -> Nat]
        /\ status[s] \in {"new", "waiting", "running"} => stream[s].ends = 0
    BY DEF StreamExact, Consistent, TypeOK, Ended
  <2>2. CASE Silent
    BY <2>1, <2>2 DEF Silent, Ended
  <2>3. ASSUME NEW r \in Requests, NEW toks, NEW reason, Speaks(r, toks, reason)
        PROVE  stream'[s].toks = [i \in 1..generated'[s] |-> i] /\ Ends(s)'
    <3>1. CASE s # r
      BY <2>1, <2>3, <3>1 DEF Speaks
    <3>2. CASE s = r
      <4>1. /\ stream'[s] = [toks |-> stream[s].toks \o toks,
                             ends |-> IF reason = "none" THEN stream[s].ends
                                                         ELSE stream[s].ends + 1]
            /\ generated'[s] = generated[s] + Len(toks)
            /\ toks = <<>> \/ toks = <<generated[s] + 1>>
            /\ stream[s].ends = 0
        BY <2>1, <2>3, <3>2 DEF Speaks
      <4>2. stream'[s].toks = [i \in 1..generated'[s] |-> i]
        <5>1. CASE toks = <<>>
          <6>1. stream[s].toks \in Seq(Nat) /\ Len(toks) = 0
            BY <2>1, <5>1, EmptySeq DEF Streams
          <6> QED BY <2>1, <4>1, <5>1, <6>1, ConcatEmptySeq
        <5>2. CASE toks = <<generated[s] + 1>>
          <6> DEFINE n == generated[s]
          <6>1. n \in Nat /\ Len(toks) = 1 /\ toks[1] = n + 1
            BY <2>1, <5>2
          <6>2. /\ [i \in 1..n |-> i] \in Seq(Nat) /\ Len([i \in 1..n |-> i]) = n
                /\ toks \in Seq(Nat)
            BY <5>2, <6>1
          <6> HIDE DEF n
          <6>3. [i \in 1..n |-> i] \o toks = [i \in 1..(n + 1) |-> i]
            <7> DEFINE a == [i \in 1..n |-> i]
                       b == [i \in 1..(n + 1) |-> i]
            <7>1. /\ a \o toks \in Seq(Nat) /\ Len(a \o toks) = n + 1
                  /\ \A i \in 1..(n + 1) :
                       (a \o toks)[i] = IF i <= n THEN a[i] ELSE toks[i - n]
              <8> HIDE DEF a
              <8>1. a \in Seq(Nat) /\ Len(a) = n /\ toks \in Seq(Nat) /\ Len(toks) = 1
                BY <6>1, <6>2 DEF a
              <8>2. /\ a \o toks \in Seq(Nat)
                    /\ Len(a \o toks) = Len(a) + Len(toks)
                    /\ \A i \in 1..(Len(a) + Len(toks)) :
                         (a \o toks)[i] = IF i <= Len(a) THEN a[i] ELSE toks[i - Len(a)]
                BY <8>1, ConcatProperties
              <8> QED BY <8>1, <8>2
            <7>2. b \in Seq(Nat) /\ Len(b) = n + 1
              BY <6>1
            <7>3. ASSUME NEW i \in 1..(n + 1) PROVE (a \o toks)[i] = b[i]
              <8>1. CASE i <= n
                BY <6>1, <7>1, <8>1
              <8>2. CASE i = n + 1
                <9>1. ~(i <= n) /\ i - n = 1
                  BY <6>1, <8>2
                <9> QED BY <6>1, <7>1, <8>2, <9>1
              <8> QED BY <6>1, <8>1, <8>2
            <7> HIDE DEF a, b
            <7>4. a \o toks = b
              BY <7>1, <7>2, <7>3, SeqEqual
            <7> QED BY <7>4 DEF a, b
          <6> QED BY <2>1, <4>1, <6>1, <6>3 DEF n
        <5> QED BY <4>1, <5>1, <5>2
      <4>3. Ends(s)'
        <5>1. CASE reason = "none"
          BY <2>3, <3>2, <4>1, <5>1 DEF Speaks, Ended
        <5>2. CASE reason # "none"
          BY <2>3, <3>2, <4>1, <5>2 DEF Speaks, Ended
        <5> QED BY <5>1, <5>2
      <4> QED BY <4>2, <4>3
    <3> QED BY <3>1, <3>2
  <2> QED BY <2>2, <2>3, StepEffect
<1> QED BY <1>1, <1>2, TablesConsistent, PTL DEF SafetySpec

-----------------------------------------------------------------------------
\* Removing an entry leaves no new one in the queue.
LEMMA DropKeepsOut ==
    ASSUME Consistent, NEW i \in DOMAIN waiting, waiting' = RemoveAt(waiting, i),
           NEW s, IsWaiting(s)'
    PROVE  IsWaiting(s)
<1>1. waiting \in Seq(Requests)
  BY DEF Consistent, TypeOK
<1>2. PICK j \in DOMAIN RemoveAt(waiting, i) : RemoveAt(waiting, i)[j] = s
  BY DEF IsWaiting
<1>3. \E m, n \in DOMAIN waiting : RemoveAt(waiting, i)[j] = waiting[m]
  BY <1>1, RemoveAtKeepsOrder
<1> QED BY <1>2, <1>3 DEF IsWaiting

\* An abort mark that a Step took is honoured by that Step.
THEOREM AbortsTakeEffect == SafetySpec => []AbortsApplied
<1>1. Init => AbortsApplied
  BY DEF Init, AbortsApplied
<1>2. Consistent /\ AbortsApplied /\ [Next]_vars => AbortsApplied'
  <2> SUFFICES ASSUME Consistent, AbortsApplied, [Next]_vars PROVE AbortsApplied'
    OBVIOUS
  <2>1. CASE UNCHANGED vars
    BY <2>1 DEF vars, AbortsApplied, IsWaiting
  <2>2. ASSUME NEW r \in Requests, AddRequest(r) \/ CancelRunning(r) PROVE AbortsApplied'
    BY <2>2 DEF AddRequest, CancelRunning, AbortsApplied
  <2>3. CASE BeginStep \/ CancelWaiting \/ Return
    BY <2>3 DEF BeginStep, CancelWaiting, Return, AbortsApplied
  <2>4. ASSUME NEW r \in Requests, Abort(r) PROVE AbortsApplied'
    BY <2>4 DEF Abort, AbortsApplied, IsWaiting
  <2>5. CASE EndAborts
    BY <2>5 DEF EndAborts, AbortsApplied, IsWaiting, tableVars
  <2>6. CASE EndAdmit \/ Decode \/ DecodeError \/ EndProcess \/ EndFail
    BY <2>6 DEF EndAdmit, Decode, DecodeError, EndProcess, EndFail,
                AbortsApplied, IsWaiting, tableVars
  <2>7. CASE Admit \/ RejectInsert
    <3>1. /\ waiting # <<>> /\ waiting' = Tail(waiting) /\ phase = "admit"
          /\ pending' = pending /\ running' \subseteq running \cup {Head(waiting)}
      BY <2>7 DEF Admit, RejectInsert, SlotFree, tableVars
    <3>2. /\ 1 \in DOMAIN waiting /\ Head(waiting) = waiting[1]
          /\ waiting' = RemoveAt(waiting, 1)
      BY <3>1, TailIsRemoveFirst DEF Consistent, TypeOK
    <3>3. \A s \in pending : s # Head(waiting) /\ s \notin running /\ ~IsWaiting(s)
      BY <3>1, <3>2 DEF AbortsApplied, IsWaiting
    <3>4. \A s \in pending : ~IsWaiting(s)'
      BY <3>2, <3>3, DropKeepsOut
    <3> QED BY <3>1, <3>3, <3>4 DEF AbortsApplied
  <2>8. ASSUME NEW u \in results, NEW kind \in Kinds,
               NEW declared \in {"none", "stop", "length"},
               ProcessToken(u, kind, declared)
        PROVE  AbortsApplied'
    <3>1. /\ UNCHANGED <<phase, waiting, pending>>
          /\ UNCHANGED tableVars \/ Retire(uidToReq[u])
      BY <2>8 DEF ProcessToken
    <3>2. running' \subseteq running
      BY <3>1 DEF Retire, tableVars
    <3> QED BY <3>1, <3>2 DEF AbortsApplied, IsWaiting
  <2>9. ASSUME NEW r \in Requests, FailOne(r) PROVE AbortsApplied'
    BY <2>9 DEF FailOne, Retire, AbortsApplied, IsWaiting
  <2> QED BY <2>1, <2>2, <2>3, <2>4, <2>5, <2>6, <2>7, <2>8, <2>9 DEF Next, StepMove
<1> QED BY <1>1, <1>2, TablesConsistent, PTL DEF SafetySpec

-----------------------------------------------------------------------------
\* A request that was spoken for in this Step has ended, or its result is used.
Spoken(r) ==
    \/ status[r] \in Ended
    \/ phase \in {"process", "return"} /\ status[r] = "running" /\ uid[r] \notin results

Said ==
    /\ OneIncrementPerStep
    /\ phase = "idle" => out = <<>>
    /\ \A i \in DOMAIN out : Spoken(out[i].id)

\* An increment for a request that was not spoken for is its only one.
LEMMA SaidOnce ==
    ASSUME Consistent, Said, NEW r \in Requests, ~Spoken(r), NEW inc \in Increments,
           inc.id = r, Emit(inc), phase' = phase, phase # "idle",
           \A s \in Requests : Spoken(s) \/ s = r => Spoken(s)'
    PROVE  Said'
<1>1. /\ out \in Seq(Increments)
      /\ \A i \in DOMAIN out : out[i].id \in Requests
  <2>1. out \in Seq(Increments)
    BY DEF Consistent, TypeOK
  <2>2. \A i \in DOMAIN out : out[i] \in Increments
    BY <2>1, ElementOfSeq, LenProperties
  <2> QED BY <2>1, <2>2 DEF Increments
<1>2. \A i \in DOMAIN out : out[i].id # r
  BY DEF Said
<1>3. /\ DOMAIN out = 1..Len(out) /\ Len(out) \in Nat
      /\ DOMAIN out' = 1..(Len(out) + 1)
      /\ \A j \in 1..Len(out) : out'[j] = out[j]
      /\ out'[Len(out) + 1] = inc
  <2>1. out' = Append(out, inc)
    BY DEF Emit
  <2> QED BY <1>1, <2>1, AppendEntries
<1>4. \A i \in DOMAIN out' : Spoken(out[i].id)'
  <2> SUFFICES ASSUME NEW i \in DOMAIN out' PROVE Spoken(out[i].id)'
    OBVIOUS
  <2>1. CASE i \in DOMAIN out
    <3>1. out'[i].id = out[i].id /\ out[i].id \in Requests
      BY <1>1, <1>3, <2>1
    <3>2. Spoken(out[i].id)
      BY <2>1 DEF Said
    <3> QED BY <3>1, <3>2 DEF Spoken
  <2>2. CASE i = Len(out) + 1
    <3>1. out'[i].id = r
      BY <1>3, <2>2
    <3> QED BY <3>1 DEF Spoken
  <2>3. i \in DOMAIN out \/ i = Len(out) + 1
    BY <1>3
  <2> QED BY <2>1, <2>2, <2>3
<1>5. \A i, j \in DOMAIN out' : out'[i].id = out'[j].id => i = j
  <2> SUFFICES ASSUME NEW i \in DOMAIN out', NEW j \in DOMAIN out',
                      out'[i].id = out'[j].id
               PROVE  i = j
    OBVIOUS
  <2>1. /\ i \in DOMAIN out \/ i = Len(out) + 1
        /\ j \in DOMAIN out \/ j = Len(out) + 1
    BY <1>3
  <2>2. CASE i \in DOMAIN out /\ j \in DOMAIN out
    BY <1>3, <2>2 DEF Said, OneIncrementPerStep
  <2>3. \A k \in DOMAIN out : out'[k].id # r
    BY <1>2, <1>3
  <2>4. out'[Len(out) + 1].id = r
    BY <1>3
  <2> QED BY <2>1, <2>2, <2>3, <2>4
<1> QED BY <1>4, <1>5 DEF Said, OneIncrementPerStep

\* One Step produces at most one increment per request.
THEOREM OneIncrement == SafetySpec => []OneIncrementPerStep
<1>1. Init => Said
  <2> SUFFICES ASSUME Init PROVE Said
    OBVIOUS
  <2>1. out = <<>> /\ DOMAIN out = {}
    BY DEF Init
  <2> QED BY <2>1 DEF Said, OneIncrementPerStep
<1>2. Consistent /\ Said /\ [Next]_vars => Said'
  <2> SUFFICES ASSUME Consistent, Said, [Next]_vars PROVE Said'
    OBVIOUS
  <2>0. /\ status \in [Requests -> Statuses] /\ generated \in [Requests -> Nat]
        /\ running \subseteq Requests
        /\ \A i \in DOMAIN waiting : waiting[i] \in Requests
        /\ \A s \in Requests : /\ status[s] = "waiting" <=> IsWaiting(s)
                               /\ status[s] = "running" <=> s \in running
        /\ \A i \in DOMAIN out : out[i].id \in Requests
        /\ results # {} => phase = "process"
    <3>1. \A i \in DOMAIN out : out[i] \in Increments
      BY ElementOfSeq, LenProperties DEF Consistent, TypeOK
    <3>2. \A i \in DOMAIN waiting : waiting[i] \in Requests
      BY ElementOfSeq, LenProperties DEF Consistent, TypeOK
    <3>3. \A i \in DOMAIN out : out[i].id \in Requests
      BY <3>1 DEF Increments
    <3> QED BY <3>2, <3>3 DEF Consistent, TypeOK, OnePlace
  <2>1. CASE UNCHANGED vars
    BY <2>1 DEF vars, Said, Spoken, OneIncrementPerStep
  <2>2. ASSUME NEW r \in Requests, AddRequest(r) PROVE Said'
    <3>1. phase = "idle" /\ out' = out
      BY <2>2 DEF AddRequest
    <3>2. out' = <<>> /\ DOMAIN out' = {}
      BY <3>1 DEF Said
    <3> QED BY <3>2 DEF Said, OneIncrementPerStep
  <2>3. ASSUME NEW r \in Requests, Abort(r) PROVE Said'
    BY <2>3 DEF Abort, Said, Spoken, OneIncrementPerStep
  <2>4. CASE BeginStep \/ Return
    <3>1. out' = <<>> /\ DOMAIN out' = {}
      BY <2>4 DEF BeginStep, Return, Said
    <3> QED BY <3>1 DEF Said, OneIncrementPerStep
  <2>5. CASE EndAborts \/ EndAdmit \/ Decode \/ DecodeError \/ EndProcess \/ EndFail
    <3>1. /\ UNCHANGED <<out, status, uid>> /\ phase' # "idle"
          /\ \/ phase # "process"
             \/ phase' = "return" /\ results' = results
      BY <2>5 DEF EndAborts, EndAdmit, Decode, DecodeError, EndProcess, EndFail,
                  tableVars, backendVars
    <3>2. \A s \in Requests : Spoken(s) => Spoken(s)'
      <4>1. CASE phase = "return"
        BY <2>5, <4>1 DEF EndAborts, EndAdmit, Decode, DecodeError, EndProcess, EndFail
      <4>2. CASE phase # "return"
        BY <3>1, <4>2 DEF Spoken
      <4> QED BY <4>1, <4>2
    <3> QED BY <2>0, <3>1, <3>2 DEF Said, OneIncrementPerStep
  <2>6. CASE Admit \/ RejectInsert
    <3>1. /\ waiting # <<>> /\ phase = "admit" /\ phase' = phase /\ out' = out
          /\ \A s \in Requests \ {Head(waiting)} : status'[s] = status[s]
      BY <2>0, <2>6 DEF Admit, RejectInsert, SlotFree
    <3>2. status[Head(waiting)] = "waiting"
      BY <2>0, <3>1, TailIsRemoveFirst DEF IsWaiting, Consistent, TypeOK
    <3>3. \A s \in Requests : Spoken(s) => Spoken(s)'
      BY <3>1, <3>2 DEF Spoken, Ended
    <3> QED BY <2>0, <3>1, <3>3 DEF Said, OneIncrementPerStep
  <2>7. CASE CancelWaiting
    <3>1. PICK i \in DOMAIN waiting :
            /\ status' = [status EXCEPT ![waiting[i]] = "aborted"]
            /\ Emit(Increment(waiting[i], <<>>, "abort", generated[waiting[i]]))
            /\ phase = "abort" /\ phase' = phase
      BY <2>7 DEF CancelWaiting
    <3> DEFINE r == waiting[i]
    <3>2. r \in Requests /\ status[r] = "waiting" /\ generated[r] \in Nat
      BY <2>0 DEF IsWaiting
    <3>3. Increment(r, <<>>, "abort", generated[r]) \in Increments
      BY <3>2, FinalIncrementType
    <3>4. Increment(r, <<>>, "abort", generated[r]).id = r
      BY DEF Increment
    <3>5. ~Spoken(r) /\ \A s \in Requests : Spoken(s) \/ s = r => Spoken(s)'
      BY <2>0, <3>1, <3>2 DEF Spoken, Ended
    <3> HIDE DEF r
    <3> QED BY <3>1, <3>2, <3>3, <3>4, <3>5, SaidOnce DEF r
  <2>8. ASSUME NEW r \in Requests, CancelRunning(r) \/ FailOne(r) PROVE Said'
    <3>1. PICK reason \in {"abort", "error"}, n \in Nat, st \in Ended :
            /\ Emit(Increment(r, <<>>, reason, n))
            /\ status' = [status EXCEPT ![r] = st]
            /\ phase \in {"abort", "fail"} /\ phase' = phase
      <4>1. generated[r] \in Nat /\ 0 \in Nat /\ {"aborted", "error"} \subseteq Ended
        BY <2>0 DEF Ended
      <4>2. CASE CancelRunning(r)
        BY <4>1, <4>2 DEF CancelRunning
      <4>3. CASE FailOne(r)
        BY <4>1, <4>3 DEF FailOne
      <4> QED BY <2>8, <4>2, <4>3
    <3>2. status[r] = "running"
      BY <2>0, <2>8 DEF CancelRunning, FailOne
    <3>3. /\ Increment(r, <<>>, reason, n) \in Increments
          /\ Increment(r, <<>>, reason, n).id = r
      BY FinalIncrementType DEF Increment
    <3>4. ~Spoken(r) /\ \A s \in Requests : Spoken(s) \/ s = r => Spoken(s)'
      BY <2>0, <3>1, <3>2 DEF Spoken, Ended
    <3> QED BY <3>1, <3>3, <3>4, SaidOnce
  <2>9. ASSUME NEW u \in results, NEW kind \in Kinds,
               NEW declared \in {"none", "stop", "length"},
               ProcessToken(u, kind, declared)
        PROVE  Said'
    <3> DEFINE r      == uidToReq[u]
               n      == generated[r] + (IF kind = "stopToken" THEN 0 ELSE 1)
               toks   == IF kind = "stopToken" THEN <<>> ELSE <<n>>
               reason == Verdict(kind, declared, n)
               inc    == Increment(r, toks, reason, n)
    <3>1. u \in DOMAIN uidToReq /\ r \in Requests /\ status[r] = "running" /\ uid[r] = u
      BY <2>0 DEF Consistent, SlotsConsistent
    <3>2. /\ Emit(inc) /\ phase = "process" /\ phase' = phase
          /\ results' = results \ {u} /\ uid' = uid
          /\ \/ status' = status
             \/ status' = [status EXCEPT ![r] = StatusFor(reason)]
      BY <2>9, <3>1 DEF ProcessToken, Retire, tableVars
    <3>3. StatusFor(reason) \in Ended
      BY StatusForType
    <3>4. inc \in Increments /\ inc.id = r
      <4>1. n \in Nat /\ toks \in Seq(Nat) /\ reason \in Reasons \cup {"none"}
        <5>1. n \in Nat
          BY <2>0, <3>1
        <5>2. toks \in Seq(Nat)
          BY <5>1
        <5> QED BY <5>1, <5>2, VerdictType
      <4> HIDE DEF r, n, toks, reason
      <4> QED BY <3>1, <4>1, IncrementType DEF Increment
    <3> HIDE DEF r, n, toks, reason, inc
    <3>5. ~Spoken(r)
      BY <3>1, <3>2 DEF Spoken, Ended
    <3>6. \A s \in Requests : Spoken(s) \/ s = r => Spoken(s)'
      BY <2>0, <3>1, <3>2, <3>3 DEF Spoken
    <3> QED BY <3>1, <3>2, <3>4, <3>5, <3>6, SaidOnce
  <2> QED BY <2>1, <2>2, <2>3, <2>4, <2>5, <2>6, <2>7, <2>8, <2>9 DEF Next, StepMove
<1>3. Said => OneIncrementPerStep
  BY DEF Said
<1> QED BY <1>1, <1>2, <1>3, TablesConsistent, PTL DEF SafetySpec

-----------------------------------------------------------------------------
\* Admission is work conserving: it ends with an empty queue or a full batch.
THEOREM AdmissionConserves == SafetySpec => []WorkConserving
<1>1. Init => WorkConserving
  BY DEF Init, WorkConserving
<1>2. Consistent /\ WorkConserving /\ [Next]_vars => WorkConserving'
  <2> SUFFICES ASSUME Consistent, WorkConserving, [Next]_vars PROVE WorkConserving'
    OBVIOUS
  <2>1. /\ Slots \in Nat /\ Slots' = Slots
        /\ Cardinality(running) \in Nat /\ Cardinality(running) <= Slots
    BY FS_CardinalityType, SchedulerAssumption DEF Consistent, BatchBounded, Slots
  <2>2. CASE EndAdmit
    <3>1. /\ UNCHANGED <<waiting, running>>
          /\ waiting # <<>> => ~(Cardinality(running) < Slots)
      BY <2>2 DEF EndAdmit, SlotFree, tableVars
    <3> QED BY <2>1, <3>1 DEF WorkConserving
  <2>3. CASE UNCHANGED vars \/ \E r \in Requests : Abort(r)
    BY <2>1, <2>3 DEF vars, Abort, WorkConserving
  <2>4. phase' # "decode" \/ EndAdmit \/ UNCHANGED vars \/ \E r \in Requests : Abort(r)
    <3>1. ASSUME NEW r \in Requests,
                 AddRequest(r) \/ CancelRunning(r) \/ FailOne(r)
          PROVE  phase' # "decode"
      BY <3>1 DEF AddRequest, CancelRunning, FailOne
    <3>2. ASSUME BeginStep \/ CancelWaiting \/ EndAborts \/ Admit \/ RejectInsert
                 \/ Decode \/ DecodeError \/ EndProcess \/ EndFail \/ Return
          PROVE  phase' # "decode"
      BY <3>2 DEF BeginStep, CancelWaiting, EndAborts, Admit, RejectInsert, Decode,
                  DecodeError, EndProcess, EndFail, Return
    <3>3. ASSUME NEW u \in results, NEW kind \in Kinds,
                 NEW declared \in {"none", "stop", "length"},
                 ProcessToken(u, kind, declared)
          PROVE  phase' # "decode"
      BY <3>3 DEF ProcessToken
    <3> QED BY <3>1, <3>2, <3>3 DEF Next, StepMove
  <2>5. CASE phase' # "decode"
    BY <2>5 DEF WorkConserving
  <2> QED BY <2>2, <2>3, <2>4, <2>5
<1> QED BY <1>1, <1>2, TablesConsistent, PTL DEF SafetySpec

\* Admission is fair (scheduler.go AddRequest, admit): who came first goes first, and it
\* ends with an empty queue or a full batch.
THEOREM AdmissionIsFair == SafetySpec => []AdmissionFair
<1>1. WorkConserving /\ FirstComeFirstServed => AdmissionFair
  BY DEF AdmissionFair
<1> QED BY <1>1, AdmissionConserves, ServedInOrder, PTL
=============================================================================
