---------------------------- MODULE Library_proofs ----------------------------
(***************************************************************************)
(* Proofs about the parts of the library that run by themselves: the output *)
(* collectors, the pool of engines, the registry of model owners, how stop  *)
(* strings cut a text, the progress of prompts, the window of a cache, the  *)
(* settings of models, the counters, the plan of a quantization and the     *)
(* names of what it makes, and the updates that are offered.                *)
(***************************************************************************)
EXTENDS OutputCollector, EnginePool, StopText, PrefillProgress, CacheWindow,
        Profiles, Statistics, Quantization, Updates, Induction, FiniteSetTheorems, SequenceTheorems, TLAPS

-----------------------------------------------------------------------------
(* OutputCollector: for any number of collectors, outputs and calls of Clear. *)

CollectorInv ==
    /\ isWaiting \in [Collectors -> BOOLEAN] /\ waitingConsumers \in Nat
    /\ consumer \in [Collectors -> ConsumerStates]
    /\ ready \in [Collectors -> BOOLEAN]
    /\ output = [c \in Collectors |-> output[c]]
    /\ WaitersCounted /\ NoLostWakeup

LEMMA CollectorInvInit == CollectorInit => CollectorInv
  <1> SUFFICES ASSUME CollectorInit PROVE CollectorInv
    OBVIOUS
  <1>1. {c \in Collectors : isWaiting[c]} = {}  BY DEF CollectorInit
  <1>2. WaitersCounted  BY <1>1, FS_EmptySet DEF CollectorInit, WaitersCounted
  <1>. QED
    BY <1>2 DEF CollectorInit, CollectorInv, NoLostWakeup, ConsumerStates, Buffered

\* The set whose size the count is, when one mark is set or taken away.
Waiters == {c \in Collectors : isWaiting[c]}

LEMMA MarkSet ==
    ASSUME CollectorInv, NEW c \in Collectors, isWaiting' = [isWaiting EXCEPT ![c] = TRUE]
    PROVE  /\ isWaiting' \in [Collectors -> BOOLEAN] /\ Waiters' = Waiters \cup {c}
           /\ Cardinality(Waiters') = IF isWaiting[c] THEN waitingConsumers
                                      ELSE waitingConsumers + 1
  <1>1. isWaiting' \in [Collectors -> BOOLEAN] /\ Waiters' = Waiters \cup {c}
    BY DEF CollectorInv, Waiters
  <1>2. IsFiniteSet(Waiters)  BY CollectorAssumption, FS_Subset DEF Waiters
  <1>3. c \in Waiters <=> isWaiting[c]  BY DEF Waiters
  <1>4. waitingConsumers = Cardinality(Waiters)
    BY DEF CollectorInv, WaitersCounted, Waiters
  <1>. QED  BY <1>1, <1>2, <1>3, <1>4, FS_AddElement

LEMMA MarkTaken ==
    ASSUME CollectorInv, NEW c \in Collectors, StopWaiting(c)
    PROVE  /\ isWaiting' \in [Collectors -> BOOLEAN] /\ waitingConsumers' \in Nat
           /\ WaitersCounted'
  <1>1. isWaiting' \in [Collectors -> BOOLEAN] /\ Waiters' = Waiters \ {c}
    BY DEF CollectorInv, Waiters, StopWaiting
  <1>2. IsFiniteSet(Waiters)  BY CollectorAssumption, FS_Subset DEF Waiters
  <1>3. c \in Waiters <=> isWaiting[c]  BY DEF Waiters
  <1>4. waitingConsumers = Cardinality(Waiters)
    BY DEF CollectorInv, WaitersCounted, Waiters
  <1>5. waitingConsumers' = Cardinality(Waiters') /\ waitingConsumers' \in Nat
    <2>1. IsFiniteSet(Waiters')  BY <1>1, <1>2, FS_Subset
    <2>2. Cardinality(Waiters') \in Nat  BY <2>1, FS_CardinalityType
    <2>3. waitingConsumers' = Cardinality(Waiters')
      BY <1>1, <1>2, <1>3, <1>4, FS_RemoveElement, FS_CardinalityType DEF StopWaiting
    <2>. QED  BY <2>2, <2>3
  <1>. QED  BY <1>1, <1>5 DEF WaitersCounted, Waiters

LEMMA CollectorInvStep == CollectorInv /\ [CollectorNext]_collectorVars => CollectorInv'
  <1> SUFFICES ASSUME CollectorInv, [CollectorNext]_collectorVars PROVE CollectorInv'
    OBVIOUS
  <1>0. ASSUME UNCHANGED waitVars
        PROVE  /\ isWaiting' \in [Collectors -> BOOLEAN] /\ waitingConsumers' \in Nat
               /\ WaitersCounted'
    BY <1>0 DEF waitVars, CollectorInv, WaitersCounted
  <1>1. ASSUME NEW c \in Collectors, NEW new, Put(c, new) PROVE CollectorInv'
    <2>1. UNCHANGED waitVars  BY <1>1 DEF Put
    <2>. QED  BY <1>0, <1>1, <2>1 DEF Put, CollectorInv, NoLostWakeup, Buffered
  <1>2. ASSUME NEW c \in Collectors, GetNowait(c) \/ GetTake(c) PROVE CollectorInv'
    <2>1. UNCHANGED waitVars  BY <1>2 DEF GetNowait, GetTake
    <2>2. ~Buffered(c)'  BY <1>2 DEF GetNowait, GetTake, Take, Buffered, CollectorInv
    <2>. QED
      BY <1>0, <1>2, <2>1, <2>2
      DEF GetNowait, GetTake, Take, CollectorInv, NoLostWakeup, Buffered, ConsumerStates
  <1>3. ASSUME NEW c \in Collectors, GetBegin(c) PROVE CollectorInv'
    <2>0. /\ isWaiting' = [isWaiting EXCEPT ![c] = TRUE]
          /\ waitingConsumers' = IF isWaiting[c] THEN waitingConsumers ELSE waitingConsumers + 1
      BY <1>3 DEF GetBegin
    <2>1. /\ isWaiting' \in [Collectors -> BOOLEAN] /\ waitingConsumers' \in Nat
          /\ WaitersCounted'
      <3>1. /\ isWaiting' \in [Collectors -> BOOLEAN]
            /\ Cardinality(Waiters') = waitingConsumers'
        BY <2>0, MarkSet
      <3>2. waitingConsumers' \in Nat  BY <2>0 DEF CollectorInv
      <3>. QED  BY <3>1, <3>2 DEF WaitersCounted, Waiters
    <2>. QED
      BY <1>3, <2>1 DEF GetBegin, bufferVars, CollectorInv, NoLostWakeup, Buffered, ConsumerStates
  <1>4. ASSUME NEW c \in Collectors, GetNothing(c) \/ GetWake(c) \/ GetCancel(c) PROVE CollectorInv'
    <2>1. UNCHANGED waitVars  BY <1>4 DEF GetNothing, GetWake, GetCancel
    <2>. QED
      BY <1>0, <1>4, <2>1
      DEF GetNothing, GetWake, GetCancel, bufferVars, CollectorInv, NoLostWakeup, Buffered,
          ConsumerStates
  <1>5. ASSUME NEW c \in Collectors, GetEnd(c) PROVE CollectorInv'
    BY <1>5, MarkTaken
    DEF GetEnd, bufferVars, CollectorInv, NoLostWakeup, Buffered, ConsumerStates
  <1>6. ASSUME NEW c \in Collectors, Clear(c) PROVE CollectorInv'
    BY <1>6, MarkTaken DEF Clear, CollectorInv, NoLostWakeup, Buffered
  <1>7. CASE UNCHANGED collectorVars
    BY <1>7 DEF collectorVars, CollectorInv, WaitersCounted, NoLostWakeup, Buffered
  <1>. QED
    BY <1>1, <1>2, <1>3, <1>4, <1>5, <1>6, <1>7 DEF CollectorNext, Handler

LEMMA CollectorInvariant == CollectorSpec => []CollectorInv
  <1>. QED  BY CollectorInvInit, CollectorInvStep, PTL DEF CollectorSpec

\* A handler is never left blocked next to an output (output_collector.go Get).
THEOREM WakeupsArrive == CollectorSpec => []NoLostWakeup
  <1>1. CollectorInv => NoLostWakeup  BY DEF CollectorInv
  <1>. QED  BY <1>1, CollectorInvariant, PTL

\* The count of waiting consumers is exact, though Get and Clear both take marks away
\* (output_collector.go stopWaiting, Clear).
THEOREM CountIsExact == CollectorSpec => []WaitersCounted
  <1>1. CollectorInv => WaitersCounted  BY DEF CollectorInv
  <1>. QED  BY <1>1, CollectorInvariant, PTL
-----------------------------------------------------------------------------
(* Nothing is lost on the way: what the handler took and what is buffered    *)
(* are, together, what was put.                                              *)

EndsWith(s, n) == s # <<>> /\ s[Len(s)] = n

FirstTokens(n) == [i \in 1..n |-> i]

\* What came out of the collector or still will.
Passed(c) == IF Buffered(c) THEN Merge(got[c], output[c]) ELSE got[c]

\* A buffer holds the newest output; until it is cleared for the first time, that is
\* also what was taken last, and with aggregation everything is there.
Intact(c) ==
    /\ Buffered(c) => EndsWith(output[c].toks, Len(made[c]))
    /\ cleared[c] = 0 =>
         /\ ~Buffered(c) /\ made[c] # <<>> => EndsWith(got[c].toks, Len(made[c]))
         /\ aggregate[c] => /\ Passed(c).toks = FirstTokens(Len(made[c]))
                            /\ Passed(c).err <=> \E i \in DOMAIN made[c] : made[c][i].err

OutputsInv ==
    /\ aggregate \in [Collectors -> BOOLEAN] /\ cleared \in [Collectors -> Nat]
    /\ made \in [Collectors -> Seq(Outputs)] /\ got \in [Collectors -> Outputs]
    /\ output \in [Collectors -> Outputs \cup {NoOutput}]
    /\ sentTokens \in [Collectors -> Nat]
    /\ \A c \in Collectors : Intact(c)
    /\ HeldBackBounded

LEMMA LastOfConcat ==
    ASSUME NEW s \in Seq(Nat), NEW t \in Seq(Nat), NEW n, EndsWith(t, n)
    PROVE  s \o t \in Seq(Nat) /\ EndsWith(s \o t, n)
  <1>1. t # <<>> /\ t[Len(t)] = n  BY DEF EndsWith
  <1>2. Len(s) \in Nat /\ Len(t) \in Nat \ {0}  BY <1>1, EmptySeq, LenProperties
  <1>3. /\ s \o t \in Seq(Nat) /\ Len(s \o t) = Len(s) + Len(t)
        /\ (s \o t)[Len(s) + Len(t)] = t[Len(t)]
    BY <1>2, ConcatProperties
  <1>. QED  BY <1>1, <1>2, <1>3, EmptySeq DEF EndsWith

LEMMA OneMore ==
    ASSUME NEW n \in Nat
    PROVE  /\ FirstTokens(n) \in Seq(Nat) /\ <<n + 1>> \in Seq(Nat)
           /\ FirstTokens(n) \o <<n + 1>> = FirstTokens(n + 1) /\ EndsWith(<<n + 1>>, n + 1)
  <1>1. /\ FirstTokens(n) \in Seq(Nat) /\ Len(FirstTokens(n)) = n
        /\ FirstTokens(n + 1) \in Seq(Nat) /\ Len(FirstTokens(n + 1)) = n + 1
    BY DEF FirstTokens
  <1>2. <<n + 1>> \in Seq(Nat) /\ Len(<<n + 1>>) = 1 /\ <<n + 1>>[1] = n + 1
    OBVIOUS
  <1>3. /\ FirstTokens(n) \o <<n + 1>> \in Seq(Nat) /\ Len(FirstTokens(n) \o <<n + 1>>) = n + 1
        /\ \A i \in 1..n + 1 : (FirstTokens(n) \o <<n + 1>>)[i] =
              IF i <= n THEN FirstTokens(n)[i] ELSE <<n + 1>>[i - n]
    BY <1>1, <1>2, ConcatProperties
  <1>4. \A i \in 1..n + 1 : (FirstTokens(n) \o <<n + 1>>)[i] = FirstTokens(n + 1)[i]
    BY <1>2, <1>3 DEF FirstTokens
  <1>. QED  BY <1>1, <1>2, <1>3, <1>4, SeqEqual DEF EndsWith

\* NoOutput is no output, and merging outputs gives one.
LEMMA NoOutputApart == NoOutput \notin Outputs
  <1>1. "none" \in DOMAIN NoOutput  BY DEF NoOutput
  <1>2. \A a \in Outputs : "none" \notin DOMAIN a  BY DEF Outputs
  <1>. QED  BY <1>1, <1>2

LEMMA MergeFacts ==
    ASSUME NEW a \in Outputs, NEW b \in Outputs
    PROVE  /\ Merge(a, b) \in Outputs
           /\ Merge(a, b).toks = a.toks \o b.toks
           /\ Merge(a, b).fin = b.fin
           /\ Merge(a, b).err <=> a.err \/ b.err
  <1>1. /\ a.toks \in Seq(Nat) /\ b.toks \in Seq(Nat) /\ b.fin \in BOOLEAN
        /\ a.err \in BOOLEAN /\ b.err \in BOOLEAN
    BY DEF Outputs
  <1>2. a.toks \o b.toks \in Seq(Nat)  BY <1>1
  <1>3. (a.err \/ b.err) \in BOOLEAN  OBVIOUS
  <1>4. Merge(a, b) \in Outputs  BY <1>1, <1>2, <1>3 DEF Outputs, Merge
  <1>5. Merge(a, b).toks = a.toks \o b.toks /\ Merge(a, b).fin = b.fin  BY DEF Merge
  <1>6. Merge(a, b).err = (a.err \/ b.err)  BY DEF Merge
  <1>. QED  BY <1>4, <1>5, <1>6

LEMMA OutputsInvInit == CollectorInit => OutputsInv
  <1> SUFFICES ASSUME CollectorInit PROVE OutputsInv
    OBVIOUS
  <1>. QED
    BY DEF CollectorInit, OutputsInv, Intact, HeldBackBounded, Buffered, Passed, FirstTokens, Outputs

LEMMA OutputsInvStep == OutputsInv /\ [CollectorNext]_collectorVars => OutputsInv'
  <1> SUFFICES ASSUME OutputsInv, [CollectorNext]_collectorVars PROVE OutputsInv'
    OBVIOUS
  <1>1. ASSUME NEW c \in Collectors, NEW new \in NewOutputs(c), Put(c, new) PROVE OutputsInv'
    <2>. DEFINE n == Len(made[c])
    <2>1. /\ UNCHANGED <<aggregate, cleared, got, sentTokens>>
          /\ made' = [made EXCEPT ![c] = Append(@, new)]
          /\ output' = [output EXCEPT ![c] = IF Buffered(c) /\ aggregate[c] THEN Merge(@, new)
                                             ELSE new]
      BY <1>1 DEF Put
    <2>2. n \in Nat /\ new \in Outputs /\ new.toks = <<n + 1>>
      <3>1. n \in Nat  BY LenProperties DEF OutputsInv
      <3>2. <<n + 1>> \in Seq(Nat)  BY <3>1
      <3>3. PICK last \in BOOLEAN, failed \in BOOLEAN :
              new = [toks |-> <<n + 1>>, fin |-> last, err |-> failed]
        BY DEF NewOutputs
      <3>. QED  BY <3>1, <3>2, <3>3 DEF Outputs
    <2>3. /\ made'[c] \in Seq(Outputs) /\ Len(made'[c]) = n + 1 /\ DOMAIN made'[c] = 1..n + 1
          /\ made'[c][n + 1] = new /\ \A i \in 1..n : made'[c][i] = made[c][i]
          /\ DOMAIN made[c] = 1..n
      BY <2>1, <2>2, AppendProperties, LenProperties DEF OutputsInv
    <2>. HIDE DEF n
    \* The newest output is in the buffer, behind all that came before.
    <2>4. /\ output'[c] \in Outputs /\ output'[c] # NoOutput /\ EndsWith(output'[c].toks, n + 1)
          /\ aggregate[c] => /\ Passed(c)'.toks = Passed(c).toks \o <<n + 1>>
                             /\ Passed(c)'.err <=> Passed(c).err \/ new.err
      <3>0. got[c] \in Outputs /\ got'[c] = got[c]  BY <2>1 DEF OutputsInv
      <3>1. CASE Buffered(c) /\ aggregate[c]
        <4>1. output[c] \in Outputs  BY <3>1 DEF OutputsInv, Buffered
        <4>0. /\ Merge(output[c], new) \in Outputs
              /\ Merge(output[c], new).toks = output[c].toks \o new.toks
              /\ Merge(output[c], new).err <=> output[c].err \/ new.err
          <5>. QED  BY <2>2, <4>1, MergeFacts
        <4>2. output'[c] = Merge(output[c], new) /\ output'[c] \in Outputs
          BY <2>1, <3>1, <4>0 DEF OutputsInv
        <4>3. /\ output'[c].toks = output[c].toks \o <<n + 1>>
              /\ output'[c].err <=> output[c].err \/ new.err
          <5>1. output'[c].toks = output[c].toks \o <<n + 1>>  BY <2>2, <4>0, <4>2
          <5>2. output'[c].err <=> output[c].err \/ new.err  BY <4>0, <4>2
          <5>. QED  BY <5>1, <5>2
        <4>4. output'[c] # NoOutput  BY <4>2, NoOutputApart
        <4>5. /\ output[c].toks \in Seq(Nat) /\ got[c].toks \in Seq(Nat)
              /\ <<n + 1>> \in Seq(Nat) /\ EndsWith(<<n + 1>>, n + 1)
          BY <2>2, <3>0, <4>1, OneMore DEF Outputs
        <4>6. EndsWith(output'[c].toks, n + 1)  BY <4>3, <4>5, LastOfConcat
        <4>7. Passed(c) = Merge(got[c], output[c]) /\ Passed(c)' = Merge(got[c], output'[c])
          BY <3>0, <3>1, <4>4 DEF Passed, Buffered
        <4>8. /\ Merge(got[c], output[c]).toks = got[c].toks \o output[c].toks
              /\ Merge(got[c], output[c]).err <=> got[c].err \/ output[c].err
          BY <3>0, <4>1, MergeFacts
        <4>9. /\ Merge(got[c], output'[c]).toks = got[c].toks \o output'[c].toks
              /\ Merge(got[c], output'[c]).err <=> got[c].err \/ output'[c].err
          BY <3>0, <4>2, MergeFacts
        <4>10. Passed(c)'.toks = Passed(c).toks \o <<n + 1>>
          <5>1. (got[c].toks \o output[c].toks) \o <<n + 1>>
                  = got[c].toks \o (output[c].toks \o <<n + 1>>)
            <6>1. \A q, r, t \in Seq(Nat) : (q \o r) \o t = q \o (r \o t)
              BY ConcatAssociative
            <6>. QED  BY <4>5, <6>1
          <5>. QED  BY <4>3, <4>7, <4>8, <4>9, <5>1
        <4>11. Passed(c)'.err <=> Passed(c).err \/ new.err
          BY <4>3, <4>7, <4>8, <4>9
        <4>. QED  BY <4>2, <4>4, <4>6, <4>10, <4>11
      <3>2. CASE ~(Buffered(c) /\ aggregate[c])
        <4>1. output'[c] = new /\ new # NoOutput  BY <2>1, <2>2, <3>2, NoOutputApart DEF OutputsInv
        <4>2. EndsWith(new.toks, n + 1)  BY <2>2, OneMore
        <4>3. aggregate[c] => Passed(c) = got[c] /\ Passed(c)' = Merge(got[c], new)
          BY <3>0, <3>2, <4>1 DEF Passed, Buffered
        <4>4. aggregate[c] => Passed(c)'.toks = Passed(c).toks \o <<n + 1>>
          <5>1. Merge(got[c], new).toks = got[c].toks \o new.toks  BY <2>2, <3>0, MergeFacts
          <5>. QED  BY <2>2, <4>3, <5>1
        <4>5. aggregate[c] => (Passed(c)'.err <=> Passed(c).err \/ new.err)
          <5>1. Merge(got[c], new).err <=> got[c].err \/ new.err  BY <2>2, <3>0, MergeFacts
          <5>. QED  BY <4>3, <5>1
        <4>. QED  BY <2>2, <4>1, <4>2, <4>4, <4>5
      <3>. QED  BY <3>1, <3>2
    <2>5. Intact(c)'
      <3>1. Buffered(c)' /\ Len(made'[c]) = n + 1  BY <2>3, <2>4 DEF Buffered
      <3>2. ASSUME cleared[c] = 0, aggregate[c]
            PROVE  /\ Passed(c)'.toks = FirstTokens(n + 1)
                   /\ Passed(c)'.err <=> \E i \in DOMAIN made'[c] : made'[c][i].err
        <4>1. /\ Passed(c).toks = FirstTokens(n)
              /\ Passed(c).err <=> \E i \in DOMAIN made[c] : made[c][i].err
          BY <3>2 DEF OutputsInv, Intact, n
        <4>2. (\E i \in 1..n + 1 : made'[c][i].err) <=> (\E i \in 1..n : made[c][i].err) \/ new.err
          <5>1. \A i \in 1..n : made'[c][i].err = made[c][i].err  BY <2>3
          <5>2. made'[c][n + 1].err = new.err  BY <2>3
          <5>3. 1..n + 1 = 1..n \cup {n + 1}  BY <2>2
          <5>. QED  BY <5>1, <5>2, <5>3
        <4>. QED  BY <2>2, <2>3, <2>4, <3>2, <4>1, <4>2, OneMore
      <3>. QED  BY <2>1, <2>4, <3>1, <3>2 DEF Intact
    <2>6. \A d \in Collectors \ {c} : Intact(d)'
      BY <2>1 DEF OutputsInv, Intact, Passed, Buffered
    <2>7. HeldBackBounded'  BY <2>1 DEF OutputsInv, HeldBackBounded
    <2>. QED  BY <2>1, <2>3, <2>4, <2>5, <2>6, <2>7 DEF OutputsInv
  <1>2. ASSUME NEW c \in Collectors, Take(c), UNCHANGED <<aggregate, made, cleared>>
        PROVE  OutputsInv'
    <2>. DEFINE all == Merge(got[c], output[c])
    <2>1. Buffered(c) /\ output[c] \in Outputs /\ got[c] \in Outputs /\ sentTokens[c] \in Nat
      BY <1>2 DEF Take, OutputsInv, Buffered
    <2>2. /\ all \in Outputs /\ all.toks \in Seq(Nat) /\ EndsWith(all.toks, Len(made[c]))
          /\ Len(all.toks) \in Nat
      BY <2>1, LastOfConcat, MergeFacts, LenProperties DEF OutputsInv, Intact, Merge, Outputs
    <2>. HIDE DEF all
    <2>3. /\ output' = [output EXCEPT ![c] = NoOutput] /\ got' = [got EXCEPT ![c] = all]
          /\ sentTokens' = [sentTokens EXCEPT ![c] =
                              IF ShouldSend(@, Len(all.toks), all.fin) THEN Len(all.toks) ELSE @]
      BY <1>2 DEF Take, all
    <2>4. ~Buffered(c)' /\ Passed(c)' = all /\ Passed(c) = all
      BY <2>1, <2>3 DEF Passed, Buffered, OutputsInv, all
    <2>5. Intact(c)'  BY <1>2, <2>1, <2>2, <2>3, <2>4 DEF OutputsInv, Intact
    <2>6. \A d \in Collectors \ {c} : Intact(d)'
      BY <1>2, <2>3 DEF OutputsInv, Intact, Passed, Buffered
    <2>7. HeldBackBounded'
      <3>1. sentTokens'[c] \in Nat /\ (all.toks # <<>> => Len(all.toks) > 0)
        BY <2>1, <2>2, <2>3, EmptySeq DEF OutputsInv
      <3>2. LET held == Len(all.toks) - sentTokens'[c]
            IN  /\ held = 0 \/ held < Interval
                /\ all.fin => held = 0
                /\ all.toks # <<>> => sentTokens'[c] > 0
        BY <2>1, <2>2, <2>3, <3>1, CollectorAssumption DEF ShouldSend, OutputsInv
      <3>. QED  BY <2>3, <3>2 DEF HeldBackBounded, OutputsInv
    <2>. QED  BY <1>2, <2>1, <2>2, <2>3, <2>5, <2>6, <2>7 DEF OutputsInv
  <1>3. ASSUME NEW c \in Collectors, Clear(c) PROVE OutputsInv'
    BY <1>3 DEF Clear, OutputsInv, Intact, HeldBackBounded, Buffered, Passed
  <1>4. ASSUME UNCHANGED <<aggregate, made, cleared, output, got, sentTokens>> PROVE OutputsInv'
    BY <1>4 DEF OutputsInv, Intact, HeldBackBounded, Buffered, Passed
  <1>5. ASSUME NEW c \in Collectors, GetNowait(c) \/ GetTake(c) PROVE OutputsInv'
    BY <1>2, <1>5 DEF GetNowait, GetTake
  <1>6. ASSUME NEW c \in Collectors,
               GetBegin(c) \/ GetNothing(c) \/ GetWake(c) \/ GetCancel(c) \/ GetEnd(c)
        PROVE  OutputsInv'
    BY <1>4, <1>6 DEF GetBegin, GetNothing, GetWake, GetCancel, GetEnd, bufferVars
  <1>. QED
    BY <1>1, <1>3, <1>4, <1>5, <1>6 DEF CollectorNext, Handler, collectorVars

\* With aggregation the handler gets every token once and in order and every error,
\* the newest output is never skipped, and ShouldSend holds back less than an interval
\* and nothing at the end (output_collector.go Put, mergeOutputs, takeLocked,
\* ShouldSend).
THEOREM NothingIsLost == CollectorSpec => []CollectorSound
  <1>1. CollectorInv /\ OutputsInv => CollectorSound
    BY DEF CollectorSound, CollectorInv, OutputsInv, Intact, Lossless, LatestKept, Passed, FirstTokens, EndsWith
  <1>. QED  BY OutputsInvInit, OutputsInvStep, CollectorInvariant, <1>1, PTL DEF CollectorSpec

-----------------------------------------------------------------------------
(* EnginePool: for any models, sizes, readings and clocks.                   *)

Entries == [pinned : BOOLEAN, loaded : BOOLEAN, lastAccess : Nat]
Steps   == {"NotFound", "measure", "pick", "unload", "mark", "load", "TooLarge", "Insufficient"}
Admissions ==
    [at : Steps, model : PoolModels, ceiling : {Ceiling(r) : r \in Readings}, victim : PoolModels]

PoolTypeOK ==
    /\ Registered \subseteq PoolModels /\ entries \in [Registered -> Entries]
    /\ clock \in Nat /\ resident \subseteq PoolModels
    /\ admission \in {NoAdmission} \cup Admissions

\* Requests keep their models in memory; and a victim stays what it was when it was
\* picked, loaded and without a request, until it is gone.
PoolInv ==
    /\ PoolTypeOK /\ WithinCeiling
    /\ active \subseteq resident
    /\ admission.at \in {"measure", "pick", "unload", "mark", "load"} =>
         admission.model \in Registered
    /\ admission.at = "unload" => /\ admission.victim \in Registered \ active
                                  /\ entries[admission.victim].loaded
    /\ admission.at = "mark" => admission.victim \in Registered \ resident

LEMMA PoolInvInit == PoolInit => PoolInv
  BY PoolAssumption
  DEF PoolInit, PoolInv, PoolTypeOK, WithinCeiling, Registered, NoAdmission, Entries

\* What fits is a matter of what is in memory and of the admission only.
LEMMA FitsKept ==
    ASSUME UNCHANGED resident, admission'.model = admission.model,
           admission'.ceiling = admission.ceiling
    PROVE  Fits' <=> Fits
  <1>1. Memory' = Memory  BY DEF Memory
  <1>. QED  BY <1>1 DEF Fits

LEMMA PoolInvStep == PoolInv /\ [PoolNext]_poolVars => PoolInv'
  <1> SUFFICES ASSUME PoolInv, [PoolNext]_poolVars PROVE PoolInv'
    OBVIOUS
  <1>. USE DEF PoolInv, PoolTypeOK, WithinCeiling, Registered
  <1>a. ASSUME UNCHANGED <<resident, admission>> PROVE Fits' <=> Fits
    BY <1>a, FitsKept
  <1>1. CASE Tick  BY <1>1, <1>a DEF Tick
  <1>2. ASSUME NEW m \in PoolModels, NEW pinned \in BOOLEAN, Register(m, pinned) PROVE PoolInv'
    BY <1>2, <1>a DEF Register, Entry, Entries
  <1>3. ASSUME NEW m \in PoolModels, NEW pinned \in BOOLEAN, SetPinned(m, pinned) PROVE PoolInv'
    BY <1>3, <1>a DEF SetPinned, Entries
  <1>4. ASSUME NEW m \in PoolModels, BeginRequest(m) PROVE PoolInv'
    BY <1>4, <1>a DEF BeginRequest, Entries, Admissions, Steps
  <1>5. ASSUME NEW m \in PoolModels, EndRequest(m) PROVE PoolInv'
    BY <1>5, <1>a DEF EndRequest
  <1>b. ASSUME admission.at \in Steps PROVE admission \in Admissions
    BY <1>b DEF NoAdmission, Steps
  <1>6. ASSUME NEW m \in PoolModels, NEW r \in Readings, BeginAdmit(m, r) PROVE PoolInv'
    <2>1. /\ admission' \in Admissions /\ admission'.at \in {"NotFound", "load", "measure"}
          /\ admission'.at # "NotFound" => admission'.model \in Registered
          /\ admission'.at = "load" => ~(admission'.ceiling > 0)
      <3>1. Ceiling(r) \in Int  BY ReadingAssumption
      <3>. HIDE DEF PoolInv, PoolTypeOK, WithinCeiling, Registered
      <3>. QED  BY <1>6, <3>1 DEF BeginAdmit, Admissions, Steps
    <2>. QED  BY <1>6, <2>1 DEF BeginAdmit
  <1>7. CASE Measure
    <2>1. /\ admission \in Admissions /\ admission' \in Admissions
          /\ admission'.at \in {"load", "pick"} /\ (admission'.at = "load" => Fits)
          /\ admission'.model = admission.model /\ admission'.ceiling = admission.ceiling
      BY <1>7, <1>b DEF Measure, At, Admissions, Steps
    <2>. QED  BY <1>7, <2>1, FitsKept DEF Measure
  <1>8. CASE PickVictim
    <2>0. admission \in Admissions /\ admission.at = "pick"
      BY <1>8, <1>b DEF PickVictim, Steps
    <2>1. ASSUME NEW v \in Candidates, admission' = [admission EXCEPT !.at = "unload", !.victim = v]
          PROVE  PoolInv'
      <3>1. v \in Registered \ active /\ v \in PoolModels /\ entries[v].loaded
        BY DEF Candidates
      <3>2. /\ admission' \in Admissions /\ admission'.at = "unload" /\ admission'.victim = v
            /\ admission'.model = admission.model
        BY <2>0, <2>1, <3>1 DEF Admissions, Steps
      <3>. QED  BY <1>8, <2>0, <3>1, <3>2 DEF PickVictim
    <2>2. ASSUME At(IF ModelSize[admission.model] > admission.ceiling
                    THEN "TooLarge" ELSE "Insufficient")
          PROVE  PoolInv'
      <3>1. admission' \in Admissions /\ admission'.at \in {"TooLarge", "Insufficient"}
        BY <2>0, <2>2 DEF At, Admissions, Steps
      <3>. QED  BY <1>8, <2>0, <3>1 DEF PickVictim
    <2>. QED  BY <1>8, <2>1, <2>2 DEF PickVictim
  <1>9. CASE Unload
    <2>1. /\ admission \in Admissions /\ admission' \in Admissions
          /\ admission.at = "unload" /\ admission'.at = "mark"
          /\ admission'.model = admission.model /\ admission'.victim = admission.victim
      BY <1>9, <1>b DEF Unload, At, Admissions, Steps
    <2>. QED  BY <1>9, <2>1 DEF Unload
  <1>10. CASE MarkUnloaded
    <2>1. /\ admission \in Admissions /\ admission' \in Admissions
          /\ admission.at = "mark" /\ admission'.at = "measure"
          /\ admission'.model = admission.model
      BY <1>10, <1>b DEF MarkUnloaded, At, Admissions, Steps
    <2>2. /\ entries' \in [Registered -> Entries]
          /\ ~entries'[admission.victim].loaded
          /\ \A m \in Registered \ {admission.victim} : entries'[m] = entries[m]
      BY <1>10, <2>1 DEF MarkUnloaded, Unmarked, Entries
    <2>. QED  BY <1>10, <2>1, <2>2 DEF MarkUnloaded
  <1>11. CASE Refuse  BY <1>11 DEF Refuse, NoAdmission
  <1>12. CASE Load
    <2>1. /\ admission \in Admissions /\ admission.at = "load" /\ admission' = NoAdmission
          /\ NoAdmission.at = "none"
      BY <1>12, <1>b DEF Load, Steps, NoAdmission
    <2>2. admission.model \in Registered  BY <2>1
    <2>3. CASE /\ resident' = resident \cup {admission.model}
               /\ entries' = [entries EXCEPT ![admission.model] =
                                 [@ EXCEPT !.loaded = TRUE, !.lastAccess = clock]]
      <3>1. /\ entries' \in [Registered -> Entries] /\ entries'[admission.model].loaded
            /\ \A m \in Registered \ {admission.model} : entries'[m] = entries[m]
        BY <2>2, <2>3 DEF Entries
      <3>. QED  BY <1>12, <2>1, <2>2, <2>3, <3>1 DEF Load
    <2>4. CASE UNCHANGED <<resident, entries>>  BY <1>12, <2>1, <2>4 DEF Load
    <2>. QED  BY <1>12, <2>3, <2>4 DEF Load
  <1>13. CASE UNCHANGED poolVars  BY <1>13, <1>a DEF poolVars
  <1>. HIDE DEF PoolInv, PoolTypeOK, WithinCeiling, Registered
  <1>. QED
    BY <1>1, <1>2, <1>3, <1>4, <1>5, <1>6, <1>7, <1>8, <1>9, <1>10, <1>11, <1>12, <1>13
    DEF PoolNext

LEMMA PoolInvariant == PoolSpec => []PoolInv
  <1>. QED  BY PoolInvInit, PoolInvStep, PTL DEF PoolSpec

\* A model is loaded only where it fits, for every ceiling and any sizes, and the
\* pool forgets no engine (pool.go Admit, MarkUnloaded).
THEOREM LoadsWhatFits == PoolSpec => []WithinCeiling
  <1>1. PoolInv => WithinCeiling  BY DEF PoolInv
  <1>. QED  BY <1>1, PoolInvariant, PTL

\* No engine is unloaded under a request (pool.go findLRUVictimLocked, Admit).
THEOREM RequestsKeepModels == PoolSpec => UnloadsIdle
  <1>1. PoolInv /\ [PoolNext]_poolVars
          => [resident' \cap active = resident \cap active]_poolVars
    <2> SUFFICES ASSUME PoolInv, PoolNext PROVE resident' \cap active = resident \cap active
      BY DEF poolVars
    <2>1. CASE Unload  BY <2>1 DEF Unload, PoolInv
    <2>2. CASE Load  BY <2>2 DEF Load, PoolInv
    <2>3. CASE UNCHANGED resident  BY <2>3
    <2>. QED
      BY <2>1, <2>2, <2>3
      DEF PoolNext, Tick, Register, SetPinned, BeginRequest, EndRequest, BeginAdmit, Measure,
          PickVictim, MarkUnloaded, Refuse
  <1>. QED  BY <1>1, PoolInvariant, PTL DEF PoolSpec, UnloadsIdle

\* What is loaded fits, and what is unloaded is idle: the pool keeps both, for any
\* models, sizes and readings (pool.go).
THEOREM PoolIsSound == PoolSpec => PoolSound
  <1>1. PoolSpec => []WithinCeiling /\ UnloadsIdle
    BY LoadsWhatFits, RequestsKeepModels
  <1>. QED  BY <1>1 DEF PoolSound

-----------------------------------------------------------------------------
(* The owners of models: for any number of models and engines.               *)

\* What is needed of the slots besides: engines are born before they drive, and
\* the registry is finite, which the count of Stats rests on.
RegistryInv ==
    /\ IsFiniteSet(DOMAIN owners) /\ DOMAIN owners \subseteq Keys
    /\ life \in [Engines -> {"unborn", "alive", "dead"}]
    /\ driving \in [Keys -> SUBSET Engines]
    /\ \A key \in Keys : \A e \in driving[key] :
          Alive(e) /\ Held(key) /\ owners[key] = e

LEMMA RegistryInvInit == RegistryInit => RegistryInv
  BY FS_EmptySet DEF RegistryInit, RegistryInv

LEMMA RegistryInvStep == RegistryInv /\ [RegistryNext]_registryVars => RegistryInv'
  <1> SUFFICES ASSUME RegistryInv, [RegistryNext]_registryVars PROVE RegistryInv'
    OBVIOUS
  <1>. USE DEF RegistryInv, Alive, Held
  <1>1. ASSUME NEW gone, Reclaim(gone) PROVE RegistryInv'
    <2>1. DOMAIN owners' = DOMAIN owners \ gone /\ \A k \in DOMAIN owners' : owners'[k] = owners[k]
      BY <1>1 DEF Reclaim, Without
    <2>2. IsFiniteSet(DOMAIN owners')  BY <2>1, FS_Subset
    <2>. QED  BY <1>1, <2>1, <2>2 DEF Reclaim
  <1>2. ASSUME NEW e \in Engines, Live(e) PROVE RegistryInv'
    BY <1>2 DEF Live
  <1>3. ASSUME NEW key \in Keys, NEW e \in Engines, NEW force \in BOOLEAN, Acquire(key, e, force)
        PROVE  RegistryInv'
    <2>1. CASE UNCHANGED <<owners, driving>>  BY <1>3, <2>1 DEF Acquire
    <2>2. CASE /\ owners' = With(key, e)
               /\ driving' = [driving EXCEPT ![key] = Reset(key, e) \cup {e}]
      <3>1. /\ DOMAIN owners' = DOMAIN owners \cup {key} /\ owners'[key] = e
            /\ \A k \in DOMAIN owners \ {key} : owners'[k] = owners[k]
        BY <2>2 DEF With
      <3>3. IsFiniteSet(DOMAIN owners')  BY <3>1, FS_AddElement
      <3>2. Reset(key, e) \subseteq {e}  BY DEF Reset, Contested
      <3>. QED  BY <1>3, <2>2, <3>1, <3>2, <3>3 DEF Acquire
    <2>. QED  BY <1>3, <2>1, <2>2 DEF Acquire
  <1>4. ASSUME NEW key \in Keys, NEW e \in Engines, StopDriving(key, e) PROVE RegistryInv'
    BY <1>4 DEF StopDriving
  <1>5. ASSUME NEW key \in Keys, NEW e \in Engines, Release(key, e) PROVE RegistryInv'
    <2>1. DOMAIN owners' = DOMAIN owners \ {key} /\ \A k \in DOMAIN owners' : owners'[k] = owners[k]
      BY <1>5 DEF Release, Without
    <2>2. IsFiniteSet(DOMAIN owners')  BY <2>1, FS_Subset
    <2>3. driving[key] = {}  BY <1>5 DEF Release, Releases
    <2>. QED  BY <1>5, <2>1, <2>2, <2>3 DEF Release
  <1>6. CASE UNCHANGED registryVars  BY <1>6 DEF registryVars
  <1>7. CASE RegistryNext
    <2>1. CASE Cleanup  BY <1>1, <2>1 DEF Cleanup
    <2>2. CASE \E e \in Engines : Live(e)  BY <1>2, <2>2
    <2>3. CASE \E key \in Keys : IsOwned(key)  BY <1>1, <2>3 DEF IsOwned
    <2>4. CASE \E key \in Keys, e \in Engines :
                 \/ \E force \in BOOLEAN : Acquire(key, e, force)
                 \/ StopDriving(key, e) \/ Release(key, e)
      BY <1>3, <1>4, <1>5, <2>4
    <2>. HIDE DEF RegistryInv, Alive, Held
    <2>. QED  BY <1>7, <2>1, <2>2, <2>3, <2>4 DEF RegistryNext
  <1>. HIDE DEF RegistryInv, Alive, Held
  <1>. QED  BY <1>6, <1>7

\* Whoever drives has the slot; those slots are among the ones that Stats counts.
LEMMA DriversOwn == RegistryInv => OneDriver
  <1> SUFFICES ASSUME RegistryInv PROVE OneDriver
    OBVIOUS
  <1>1. \A key \in Keys : driving[key] # {} => Held(key) /\ driving[key] = {owners[key]}
    BY DEF RegistryInv
  <1>. DEFINE Driven == {key \in Keys : driving[key] # {}}
              Active == {key \in DOMAIN owners : Alive(owners[key])}
  <1>2. Driven \subseteq Active  BY DEF RegistryInv, Held
  <1>3. IsFiniteSet(Active)  BY FS_Subset DEF RegistryInv
  <1>4. Cardinality(Driven) <= Cardinality(Active)  BY <1>2, <1>3, FS_Subset
  <1>. QED  BY <1>1, <1>4 DEF OneDriver, Stats

\* A model is driven by its owner only, whoever forces or releases late
\* (registry.go Acquire, Release, Cleanup).
THEOREM OwnersDrive == RegistrySpec => []OneDriver
  <1>. QED  BY RegistryInvInit, RegistryInvStep, DriversOwn, PTL DEF RegistrySpec

-----------------------------------------------------------------------------
(* StopText: for any texts, stop strings and caps.                           *)

LEMMA LargerOf ==
    ASSUME NEW a \in Int, NEW b \in Int
    PROVE  Max({a, b}) = IF a >= b THEN a ELSE b
  <1>1. \E x \in {a, b} : \A y \in {a, b} : x >= y  OBVIOUS
  <1>2. Max({a, b}) \in {a, b} /\ \A y \in {a, b} : Max({a, b}) >= y  BY <1>1 DEF Max
  <1>. QED  BY <1>2

LEMMA SmallerOf ==
    ASSUME NEW a \in Int, NEW b \in Int
    PROVE  Min({a, b}) = IF a <= b THEN a ELSE b
  <1>1. \E x \in {a, b} : \A y \in {a, b} : x <= y  OBVIOUS
  <1>2. Min({a, b}) \in {a, b} /\ \A y \in {a, b} : Min({a, b}) <= y  BY <1>1 DEF Min
  <1>. QED  BY <1>2

\* The beginning of a sequence.
LEMMA Beginning ==
    ASSUME NEW S, NEW t \in Seq(S), NEW i \in 0..Len(t)
    PROVE  /\ SubSeq(t, 1, i) \in Seq(S) /\ Len(SubSeq(t, 1, i)) = i
           /\ \A k \in 1..i : SubSeq(t, 1, i)[k] = t[k]
  OBVIOUS

\* What stands in a sequence behind its first i members.
StandsAt(t, s, i) ==
    i + Len(s) <= Len(t) /\ \A k \in 1..Len(s) : t[i + k] = s[k]

LEMMA OccurrencesStand ==
    ASSUME NEW S, NEW t \in Seq(S), NEW s \in Seq(S), NEW i \in Nat
    PROVE  i \in Occurrences(t, s) <=> StandsAt(t, s, i)
  <1>1. CASE ~(i + Len(s) <= Len(t))
    BY <1>1 DEF Occurrences, StandsAt
  <1>2. CASE i + Len(s) <= Len(t)
    <2>. DEFINE u == SubSeq(t, i + 1, i + Len(s))
    <2>1. i \in 0..(Len(t) - Len(s))  BY <1>2
    <2>2. u \in Seq(S) /\ Len(u) = Len(s) /\ \A k \in 1..Len(s) : u[k] = t[i + k]
      <3>1. /\ i + 1 \in 1..Len(t) + 1 /\ i + Len(s) \in i..Len(t)
            /\ (i + Len(s)) - (i + 1) + 1 = Len(s) /\ Len(s) \in Nat
        BY <1>2
      <3>. PICK m \in Int, n \in Int : m = i + 1 /\ n = i + Len(s)  BY <3>1
      <3>2. \A k \in m..n : t[k] \in S
        <4>1. \A k \in m..n : k \in 1..Len(t)  BY <3>1
        <4>. QED  BY <4>1
      <3>4. /\ SubSeq(t, m, n) \in Seq(S)
            /\ Len(SubSeq(t, m, n)) = IF m <= n THEN n - m + 1 ELSE 0
            /\ \A k \in 1..n - m + 1 : SubSeq(t, m, n)[k] = t[m + k - 1]
        BY <3>2, SubSeqProperties
      <3>5. u = SubSeq(t, m, n) /\ n - m + 1 = Len(s)  BY <3>1
      <3>. HIDE DEF u
      <3>3. \A k \in 1..Len(s) : m + k - 1 = i + k  BY <3>1
      <3>. QED  BY <3>1, <3>3, <3>4, <3>5
    <2>. HIDE DEF u
    <2>3. u = s <=> \A k \in 1..Len(s) : t[i + k] = s[k]
      BY <2>2, SeqEqual
    <2>. QED  BY <1>2, <2>1, <2>3 DEF Occurrences, StandsAt, u
  <1>. QED  BY <1>1, <1>2

LEMMA PrefixStands ==
    ASSUME NEW S, NEW t \in Seq(S), NEW s \in Seq(S), NEW i \in 0..Len(t)
    PROVE  IsPrefix(SubSeq(t, 1, i) \o s, t) <=> StandsAt(t, s, i)
  <1>. DEFINE b == SubSeq(t, 1, i)
              u == b \o s
  <1>1. b \in Seq(S) /\ Len(b) = i /\ \A k \in 1..i : b[k] = t[k]  BY Beginning
  <1>. HIDE DEF b
  <1>2. u \in Seq(S) /\ Len(u) = i + Len(s)
        /\ \A k \in 1..i + Len(s) : u[k] = IF k <= i THEN t[k] ELSE s[k - i]
    <2>1. /\ u \in Seq(S) /\ Len(u) = Len(b) + Len(s)
          /\ \A k \in 1..Len(b) + Len(s) : u[k] = IF k <= Len(b) THEN b[k] ELSE s[k - Len(b)]
      BY <1>1, ConcatProperties
    <2>. HIDE DEF u
    <2>2. /\ u \in Seq(S) /\ Len(u) = i + Len(s)
          /\ \A k \in 1..i + Len(s) : u[k] = IF k <= i THEN b[k] ELSE s[k - i]
      BY <1>1, <2>1
    <2>3. \A k \in 1..i + Len(s) : k <= i => k \in 1..i  BY LenProperties
    <2>. QED  BY <1>1, <2>2, <2>3
  <1>. HIDE DEF u
  <1>3. CASE ~(i + Len(s) <= Len(t))
    BY <1>2, <1>3 DEF IsPrefix, StandsAt, u, b
  <1>4. CASE i + Len(s) <= Len(t)
    <2>. DEFINE n == i + Len(s)
                v == SubSeq(t, 1, n)
    <2>1. n \in 0..Len(t)  BY <1>4
    <2>2. v \in Seq(S) /\ Len(v) = n /\ \A k \in 1..n : v[k] = t[k]  BY <2>1, Beginning
    <2>3. SubSeq(u, 1, n) = u  BY <1>2, SubSeqFull
    <2>4. IsPrefix(u, t) <=> u = v  BY <1>2, <1>4, <2>3 DEF IsPrefix
    <2>. HIDE DEF v
    <2>5. u = v <=> \A k \in 1..n : u[k] = t[k]  BY <1>2, <2>2, SeqEqual
    <2>6. (\A k \in 1..n : u[k] = t[k]) <=> \A k \in 1..Len(s) : t[i + k] = s[k]
      <3>1. ASSUME \A k \in 1..n : u[k] = t[k], NEW k \in 1..Len(s) PROVE t[i + k] = s[k]
        <4>1. i + k \in 1..n /\ ~(i + k <= i) /\ (i + k) - i = k  OBVIOUS
        <4>. QED  BY <1>2, <3>1, <4>1
      <3>2. ASSUME \A k \in 1..Len(s) : t[i + k] = s[k], NEW k \in 1..n PROVE u[k] = t[k]
        <4>1. CASE k <= i  BY <1>2, <4>1
        <4>2. CASE ~(k <= i)
          <5>1. k - i \in 1..Len(s) /\ i + (k - i) = k  BY <4>2
          <5>. QED  BY <1>2, <3>2, <4>2, <5>1
        <4>. QED  BY <4>1, <4>2
      <3>. QED  BY <3>1, <3>2
    <2>. QED  BY <1>4, <2>4, <2>5, <2>6 DEF StandsAt, u, b
  <1>. QED  BY <1>3, <1>4

\* A text holds a string where the string occurs in it.
LEMMA HoldsWhere ==
    ASSUME NEW S, NEW t \in Seq(S), NEW s \in Seq(S)
    PROVE  Holds(t, s) <=> \E i \in 0..Len(t) : StandsAt(t, s, i)
  BY PrefixStands DEF Holds, Prefixes

\* The delta up to the cut, behind the text d in front of it.
LEMMA Cut ==
    ASSUME NEW S, NEW d \in Seq(S), NEW delta \in Seq(S), NEW t, t = d \o delta,
           NEW m \in 0..Len(t)
    PROVE  d \o Trim(delta, t, m) = IF m >= Len(d) THEN SubSeq(t, 1, m) ELSE d
  <1>1. t \in Seq(S) /\ Len(t) = Len(d) + Len(delta)
        /\ \A k \in 1..Len(t) : t[k] = IF k <= Len(d) THEN d[k] ELSE delta[k - Len(d)]
    BY ConcatProperties
  <1>2. m - (Len(t) - Len(delta)) = m - Len(d)  BY <1>1
  <1>3. CASE m >= Len(d)
    <2>. DEFINE n == m - Len(d)
                cut == SubSeq(delta, 1, n)
                u == SubSeq(t, 1, m)
    <2>1. n \in 0..Len(delta) /\ Len(d) + n = m  BY <1>1, <1>3
    <2>2. Max({n, 0}) = n /\ Min({n, Len(delta)}) = n
      <3>1. n \in Int /\ 0 \in Int /\ Len(delta) \in Int /\ n >= 0 /\ n <= Len(delta)
        BY <2>1
      <3>. HIDE DEF n
      <3>2. Max({n, 0}) = n
        <4>1. Max({n, 0}) = IF n >= 0 THEN n ELSE 0  BY <3>1, LargerOf
        <4>. QED  BY <3>1, <4>1
      <3>3. Min({n, Len(delta)}) = n
        <4>1. Min({n, Len(delta)}) = IF n <= Len(delta) THEN n ELSE Len(delta)
          BY <3>1, SmallerOf
        <4>. QED  BY <3>1, <4>1
      <3>. QED  BY <3>2, <3>3
    <2>3. Trim(delta, t, m) = cut  BY <1>2, <2>2 DEF Trim
    <2>4. cut \in Seq(S) /\ Len(cut) = n /\ \A k \in 1..n : cut[k] = delta[k]
      BY <2>1, Beginning
    <2>5. u \in Seq(S) /\ Len(u) = m /\ \A k \in 1..m : u[k] = t[k]
      BY <1>1, Beginning
    <2>. HIDE DEF cut, u, n
    <2>6. d \o cut \in Seq(S) /\ Len(d \o cut) = m
          /\ \A k \in 1..m : (d \o cut)[k] = IF k <= Len(d) THEN d[k] ELSE cut[k - Len(d)]
      BY <2>1, <2>4, ConcatProperties
    <2>7. ASSUME NEW k \in 1..m PROVE (d \o cut)[k] = u[k]
      <3>1. CASE k <= Len(d)  BY <1>1, <2>5, <2>6, <3>1
      <3>2. CASE ~(k <= Len(d))
        <4>1. k - Len(d) \in 1..n /\ k \in 1..Len(t)  BY <2>1, <3>2
        <4>. QED  BY <1>1, <2>4, <2>5, <2>6, <3>2, <4>1
      <3>. QED  BY <3>1, <3>2
    <2>8. d \o cut = u  BY <2>5, <2>6, <2>7, SeqEqual
    <2>. QED  BY <1>3, <2>3, <2>8 DEF u
  <1>4. CASE ~(m >= Len(d))
    <2>1. m - Len(d) \in Int /\ ~(m - Len(d) >= 0) /\ Len(delta) \in Nat  BY <1>4
    <2>2. Max({m - Len(d), 0}) = 0 /\ Min({0, Len(delta)}) = 0
      <3>. DEFINE n == m - Len(d)
      <3>1. n \in Int /\ 0 \in Int /\ Len(delta) \in Int /\ ~(n >= 0) /\ 0 <= Len(delta)
        BY <2>1
      <3>. HIDE DEF n
      <3>2. Max({n, 0}) = 0
        <4>1. Max({n, 0}) = IF n >= 0 THEN n ELSE 0  BY <3>1, LargerOf
        <4>. QED  BY <3>1, <4>1
      <3>3. Min({0, Len(delta)}) = 0
        <4>1. Min({0, Len(delta)}) = IF 0 <= Len(delta) THEN 0 ELSE Len(delta)
          BY <3>1, SmallerOf
        <4>. QED  BY <3>1, <4>1
      <3>. QED  BY <3>2, <3>3 DEF n
    <2>3. Trim(delta, t, m) = SubSeq(delta, 1, 0)  BY <1>2, <2>2 DEF Trim
    <2>4. SubSeq(delta, 1, 0) = <<>>  OBVIOUS
    <2>. QED  BY <1>4, <2>3, <2>4, ConcatEmptySeq
  <1>. QED  BY <1>3, <1>4

LEMMA OneAfter == ASSUME NEW k \in Nat PROVE k + 1 \in Nat
  OBVIOUS

\* whole is before and then the beginning of s, but not all of it.
Began(s, before, whole) == \E begun \in Prefixes(s) \ {s} : whole = before \o begun

\* A string that is completed by delta and began in d: d ends with what began.
LEMMA Begun ==
    ASSUME NEW S, NEW d \in Seq(S), NEW delta \in Seq(S), NEW t, t = d \o delta,
           NEW s \in Seq(S), NEW m \in 0..Len(t), StandsAt(t, s, m),
           \A i \in 0..Len(d) : ~StandsAt(d, s, i), ~(m >= Len(d))
    PROVE  Began(s, SubSeq(t, 1, m), d)
  <1>1. t \in Seq(S) /\ Len(t) = Len(d) + Len(delta)
        /\ \A k \in 1..Len(d) : t[k] = d[k]
    BY ConcatProperties
  <1>. DEFINE n == Len(d) - m
              b == SubSeq(s, 1, n)
              u == SubSeq(t, 1, m)
  <1>2. n \in Nat /\ m + n = Len(d)  OBVIOUS
  <1>3. n < Len(s)
    <2>1. SUFFICES ASSUME m + Len(s) <= Len(d) PROVE StandsAt(d, s, m)
      BY <1>2
    <2>2. ASSUME NEW k \in 1..Len(s) PROVE d[m + k] = s[k]
      <3>1. m + k \in 1..Len(d)  BY <2>1
      <3>2. t[m + k] = s[k]  BY DEF StandsAt
      <3>. QED  BY <1>1, <3>1, <3>2
    <2>. QED  BY <2>1, <2>2 DEF StandsAt
  <1>4. n \in 0..Len(s)  BY <1>2, <1>3
  <1>5. b \in Seq(S) /\ Len(b) = n /\ \A k \in 1..n : b[k] = s[k]  BY <1>4, Beginning
  <1>6. u \in Seq(S) /\ Len(u) = m /\ \A k \in 1..m : u[k] = t[k]  BY <1>1, Beginning
  <1>7. b \in Prefixes(s) /\ b # s
    <2>. HIDE DEF b, n
    <2>1. b \in Prefixes(s)  BY <1>4 DEF Prefixes, b
    <2>2. Len(b) = n /\ n \in Int /\ n < Len(s) /\ Len(s) \in Int  BY <1>2, <1>3, <1>5
    <2>3. Len(b) # Len(s)  BY <2>2
    <2>. QED  BY <2>1, <2>3
  <1>. HIDE DEF b, u, n
  <1>8. u \o b \in Seq(S) /\ Len(u \o b) = Len(d)
        /\ \A k \in 1..Len(d) : (u \o b)[k] = IF k <= m THEN u[k] ELSE b[k - m]
    <2>1. Len(u) = m /\ Len(b) = n /\ Len(u) + Len(b) = Len(d)  BY <1>2, <1>5, <1>6
    <2>2. u \in Seq(S) /\ b \in Seq(S)  BY <1>5, <1>6
    <2>. QED  BY <2>1, <2>2, ConcatProperties
  <1>9. ASSUME NEW k \in 1..Len(d) PROVE d[k] = (u \o b)[k]
    <2>1. CASE k <= m  BY <1>1, <1>6, <1>8, <2>1
    <2>2. CASE ~(k <= m)
      <3>1. k - m \in 1..n /\ k - m \in 1..Len(s) /\ m + (k - m) = k
        BY <1>2, <1>3, <2>2
      <3>2. t[m + (k - m)] = s[k - m]  BY <3>1 DEF StandsAt
      <3>. QED  BY <1>1, <1>5, <1>8, <2>2, <3>1, <3>2
    <2>. QED  BY <2>1, <2>2
  <1>10. d = u \o b  BY <1>8, <1>9, SeqEqual
  <1>. QED  BY <1>7, <1>10 DEF u, Began

\* A token ends the sequence exactly where its text completes a stop string.
Writings ==
    [stop : Seq(Seq(Chars)), cap : Nat, text : Seq(Chars), tokens : Nat,
     why : {"", "stop", "length"}, shown : Seq(Chars), decoded : Seq(Chars)]

\* While the sequence goes on, text and stream are what was decoded, and no stop
\* string occurs in it; once it has ended it is as it was promised.
WritingInv ==
    /\ writing \in Writings
    /\ writing.why = "" =>
         /\ writing.text = writing.decoded /\ writing.shown = writing.decoded
         /\ \A s \in Forbidden : ~Holds(writing.decoded, s)
    /\ writing.why # "" => StopsAtFirst

LEMMA ForbiddenType ==
    ASSUME writing.stop \in Seq(Seq(Chars))
    PROVE  \A s \in Forbidden : s \in Seq(Chars) /\ s # <<>>
  <1>1. \A stop \in Seq(Seq(Chars)) : \A n \in DOMAIN stop : stop[n] \in Seq(Chars)
    OBVIOUS
  <1>. QED  BY <1>1 DEF Forbidden

LEMMA WritingInvInit == WritingInit => WritingInv
  <1>. SUFFICES ASSUME WritingInit PROVE WritingInv
    OBVIOUS
  <1>1. PICK stop \in Stops, cap \in Caps :
          writing = [stop |-> stop, cap |-> cap, text |-> <<>>, tokens |-> 0, why |-> "",
                     shown |-> <<>>, decoded |-> <<>>]
    BY DEF WritingInit
  <1>2. <<>> \in Seq(Chars) /\ stop \in Seq(Seq(Chars)) /\ cap \in Nat  BY StopAssumption
  <1>3. writing \in Writings  BY <1>1, <1>2 DEF Writings
  <1>4. writing.text = <<>> /\ writing.decoded = <<>> /\ writing.shown = <<>>
        /\ writing.why = "" /\ writing.stop = stop
    BY <1>1
  <1>5. ASSUME NEW s \in Forbidden PROVE ~Holds(<<>>, s)
    <2>1. s \in Seq(Chars) /\ s # <<>>  BY <1>2, <1>4, ForbiddenType
    <2>2. Len(s) \in Nat \ {0}  BY <2>1, EmptySeq, LenProperties
    <2>3. ASSUME NEW i \in 0..Len(<<>>), StandsAt(<<>>, s, i) PROVE FALSE
      <3>1. Len(<<>>) = 0  OBVIOUS
      <3>2. i + Len(s) <= 0 /\ i \in Nat  BY <2>3, <3>1 DEF StandsAt
      <3>. QED  BY <2>2, <3>2
    <2>. QED  BY <1>2, <2>1, <2>3, HoldsWhere
  <1>. QED  BY <1>3, <1>4, <1>5 DEF WritingInv

\* Where the stop strings occur, among the lengths in front of them.
LEMMA HitsWhere ==
    ASSUME NEW stop \in Seq(Seq(Chars)), NEW t \in Seq(Chars), NEW F,
           F = {stop[n] : n \in DOMAIN stop} \ {<<>>}
    PROVE  Hits(t, stop) = {i \in 0..Len(t) : \E s \in F : StandsAt(t, s, i)}
  <1>1. \A s \in F : s \in Seq(Chars)  OBVIOUS
  <1>2. \A s \in F : Occurrences(t, s) \subseteq 0..Len(t)
    <2>1. ASSUME NEW s \in F PROVE Occurrences(t, s) \subseteq 0..Len(t)
      <3>1. Len(s) \in Nat /\ Len(t) \in Nat  BY <1>1
      <3>2. 0..(Len(t) - Len(s)) \subseteq 0..Len(t)  BY <3>1
      <3>. QED  BY <3>2 DEF Occurrences
    <2>. QED  BY <2>1
  <1>3. \A s \in F : \A i \in 0..Len(t) : i \in Occurrences(t, s) <=> StandsAt(t, s, i)
    BY <1>1, OccurrencesStand
  <1>4. Hits(t, stop) = UNION {Occurrences(t, s) : s \in F}
    BY DEF Hits
  <1>. QED  BY <1>2, <1>3, <1>4


\* Where the strings of F stand in t.
Standing(t, F) == {i \in 0..Len(t) : \E s \in F : StandsAt(t, s, i)}

\* The text is cut where the first of them stands, and so is the stream, unless it
\* has shown more.
RightlyCut(t, F, cut, shown) ==
    /\ cut \in Seq(Chars) /\ shown \in Seq(Chars)
    /\ \E s \in F : Holds(t, s)
    /\ \E s \in F : IsPrefix(cut \o s, t)
    /\ \A before \in Prefixes(cut) \ {cut}, s \in F : ~IsPrefix(before \o s, t)
    /\ shown # cut => \E s \in F : \E begun \in Prefixes(s) \ {s} :
                         IsPrefix(cut \o s, t) /\ shown = cut \o begun

LEMMA FirstCut ==
    ASSUME NEW d \in Seq(Chars), NEW delta \in Seq(Chars), NEW t, t = d \o delta,
           NEW F, \A s \in F : s \in Seq(Chars) /\ ~Holds(d, s),
           Standing(t, F) # {}, NEW m \in 0..Len(t), m \in Standing(t, F),
           \A i \in Standing(t, F) : m <= i,
           NEW cut, cut = SubSeq(t, 1, m), NEW shown, shown = d \o Trim(delta, t, m)
    PROVE  RightlyCut(t, F, cut, shown)
  <1>1. t \in Seq(Chars)  BY ConcatProperties
  <1>2. PICK s \in F : StandsAt(t, s, m)  BY DEF Standing
  <1>3. s \in Seq(Chars)  OBVIOUS
  <1>4. /\ cut \in Seq(Chars) /\ Len(cut) = m /\ \A k \in 1..m : cut[k] = t[k]
    BY <1>1, Beginning
  <1>5. IsPrefix(cut \o s, t)  BY <1>1, <1>2, <1>3, PrefixStands
  <1>6. Holds(t, s)  BY <1>1, <1>2, <1>3, HoldsWhere
  <1>7. ASSUME NEW before \in Prefixes(cut) \ {cut}, NEW r \in F
        PROVE  ~IsPrefix(before \o r, t)
    <2>1. PICK i \in 0..Len(cut) : before = SubSeq(cut, 1, i)  BY DEF Prefixes
    <2>2. i # Len(cut)
      <3>1. SubSeq(cut, 1, Len(cut)) = cut  BY <1>4, SubSeqFull
      <3>. QED  BY <1>7, <2>1, <3>1
    <2>3. i \in 0..Len(t) /\ i < m  BY <1>1, <1>4, <2>2
    <2>4. SubSeq(cut, 1, i) = SubSeq(t, 1, i)
      <3>. DEFINE a == SubSeq(cut, 1, i)
                  b == SubSeq(t, 1, i)
      <3>1. a \in Seq(Chars) /\ Len(a) = i /\ \A k \in 1..i : a[k] = cut[k]
        <4>1. cut \in Seq(Chars) /\ i \in 0..Len(cut)  BY <1>4, <2>1
        <4>. QED  BY <4>1, Beginning
      <3>2. b \in Seq(Chars) /\ Len(b) = i /\ \A k \in 1..i : b[k] = t[k]
        BY <1>1, <2>3, Beginning
      <3>. HIDE DEF a, b
      <3>3. ASSUME NEW k \in 1..i PROVE a[k] = b[k]
        <4>1. k \in 1..m  BY <2>3
        <4>. QED  BY <1>4, <3>1, <3>2, <4>1
      <3>4. a = b  BY <3>1, <3>2, <3>3, SeqEqual
      <3>. QED  BY <3>4 DEF a, b
    <2>5. ~StandsAt(t, r, i)
      <3>1. i \notin Standing(t, F)
        <4>1. ~(m <= i)  BY <2>3
        <4>. QED  BY <4>1
      <3>. QED  BY <2>3, <3>1 DEF Standing
    <2>6. r \in Seq(Chars)  OBVIOUS
    <2>7. ~IsPrefix(SubSeq(t, 1, i) \o r, t)  BY <1>1, <2>3, <2>5, <2>6, PrefixStands
    <2>. QED  BY <2>1, <2>4, <2>7
  <1>8. shown = IF m >= Len(d) THEN cut ELSE d
    <2>1. d \o Trim(delta, t, m) = IF m >= Len(d) THEN SubSeq(t, 1, m) ELSE d  BY Cut
    <2>. QED  BY <2>1
  <1>9. ASSUME shown # cut
        PROVE  \E begun \in Prefixes(s) \ {s} : shown = cut \o begun
    <2>1. ~(m >= Len(d)) /\ shown = d  BY <1>8, <1>9
    <2>2. \A i \in 0..Len(d) : ~StandsAt(d, s, i)  BY <1>3, HoldsWhere
    <2>3. Began(s, SubSeq(t, 1, m), d)
      BY <1>2, <1>3, <2>1, <2>2, Begun
    <2>. QED  BY <2>1, <2>3 DEF Began
  <1>10. shown \in Seq(Chars)  BY <1>4, <1>8
  <1>. QED  BY <1>4, <1>5, <1>6, <1>7, <1>9, <1>10 DEF RightlyCut

\* The sequence ends where the first stop string occurs.
EndsHere(t, delta, m) ==
    /\ Hits(t, writing.stop) # {} /\ m = Min(Hits(t, writing.stop))
    /\ writing.why = "" /\ t = writing.text \o delta
    /\ Forbidden' = Forbidden
    /\ writing'.why = "stop" /\ writing'.decoded = t /\ writing'.text = SubSeq(t, 1, m)
    /\ writing'.shown = writing.shown \o Trim(delta, t, m)

LEMMA EndsAtHit ==
    ASSUME WritingInv, NEW t, NEW m, NEW delta \in Seq(Chars), EndsHere(t, delta, m)
    PROVE  StopsAtFirst' /\ writing'.text \in Seq(Chars) /\ writing'.shown \in Seq(Chars)
  <1>. DEFINE d == writing.decoded
              F == Forbidden
              cut == SubSeq(t, 1, m)
              shown == d \o Trim(delta, t, m)
              H == Hits(t, writing.stop)
  <1>1. writing.why = "" /\ writing.stop \in Seq(Seq(Chars)) /\ d \in Seq(Chars)
    BY DEF WritingInv, Writings, EndsHere
  <1>2. /\ writing.text = d /\ writing.shown = d /\ \A s \in F : ~Holds(d, s)
    BY <1>1 DEF WritingInv
  <1>3. \A s \in F : s \in Seq(Chars)  BY <1>1, ForbiddenType
  <1>4. t = d \o delta  BY <1>2 DEF EndsHere
  <1>5. t \in Seq(Chars)
    <2>. HIDE DEF d
    <2>. QED  BY <1>1, <1>4, ConcatProperties
  <1>6. H = Standing(t, F)  BY <1>1, <1>5, HitsWhere DEF Forbidden, Standing
  <1>7. m \in H /\ (\A i \in H : m <= i) /\ m \in 0..Len(t) /\ H # {}
    <2>1. H # {} /\ m = Min(H)  BY DEF EndsHere
    <2>2. H \subseteq 0..Len(t) /\ 0..Len(t) \subseteq Nat
      <3>1. Standing(t, F) \subseteq 0..Len(t)  BY DEF Standing
      <3>. QED  BY <1>6, <3>1
    <2>. HIDE DEF H
    <2>3. m \in H /\ \A i \in H : m <= i  BY <2>1, <2>2, MinIsLeast
    <2>. QED  BY <2>1, <2>2, <2>3
  <1>8. /\ writing'.why = "stop" /\ writing'.decoded = t /\ writing'.text = cut
        /\ writing'.shown = shown /\ Forbidden' = F
    BY <1>2 DEF EndsHere
  <1>. HIDE DEF d, F, cut, shown, H
  <1>9. RightlyCut(t, F, cut, shown)
    <2>1. cut = SubSeq(t, 1, m) /\ shown = d \o Trim(delta, t, m)  BY DEF cut, shown
    <2>2. \A s \in F : s \in Seq(Chars) /\ ~Holds(d, s)  BY <1>2, <1>3
    <2>3. Standing(t, F) # {} /\ m \in Standing(t, F) /\ \A i \in Standing(t, F) : m <= i
      BY <1>6, <1>7
    <2>. QED  BY <1>1, <1>4, <1>7, <2>1, <2>2, <2>3, FirstCut
  <1>. QED  BY <1>8, <1>9 DEF StopsAtFirst, RightlyCut

\* Text without a stop string is passed on.
LEMMA GoesOn ==
    ASSUME WritingInv, writing.why = "", NEW t \in Seq(Chars),
           Hits(t, writing.stop) = {}, Forbidden' = Forbidden, writing'.decoded = t,
           writing'.text = t, writing'.shown = t
    PROVE  (\A s \in Forbidden' : ~Holds(writing'.decoded, s)) /\ StopsAtFirst'
  <1>1. /\ writing.stop \in Seq(Seq(Chars)) /\ \A s \in Forbidden : s \in Seq(Chars)
    <2>1. writing.stop \in Seq(Seq(Chars))  BY DEF WritingInv, Writings
    <2>. QED  BY <2>1, ForbiddenType
  <1>2. {i \in 0..Len(t) : \E s \in Forbidden : StandsAt(t, s, i)} = {}
    BY <1>1, HitsWhere DEF Forbidden
  <1>3. \A s \in Forbidden : ~Holds(t, s)  BY <1>1, <1>2, HoldsWhere
  <1>. QED  BY <1>3 DEF StopsAtFirst

LEMMA WritingInvStep == WritingInv /\ [WritingNext]_writing => WritingInv'
  <1>. SUFFICES ASSUME WritingInv, [WritingNext]_writing PROVE WritingInv'
    OBVIOUS
  <1>1. CASE UNCHANGED writing
    BY <1>1 DEF WritingInv, Forbidden, StopsAtFirst
  <1>2. CASE AddText
    <2>. DEFINE t(delta) == writing.text \o delta
                hits(delta) == Hits(t(delta), writing.stop)
    <2>1. PICK delta \in Texts, declared \in {"", "stop", "length"} :
            writing' =
              [writing EXCEPT
                !.tokens  = @ + 1,
                !.decoded = @ \o delta,
                !.text    = IF hits(delta) = {} THEN t(delta)
                            ELSE SubSeq(t(delta), 1, Min(hits(delta))),
                !.shown   = @ \o IF hits(delta) = {} THEN delta
                                 ELSE Trim(delta, t(delta), Min(hits(delta))),
                !.why     = IF hits(delta) # {} THEN "stop"
                            ELSE Ending(declared, writing.tokens + 1)]
      BY <1>2 DEF AddText, Declarations
    <2>2. writing.why = ""  BY <1>2 DEF AddText
    <2>3. /\ writing \in Writings /\ delta \in Seq(Chars)
          /\ writing.text = writing.decoded /\ writing.shown = writing.decoded
      BY <2>2, StopAssumption DEF WritingInv
    <2>. DEFINE u == t(delta)
                m == Min(hits(delta))
    <2>4. /\ writing'.stop = writing.stop /\ writing'.cap = writing.cap
          /\ writing'.tokens = writing.tokens + 1 /\ writing'.decoded = u
          /\ writing'.text = IF hits(delta) = {} THEN u ELSE SubSeq(u, 1, m)
          /\ writing'.shown = writing.shown \o IF hits(delta) = {} THEN delta
                                               ELSE Trim(delta, u, m)
          /\ writing'.why = IF hits(delta) # {} THEN "stop"
                            ELSE Ending(declared, writing.tokens + 1)
          /\ writing' = [stop |-> writing'.stop, cap |-> writing'.cap, text |-> writing'.text,
                         tokens |-> writing'.tokens, why |-> writing'.why,
                         shown |-> writing'.shown, decoded |-> writing'.decoded]
      BY <2>1, <2>3 DEF Writings
    <2>5. Forbidden' = Forbidden  BY <2>4 DEF Forbidden
    <2>6. u \in Seq(Chars)
      <3>1. writing.text \in Seq(Chars) /\ delta \in Seq(Chars)  BY <2>3 DEF Writings
      <3>. DEFINE w == writing.text
      <3>. HIDE DEF w
      <3>2. w \o delta \in Seq(Chars)  BY <3>1, ConcatProperties DEF w
      <3>. QED  BY <3>2 DEF w
    <2>7. Ending(declared, writing.tokens + 1) \in {"", "stop", "length"}
      BY DEF Ending
    <2>8. \A text, shown \in Seq(Chars) :
             writing'.text = text /\ writing'.shown = shown => writing' \in Writings
      <3>1. /\ writing.stop \in Seq(Seq(Chars)) /\ writing.cap \in Nat
            /\ writing.tokens + 1 \in Nat
        <4>1. writing.stop \in Seq(Seq(Chars)) /\ writing.cap \in Nat  BY <2>3 DEF Writings
        <4>2. writing.tokens \in Nat  BY <2>3 DEF Writings
        <4>3. writing.tokens + 1 \in Nat  BY <4>2, OneAfter
        <4>. QED  BY <4>1, <4>3
      <3>2. writing'.why \in {"", "stop", "length"}  BY <2>4, <2>7
      <3>3. /\ writing'.stop \in Seq(Seq(Chars)) /\ writing'.cap \in Nat
            /\ writing'.tokens \in Nat /\ writing'.decoded \in Seq(Chars)
        BY <2>4, <2>6, <3>1
      <3>4. writing' = [stop |-> writing'.stop, cap |-> writing'.cap, text |-> writing'.text,
                        tokens |-> writing'.tokens, why |-> writing'.why,
                        shown |-> writing'.shown, decoded |-> writing'.decoded]
        BY <2>4
      <3>. QED  BY <3>2, <3>3, <3>4 DEF Writings
    <2>9. CASE hits(delta) = {}
      <3>1. /\ writing'.text = u /\ writing'.shown = u /\ writing'.decoded = u
        BY <2>3, <2>4, <2>9
      <3>2. Hits(u, writing.stop) = {}  BY <2>9
      <3>. HIDE DEF u
      <3>3. (\A s \in Forbidden' : ~Holds(writing'.decoded, s)) /\ StopsAtFirst'
        BY <2>2, <2>5, <2>6, <3>1, <3>2, GoesOn
      <3>4. writing' \in Writings  BY <2>6, <2>8, <3>1
      <3>. QED  BY <3>1, <3>3, <3>4 DEF WritingInv
    <2>10. CASE hits(delta) # {}
      <3>1. /\ writing'.text = SubSeq(u, 1, m) /\ writing'.decoded = u /\ writing'.why = "stop"
            /\ writing'.shown = writing.shown \o Trim(delta, u, m)
        BY <2>4, <2>10
      <3>2. EndsHere(u, delta, m)  BY <2>2, <2>5, <2>10, <3>1 DEF EndsHere
      <3>. HIDE DEF u, m
      <3>3. StopsAtFirst' /\ writing'.text \in Seq(Chars) /\ writing'.shown \in Seq(Chars)
        BY <2>3, <3>2, EndsAtHit
      <3>4. writing' \in Writings  BY <2>8, <3>3
      <3>. QED  BY <3>1, <3>3, <3>4 DEF WritingInv
    <2>. QED  BY <2>9, <2>10
  <1>3. CASE StopToken
    <2>1. PICK declared \in {"", "stop", "length"} :
            writing' = [writing EXCEPT !.why = IF declared = "" THEN "stop" ELSE declared]
      BY <1>3 DEF StopToken
    <2>2. writing.why = "" /\ writing \in Writings  BY <1>3 DEF StopToken, WritingInv
    <2>3. /\ writing' \in Writings /\ writing'.why # "" /\ writing'.text = writing.text
          /\ writing'.shown = writing.shown /\ writing'.decoded = writing.decoded
          /\ writing'.stop = writing.stop
      BY <2>1, <2>2 DEF Writings
    <2>4. Forbidden' = Forbidden  BY <2>3 DEF Forbidden
    <2>5. StopsAtFirst'  BY <2>2, <2>3, <2>4 DEF WritingInv, StopsAtFirst
    <2>. QED  BY <2>3, <2>5 DEF WritingInv
  <1>. QED  BY <1>1, <1>2, <1>3 DEF WritingNext

\* However stop strings are cut into tokens, the sequence ends with the token that
\* completes the first of them, and text and stream are cut in front of it
\* (scheduler.go processToken, firstStop).
THEOREM EndsWithStop == WritingSpec => []StopsAtFirst
  <1>1. WritingInv => StopsAtFirst  BY DEF WritingInv, StopsAtFirst
  <1>. QED  BY <1>1, WritingInvInit, WritingInvStep, PTL DEF WritingSpec

-----------------------------------------------------------------------------
(* PrefillProgress: for any prompts, whatever the calls and their order.    *)

Report == [of : Prompts, processed : Nat, phase : Phases \cup {"removed"}, at : Nat]

\* What the reports say of a prompt that runs.
EntryOf(r) ==
    [processed |-> reports[Latest(InPhase(r))].processed,
     phase |-> reports[Latest(InPhase(r))].phase,
     startTime |-> reports[Soonest(InPhase(r))].at,
     lastTime |-> reports[Latest(InPhase(r))].at,
     speed |-> SpeedOf(InPhase(r))]

InOrder ==
    \A i, j \in 1..Len(order) :
        i < j => Soonest(Current(order[i])) < Soonest(Current(order[j]))

ProgressInv ==
    /\ time \in Nat /\ reports \in Seq(Report)
    /\ order \in Seq(Prompts) /\ {order[i] : i \in 1..Len(order)} = Tracked
    /\ Tracked = {r \in Prompts : Current(r) # {}}
    /\ InOrder
    /\ \A r \in Tracked : progress[r] = EntryOf(r)

\* The ends of a set of places, and that they are the only ones.
LEMMA PlaceEnds ==
    ASSUME NEW n \in Nat, NEW S, S \subseteq 1..n, S # {}
    PROVE  /\ Latest(S) \in S /\ \A j \in S : j <= Latest(S)
           /\ Soonest(S) \in S /\ \A j \in S : Soonest(S) <= j
  <1>1. S \subseteq Nat /\ \A j \in S : j <= n  OBVIOUS
  <1>2. \E i \in S : \A j \in S : j <= i  BY <1>1, MaxIsGreatest
  <1>3. \E i \in S : \A j \in S : i <= j  BY <1>1, LeastOf
  <1>. QED  BY <1>2, <1>3 DEF Latest, Soonest

LEMMA LatestIs ==
    ASSUME NEW S, S \subseteq Nat, NEW m \in S, \A j \in S : j <= m
    PROVE  Latest(S) = m
  <1>1. Latest(S) \in S /\ \A j \in S : j <= Latest(S)  BY DEF Latest
  <1>2. Latest(S) \in Nat /\ m \in Nat /\ m <= Latest(S) /\ Latest(S) <= m  BY <1>1
  <1>. QED  BY <1>2

LEMMA SoonestIs ==
    ASSUME NEW S, S \subseteq Nat, NEW m \in S, \A j \in S : m <= j
    PROVE  Soonest(S) = m
  <1>1. Soonest(S) \in S /\ \A j \in S : Soonest(S) <= j  BY DEF Soonest
  <1>2. Soonest(S) \in Nat /\ m \in Nat /\ m <= Soonest(S) /\ Soonest(S) <= m  BY <1>1
  <1>. QED  BY <1>2

LEMMA CurrentPlaces ==
    ASSUME NEW r, reports \in Seq(Report)
    PROVE  /\ Len(reports) \in Nat /\ Current(r) \subseteq 1..Len(reports)
           /\ InPhase(r) \subseteq Current(r)
           /\ \A i \in 1..Len(reports) : reports[i] \in Report
  <1>1. Len(reports) \in Nat /\ DOMAIN reports = 1..Len(reports)
        /\ \A i \in 1..Len(reports) : reports[i] \in Report
    BY LenProperties, ElementOfSeq
  <1>. QED  BY <1>1 DEF Current, InPhase

LEMMA PhaseLast ==
    ASSUME NEW r, reports \in Seq(Report), Current(r) # {}
    PROVE  /\ Latest(Current(r)) \in InPhase(r)
           /\ Latest(InPhase(r)) = Latest(Current(r))
  <1>. DEFINE C == Current(r)
              l == Latest(C)
  <1>1. C \subseteq 1..Len(reports) /\ Len(reports) \in Nat  BY CurrentPlaces
  <1>2. l \in C /\ \A j \in C : j <= l  BY <1>1, PlaceEnds
  <1>3. l \in InPhase(r)
    <2>1. \A j \in C : j >= l => j = l  BY <1>1, <1>2
    <2>. QED  BY <1>2, <2>1 DEF InPhase
  <1>4. InPhase(r) \subseteq C  BY DEF InPhase
  <1>5. InPhase(r) \subseteq Nat /\ \A j \in InPhase(r) : j <= l
    <2>. HIDE DEF C, l
    <2>1. C \subseteq Nat  BY <1>1
    <2>. QED  BY <1>2, <1>4, <2>1
  <1>. HIDE DEF C, l
  <1>6. Latest(InPhase(r)) = l  BY <1>3, <1>5, LatestIs
  <1>. QED  BY <1>3, <1>6 DEF C, l

-----------------------------------------------------------------------------
\* A report more.
LEMMA ReportMore ==
    ASSUME reports \in Seq(Report), NEW rep \in Report, reports' = Append(reports, rep)
    PROVE  /\ reports' \in Seq(Report) /\ Len(reports') = Len(reports) + 1
           /\ DOMAIN reports = 1..Len(reports) /\ DOMAIN reports' = 1..(Len(reports) + 1)
           /\ \A i \in 1..Len(reports) : reports'[i] = reports[i]
           /\ reports'[Len(reports) + 1] = rep
  BY AppendProperties, LenProperties

LEMMA CurrentAfter ==
    ASSUME reports \in Seq(Report), NEW rep \in Report, reports' = Append(reports, rep),
           NEW r \in Prompts
    PROVE  Current(r)' = IF r # rep.of THEN Current(r)
                         ELSE IF rep.processed >= Total[r] THEN {}
                         ELSE Current(r) \cup {Len(reports) + 1}
  <1>. DEFINE n == Len(reports)
  <1>1. n \in Nat  BY LenProperties
  <1>2. /\ DOMAIN reports = 1..n /\ DOMAIN reports' = 1..(n + 1) /\ Len(reports') = n + 1
        /\ \A i \in 1..n : reports'[i] = reports[i]
        /\ reports'[n + 1] = rep
    BY ReportMore
  <1>3. Total[r] \in Nat /\ rep.processed \in Nat  BY ProgressAssumption DEF Report
  <1>. DEFINE Counts(i) == reports[i].of = r => reports[i].processed < Total[r]
              Counted(i) == reports'[i].of = r => reports'[i].processed < Total[r]
  <1>4. Current(r) = {i \in 1..n : reports[i].of = r /\ \A j \in i..n : Counts(j)}
    BY <1>2 DEF Current
  <1>5. Current(r)' = {i \in 1..(n + 1) : reports'[i].of = r /\ \A j \in i..(n + 1) : Counted(j)}
    BY <1>2 DEF Current
  <1>6. \A j \in 1..n : Counted(j) <=> Counts(j)  BY <1>2
  <1>7. Counted(n + 1) <=> (rep.of = r => ~(rep.processed >= Total[r]))  BY <1>2, <1>3
  <1>. HIDE DEF Counts, Counted
  <1>8. \A i \in 1..n : (\A j \in i..(n + 1) : Counted(j)) <=> (\A j \in i..n : Counts(j)) /\ Counted(n + 1)
    <2>. SUFFICES ASSUME NEW i \in 1..n
                  PROVE  (\A j \in i..(n + 1) : Counted(j)) <=> (\A j \in i..n : Counts(j)) /\ Counted(n + 1)
      OBVIOUS
    <2>1. i..(n + 1) = (i..n) \cup {n + 1} /\ i..n \subseteq 1..n  BY <1>1
    <2>. QED  BY <1>6, <2>1
  <1>9. (n + 1)..(n + 1) = {n + 1}  BY <1>1
  <1>10. 1..(n + 1) = (1..n) \cup {n + 1}  BY <1>1
  <1>. HIDE DEF n
  <1>11. CASE r # rep.of
    <2>1. Counted(n + 1)  BY <1>7, <1>11
    <2>. QED  BY <1>2, <1>4, <1>5, <1>8, <1>10, <1>11, <2>1
  <1>12. CASE r = rep.of /\ rep.processed >= Total[r]
    <2>1. ~Counted(n + 1)  BY <1>7, <1>12
    <2>2. \A i \in 1..(n + 1) : n + 1 \in i..(n + 1)  BY <1>1
    <2>. QED  BY <1>5, <1>12, <2>1, <2>2
  <1>13. CASE r = rep.of /\ ~(rep.processed >= Total[r])
    <2>1. Counted(n + 1)  BY <1>7, <1>13
    <2>2. \A i \in 1..(n + 1) : i \in Current(r)' <=> i \in Current(r) \cup {n + 1}
      <3>1. \A i \in 1..n : i # n + 1  BY <1>1
      <3>2. n + 1 \in Current(r)'
        <4>1. n + 1 \in 1..(n + 1)  BY <1>10
        <4>. QED  BY <1>2, <1>5, <1>9, <1>13, <2>1, <4>1
      <3>. QED  BY <1>2, <1>4, <1>5, <1>8, <1>10, <1>13, <2>1, <3>1, <3>2
    <2>3. Current(r)' = Current(r) \cup {n + 1}  BY <1>4, <1>5, <1>10, <2>2
    <2>. QED  BY <1>13, <2>3 DEF n
  <1>. QED  BY <1>11, <1>12, <1>13

\* A speed is that of reports that were there.
LEMMA SpeedStays ==
    ASSUME NEW n \in Nat, NEW P, P \subseteq 1..n, \A i \in P : reports'[i] = reports[i],
           NEW Q, Strides(Q)' = Strides(P)
    PROVE  SpeedOf(Q)' = SpeedOf(P)
  <1>. DEFINE S == Strides(P)
  <1>1. S \subseteq P \X P  BY DEF Strides
  <1>2. CASE S = {}  BY <1>2 DEF SpeedOf
  <1>3. CASE S # {}
    <2>. DEFINE s == CHOOSE s \in S : \A q \in S : q[2] <= s[2]
    <2>1. \E x \in S : \A q \in S : q[2] <= x[2]
      <3>. DEFINE T == {q[2] : q \in S}
      <3>1. T \subseteq 1..n /\ T # {}  BY <1>1, <1>3
      <3>2. Latest(T) \in T /\ \A j \in T : j <= Latest(T)  BY <3>1, PlaceEnds
      <3>. HIDE DEF S
      <3>. QED  BY <3>2
    <2>2. s \in S  BY <2>1
    <2>3. SpeedOf(P) = <<reports[s[2]].processed - reports[s[1]].processed,
                         reports[s[2]].at - reports[s[1]].at>>
      BY <1>3 DEF SpeedOf
    <2>4. SpeedOf(Q)' = <<reports'[s[2]].processed - reports'[s[1]].processed,
                          reports'[s[2]].at - reports'[s[1]].at>>
      BY <1>3 DEF SpeedOf
    <2>. HIDE DEF s, S
    <2>5. s[1] \in P /\ s[2] \in P  BY <1>1, <2>2
    <2>. QED  BY <2>3, <2>4, <2>5
  <1>. QED  BY <1>2, <1>3

LEMMA StridesStay ==
    ASSUME NEW P, \A i \in P : reports'[i] = reports[i]
    PROVE  Strides(P)' = Strides(P)
  <1>1. \A s \in P \X P : reports'[s[1]] = reports[s[1]] /\ reports'[s[2]] = reports[s[2]]
    OBVIOUS
  <1>. QED  BY <1>1 DEF Strides

LEMMA SpeedBegins == ASSUME NEW n \in Nat PROVE SpeedOf({n})' = NoSpeed
  <1>1. \A s \in {n} \X {n} : s[1] = n /\ s[2] = n  OBVIOUS
  <1>2. Strides({n})' = {}
    <2>1. \A s \in {n} \X {n} : ~(s[1] < s[2])  BY <1>1
    <2>. QED  BY <2>1 DEF Strides
  <1>. QED  BY <1>2 DEF SpeedOf

\* A speed is measured from the report before.
LEMMA SpeedGoesOn ==
    ASSUME reports \in Seq(Report), NEW rep \in Report, reports' = Append(reports, rep),
           NEW n \in Nat, Len(reports) = n, NEW P, P \subseteq 1..n, P # {}
    PROVE  LET last == reports[Latest(P)] IN
           SpeedOf(P \cup {n + 1})'
             = IF rep.at > last.at /\ rep.processed > last.processed
               THEN <<rep.processed - last.processed, rep.at - last.at>> ELSE SpeedOf(P)
  <1>. DEFINE m == n + 1
              l == Latest(P)
              Q == P \cup {m}
              Goes == rep.at > reports[l].at /\ rep.processed > reports[l].processed
              Stride(s) == /\ reports[s[1]].at < reports[s[2]].at
                           /\ reports[s[1]].processed < reports[s[2]].processed
              Stridden(s) == /\ reports'[s[1]].at < reports'[s[2]].at
                             /\ reports'[s[1]].processed < reports'[s[2]].processed
  <1>1. n \in Nat /\ P \subseteq 1..n  OBVIOUS
  <1>2. l \in P /\ \A j \in P : j <= l  BY <1>1, PlaceEnds
  <1>3. \A i \in P : reports'[i] = reports[i]  BY <1>1, ReportMore
  <1>4. reports'[m] = rep  BY ReportMore
  <1>5. rep.at \in Nat /\ rep.processed \in Nat
        /\ reports[l].at \in Nat /\ reports[l].processed \in Nat
    <2>1. l \in 1..Len(reports)  BY <1>1, <1>2
    <2>. HIDE DEF l
    <2>2. reports[l] \in Report  BY <2>1, ElementOfSeq
    <2>. QED  BY <2>2 DEF Report
  <1>6. Stridden(<<l, m>>) <=> Goes  BY <1>2, <1>3, <1>4, <1>5
  <1>7. \A s \in P \X P : Stridden(s) <=> Stride(s)
    <2>1. \A s \in P \X P : reports'[s[1]] = reports[s[1]] /\ reports'[s[2]] = reports[s[2]]
      BY <1>3
    <2>. QED  BY <2>1
  <1>8. Strides(P) = {s \in P \X P :
            s[1] < s[2] /\ (\A k \in P : k <= s[1] \/ k >= s[2]) /\ Stride(s)}
    BY DEF Strides
  <1>9. Strides(Q)' = {s \in Q \X Q :
            s[1] < s[2] /\ (\A k \in Q : k <= s[1] \/ k >= s[2]) /\ Stridden(s)}
    BY DEF Strides
  <1>. HIDE DEF Goes, Stride, Stridden
  <1>10. m \in Nat /\ \A j \in P : j < m /\ j \in Nat  BY <1>1
  <1>. HIDE DEF m, l
  <1>11. ASSUME NEW s \in Q \X Q
         PROVE  s \in Strides(Q)' <=> s \in Strides(P) \/ (Goes /\ s = <<l, m>>)
    <2>. DEFINE a == s[1]
                b == s[2]
    <2>a. a \in Q /\ b \in Q /\ s = <<a, b>>  OBVIOUS
    <2>. HIDE DEF a, b
    <2>0. s \in Strides(Q)' <=> a < b /\ (\A k \in Q : k <= a \/ k >= b) /\ Stridden(s)
      BY <1>9, <2>a
    <2>1. CASE a \in P /\ b \in P
      <3>1. (\A k \in Q : k <= a \/ k >= b) <=> (\A k \in P : k <= a \/ k >= b)
        BY <1>10, <2>1
      <3>2. s \in Strides(P) <=> a < b /\ (\A k \in P : k <= a \/ k >= b) /\ Stride(s)
        BY <2>a, <1>8, <2>1
      <3>3. s # <<l, m>>  BY <2>a, <1>10, <2>1
      <3>. QED  BY <2>a, <1>7, <2>0, <2>1, <3>1, <3>2, <3>3
    <2>2. CASE a = m
      <3>1. ~(a < b)
        <4>1. b \in Nat /\ b <= m  BY <1>10, <2>a
        <4>. QED  BY <1>10, <2>2, <4>1
      <3>2. s \notin Strides(P) /\ s # <<l, m>>  BY <2>a, <1>2, <1>8, <1>10, <2>2
      <3>. QED  BY <2>0, <3>1, <3>2
    <2>3. CASE a \in P /\ b = m
      <3>1. s \notin Strides(P)  BY <2>a, <1>8, <1>10, <2>3
      <3>2. a < b /\ ((\A k \in Q : k <= a \/ k >= b) <=> a = l)
        BY <1>2, <1>10, <2>3
      <3>. QED  BY <2>a, <1>6, <2>0, <2>3, <3>1, <3>2
    <2>. QED  BY <2>a, <2>1, <2>2, <2>3
  <1>12. Strides(P) \subseteq Q \X Q /\ Strides(Q)' \subseteq Q \X Q /\ <<l, m>> \in Q \X Q
    BY <1>2, <1>8, <1>9
  <1>13. CASE ~Goes
    <2>1. Strides(Q)' = Strides(P)  BY <1>11, <1>12, <1>13
    <2>2. SpeedOf(Q)' = SpeedOf(P)  BY <1>1, <1>3, <2>1, SpeedStays
    <2>. QED  BY <1>13, <2>2 DEF Goes, Q, m, l
  <1>14. CASE Goes
    <2>. DEFINE S == Strides(Q)'
                s == CHOOSE s \in S : \A q \in S : q[2] <= s[2]
    <2>1. S = Strides(P) \cup {<<l, m>>}  BY <1>11, <1>12, <1>14
    <2>2. \A q \in S : q[2] <= m /\ (q[2] = m => q = <<l, m>>)
      <3>1. \A q \in P \X P : q[2] < m /\ q[2] <= m /\ q[2] # m
        <4>1. \A j \in P : j < m /\ j <= m /\ j # m  BY <1>10
        <4>. QED  BY <4>1
      <3>2. \A q \in Strides(P) : q \in P \X P  BY <1>8
      <3>3. m <= m  BY <1>10
      <3>. QED  BY <2>1, <3>1, <3>2, <3>3
    <2>3. \A q \in S : q[2] <= <<l, m>>[2]  BY <2>2
    <2>4. <<l, m>> \in S /\ S # {}  BY <2>1
    <2>. HIDE DEF S
    <2>5. s \in S /\ \A q \in S : q[2] <= s[2]  BY <2>3, <2>4
    <2>. HIDE DEF s
    <2>6. s = <<l, m>>
      <3>1. m <= s[2]  BY <2>4, <2>5
      <3>2. s[2] <= m /\ s[2] \in Nat
        <4>1. \A q \in Q \X Q : q[2] \in Nat  BY <1>10
        <4>2. S \subseteq Q \X Q  BY <1>12 DEF S
        <4>. QED  BY <2>2, <2>5, <4>1, <4>2
      <3>3. s[2] = m  BY <1>10, <3>1, <3>2
      <3>. QED  BY <2>2, <2>5, <3>3
    <2>7. SpeedOf(Q)' = <<reports'[s[2]].processed - reports'[s[1]].processed,
                          reports'[s[2]].at - reports'[s[1]].at>>
      BY <2>4 DEF SpeedOf, S, s
    <2>8. SpeedOf(Q)' = <<rep.processed - reports[l].processed, rep.at - reports[l].at>>
      BY <1>2, <1>3, <1>4, <2>6, <2>7
    <2>. QED  BY <1>14, <2>8 DEF Goes, Q, m, l
  <1>. QED  BY <1>13, <1>14

\* What the other prompts' reports say stays.
LEMMA OthersStay ==
    ASSUME reports \in Seq(Report), NEW rep \in Report, reports' = Append(reports, rep),
           NEW r \in Prompts, Current(r)' = Current(r), Current(r) # {}
    PROVE  EntryOf(r)' = EntryOf(r)
  <1>. DEFINE n == Len(reports)
              C == Current(r)
              P == InPhase(r)
  <1>1. n \in Nat /\ C \subseteq 1..n /\ P \subseteq C  BY CurrentPlaces
  <1>2. \A i \in C : reports'[i] = reports[i]  BY <1>1, ReportMore
  <1>3. Latest(C) \in C  BY <1>1, PlaceEnds
  <1>4. InPhase(r)' = P
    <2>1. InPhase(r)' = {i \in C : \A j \in C : j >= i =>
                            reports'[j].phase = reports'[Latest(C)].phase}
      BY DEF InPhase
    <2>. QED  BY <1>2, <1>3, <2>1 DEF InPhase
  <1>5. P # {} /\ Latest(P) \in P /\ Soonest(P) \in P
    <2>1. P # {} /\ P \subseteq 1..n  BY <1>1, PhaseLast
    <2>. QED  BY <1>1, <2>1, PlaceEnds
  <1>6. SpeedOf(InPhase(r))' = SpeedOf(P)
    <2>1. PICK Q : Q = P  OBVIOUS
    <2>2. SpeedOf(Q)' = SpeedOf(Q)
      <3>. HIDE DEF C, P
      <3>1. \A i \in Q : reports'[i] = reports[i]  BY <1>1, <1>2, <2>1
      <3>2. Q \subseteq 1..n  BY <1>1, <2>1
      <3>. HIDE DEF n
      <3>. QED  BY <1>1, <3>1, <3>2, SpeedStays, StridesStay
    <2>. QED  BY <1>4, <2>1, <2>2
  <1>7. EntryOf(r)' = [processed |-> reports'[Latest(P)].processed,
                       phase |-> reports'[Latest(P)].phase,
                       startTime |-> reports'[Soonest(P)].at,
                       lastTime |-> reports'[Latest(P)].at,
                       speed |-> SpeedOf(P)]
    BY <1>4, <1>6 DEF EntryOf
  <1>. QED  BY <1>1, <1>2, <1>5, <1>7 DEF EntryOf

-----------------------------------------------------------------------------
\* The prompt of the report itself: its last place is the new one.
LEMMA PlaceMore ==
    ASSUME NEW n \in Nat, NEW S, S \subseteq 1..n
    PROVE  /\ Latest(S \cup {n + 1}) = n + 1
           /\ Soonest(S \cup {n + 1}) = IF S = {} THEN n + 1 ELSE Soonest(S)
  <1>. DEFINE Q == S \cup {n + 1}
  <1>1. Q \subseteq 1..(n + 1) /\ Q # {} /\ n + 1 \in Nat  OBVIOUS
  <1>2. Q \subseteq Nat /\ n + 1 \in Q /\ \A j \in Q : j <= n + 1  OBVIOUS
  <1>3. Latest(Q) = n + 1
    <2>. HIDE DEF Q
    <2>. QED  BY <1>2, LatestIs
  <1>4. Soonest(Q) = IF S = {} THEN n + 1 ELSE Soonest(S)
    <2>1. CASE S = {}
      <3>1. n + 1 \in Q /\ \A j \in Q : n + 1 <= j  BY <2>1
      <3>. HIDE DEF Q
      <3>2. Soonest(Q) = n + 1  BY <1>2, <3>1, SoonestIs
      <3>. QED  BY <2>1, <3>2
    <2>2. CASE S # {}
      <3>1. Soonest(S) \in S /\ \A j \in S : Soonest(S) <= j  BY <2>2, PlaceEnds
      <3>2. Soonest(S) \in Q /\ \A j \in Q : Soonest(S) <= j
        <4>1. Soonest(S) \in 1..n  BY <3>1
        <4>2. Soonest(S) <= n + 1  BY <4>1
        <4>. QED  BY <3>1, <4>2
      <3>. HIDE DEF Q
      <3>3. Soonest(Q) = Soonest(S)  BY <1>2, <3>2, SoonestIs
      <3>. QED  BY <2>2, <3>3
    <2>. QED  BY <2>1, <2>2
  <1>. QED  BY <1>3, <1>4

LEMMA PhaseAfter ==
    ASSUME reports \in Seq(Report), NEW rep \in Report, reports' = Append(reports, rep),
           NEW n \in Nat, Len(reports) = n,
           NEW r \in Prompts, Current(r)' = Current(r) \cup {n + 1}
    PROVE  InPhase(r)' = IF Current(r) # {} /\ reports[Latest(InPhase(r))].phase = rep.phase
                         THEN InPhase(r) \cup {n + 1} ELSE {n + 1}
  <1>. DEFINE m == n + 1
              C == Current(r)
              l == Latest(C)
  <1>1. C \subseteq 1..n /\ m \in Nat /\ \A j \in C : j \in Nat /\ j < m
    <2>1. C \subseteq 1..n  BY CurrentPlaces
    <2>. HIDE DEF C
    <2>. QED  BY <2>1
  <1>2. (\A i \in C : reports'[i] = reports[i]) /\ reports'[m] = rep
    <2>. HIDE DEF C
    <2>. QED  BY <1>1, ReportMore
  <1>3. Latest(Current(r))' = m
    <2>. HIDE DEF C
    <2>. QED  BY <1>1, PlaceMore DEF C
  <1>4. InPhase(r)' = {i \in C \cup {m} :
                          \A j \in C \cup {m} : j >= i => reports'[j].phase = rep.phase}
    BY <1>2, <1>3 DEF InPhase
  <1>5. m \in InPhase(r)'
    <2>. HIDE DEF C, m
    <2>1. \A j \in C : ~(j >= m)  BY <1>1
    <2>. QED  BY <1>2, <1>4, <2>1
  <1>6. \A i \in C : i \in InPhase(r)' <=>
             rep.phase = rep.phase /\ \A j \in C : j >= i => reports[j].phase = rep.phase
    <2>. HIDE DEF C, m
    <2>. QED  BY <1>1, <1>2, <1>4
  <1>7. InPhase(r) = {i \in C : \A j \in C : j >= i => reports[j].phase = reports[l].phase}
    BY DEF InPhase
  <1>8. InPhase(r)' \subseteq C \cup {m}
    <2>. HIDE DEF C, m
    <2>. QED  BY <1>4
  <1>9. CASE C = {}
    <2>1. InPhase(r)' = {m}  BY <1>5, <1>8, <1>9
    <2>. QED  BY <1>9, <2>1
  <1>10. CASE C # {}
    <2>1. Latest(InPhase(r)) = l  BY <1>10, PhaseLast
    <2>2. l \in C /\ \A j \in C : l >= j  BY <1>1, <1>10, PlaceEnds
    <2>. HIDE DEF C, l, m
    <2>3. CASE reports[l].phase = rep.phase
      <3>1. \A i \in C : i \in InPhase(r)' <=> i \in InPhase(r)  BY <1>6, <1>7, <2>3
      <3>2. InPhase(r)' = InPhase(r) \cup {m}  BY <1>5, <1>7, <1>8, <3>1
      <3>. QED  BY <1>10, <2>1, <2>3, <3>2 DEF C, m
    <2>4. CASE reports[l].phase # rep.phase
      <3>1. \A i \in C : i \notin InPhase(r)'  BY <1>6, <2>2, <2>4
      <3>2. InPhase(r)' = {m}  BY <1>5, <1>8, <3>1
      <3>. QED  BY <1>10, <2>1, <2>4, <3>2 DEF C, m
    <2>. QED  BY <2>3, <2>4
  <1>. QED  BY <1>9, <1>10

LEMMA EntryAfter ==
    ASSUME reports \in Seq(Report), NEW rep \in Report, reports' = Append(reports, rep),
           NEW n \in Nat, Len(reports) = n,
           NEW r \in Prompts, Current(r)' = Current(r) \cup {n + 1}
    PROVE  EntryOf(r)' =
             IF Current(r) # {} /\ EntryOf(r).phase = rep.phase
             THEN [processed |-> rep.processed, phase |-> rep.phase,
                   startTime |-> EntryOf(r).startTime, lastTime |-> rep.at,
                   speed |-> IF rep.at > EntryOf(r).lastTime /\ rep.processed > EntryOf(r).processed
                             THEN <<rep.processed - EntryOf(r).processed,
                                    rep.at - EntryOf(r).lastTime>>
                             ELSE EntryOf(r).speed]
             ELSE [processed |-> rep.processed, phase |-> rep.phase,
                   startTime |-> rep.at, lastTime |-> rep.at, speed |-> NoSpeed]
  <1>. PICK P : P = InPhase(r)  OBVIOUS
  <1>. DEFINE m == n + 1
              l == Latest(P)
              Goes == Current(r) # {} /\ reports[l].phase = rep.phase
  <1>1. P \subseteq 1..n  BY CurrentPlaces
  <1>2. InPhase(r)' = IF Goes THEN P \cup {m} ELSE {m}  BY PhaseAfter
  <1>3. reports'[m] = rep /\ \A i \in P : reports'[i] = reports[i]  BY <1>1, ReportMore
  <1>4. EntryOf(r) = [processed |-> reports[l].processed, phase |-> reports[l].phase,
                      startTime |-> reports[Soonest(P)].at, lastTime |-> reports[l].at,
                      speed |-> SpeedOf(P)]
    BY DEF EntryOf
  <1>5. Current(r) # {} => P # {}  BY PhaseLast
  <1>6. CASE Goes
    <2>. PICK Q : Q = P \cup {m}  OBVIOUS
    <2>1. InPhase(r)' = Q  BY <1>2, <1>6
    <2>2. Latest(Q) = m /\ Soonest(Q) = Soonest(P)  BY <1>1, <1>5, <1>6, PlaceMore
    <2>3. Soonest(P) \in P  BY <1>1, <1>5, <1>6, PlaceEnds
    <2>. HIDE DEF m
    <2>4. SpeedOf(Q)' = IF rep.at > reports[l].at /\ rep.processed > reports[l].processed
                        THEN <<rep.processed - reports[l].processed, rep.at - reports[l].at>>
                        ELSE SpeedOf(P)
      BY <1>1, <1>5, <1>6, SpeedGoesOn DEF m
    <2>5. EntryOf(r)' = [processed |-> reports'[m].processed, phase |-> reports'[m].phase,
                         startTime |-> reports'[Soonest(P)].at, lastTime |-> reports'[m].at,
                         speed |-> SpeedOf(Q)']
      BY <2>1, <2>2 DEF EntryOf
    <2>6. Current(r) # {} /\ EntryOf(r).phase = rep.phase  BY <1>4, <1>6
    <2>7. /\ EntryOf(r).startTime = reports[Soonest(P)].at
          /\ EntryOf(r).lastTime = reports[l].at
          /\ EntryOf(r).processed = reports[l].processed
          /\ EntryOf(r).speed = SpeedOf(P)
      BY <1>4
    <2>. HIDE DEF l
    <2>8. EntryOf(r)' = [processed |-> rep.processed, phase |-> rep.phase,
                         startTime |-> EntryOf(r).startTime, lastTime |-> rep.at,
                         speed |-> SpeedOf(Q)']
      BY <1>3, <2>3, <2>5, <2>7
    <2>. QED  BY <2>4, <2>6, <2>7, <2>8
  <1>7. CASE ~Goes
    <2>. PICK Q : Q = {m}  OBVIOUS
    <2>1. InPhase(r)' = Q  BY <1>2, <1>7
    <2>2. Latest(Q) = m /\ Soonest(Q) = m
      <3>1. Q = {} \cup {n + 1}  OBVIOUS
      <3>. QED  BY <3>1, PlaceMore
    <2>3. SpeedOf(Q)' = NoSpeed
      <3>1. m \in Nat  OBVIOUS
      <3>. HIDE DEF m
      <3>. QED  BY <3>1, SpeedBegins
    <2>. HIDE DEF m
    <2>4. EntryOf(r)' = [processed |-> reports'[m].processed, phase |-> reports'[m].phase,
                         startTime |-> reports'[m].at, lastTime |-> reports'[m].at,
                         speed |-> SpeedOf(Q)']
      BY <2>1, <2>2 DEF EntryOf
    <2>5. ~(Current(r) # {} /\ EntryOf(r).phase = rep.phase)  BY <1>4, <1>7
    <2>. QED  BY <1>3, <2>3, <2>4, <2>5
  <1>. QED  BY <1>6, <1>7

-----------------------------------------------------------------------------
\* The first occurrence, which is the only one, is taken out.
LEMMA TakenOut ==
    ASSUME NEW S, NEW s \in Seq(S), NEW k \in 1..Len(s),
           \A i, j \in 1..Len(s) : i # j => s[i] # s[j]
    PROVE  LET t == RemoveFirst(s, s[k]) IN
           /\ t \in Seq(S) /\ Len(t) = Len(s) - 1
           /\ \A i \in 1..Len(t) : t[i] = s[IF i < k THEN i ELSE i + 1]
  <1>. DEFINE I == {i \in 1..Len(s) : s[i] = s[k]}
              n == Len(s)
              a == SubSeq(s, 1, k - 1)
              b == SubSeq(s, k + 1, n)
  <1>0. n \in Nat /\ k \in 1..n /\ \A i \in 1..n : s[i] \in S  BY LenProperties, ElementOfSeq
  <1>1. I = {k}  OBVIOUS
  <1>2. Min(I) = k
    <2>1. I \subseteq Nat /\ I # {}  BY <1>1
    <2>. HIDE DEF I
    <2>2. Min(I) \in I  BY <2>1, MinIsLeast
    <2>. QED  BY <1>1, <2>2
  <1>3. RemoveFirst(s, s[k]) = RemoveAt(s, IF I # {} THEN Min(I) ELSE 0)
    BY DEF RemoveFirst, SelectInSeq
  <1>4. RemoveFirst(s, s[k]) = a \o b
    BY <1>1, <1>2, <1>3 DEF RemoveAt
  <1>5. a \in Seq(S) /\ Len(a) = k - 1 /\ \A i \in 1..k - 1 : a[i] = s[i]
    <2>1. \A i \in 1..k - 1 : s[i] \in S /\ 1 + i - 1 = i  BY <1>0
    <2>2. k - 1 \in Int /\ 1 \in Int /\ (k - 1) - 1 + 1 = k - 1 /\ k - 1 >= 0  BY <1>0
    <2>. QED  BY <2>1, <2>2, SubSeqProperties
  <1>6. b \in Seq(S) /\ Len(b) = n - k /\ \A i \in 1..n - k : b[i] = s[k + i]
    <2>1. \A i \in k + 1..n : s[i] \in S  BY <1>0
    <2>2. k + 1 \in Int /\ n \in Int /\ n - (k + 1) + 1 = n - k /\ n - k >= 0  BY <1>0
    <2>3. \A i \in 1..n - k : (k + 1) + i - 1 = k + i  BY <1>0
    <2>4. k + 1 <= n \/ n - k = 0  BY <1>0
    <2>. HIDE DEF n
    <2>. QED  BY <2>1, <2>2, <2>3, <2>4, SubSeqProperties
  <1>. HIDE DEF n, a, b, I
  <1>7. /\ a \o b \in Seq(S) /\ Len(a \o b) = n - 1
        /\ \A i \in 1..n - 1 : (a \o b)[i] = IF i <= k - 1 THEN a[i] ELSE b[i - (k - 1)]
    <2>1. (k - 1) + (n - k) = n - 1  BY <1>0
    <2>. QED  BY <1>5, <1>6, <2>1, ConcatProperties
  <1>8. ASSUME NEW i \in 1..n - 1
        PROVE  (a \o b)[i] = s[IF i < k THEN i ELSE i + 1]
    <2>1. CASE i < k
      <3>1. i <= k - 1 /\ i \in 1..k - 1  BY <1>0, <2>1
      <3>. QED  BY <1>5, <1>7, <2>1, <3>1
    <2>2. CASE ~(i < k)
      <3>1. ~(i <= k - 1) /\ i - (k - 1) \in 1..n - k /\ k + (i - (k - 1)) = i + 1
        BY <1>0, <2>2
      <3>. QED  BY <1>6, <1>7, <2>2, <3>1
    <2>. QED  BY <2>1, <2>2
  <1>. QED  BY <1>4, <1>7, <1>8 DEF n

-----------------------------------------------------------------------------
LEMMA ProgressInvInit == ProgressInit => ProgressInv
  <1> SUFFICES ASSUME ProgressInit PROVE ProgressInv
    OBVIOUS
  <1>1. /\ DOMAIN reports = {} /\ Tracked = {} /\ Len(order) = 0 /\ 1..0 = {}
        /\ reports \in Seq(Report) /\ order \in Seq(Prompts) /\ time \in Nat
    BY EmptySeq DEF ProgressInit, Tracked
  <1>2. \A r : Current(r) = {}  BY <1>1 DEF Current
  <1>. QED  BY <1>1, <1>2 DEF ProgressInv, InOrder

LEMMA OrderFacts ==
    ASSUME ProgressInv
    PROVE  /\ Len(order) \in Nat /\ \A i \in 1..Len(order) : order[i] \in Tracked
           /\ \A i, j \in 1..Len(order) : i # j => order[i] # order[j]
           /\ \A r \in Tracked : r \in Prompts /\ Current(r) # {}
           /\ Len(reports) \in Nat
           /\ \A r : Current(r) \subseteq 1..Len(reports)
           /\ \A r \in Tracked : Soonest(Current(r)) \in 1..Len(reports)
  <1>1. Len(order) \in Nat /\ \A i \in 1..Len(order) : order[i] \in Tracked
    BY LenProperties DEF ProgressInv
  <1>2. \A r \in Tracked : r \in Prompts /\ Current(r) # {}  BY DEF ProgressInv
  <1>3. Len(reports) \in Nat /\ \A r : Current(r) \subseteq 1..Len(reports)
    BY CurrentPlaces DEF ProgressInv
  <1>4. \A r \in Tracked : Soonest(Current(r)) \in 1..Len(reports)
    BY <1>2, <1>3, PlaceEnds
  <1>5. ASSUME NEW i \in 1..Len(order), NEW j \in 1..Len(order), i # j
        PROVE  order[i] # order[j]
    <2>1. i < j \/ j < i  BY <1>1, <1>5
    <2>2. /\ i < j => Soonest(Current(order[i])) < Soonest(Current(order[j]))
          /\ j < i => Soonest(Current(order[j])) < Soonest(Current(order[i]))
      BY DEF ProgressInv, InOrder
    <2>3. Soonest(Current(order[i])) \in 1..Len(reports)  BY <1>1, <1>4
    <2>. QED  BY <1>3, <2>1, <2>2, <2>3
  <1>. QED  BY <1>1, <1>2, <1>3, <1>4, <1>5

\* A prompt that is complete or removed.
LEMMA PopStep ==
    ASSUME ProgressInv, NEW r \in Prompts, NEW processed \in Nat,
           NEW phase \in Phases \cup {"removed"}, processed >= Total[r],
           Pop(r), Reported(r, processed, phase), UNCHANGED time
    PROVE  ProgressInv'
  <1>. DEFINE rep == [of |-> r, processed |-> processed, phase |-> phase, at |-> time]
  <1>0. time \in Nat /\ reports \in Seq(Report)  BY DEF ProgressInv
  <1>1. rep \in Report /\ rep.of = r /\ rep.processed = processed
    BY <1>0 DEF Report
  <1>2. reports' = Append(reports, rep)  BY DEF Reported
  <1>. HIDE DEF rep
  <1>3. reports' \in Seq(Report)  BY <1>0, <1>1, <1>2, ReportMore
  <1>4. \A p \in Prompts : Current(p)' = IF p = r THEN {} ELSE Current(p)
    BY <1>0, <1>1, <1>2, CurrentAfter
  <1>5. \A p \in Tracked \ {r} : Current(p)' = Current(p) /\ EntryOf(p)' = EntryOf(p)
    BY <1>0, <1>1, <1>2, <1>4, OrderFacts, OthersStay
  <1>6. Tracked = {p \in Prompts : Current(p) # {}}  BY DEF ProgressInv
  <1>7. CASE r \in Tracked
    <2>1. PICK k \in 1..Len(order) : order[k] = r  BY <1>7 DEF ProgressInv
    <2>2. order \in Seq(Prompts)  BY DEF ProgressInv
    <2>3. /\ order' \in Seq(Prompts) /\ Len(order') = Len(order) - 1
          /\ \A i \in 1..Len(order') : order'[i] = order[IF i < k THEN i ELSE i + 1]
      <3>1. order' = RemoveFirst(order, order[k])  BY <1>7, <2>1 DEF Pop
      <3>2. \A i, j \in 1..Len(order) : i # j => order[i] # order[j]  BY OrderFacts
      <3>. QED  BY <2>2, <3>1, <3>2, TakenOut
    <2>. DEFINE n == Len(order)
                Old(i) == IF i < k THEN i ELSE i + 1
    <2>4. n \in Nat /\ k \in 1..n  BY OrderFacts
    <2>. HIDE DEF n
    <2>5. \A i \in 1..n - 1 : Old(i) \in 1..n /\ Old(i) # k  BY <2>4
    <2>6. \A i, j \in 1..n - 1 : i < j => Old(i) < Old(j)  BY <2>4
    <2>7. \A j \in 1..n : j # k => \E i \in 1..n - 1 : Old(i) = j
      <3>. SUFFICES ASSUME NEW j \in 1..n, j # k PROVE \E i \in 1..n - 1 : Old(i) = j
        OBVIOUS
      <3>1. CASE j < k
        <4>1. j \in 1..n - 1 /\ Old(j) = j  BY <2>4, <3>1
        <4>. QED  BY <4>1
      <3>2. CASE j > k
        <4>1. j - 1 \in 1..n - 1 /\ Old(j - 1) = j  BY <2>4, <3>2
        <4>. QED  BY <4>1
      <3>. QED  BY <2>4, <3>1, <3>2
    <2>. HIDE DEF Old
    <2>8. Len(order') = n - 1 /\ \A i \in 1..n - 1 : order'[i] = order[Old(i)]
      BY <2>3 DEF n, Old
    <2>9. /\ \A i \in 1..n : order[i] \in Tracked /\ (i # k => order[i] # r)
          /\ \A p \in Tracked : \E i \in 1..n : order[i] = p
      BY <2>1, OrderFacts DEF n, ProgressInv
    <2>10. progress' = [p \in Tracked \ {r} |-> progress[p]] /\ Tracked' = Tracked \ {r}
      BY <1>7 DEF Pop, Tracked
    <2>11. {order'[i] : i \in 1..Len(order')} = Tracked'
      <3>1. \A i \in 1..n - 1 : order'[i] \in Tracked'  BY <2>5, <2>8, <2>9, <2>10
      <3>2. \A p \in Tracked' : \E i \in 1..n - 1 : order'[i] = p
        BY <2>1, <2>7, <2>8, <2>9, <2>10
      <3>. QED  BY <2>8, <3>1, <3>2
    <2>12. InOrder'
      <3>1. ASSUME NEW i \in 1..n - 1, NEW j \in 1..n - 1, i < j
            PROVE  (Soonest(Current(order[i])) < Soonest(Current(order[j])))'
        <4>. PICK p, q : p = order'[i] /\ q = order'[j]  OBVIOUS
        <4>1. /\ order'[i] = order[Old(i)] /\ order'[j] = order[Old(j)]
              /\ Old(i) \in 1..n /\ Old(j) \in 1..n /\ Old(i) < Old(j)
              /\ p \in Tracked \ {r} /\ q \in Tracked \ {r}
          BY <2>5, <2>6, <2>8, <2>9, <3>1
        <4>2. Current(p)' = Current(order[Old(i)]) /\ Current(q)' = Current(order[Old(j)])
          BY <1>5, <4>1
        <4>3. Soonest(Current(p)') < Soonest(Current(q)')
          BY <4>1, <4>2 DEF ProgressInv, InOrder, n
        <4>. QED  BY <4>3
      <3>. QED  BY <2>8, <3>1 DEF InOrder
    <2>13. Tracked' = {p \in Prompts : Current(p)' # {}}  BY <1>4, <1>6, <2>10
    <2>14. \A p \in Tracked' : progress'[p] = EntryOf(p)'
      BY <1>5, <2>10 DEF ProgressInv
    <2>. QED  BY <1>0, <1>3, <2>3, <2>11, <2>12, <2>13, <2>14 DEF ProgressInv
  <1>8. CASE r \notin Tracked
    <2>1. UNCHANGED <<progress, order>>  BY <1>8 DEF Pop
    <2>2. \A p \in Prompts : Current(p)' = Current(p)  BY <1>4, <1>6, <1>8
    <2>3. Tracked' = Tracked /\ Tracked = {p \in Prompts : Current(p)' # {}}
      BY <1>6, <2>1, <2>2 DEF Tracked
    <2>4. InOrder'
      <3>1. \A i \in 1..Len(order) : Current(order[i])' = Current(order[i])
        BY <1>8, <2>1, <2>2, OrderFacts
      <3>. QED  BY <2>1, <3>1 DEF InOrder, ProgressInv
    <2>5. \A p \in Tracked : progress'[p] = EntryOf(p)'
      BY <1>5, <1>8, <2>1 DEF ProgressInv
    <2>. QED  BY <1>0, <1>3, <2>1, <2>3, <2>4, <2>5 DEF ProgressInv
  <1>. QED  BY <1>7, <1>8

\* A prompt that goes on, or begins.
LEMMA GoesOnStep ==
    ASSUME ProgressInv, NEW r \in Prompts, NEW processed \in Nat, NEW phase \in Phases,
           ~(processed >= Total[r]), UpdateProgress(r, processed, phase)
    PROVE  ProgressInv'
  <1>. DEFINE rep == [of |-> r, processed |-> processed, phase |-> phase, at |-> time]
              n == Len(reports)
  <1>0. time \in Nat /\ reports \in Seq(Report) /\ n \in Nat  BY OrderFacts DEF ProgressInv
  <1>1. /\ rep \in Report /\ rep.of = r /\ rep.processed = processed /\ rep.phase = phase
        /\ rep.at = time
    BY <1>0 DEF Report
  <1>2. reports' = Append(reports, rep) /\ time' = time
    BY DEF UpdateProgress, Reported
  <1>. HIDE DEF rep, n
  <1>3. reports' \in Seq(Report)  BY <1>0, <1>1, <1>2, ReportMore
  <1>4. \A p \in Prompts : Current(p)' = IF p = r THEN Current(p) \cup {n + 1} ELSE Current(p)
    BY <1>0, <1>1, <1>2, CurrentAfter DEF n
  <1>5. \A p \in Tracked \ {r} : EntryOf(p)' = EntryOf(p)
    BY <1>0, <1>1, <1>2, <1>4, OrderFacts, OthersStay
  <1>6. Tracked = {p \in Prompts : Current(p) # {}}  BY DEF ProgressInv
  <1>7. /\ progress' = [p \in Tracked \cup {r} |->
                           IF p = r THEN Updated(r, processed, phase) ELSE progress[p]]
        /\ order' = IF r \in Tracked THEN order ELSE Append(order, r)
        /\ Tracked' = Tracked \cup {r}
    BY DEF UpdateProgress, Tracked
  <1>8. Tracked' = {p \in Prompts : Current(p)' # {}}
    <2>1. \A p \in Prompts : Current(p)' # {} <=> p \in Tracked \/ p = r  BY <1>4, <1>6
    <2>. QED  BY <1>6, <1>7, <2>1
  <1>9. EntryOf(r)' = Updated(r, processed, phase)
    <2>1. r \in Tracked <=> Current(r) # {}  BY <1>6
    <2>2. EntryOf(r)' =
             IF Current(r) # {} /\ EntryOf(r).phase = phase
             THEN [processed |-> processed, phase |-> phase,
                   startTime |-> EntryOf(r).startTime, lastTime |-> time,
                   speed |-> IF time > EntryOf(r).lastTime /\ processed > EntryOf(r).processed
                             THEN <<processed - EntryOf(r).processed,
                                    time - EntryOf(r).lastTime>>
                             ELSE EntryOf(r).speed]
             ELSE [processed |-> processed, phase |-> phase,
                   startTime |-> time, lastTime |-> time, speed |-> NoSpeed]
      <3>1. Current(r)' = Current(r) \cup {n + 1} /\ Len(reports) = n  BY <1>4 DEF n
      <3>. QED  BY <1>0, <1>1, <1>2, <3>1, EntryAfter
    <2>3. r \in Tracked => progress[r] = EntryOf(r)  BY DEF ProgressInv
    <2>4. CASE r \in Tracked /\ progress[r].phase = phase
      <3>1. Updated(r, processed, phase) =
              [processed |-> processed, phase |-> phase,
               startTime |-> progress[r].startTime, lastTime |-> time,
               speed |-> Speed(progress[r], processed)]
        BY <2>4 DEF Updated, Continues
      <3>. QED  BY <2>1, <2>2, <2>3, <2>4, <3>1 DEF Speed
    <2>5. CASE ~(r \in Tracked /\ progress[r].phase = phase)
      <3>1. Updated(r, processed, phase) =
              [processed |-> processed, phase |-> phase,
               startTime |-> time, lastTime |-> time, speed |-> NoSpeed]
        BY <2>5 DEF Updated, Continues
      <3>. QED  BY <2>1, <2>2, <2>3, <2>5, <3>1
    <2>. QED  BY <2>4, <2>5
  <1>10. \A p \in Tracked' : progress'[p] = EntryOf(p)'
    BY <1>5, <1>7, <1>9 DEF ProgressInv
  <1>. DEFINE Since(p) == IF Current(p) = {} THEN n + 1 ELSE Soonest(Current(p))
  <1>11. /\ \A p \in Tracked' : Soonest(Current(p)') = Since(p)
         /\ \A p \in Tracked : Since(p) = Soonest(Current(p)) /\ Since(p) < n + 1
    <2>1. \A p \in Tracked : Since(p) = Soonest(Current(p)) /\ Since(p) \in 1..n
      BY OrderFacts DEF n
    <2>2. Soonest(Current(r)') = Since(r)
      <3>1. Current(r) \subseteq 1..n  BY OrderFacts DEF n
      <3>2. Current(r)' = Current(r) \cup {n + 1}  BY <1>4
      <3>. QED  BY <1>0, <3>1, <3>2, PlaceMore
    <2>3. \A p \in Tracked \ {r} : Soonest(Current(p)') = Since(p)
      BY <1>4, <1>6, <2>1
    <2>4. \A p \in Tracked : Since(p) < n + 1  BY <1>0, <2>1
    <2>. QED  BY <1>7, <2>1, <2>2, <2>3, <2>4
  <1>. HIDE DEF Since
  <1>12. \A i, j \in 1..Len(order) : i < j => Since(order[i]) < Since(order[j])
    <2>1. \A i \in 1..Len(order) : Since(order[i]) = Soonest(Current(order[i]))
      BY <1>11, OrderFacts
    <2>. QED  BY <2>1 DEF ProgressInv, InOrder
  <1>13. CASE r \in Tracked
    <2>1. order' = order /\ Tracked' = Tracked  BY <1>7, <1>13
    <2>2. InOrder'
      <3>1. ASSUME NEW i \in 1..Len(order), NEW j \in 1..Len(order), i < j
            PROVE  (Soonest(Current(order[i])) < Soonest(Current(order[j])))'
        <4>. PICK p, q : p = order[i] /\ q = order[j]  OBVIOUS
        <4>1. p \in Tracked /\ q \in Tracked  BY OrderFacts
        <4>2. Soonest(Current(p)') < Soonest(Current(q)')
          BY <1>11, <1>12, <2>1, <3>1, <4>1
        <4>. QED  BY <2>1, <4>2
      <3>. QED  BY <2>1, <3>1 DEF InOrder
    <2>. QED  BY <1>0, <1>2, <1>3, <1>8, <1>10, <2>1, <2>2 DEF ProgressInv
  <1>14. CASE r \notin Tracked
    <2>. DEFINE k == Len(order)
    <2>0. k \in Nat /\ \A i \in 1..k : order[i] \in Tracked  BY OrderFacts
    <2>1. /\ order' \in Seq(Prompts) /\ Len(order') = k + 1 /\ order'[k + 1] = r
          /\ \A i \in 1..k : order'[i] = order[i]
      BY <1>7, <1>14, AppendProperties DEF ProgressInv
    <2>2. \A p \in Tracked : \E i \in 1..k : order[i] = p  BY DEF ProgressInv
    <2>. HIDE DEF k
    <2>3. 1..(k + 1) = (1..k) \cup {k + 1}  BY <2>0
    <2>4. {order'[i] : i \in 1..Len(order')} = Tracked'
      <3>1. \A i \in 1..(k + 1) : order'[i] \in Tracked'  BY <1>7, <2>0, <2>1, <2>3
      <3>2. \A p \in Tracked' : \E i \in 1..(k + 1) : order'[i] = p
        BY <1>7, <2>1, <2>2, <2>3
      <3>. QED  BY <2>1, <3>1, <3>2
    <2>5. InOrder'
      <3>1. ASSUME NEW i \in 1..(k + 1), NEW j \in 1..(k + 1), i < j
            PROVE  (Soonest(Current(order[i])) < Soonest(Current(order[j])))'
        <4>. PICK p, q : p = order'[i] /\ q = order'[j]  OBVIOUS
        <4>1. i \in 1..k /\ p = order[i] /\ p \in Tracked
          <5>1. i \in 1..k  BY <2>0, <3>1
          <5>. QED  BY <2>0, <2>1, <5>1
        <4>2. CASE j \in 1..k
          <5>1. q = order[j] /\ q \in Tracked  BY <2>0, <2>1, <4>2
          <5>2. Soonest(Current(p)') < Soonest(Current(q)')
            BY <1>7, <1>11, <1>12, <3>1, <4>1, <4>2, <5>1 DEF k
          <5>. QED  BY <5>2
        <4>3. CASE j = k + 1
          <5>1. q = r /\ Since(r) = n + 1  BY <1>6, <1>14, <2>1, <4>3 DEF Since
          <5>2. Soonest(Current(p)') < Soonest(Current(q)')
            BY <1>7, <1>11, <4>1, <5>1
          <5>. QED  BY <5>2
        <4>. QED  BY <2>3, <4>2, <4>3
      <3>. QED  BY <2>1, <3>1 DEF InOrder
    <2>. QED  BY <1>0, <1>2, <1>3, <1>8, <1>10, <2>1, <2>4, <2>5 DEF ProgressInv
  <1>. QED  BY <1>13, <1>14

LEMMA ProgressInvStep == ProgressInv /\ [ProgressNext]_progressVars => ProgressInv'
  <1> SUFFICES ASSUME ProgressInv, [ProgressNext]_progressVars PROVE ProgressInv'
    OBVIOUS
  <1>1. ASSUME NEW r \in Prompts, NEW processed \in 0..Total[r], NEW phase \in Phases,
               UpdateProgress(r, processed, phase)
        PROVE  ProgressInv'
    <2>0. processed \in Nat  BY ProgressAssumption
    <2>1. CASE processed >= Total[r]
      BY <1>1, <2>0, <2>1, PopStep DEF UpdateProgress
    <2>2. CASE ~(processed >= Total[r])
      BY <1>1, <2>0, <2>2, GoesOnStep
    <2>. QED  BY <2>1, <2>2
  <1>2. ASSUME NEW r \in Prompts, RemovePrompt(r) PROVE ProgressInv'
    <2>1. Total[r] \in Nat /\ Total[r] >= Total[r]  BY ProgressAssumption
    <2>. QED  BY <1>2, <2>1, PopStep DEF RemovePrompt
  <1>3. CASE ClearProgress
    <2>1. /\ DOMAIN reports' = {} /\ Tracked' = {} /\ Len(order') = 0 /\ 1..0 = {}
          /\ reports' \in Seq(Report) /\ order' \in Seq(Prompts) /\ time' \in Nat
      BY <1>3, EmptySeq DEF ClearProgress, Tracked, ProgressInv
    <2>2. \A r : Current(r)' = {}  BY <2>1 DEF Current
    <2>. QED  BY <2>1, <2>2 DEF ProgressInv, InOrder
  <1>4. CASE UNCHANGED <<progress, order, reports>> /\ time' \in Nat
    <2>1. /\ \A r : Current(r)' = Current(r) /\ EntryOf(r)' = EntryOf(r)
          /\ Tracked' = Tracked
      BY <1>4 DEF Current, EntryOf, InPhase, SpeedOf, Strides, Tracked
    <2>2. InOrder'
      <3>1. \A p : Soonest(Current(p)') = Soonest(Current(p))  BY <2>1
      <3>. QED  BY <1>4, <2>1, <3>1 DEF InOrder, ProgressInv
    <2>. QED  BY <1>4, <2>1, <2>2 DEF ProgressInv
  <1>5. CASE PassTime
    <2>1. time' \in Nat  BY <1>5 DEF PassTime, ProgressInv
    <2>. QED  BY <1>4, <1>5, <2>1 DEF PassTime
  <1>6. CASE UNCHANGED progressVars
    BY <1>4, <1>6 DEF progressVars, ProgressInv
  <1>. QED  BY <1>1, <1>2, <1>3, <1>5, <1>6 DEF ProgressNext

-----------------------------------------------------------------------------
\* The loop over the requests has a result.
Loops(f, n, M, item) ==
    /\ f = [i \in 0..n |-> f[i]] /\ f[0] = <<>>
    /\ \A i \in 1..n : f[i] = IF i \in M THEN Append(f[i - 1], item[i]) ELSE f[i - 1]

LEMMA LoopEnds == ASSUME NEW n \in Nat, NEW M, NEW item PROVE \E f : Loops(f, n, M, item)
  <1>. DEFINE Is(f, k) == Loops(f, k, M, item)
              S == {k \in Nat : \E f : Is(f, k)}
  <1>1. 0 \in S
    <2>. DEFINE g == [i \in 0..0 |-> <<>>]
    <2>1. Is(g, 0)  BY DEF Loops
    <2>. HIDE DEF g, Is
    <2>. QED  BY <2>1
  <1>2. ASSUME NEW k \in 0..n - 1, k \in S PROVE k + 1 \in S
    <2>1. PICK f : Is(f, k)  BY <1>2
    <2>. DEFINE last == IF k + 1 \in M THEN Append(f[k], item[k + 1]) ELSE f[k]
                g == [i \in 0..k + 1 |-> IF i = k + 1 THEN last ELSE f[i]]
    <2>2. /\ 1..k + 1 = (1..k) \cup {k + 1} /\ (k + 1) - 1 = k
          /\ \A i \in 1..k : i # k + 1 /\ i - 1 # k + 1 /\ i \in 0..k + 1 /\ i - 1 \in 0..k + 1
          /\ 0 \in 0..k + 1 /\ 0 # k + 1 /\ k \in 0..k + 1 /\ k # k + 1 /\ k + 1 \in 0..k + 1
      OBVIOUS
    <2>3. /\ g[0] = f[0] /\ g[k + 1] = last /\ g[k] = f[k]
          /\ \A i \in 1..k : g[i] = f[i] /\ g[i - 1] = f[i - 1]
      BY <2>2
    <2>4. g = [i \in 0..k + 1 |-> g[i]]  OBVIOUS
    <2>. HIDE DEF g
    <2>5. Is(g, k + 1)  BY <2>1, <2>2, <2>3, <2>4 DEF Loops
    <2>. HIDE DEF Is
    <2>. QED  BY <2>5
  <1>. HIDE DEF S
  <1>3. n \in S
    <2>1. n \in 0..n /\ \A i \in 0..n - 1 : i \in S => i + 1 \in S  BY <1>2
    <2>. QED  BY <1>1, <2>1, Induct
  <1>. QED  BY <1>3 DEF S

\* What it finds: those of the model, in the order of the requests.
LEMMA FoundInOrder ==
    ASSUME ProgressInv, NEW wanted
    PROVE  LET shown == GetModelProgress(wanted) IN
           /\ DOMAIN shown \subseteq Nat
           /\ {shown[i].request : i \in DOMAIN shown} = {r \in Tracked : ModelOf[r] = wanted}
           /\ \A i \in DOMAIN shown : shown[i].entry = progress[shown[i].request]
           /\ \A i, j \in DOMAIN shown : i < j =>
                \E a, b \in 1..Len(order) : /\ a < b /\ shown[i].request = order[a]
                                            /\ shown[j].request = order[b]
  <1>. DEFINE n == Len(order)
              M == {i \in 1..n : ModelOf[order[i]] = wanted}
              item == [i \in 1..n |-> [request |-> order[i], entry |-> progress[order[i]]]]
              Items == {item[i] : i \in 1..n}
              Is(f) == f = [i \in 0..n |-> IF i = 0 THEN <<>>
                                           ELSE IF ModelOf[order[i]] = wanted
                                           THEN Append(f[i - 1], [request |-> order[i],
                                                                  entry |-> progress[order[i]]])
                                           ELSE f[i - 1]]
  <1>0. n \in Nat /\ (\A i \in 1..n : order[i] \in Tracked)
        /\ \A r \in Tracked : \E i \in 1..n : order[i] = r
    BY OrderFacts DEF ProgressInv
  <1>1. \E f : Is(f)
    <2>1. PICK f : Loops(f, n, M, item)  BY <1>0, LoopEnds
    <2>2. \A i \in 1..n : (i \in M <=> ModelOf[order[i]] = wanted)
                           /\ item[i] = [request |-> order[i], entry |-> progress[order[i]]]
      OBVIOUS
    <2>3. \A i \in 0..n : i = 0 \/ i \in 1..n  BY <1>0
    <2>4. \A i \in 0..n : f[i] = IF i = 0 THEN <<>>
                                 ELSE IF ModelOf[order[i]] = wanted
                                 THEN Append(f[i - 1], [request |-> order[i],
                                                        entry |-> progress[order[i]]])
                                 ELSE f[i - 1]
      <3>1. \A i \in 1..n : i # 0  BY <1>0
      <3>. HIDE DEF M, item
      <3>. QED  BY <2>1, <2>2, <2>3, <3>1 DEF Loops
    <2>5. Is(f)  BY <2>1, <2>4 DEF Loops
    <2>. QED  BY <2>5
  <1>. DEFINE found == CHOOSE f : Is(f)
  <1>2. GetModelProgress(wanted) = found[n]  BY DEF GetModelProgress
  <1>3. Is(found)  BY <1>1
  <1>. HIDE DEF found
  <1>4. /\ found[0] = <<>>
        /\ \A k \in 1..n : found[k] = IF k \in M THEN Append(found[k - 1], item[k])
                                      ELSE found[k - 1]
    <2>1. found = [i \in 0..n |-> IF i = 0 THEN <<>>
                                  ELSE IF ModelOf[order[i]] = wanted
                                  THEN Append(found[i - 1], [request |-> order[i],
                                                             entry |-> progress[order[i]]])
                                  ELSE found[i - 1]]
      BY <1>3
    <2>2. 0 \in 0..n /\ \A k \in 1..n : k \in 0..n /\ k # 0  BY <1>0
    <2>3. \A k \in 1..n : (k \in M <=> ModelOf[order[k]] = wanted)
                           /\ item[k] = [request |-> order[k], entry |-> progress[order[k]]]
      OBVIOUS
    <2>4. found[0] = <<>>  BY <2>1, <2>2
    <2>5. \A k \in 1..n : found[k] = IF ModelOf[order[k]] = wanted
                                     THEN Append(found[k - 1], [request |-> order[k],
                                                                entry |-> progress[order[k]]])
                                     ELSE found[k - 1]
      BY <2>1, <2>2
    <2>. HIDE DEF M, item
    <2>. QED  BY <2>3, <2>4, <2>5
  <1>5. \A k \in 1..n : item[k].request = order[k] /\ item[k].entry = progress[order[k]]
                          /\ item[k] \in Items
    OBVIOUS
  <1>. DEFINE Right(q, k) ==
                /\ q \in Seq(Items)
                /\ \A i \in 1..Len(q) : \E a \in 1..k : a \in M /\ q[i] = item[a]
                /\ \A a \in 1..k : a \in M => \E i \in 1..Len(q) : q[i] = item[a]
                /\ \A i, j \in 1..Len(q) : i < j =>
                     \E a, b \in 1..k : a < b /\ q[i] = item[a] /\ q[j] = item[b]
              T == {k \in Nat : Right(found[k], k)}
  <1>6. 0 \in T
    <2>1. found[0] \in Seq(Items) /\ Len(found[0]) = 0 /\ 1..0 = {}
      <3>. HIDE DEF Items
      <3>. QED  BY <1>4, EmptySeq
    <2>. HIDE DEF M, item, Items
    <2>. QED  BY <2>1
  <1>7. ASSUME NEW k \in 0..n - 1, k \in T PROVE k + 1 \in T
    <2>. HIDE DEF M, item, Items
    <2>. PICK m \in Nat : m = k + 1  OBVIOUS
    <2>. DEFINE old == found[k]
                new == found[m]
    <2>0. m \in 1..n /\ m - 1 = k /\ k \in Nat /\ Right(old, k) /\ 1..m = (1..k) \cup {m} /\ m \notin 1..k
          /\ \A a \in 1..k : a < m
      <3>1. k \in Nat /\ k <= n - 1 /\ n \in Nat  BY <1>0
      <3>2. m \in 1..n /\ m - 1 = k /\ m \notin 1..k /\ \A a \in 1..k : a < m  BY <3>1
      <3>3. 1..m = (1..k) \cup {m}  BY <3>1
      <3>4. Right(old, k)  BY <1>7
      <3>. HIDE DEF Right, old
      <3>. QED  BY <3>1, <3>2, <3>3, <3>4
    <2>1. new = IF m \in M THEN Append(old, item[m]) ELSE old  BY <1>4, <2>0
    <2>2. CASE m \notin M
      <3>1. new = old  BY <2>1, <2>2
      <3>. HIDE DEF new, old
      <3>2. Right(new, m)
        <4>1. Right(old, k)  BY <2>0
        <4>2. \A i \in 1..Len(new) : \E a \in 1..m : a \in M /\ new[i] = item[a]
          BY <2>0, <3>1, <4>1
        <4>3. \A a \in 1..m : a \in M => \E i \in 1..Len(new) : new[i] = item[a]
          BY <2>0, <2>2, <3>1, <4>1
        <4>4. \A i, j \in 1..Len(new) : i < j =>
                 \E a, b \in 1..m : a < b /\ new[i] = item[a] /\ new[j] = item[b]
          BY <2>0, <3>1, <4>1
        <4>5. new \in Seq(Items)  BY <3>1, <4>1
        <4>. QED  BY <4>2, <4>3, <4>4, <4>5
      <3>. QED  BY <3>2 DEF new
    <2>3. CASE m \in M
      <3>. DEFINE l == Len(old)
      <3>1. /\ l \in Nat /\ new \in Seq(Items) /\ Len(new) = l + 1 /\ new[l + 1] = item[m]
            /\ \A i \in 1..l : new[i] = old[i]
        BY <1>5, <2>0, <2>1, <2>3, AppendProperties, LenProperties
      <3>. HIDE DEF new, l
      <3>2. 1..(l + 1) = (1..l) \cup {l + 1} /\ \A i \in 1..(l + 1) : ~(l + 1 < i)  BY <3>1
      <3>3. \A i \in 1..l : \E a \in 1..k : a \in M /\ old[i] = item[a]
        BY <2>0 DEF l
      <3>4. \A i \in 1..(l + 1) : \E a \in 1..m : a \in M /\ new[i] = item[a]
        <4>1. ASSUME NEW i \in 1..l PROVE \E a \in 1..m : a \in M /\ new[i] = item[a]
          BY <2>0, <3>1, <3>3
        <4>2. m \in 1..m /\ m \in M /\ new[l + 1] = item[m]  BY <2>0, <2>3, <3>1
        <4>. QED  BY <3>2, <4>1, <4>2
      <3>5. \A a \in 1..m : a \in M => \E i \in 1..(l + 1) : new[i] = item[a]
        BY <2>0, <3>1, <3>2 DEF l
      <3>6. ASSUME NEW i \in 1..(l + 1), NEW j \in 1..(l + 1), i < j
            PROVE  \E a, b \in 1..m : a < b /\ new[i] = item[a] /\ new[j] = item[b]
        <4>1. i \in 1..l  BY <3>1, <3>6
        <4>2. CASE j \in 1..l
          <5>1. \E a, b \in 1..k : a < b /\ old[i] = item[a] /\ old[j] = item[b]
            BY <2>0, <3>6, <4>1, <4>2 DEF l
          <5>. QED  BY <2>0, <3>1, <4>1, <4>2, <5>1
        <4>3. CASE j = l + 1
          <5>1. PICK a \in 1..k : old[i] = item[a]  BY <3>3, <4>1
          <5>2. a \in 1..m /\ m \in 1..m /\ a < m /\ new[i] = item[a] /\ new[j] = item[m]
            BY <2>0, <3>1, <4>1, <4>3, <5>1
          <5>. QED  BY <5>2
        <4>. QED  BY <3>2, <4>2, <4>3
      <3>7. Right(new, m)
        <4>1. new \in Seq(Items)  BY <3>1
        <4>2. \A i \in 1..Len(new) : \E a \in 1..m : a \in M /\ new[i] = item[a]
          BY <3>1, <3>4
        <4>3. \A a \in 1..m : a \in M => \E i \in 1..Len(new) : new[i] = item[a]
          BY <3>1, <3>5
        <4>4. \A i, j \in 1..Len(new) : i < j =>
                 \E a, b \in 1..m : a < b /\ new[i] = item[a] /\ new[j] = item[b]
          <5>1. \A i \in 1..Len(new) : i \in 1..l + 1  BY <3>1
          <5>. HIDE DEF new
          <5>. QED  BY <3>6, <5>1
        <4>. QED  BY <4>1, <4>2, <4>3, <4>4
      <3>. QED  BY <3>7 DEF new
    <2>. QED  BY <2>2, <2>3
  <1>. HIDE DEF T, M, item, Items, Is
  <1>8. n \in T
    <2>1. n \in 0..n /\ \A k \in 0..n - 1 : k \in T => k + 1 \in T  BY <1>0, <1>7
    <2>. HIDE DEF n
    <2>. QED  BY <1>0, <1>6, <2>1, Induct
  <1>. PICK shown : shown = found[n]  OBVIOUS
  <1>9. Right(shown, n) /\ shown = GetModelProgress(wanted)
    <2>1. Right(found[n], n)
      <3>. HIDE DEF Right
      <3>. QED  BY <1>8 DEF T
    <2>. HIDE DEF Right
    <2>. QED  BY <1>2, <2>1
  <1>10. DOMAIN shown = 1..Len(shown) /\ Len(shown) \in Nat  BY <1>9, LenProperties
  <1>11. \A i \in DOMAIN shown : \E a \in 1..n : a \in M /\ shown[i] = item[a]
    BY <1>9, <1>10
  <1>12. {shown[i].request : i \in DOMAIN shown} = {r \in Tracked : ModelOf[r] = wanted}
    <2>1. \A a \in M : a \in 1..n /\ ModelOf[order[a]] = wanted  BY DEF M
    <2>2. \A i \in DOMAIN shown : shown[i].request \in {r \in Tracked : ModelOf[r] = wanted}
      BY <1>0, <1>5, <1>11, <2>1
    <2>3. ASSUME NEW r \in Tracked, ModelOf[r] = wanted
          PROVE  \E i \in DOMAIN shown : shown[i].request = r
      <3>1. PICK a \in 1..n : order[a] = r  BY <1>0
      <3>2. a \in M  BY <2>3, <3>1 DEF M
      <3>3. \E i \in 1..Len(shown) : shown[i] = item[a]  BY <1>9, <3>2
      <3>. QED  BY <1>5, <1>10, <3>1, <3>3
    <2>. QED  BY <2>2, <2>3
  <1>13. \A i \in DOMAIN shown : shown[i].entry = progress[shown[i].request]
    BY <1>5, <1>11
  <1>14. \A i, j \in DOMAIN shown : i < j =>
            \E a, b \in 1..n : a < b /\ shown[i].request = order[a] /\ shown[j].request = order[b]
    <2>1. \A i, j \in DOMAIN shown : i < j =>
             \E a, b \in 1..n : a < b /\ shown[i] = item[a] /\ shown[j] = item[b]
      <3>1. \A i, j \in 1..Len(shown) : i < j =>
               \E a, b \in 1..n : a < b /\ shown[i] = item[a] /\ shown[j] = item[b]
        BY <1>9
      <3>. QED  BY <1>10, <3>1
    <2>. QED  BY <1>5, <2>1
  <1>15. DOMAIN shown \subseteq Nat  BY <1>10
  <1>. QED  BY <1>9, <1>12, <1>13, <1>14, <1>15

\* The dashboard shows what runs (prefill_progress.go): for any number of prompts,
\* models, phases and reports, complete, removed and begun anew in any order.
THEOREM DashboardSound == ProgressSpec => []ShowsWhatRuns
  <1>1. ProgressInv => ShowsWhatRuns
    <2> SUFFICES ASSUME ProgressInv PROVE ShowsWhatRuns
      OBVIOUS
    <2>1. \A r \in Prompts : (r \in Tracked) = (Current(r) # {})  BY DEF ProgressInv
    <2>2. ASSUME NEW wanted
          PROVE  LET shown == GetModelProgress(wanted) IN
                 /\ {shown[i].request : i \in DOMAIN shown} = {r \in Tracked : ModelOf[r] = wanted}
                 /\ \A i, j \in DOMAIN shown : i < j =>
                      Soonest(Current(shown[i].request)) < Soonest(Current(shown[j].request))
                 /\ \A i \in DOMAIN shown :
                      LET entry == shown[i].entry
                          phase == InPhase(shown[i].request)
                      IN /\ entry.startTime = reports[Soonest(phase)].at
                         /\ entry.processed = reports[Latest(phase)].processed
                         /\ entry.speed = SpeedOf(phase)
      <3>. DEFINE shown == GetModelProgress(wanted)
      <3>1. /\ {shown[i].request : i \in DOMAIN shown} = {r \in Tracked : ModelOf[r] = wanted}
            /\ \A i \in DOMAIN shown : shown[i].entry = progress[shown[i].request]
            /\ \A i, j \in DOMAIN shown : i < j =>
                 \E a, b \in 1..Len(order) : /\ a < b /\ shown[i].request = order[a]
                                             /\ shown[j].request = order[b]
        BY FoundInOrder
      <3>. HIDE DEF shown
      <3>2. \A i, j \in DOMAIN shown : i < j =>
               Soonest(Current(shown[i].request)) < Soonest(Current(shown[j].request))
        BY <3>1 DEF ProgressInv, InOrder
      <3>3. ASSUME NEW i \in DOMAIN shown
            PROVE  shown[i].entry = EntryOf(shown[i].request)
        <4>1. shown[i].request \in Tracked  BY <3>1
        <4>. QED  BY <3>1, <4>1 DEF ProgressInv
      <3>4. \A r : LET phase == InPhase(r) IN
                   /\ EntryOf(r).startTime = reports[Soonest(phase)].at
                   /\ EntryOf(r).processed = reports[Latest(phase)].processed
                   /\ EntryOf(r).speed = SpeedOf(phase)
        BY DEF EntryOf
      <3>. QED  BY <3>1, <3>2, <3>3, <3>4 DEF shown
    <2>. QED  BY <2>1, <2>2 DEF ShowsWhatRuns
  <1>. QED  BY <1>1, ProgressInvInit, ProgressInvStep, PTL DEF ProgressSpec

-----------------------------------------------------------------------------
(* CacheWindow: for every layout, step and growth of the buffer.            *)

-----------------------------------------------------------------------------
(* What the operators on the buffer give, slot by slot.                    *)

LEMMA FirstNIs ==
    ASSUME NEW s \in Seq(Nat), NEW n \in 0..Len(s)
    PROVE  /\ FirstN(s, n) \in Seq(Nat) /\ Len(FirstN(s, n)) = n
           /\ \A i \in 1..n : FirstN(s, n)[i] = s[i]
  <1>1. Len(s) \in Nat /\ n \in Nat /\ n <= Len(s) /\ \A i \in 1..Len(s) : s[i] \in Nat
    BY LenProperties, ElementOfSeq
  <1>2. 1 \in Int /\ n \in Int /\ \A i \in 1..n : s[i] \in Nat /\ 1 + i - 1 = i  BY <1>1
  <1>3. n - 1 + 1 = n /\ (1 <= n \/ n = 0)  BY <1>1
  <1>. QED  BY <1>2, <1>3, SubSeqProperties DEF FirstN

LEMMA PastNIs ==
    ASSUME NEW s \in Seq(Nat), NEW n \in 0..Len(s)
    PROVE  /\ PastN(s, n) \in Seq(Nat) /\ Len(PastN(s, n)) = Len(s) - n
           /\ \A i \in 1..Len(s) - n : PastN(s, n)[i] = s[n + i]
  <1>. DEFINE l == Len(s)
  <1>1. l \in Nat /\ n \in Nat /\ n <= l /\ \A i \in 1..l : s[i] \in Nat
    BY LenProperties, ElementOfSeq
  <1>. HIDE DEF l
  <1>2. n + 1 \in Int /\ l \in Int /\ \A i \in n + 1..l : s[i] \in Nat  BY <1>1
  <1>3. l - (n + 1) + 1 = l - n /\ (n + 1 <= l \/ l - n = 0)
        /\ \A i \in 1..l - n : (n + 1) + i - 1 = n + i
    BY <1>1
  <1>4. LET t == SubSeq(s, n + 1, l) IN
        /\ t \in Seq(Nat) /\ Len(t) = IF n + 1 <= l THEN l - (n + 1) + 1 ELSE 0
        /\ \A i \in 1..l - (n + 1) + 1 : t[i] = s[(n + 1) + i - 1]
    BY <1>2, SubSeqProperties
  <1>. QED  BY <1>3, <1>4 DEF PastN, l

LEMMA ZerosIs ==
    ASSUME NEW n \in Nat
    PROVE  Zeros(n) \in Seq(Nat) /\ Len(Zeros(n)) = n
  BY IsASeq DEF Zeros

LEMMA WrittenIs ==
    ASSUME NEW s \in Seq(Nat), NEW new \in Seq(Nat), NEW begin \in Nat,
           begin + Len(new) <= Len(s)
    PROVE  LET t == Written(s, begin, new) IN
           /\ t \in Seq(Nat) /\ Len(t) = Len(s)
           /\ \A i \in 1..Len(s) : t[i] = IF begin < i /\ i <= begin + Len(new)
                                          THEN new[i - begin] ELSE s[i]
  <1>. DEFINE l == Len(s)
              n == Len(new)
              t == [i \in 1..l |-> IF i \in (begin + 1)..(begin + n) THEN new[i - begin] ELSE s[i]]
  <1>1. l \in Nat /\ n \in Nat /\ DOMAIN s = 1..l /\ begin + n <= l
    BY LenProperties
  <1>2. (\A i \in 1..l : s[i] \in Nat) /\ \A i \in 1..n : new[i] \in Nat  BY ElementOfSeq
  <1>3. Written(s, begin, new) = t  BY <1>1 DEF Written
  <1>. HIDE DEF l, n
  <1>4. \A i \in 1..l : (i \in (begin + 1)..(begin + n)) <=> (begin < i /\ i <= begin + n)
    BY <1>1
  <1>5. \A i \in 1..l : i \in (begin + 1)..(begin + n) => i - begin \in 1..n
    BY <1>1
  <1>6. t \in [1..l -> Nat]  BY <1>2, <1>5
  <1>7. t \in Seq(Nat) /\ Len(t) = l  BY <1>1, <1>6, IsASeq, LenProperties
  <1>8. \A i \in 1..l : t[i] = IF begin < i /\ i <= begin + n THEN new[i - begin] ELSE s[i]
    BY <1>4
  <1>. HIDE DEF t
  <1>. QED  BY <1>3, <1>7, <1>8 DEF l, n

LEMMA JoinedIs ==
    ASSUME NEW s \in Seq(Nat), NEW t \in Seq(Nat)
    PROVE  /\ s \o t \in Seq(Nat) /\ Len(s \o t) = Len(s) + Len(t)
           /\ \A i \in 1..Len(s) + Len(t) :
                (s \o t)[i] = IF i <= Len(s) THEN s[i] ELSE t[i - Len(s)]
  BY ConcatProperties

LEMMA DroppedIs ==
    ASSUME Keep \in Nat, NEW s \in Seq(Nat), NEW n \in Nat, Keep + n <= Len(s)
    PROVE  LET t == Dropped(s, n) IN
           /\ t \in Seq(Nat) /\ Len(t) = Len(s) - n
           /\ \A i \in 1..Len(s) - n : t[i] = s[IF i <= Keep THEN i ELSE i + n]
  <1>. DEFINE l == Len(s)
              a == FirstN(s, Keep)
              b == PastN(s, Keep + n)
  <1>1. l \in Nat /\ Keep + n \in Nat /\ Keep + n <= l /\ Keep <= l  BY LenProperties
  <1>. HIDE DEF l
  <1>2. Keep \in 0..l /\ Keep + n \in 0..l  BY <1>1
  <1>3. a \in Seq(Nat) /\ Len(a) = Keep /\ \A i \in 1..Keep : a[i] = s[i]
    BY <1>2, FirstNIs DEF l
  <1>4. /\ b \in Seq(Nat) /\ Len(b) = l - (Keep + n)
        /\ \A i \in 1..l - (Keep + n) : b[i] = s[(Keep + n) + i]
    BY <1>2, PastNIs DEF l
  <1>. HIDE DEF a, b
  <1>5. CASE n = 0
    <2>1. Dropped(s, n) = s  BY <1>5 DEF Dropped
    <2>2. l - n = l /\ \A i \in 1..l : i + n = i  BY <1>1, <1>5
    <2>. QED  BY <2>1, <2>2 DEF l
  <1>6. CASE n # 0
    <2>1. Dropped(s, n) = a \o b  BY <1>6 DEF Dropped, a, b
    <2>2. Keep + (l - (Keep + n)) = l - n  BY <1>1
    <2>3. /\ a \o b \in Seq(Nat) /\ Len(a \o b) = l - n
          /\ \A i \in 1..l - n : (a \o b)[i] = IF i <= Keep THEN a[i] ELSE b[i - Keep]
      <3>1. /\ a \o b \in Seq(Nat) /\ Len(a \o b) = Len(a) + Len(b)
            /\ \A i \in 1..Len(a) + Len(b) :
                 (a \o b)[i] = IF i <= Len(a) THEN a[i] ELSE b[i - Len(a)]
        BY <1>3, <1>4, JoinedIs
      <3>2. Len(a) = Keep /\ Len(a) + Len(b) = l - n  BY <1>3, <1>4, <2>2
      <3>. QED  BY <3>1, <3>2
    <2>4. ASSUME NEW i \in 1..l - n
          PROVE  (a \o b)[i] = s[IF i <= Keep THEN i ELSE i + n]
      <3>1. CASE i <= Keep
        <4>1. i \in 1..Keep  BY <1>1, <3>1
        <4>. QED  BY <1>3, <2>3, <3>1, <4>1
      <3>2. CASE ~(i <= Keep)
        <4>1. i - Keep \in 1..l - (Keep + n) /\ (Keep + n) + (i - Keep) = i + n
          BY <1>1, <3>2
        <4>. QED  BY <1>4, <2>3, <3>2, <4>1
      <3>. QED  BY <3>1, <3>2
    <2>. QED  BY <2>1, <2>3, <2>4 DEF l
  <1>. QED  BY <1>5, <1>6

-----------------------------------------------------------------------------
(* The invariant: what the buffer holds in each layout, and in each phase of *)
(* the rotating one.                                                       *)

\* The buffer holds the tokens that are kept, and the last ones in order.
HoldsInOrder(s, t) ==
    /\ Len(s) <= Len(t)
    /\ \A i \in 1..Len(s) : s[i] = t[IF i <= Keep THEN i ELSE Len(t) - Len(s) + i]

Filling ==
    /\ cache.offset < MaxSize /\ cache.idx = cache.offset
    /\ cache.offset <= cache.capacity /\ cache.capacity <= MaxSize
    /\ \A i \in 1..cache.offset : buffer[i] = tokens[i]

Ordered ==
    /\ MaxSize <= cache.capacity /\ cache.idx = cache.capacity
    /\ HoldsInOrder(buffer, tokens)
    /\ cache.capacity = cache.offset \/ plan.end - plan.begin <= cache.capacity - MaxSize + 1

\* Which token a slot of a turned window holds.
TurnedPlace(i, offset, idx, size, keep) ==
    IF i <= keep THEN i ELSE offset - idx + i - (IF i <= idx THEN 0 ELSE size - keep)

Turned ==
    /\ cache.capacity = MaxSize /\ MaxSize < cache.offset
    /\ Keep < cache.idx /\ cache.idx <= MaxSize
    /\ plan.end - plan.begin <= 1
    /\ \A i \in 1..MaxSize :
         buffer[i] = tokens[TurnedPlace(i, cache.offset, cache.idx, MaxSize, Keep)]

WindowType ==
    /\ window \in Windows /\ latest \in Nat
    /\ cache \in [offset : Nat, idx : Nat, capacity : Nat]
    /\ plan \in [begin : Nat, end : Nat, fetch : Nat]
    /\ buffer \in Seq(Nat) /\ Len(buffer) = cache.capacity
    /\ tokens \in Seq(Nat) /\ Len(tokens) = cache.offset

WindowInv ==
    /\ WindowType
    /\ \A i \in 1..Len(tokens) : tokens[i] <= latest
    /\ \A i, j \in 1..Len(tokens) : i < j => tokens[i] < tokens[j]
    /\ plan.fetch = FetchEnd(cache)
    /\ ~Rotates => /\ cache.offset <= cache.capacity
                   /\ \A i \in 1..cache.offset : buffer[i] = tokens[i]
    /\ Rotates => Filling \/ Ordered \/ Turned

LEMMA Layout ==
    ASSUME window \in Windows, Rotates
    PROVE  MaxSize \in Nat /\ Keep \in Nat /\ Keep < MaxSize
  BY WindowAssumption DEF Rotates, MaxSize, Keep

LEMMA WindowInvInit == WindowInit => WindowInv
  <1> SUFFICES ASSUME WindowInit PROVE WindowInv
    OBVIOUS
  <1>1. /\ WindowType /\ Len(tokens) = 0 /\ 1..0 = {} /\ cache.offset = 0 /\ cache.idx = 0
        /\ cache.capacity = 0 /\ plan.fetch = 0
    BY EmptySeq DEF WindowInit, WindowType
  <1>2. Rotates => MaxSize \in Nat /\ 0 < MaxSize
    BY Layout, WindowAssumption DEF WindowInit
  <1>. QED  BY <1>1, <1>2 DEF WindowInv, FetchEnd, Filling

\* New tokens.
LEMMA TokensGrow ==
    ASSUME WindowInv, NEW n \in Nat, UpdateCache(n)
    PROVE  LET new == [i \in 1..n |-> latest + i] IN
           /\ new \in Seq(Nat) /\ Len(new) = n
           /\ tokens' = tokens \o new /\ tokens' \in Seq(Nat)
           /\ Len(tokens') = Len(tokens) + n
           /\ \A i \in 1..Len(tokens) : tokens'[i] = tokens[i]
           /\ \A i \in 1..n : tokens'[Len(tokens) + i] = new[i]
           /\ \A i \in 1..Len(tokens') : tokens'[i] <= latest'
           /\ \A i, j \in 1..Len(tokens') : i < j => tokens'[i] < tokens'[j]
           /\ latest' \in Nat /\ window' = window
  <1>. DEFINE new == [i \in 1..n |-> latest + i]
              l == Len(tokens)
  <1>1. latest \in Nat /\ tokens \in Seq(Nat) /\ l \in Nat
    BY LenProperties DEF WindowInv, WindowType
  <1>2. tokens' = tokens \o new /\ latest' = latest + n /\ window' = window
    BY DEF UpdateCache
  <1>3. new \in Seq(Nat) /\ Len(new) = n /\ \A i \in 1..n : new[i] = latest + i
    <2>1. new \in [1..n -> Nat]  BY <1>1
    <2>. HIDE DEF new
    <2>2. new \in Seq(Nat)  BY <2>1, IsASeq
    <2>. QED  BY <2>1, <2>2, LenProperties DEF new
  <1>. HIDE DEF new
  <1>4. /\ tokens' \in Seq(Nat) /\ Len(tokens') = l + n
        /\ \A i \in 1..l + n : tokens'[i] = IF i <= l THEN tokens[i] ELSE new[i - l]
    BY <1>1, <1>2, <1>3, JoinedIs
  <1>5. /\ \A i \in 1..l : tokens[i] \in Nat /\ tokens[i] <= latest
        /\ \A i, j \in 1..l : i < j => tokens[i] < tokens[j]
    BY <1>1, ElementOfSeq DEF WindowInv
  <1>. HIDE DEF l
  <1>6. \A i \in 1..(l + n) : i \in 1..l \/ (~(i <= l) /\ i - l \in 1..n)  BY <1>1
  <1>7. \A i \in 1..l : i \in 1..l + n /\ i <= l  BY <1>1
  <1>8. \A i \in 1..n : l + i \in 1..l + n /\ ~(l + i <= l) /\ l + i - l = i  BY <1>1
  <1>9. \A i \in 1..l : tokens'[i] = tokens[i]  BY <1>4, <1>7
  <1>10. ASSUME NEW i \in 1..n PROVE tokens'[l + i] = new[i]
    <2>. DEFINE j == l + i
    <2>1. j \in 1..(l + n) /\ ~(j <= l) /\ j - l = i  BY <1>1
    <2>. HIDE DEF j
    <2>2. tokens'[j] = new[i]  BY <1>4, <2>1
    <2>. QED  BY <2>2 DEF j
  <1>11. \A i \in 1..l + n : tokens'[i] = IF i <= l THEN tokens[i] ELSE latest + (i - l)
    BY <1>3, <1>4, <1>6
  <1>12. \A i \in 1..l + n : tokens'[i] <= latest'
    <2>. TAKE i \in 1..l + n
    <2>1. CASE i \in 1..l
      <3>1. tokens'[i] = tokens[i] /\ tokens[i] \in Nat /\ tokens[i] <= latest  BY <1>5, <1>9, <2>1
      <3>. QED  BY <1>1, <1>2, <3>1
    <2>2. CASE ~(i <= l) /\ i - l \in 1..n
      <3>1. tokens'[i] = latest + (i - l)  BY <1>11, <2>2
      <3>. QED  BY <1>1, <1>2, <2>2, <3>1
    <2>. QED  BY <1>6, <2>1, <2>2
  <1>13. ASSUME NEW i \in 1..l + n, NEW j \in 1..l + n, i < j PROVE tokens'[i] < tokens'[j]
    <2>1. CASE j <= l
      <3>1. i \in 1..l /\ j \in 1..l  BY <1>1, <1>13, <2>1
      <3>. QED  BY <1>5, <1>9, <1>13, <3>1
    <2>2. CASE i <= l /\ ~(j <= l)
      <3>1. i \in 1..l /\ tokens'[j] = latest + (j - l)  BY <1>6, <1>11, <2>2
      <3>2. tokens[i] \in Nat /\ tokens[i] <= latest  BY <1>5, <3>1
      <3>. QED  BY <1>1, <1>9, <2>2, <3>1, <3>2
    <2>3. CASE ~(i <= l)
      <3>1. ~(j <= l)  BY <1>1, <1>13, <2>3
      <3>. QED  BY <1>1, <1>11, <1>13, <2>3, <3>1
    <2>. QED  BY <2>1, <2>2, <2>3
  <1>14. latest' \in Nat  BY <1>1, <1>2
  <1>. QED  BY <1>2, <1>3, <1>4, <1>9, <1>10, <1>12, <1>13, <1>14 DEF l, new

\* The growing layout.
LEMMA BlockIsEnough ==
    ASSUME NEW n \in Nat PROVE Block(n) \in Nat /\ n <= Block(n)
  <1>. DEFINE q == (kvStep + n - 1) \div kvStep
              r == (kvStep + n - 1) % kvStep
  <1>1. kvStep \in Nat /\ 0 < kvStep /\ kvStep + n - 1 \in Nat  BY WindowAssumption
  <1>2. q \in Nat /\ r \in 0..kvStep - 1 /\ kvStep + n - 1 = kvStep * q + r  BY <1>1
  <1>. HIDE DEF q, r
  <1>3. kvStep * q \in Nat  BY <1>1, <1>2
  <1>. QED  BY <1>1, <1>2, <1>3 DEF Block, q

LEMMA KVGrows ==
    ASSUME WindowInv, ~Rotates, NEW n \in Nat \ {0}, UpdateCache(n)
    PROVE  WindowInv'
  <1>. DEFINE new == [i \in 1..n |-> latest + i]
              offset == cache.offset
              capacity == cache.capacity
              kept == IF Grows(cache, n) THEN Kept(cache) ELSE capacity
              size == IF Grows(cache, n) THEN kept + Block(n) ELSE capacity
              base == FirstN(buffer, kept) \o Zeros(size - kept)
  <1>1. /\ offset \in Nat /\ capacity \in Nat /\ offset <= capacity
        /\ cache = [offset |-> offset, idx |-> cache.idx, capacity |-> capacity]
        /\ cache.idx \in Nat /\ buffer \in Seq(Nat) /\ Len(buffer) = capacity
        /\ Len(tokens) = offset
    BY DEF WindowInv, WindowType
  <1>2. Block(n) \in Nat /\ n <= Block(n)  BY BlockIsEnough
  <1>3. kept \in Nat /\ offset <= kept /\ kept <= capacity  BY <1>1 DEF Kept
  <1>4. size \in Nat /\ kept <= size /\ offset + n <= size /\ size - kept \in Nat
    BY <1>1, <1>2, <1>3 DEF Grows
  <1>5. /\ cache' = [offset |-> offset + n, idx |-> cache.idx, capacity |-> size]
        /\ plan' = [begin |-> offset, end |-> offset + n, fetch |-> offset + n]
        /\ buffer' = Written(base, offset, new)
    <2>1. UpdateKV(cache, new) /\ Len(new) = n  BY TokensGrow DEF UpdateCache
    <2>. HIDE DEF new
    <2>2. cache' = [cache EXCEPT !.offset = @ + n, !.capacity = size]
      BY <2>1 DEF UpdateKV
    <2>3. cache' = [offset |-> offset + n, idx |-> cache.idx, capacity |-> size]
      BY <1>1, <2>2
    <2>4. plan' = Planned(cache', offset, cache'.offset) /\ buffer' = Written(base, offset, new)
      <3>. DEFINE next == [cache EXCEPT !.offset = @ + n, !.capacity = size]
      <3>1. next.offset = cache'.offset /\ next.capacity = size  BY <2>2, <2>3
      <3>. QED  BY <2>1, <2>2, <3>1 DEF UpdateKV
    <2>. QED  BY <2>3, <2>4 DEF Planned, FetchEnd
  <1>. HIDE DEF kept, size, new
  <1>6. base \in Seq(Nat) /\ Len(base) = size /\ \A i \in 1..offset : base[i] = buffer[i]
    <2>. DEFINE a == FirstN(buffer, kept)
    <2>1. a \in Seq(Nat) /\ Len(a) = kept /\ \A i \in 1..kept : a[i] = buffer[i]
      BY <1>1, <1>3, FirstNIs
    <2>2. Zeros(size - kept) \in Seq(Nat) /\ Len(Zeros(size - kept)) = size - kept
      BY <1>4, ZerosIs
    <2>. HIDE DEF a
    <2>3. /\ a \o Zeros(size - kept) \in Seq(Nat)
          /\ Len(a \o Zeros(size - kept)) = kept + (size - kept)
          /\ \A i \in 1..kept + (size - kept) : i <= kept => (a \o Zeros(size - kept))[i] = a[i]
      BY <2>1, <2>2, JoinedIs
    <2>4. kept + (size - kept) = size /\ \A i \in 1..offset : i \in 1..kept /\ i <= kept /\ i \in 1..size
      BY <1>1, <1>3, <1>4
    <2>. QED  BY <2>1, <2>3, <2>4 DEF a
  <1>. HIDE DEF base
  <1>7. /\ new \in Seq(Nat) /\ Len(new) = n /\ tokens' \in Seq(Nat)
        /\ Len(tokens') = offset + n /\ latest' \in Nat /\ window' = window
        /\ \A i \in 1..offset : tokens'[i] = tokens[i]
        /\ \A i \in 1..n : tokens'[offset + i] = new[i]
        /\ \A i \in 1..Len(tokens') : tokens'[i] <= latest'
        /\ \A i, j \in 1..Len(tokens') : i < j => tokens'[i] < tokens'[j]
    BY <1>1, TokensGrow DEF new
  <1>8. /\ buffer' \in Seq(Nat) /\ Len(buffer') = size
        /\ \A i \in 1..size : buffer'[i] = IF offset < i /\ i <= offset + n
                                           THEN new[i - offset] ELSE base[i]
    <2>. HIDE DEF offset
    <2>1. offset \in Nat /\ offset + Len(new) <= Len(base)  BY <1>1, <1>4, <1>6, <1>7
    <2>2. LET t == Written(base, offset, new) IN
          /\ t \in Seq(Nat) /\ Len(t) = Len(base)
          /\ \A i \in 1..Len(base) : t[i] = IF offset < i /\ i <= offset + Len(new)
                                            THEN new[i - offset] ELSE base[i]
      BY <1>6, <1>7, <2>1, WrittenIs
    <2>. QED  BY <1>5, <1>6, <1>7, <2>2
  <1>. HIDE DEF offset, capacity
  <1>9. ASSUME NEW i \in 1..offset + n PROVE buffer'[i] = tokens'[i]
    <2>1. i \in 1..size  BY <1>1, <1>4
    <2>2. CASE i <= offset
      <3>1. i \in 1..offset /\ ~(offset < i)  BY <1>1, <2>2
      <3>2. buffer[i] = tokens[i]  BY <3>1 DEF WindowInv, offset
      <3>. QED  BY <1>6, <1>7, <1>8, <2>1, <3>1, <3>2
    <2>3. CASE ~(i <= offset)
      <3>1. PICK k \in 1..n : i = offset + k
        <4>1. i - offset \in 1..n /\ i = offset + (i - offset)  BY <1>1, <2>3
        <4>. QED  BY <4>1
      <3>2. offset < i /\ i <= offset + n /\ i - offset = k  BY <1>1, <3>1
      <3>3. buffer'[i] = new[k]  BY <1>8, <2>1, <3>2
      <3>. QED  BY <1>7, <3>1, <3>3
    <2>. QED  BY <2>2, <2>3
  <1>10. /\ cache'.offset = offset + n /\ cache'.capacity = size /\ plan'.fetch = offset + n
         /\ ~Rotates' /\ FetchEnd(cache)' = offset + n
    BY <1>5, <1>7 DEF Rotates, FetchEnd
  <1>11. WindowType'
    BY <1>1, <1>4, <1>5, <1>7, <1>8 DEF WindowType, WindowInv
  <1>. QED  BY <1>4, <1>7, <1>9, <1>10, <1>11 DEF WindowInv

-----------------------------------------------------------------------------
\* The rotating layout: what a step of one token leaves, from the slot it goes to.
LEMMA InPlaceLeaves ==
    ASSUME WindowInv, Rotates, UpdateCache(1), NEW base \in Seq(Nat), NEW slot \in Nat,
           slot < Len(base), buffer' = Written(base, slot, [i \in 1..1 |-> latest + i]),
           cache' = [offset |-> cache.offset + 1, idx |-> slot + 1, capacity |-> Len(base)],
           plan' = Planned(cache', slot, slot + 1),
           (Filling \/ Ordered \/ Turned)'
    PROVE  WindowInv'
  <1>. DEFINE new == [i \in 1..1 |-> latest + i]
  <1>1. /\ new \in Seq(Nat) /\ Len(new) = 1 /\ tokens' \in Seq(Nat)
        /\ Len(tokens') = cache.offset + 1 /\ latest' \in Nat /\ window' = window
        /\ \A i \in 1..Len(tokens') : tokens'[i] <= latest'
        /\ \A i, j \in 1..Len(tokens') : i < j => tokens'[i] < tokens'[j]
    BY TokensGrow DEF WindowInv, WindowType
  <1>. HIDE DEF new
  <1>2. Len(base) \in Nat /\ slot + Len(new) <= Len(base)  BY <1>1, LenProperties
  <1>3. buffer' \in Seq(Nat) /\ Len(buffer') = Len(base)
    BY <1>1, <1>2, WrittenIs DEF new
  <1>4. Rotates' /\ MaxSize' = MaxSize /\ MaxSize \in Nat
    BY <1>1, Layout DEF Rotates, MaxSize, WindowInv, WindowType
  <1>5. cache' \in [offset : Nat, idx : Nat, capacity : Nat] /\ cache'.offset = cache.offset + 1
        /\ cache'.capacity = Len(base)
    BY <1>2 DEF WindowInv, WindowType
  <1>6. plan'.fetch = FetchEnd(cache') /\ plan' \in [begin : Nat, end : Nat, fetch : Nat]
        /\ FetchEnd(cache)' = FetchEnd(cache')
    <2>1. FetchEnd(cache') \in Nat  BY <1>4, <1>5 DEF FetchEnd
    <2>2. FetchEnd(cache)' = FetchEnd(cache')
      BY <1>1, <1>4 DEF FetchEnd, Rotates
    <2>. QED  BY <2>1, <2>2 DEF Planned
  <1>7. WindowType'  BY <1>1, <1>3, <1>5, <1>6 DEF WindowType, WindowInv
  <1>. QED  BY <1>1, <1>4, <1>6, <1>7 DEF WindowInv

\* The token of a step of one.
LEMMA OneToken ==
    ASSUME WindowInv, Rotates, UpdateCache(1), NEW base \in Seq(Nat), NEW slot \in Nat,
           slot < Len(base), buffer' = Written(base, slot, [i \in 1..1 |-> latest + i])
    PROVE  /\ \A i \in 1..cache.offset : tokens'[i] = tokens[i]
           /\ Len(tokens') = cache.offset + 1
           /\ Len(buffer') = Len(base)
           /\ buffer'[slot + 1] = tokens'[cache.offset + 1]
           /\ \A i \in 1..Len(base) : i # slot + 1 => buffer'[i] = base[i]
  <1>. DEFINE new == [i \in 1..1 |-> latest + i]
  <1>1. /\ new \in Seq(Nat) /\ Len(new) = 1 /\ Len(tokens') = cache.offset + 1
        /\ \A i \in 1..cache.offset : tokens'[i] = tokens[i]
        /\ \A i \in 1..1 : tokens'[cache.offset + i] = new[i]
    BY TokensGrow DEF WindowInv, WindowType
  <1>2. tokens'[cache.offset + 1] = new[1]
    <2>1. 1 \in 1..1  OBVIOUS
    <2>. HIDE DEF new
    <2>. QED  BY <1>1, <2>1
  <1>. HIDE DEF new
  <1>3. Len(base) \in Nat /\ slot + Len(new) <= Len(base)  BY <1>1, LenProperties
  <1>4. /\ Len(buffer') = Len(base)
        /\ \A i \in 1..Len(base) : buffer'[i] = IF slot < i /\ i <= slot + Len(new)
                                                THEN new[i - slot] ELSE base[i]
    BY <1>1, <1>3, WrittenIs DEF new
  <1>5. buffer'[slot + 1] = new[1]
    <2>1. slot + 1 \in 1..Len(base) /\ slot < slot + 1 /\ slot + 1 <= slot + Len(new)
          /\ slot + 1 - slot = 1
      BY <1>1, <1>3
    <2>. PICK k : k = slot + 1  OBVIOUS
    <2>2. buffer'[k] = new[k - slot] /\ k - slot = 1  BY <1>4, <2>1
    <2>. QED  BY <2>2
  <1>6. \A i \in 1..Len(base) : i # slot + 1 => ~(slot < i /\ i <= slot + Len(new))
    <2>1. Len(new) = 1  BY <1>1
    <2>2. ASSUME NEW i \in Int, i # slot + 1 PROVE ~(slot < i /\ i <= slot + 1)
      BY <2>2
    <2>. QED  BY <2>1, <2>2
  <1>. QED  BY <1>1, <1>2, <1>4, <1>5, <1>6

LEMMA InPlaceFilling ==
    ASSUME WindowInv, Rotates, UpdateCache(1), Filling
    PROVE  WindowInv'
  <1>. DEFINE new == [i \in 1..1 |-> latest + i]
              offset == cache.offset
              capacity == cache.capacity
              grows == capacity = 0 \/ (offset >= capacity /\ capacity < MaxSize)
              size == IF grows THEN capacity + Lesser(kvStep, MaxSize - offset) ELSE capacity
              over == size - MaxSize
              base == buffer \o Zeros(size - capacity)
  <1>1. /\ offset \in Nat /\ capacity \in Nat /\ cache.idx = offset /\ offset < MaxSize
        /\ offset <= capacity /\ capacity <= MaxSize /\ MaxSize \in Nat
        /\ Keep \in Nat /\ Keep < MaxSize /\ Len(tokens) = offset
        /\ cache = [offset |-> offset, idx |-> offset, capacity |-> capacity]
        /\ buffer \in Seq(Nat) /\ Len(buffer) = capacity
        /\ \A i \in 1..offset : buffer[i] = tokens[i]
    BY Layout DEF WindowInv, WindowType, Filling
  <1>2. size \in Nat /\ capacity <= size /\ offset < size /\ size <= MaxSize
        /\ size - capacity \in Nat
    BY <1>1, WindowAssumption DEF Lesser
  <1>3. /\ cache' = [offset |-> offset + 1, idx |-> offset + 1, capacity |-> size]
        /\ plan' = Planned(cache', offset, offset + 1)
        /\ buffer' = Written(base, offset, new)
    <2>1. UpdateInPlace(cache, new)  BY DEF UpdateCache
    <2>. DEFINE idx == Rotated(IF over > 0 THEN MaxSize ELSE IF grows THEN offset ELSE cache.idx)
    <2>2. idx = offset  BY <1>1, <1>2 DEF Rotated
    <2>3. Dropped(base, over) = base /\ Lesser(size, MaxSize) = size
      BY <1>1, <1>2 DEF Dropped, Lesser
    <2>. HIDE DEF new
    <2>4. /\ cache' = [offset |-> offset + 1, idx |-> idx + 1, capacity |-> Lesser(size, MaxSize)]
          /\ plan' = Planned([offset |-> offset + 1, idx |-> idx + 1,
                              capacity |-> Lesser(size, MaxSize)], idx, idx + 1)
          /\ buffer' = Written(Dropped(base, over), idx, new)
      BY <2>1 DEF UpdateInPlace
    <2>. HIDE DEF idx, base, over, size
    <2>. QED  BY <2>2, <2>3, <2>4
  <1>. HIDE DEF size, new
  <1>4. base \in Seq(Nat) /\ Len(base) = size /\ \A i \in 1..offset : base[i] = tokens[i]
    <2>1. Zeros(size - capacity) \in Seq(Nat) /\ Len(Zeros(size - capacity)) = size - capacity
      BY <1>2, ZerosIs
    <2>2. /\ base \in Seq(Nat) /\ Len(base) = capacity + (size - capacity)
          /\ \A i \in 1..capacity + (size - capacity) : i <= capacity => base[i] = buffer[i]
      BY <1>1, <2>1, JoinedIs
    <2>3. capacity + (size - capacity) = size
          /\ \A i \in 1..offset : i \in 1..size /\ i <= capacity
      BY <1>1, <1>2
    <2>. HIDE DEF base
    <2>. QED  BY <1>1, <2>2, <2>3
  <1>. HIDE DEF base, offset, capacity
  <1>5. /\ \A i \in 1..offset : tokens'[i] = tokens[i]
        /\ Len(tokens') = offset + 1 /\ Len(buffer') = size
        /\ buffer'[offset + 1] = tokens'[offset + 1]
        /\ \A i \in 1..size : i # offset + 1 => buffer'[i] = base[i]
    BY <1>1, <1>2, <1>3, <1>4, OneToken DEF new, offset
  <1>6. \A i \in 1..offset + 1 : buffer'[i] = tokens'[i]
    <2>. TAKE i \in 1..offset + 1
    <2>1. CASE i = offset + 1  BY <1>5, <2>1
    <2>2. CASE i # offset + 1
      <3>1. i \in 1..offset /\ i \in 1..size  BY <1>1, <1>2, <2>2
      <3>. QED  BY <1>4, <1>5, <2>2, <3>1
    <2>. QED  BY <2>1, <2>2
  <1>7. MaxSize' = MaxSize /\ Keep' = Keep /\ plan'.begin = offset /\ plan'.end = offset + 1
    BY <1>3, TokensGrow DEF MaxSize, Keep, Planned
  <1>8. (Filling \/ Ordered)'
    <2>1. CASE offset + 1 < MaxSize
      <3>1. Filling'  BY <1>1, <1>2, <1>3, <1>6, <1>7, <2>1 DEF Filling
      <3>. QED  BY <3>1
    <2>2. CASE offset + 1 = MaxSize
      <3>1. size = MaxSize /\ size = offset + 1 /\ size \in Nat  BY <1>1, <1>2, <2>2
      <3>2. \A i \in 1..size : buffer'[i] = tokens'[IF i <= Keep THEN i ELSE size - size + i]
        <4>1. \A i \in 1..size : size - size + i = i  BY <3>1
        <4>. QED  BY <1>6, <3>1, <4>1
      <3>3. HoldsInOrder(buffer, tokens)'
        BY <1>5, <1>7, <3>1, <3>2 DEF HoldsInOrder
      <3>4. cache'.offset = size /\ cache'.idx = size /\ cache'.capacity = size
        BY <1>3, <3>1
      <3>5. Ordered'  BY <1>7, <3>1, <3>3, <3>4 DEF Ordered
      <3>. QED  BY <3>5
    <2>. QED  BY <1>1, <2>1, <2>2
  <1>. QED
    <2>1. base \in Seq(Nat) /\ offset \in Nat /\ offset < Len(base)  BY <1>1, <1>2, <1>4
    <2>. QED  BY <1>3, <1>4, <1>8, <2>1, InPlaceLeaves DEF new, offset

LEMMA TurnedPlaces ==
    ASSUME NEW offset \in Nat, NEW idx \in Nat, NEW size \in Nat, NEW keep \in Nat,
           keep <= idx, idx < size, size <= offset, NEW i \in 1..size
    PROVE  TurnedPlace(i, offset, idx, size, keep) \in 1..offset
  BY DEF TurnedPlace

\* Where the window has turned, or does so.
LEMMA InPlaceFull ==
    ASSUME WindowInv, Rotates, UpdateCache(1), Ordered \/ Turned
    PROVE  WindowInv'
  <1>. DEFINE new == [i \in 1..1 |-> latest + i]
              offset == cache.offset
              capacity == cache.capacity
              over == capacity - MaxSize
              idx == Rotated(IF over > 0 THEN MaxSize ELSE cache.idx)
              base == Dropped(buffer \o Zeros(0), over)
  <1>0. /\ offset \in Nat /\ capacity \in Nat /\ cache.idx \in Nat
        /\ MaxSize \in Nat /\ Keep \in Nat /\ Keep < MaxSize
        /\ Len(tokens) = offset
        /\ cache = [offset |-> offset, idx |-> cache.idx, capacity |-> capacity]
        /\ buffer \in Seq(Nat) /\ Len(buffer) = capacity
    BY Layout DEF WindowInv, WindowType
  <1>9a. MaxSize <= capacity /\ capacity <= offset /\ Keep < cache.idx
         /\ (over = 0 => cache.idx <= MaxSize)
    <2>1. CASE Ordered
      <3>1. MaxSize <= capacity /\ cache.idx = capacity /\ Len(buffer) <= Len(tokens)
        BY <2>1 DEF Ordered, HoldsInOrder
      <3>. QED  BY <1>0, <3>1
    <2>2. CASE Turned
      <3>1. capacity = MaxSize /\ MaxSize < offset /\ Keep < cache.idx /\ cache.idx <= MaxSize
        BY <2>2 DEF Turned
      <3>. QED  BY <1>0, <3>1
    <2>. QED  BY <2>1, <2>2
  <1>1. /\ offset \in Nat /\ capacity \in Nat /\ cache.idx \in Nat /\ MaxSize <= capacity
        /\ capacity <= offset /\ MaxSize \in Nat /\ over \in Nat
        /\ Keep \in Nat /\ Keep < MaxSize /\ Len(tokens) = offset
        /\ cache = [offset |-> offset, idx |-> cache.idx, capacity |-> capacity]
        /\ buffer \in Seq(Nat) /\ Len(buffer) = capacity
        /\ Keep < cache.idx /\ (over = 0 => cache.idx <= MaxSize)
    BY <1>0, <1>9a
  <1>2. idx \in Nat /\ Keep <= idx /\ idx < MaxSize
        /\ idx = IF over > 0 \/ cache.idx = MaxSize THEN Keep ELSE cache.idx
    BY <1>1 DEF Rotated
  <1>3. /\ cache' = [offset |-> offset + 1, idx |-> idx + 1, capacity |-> MaxSize]
        /\ plan' = Planned(cache', idx, idx + 1)
        /\ buffer' = Written(base, idx, new)
    <2>1. UpdateInPlace(cache, new)  BY DEF UpdateCache
    <2>. DEFINE grows == capacity = 0 \/ (offset >= capacity /\ capacity < MaxSize)
                size == IF grows THEN capacity + Lesser(kvStep, MaxSize - offset) ELSE capacity
                at == Rotated(IF size - MaxSize > 0 THEN MaxSize ELSE IF grows THEN offset
                              ELSE cache.idx)
    <2>2. ~grows /\ capacity - capacity = 0 /\ Lesser(capacity, MaxSize) = MaxSize
      BY <1>1 DEF Lesser
    <2>. HIDE DEF new
    <2>3. /\ cache' = [offset |-> offset + 1, idx |-> at + 1, capacity |-> Lesser(size, MaxSize)]
          /\ plan' = Planned([offset |-> offset + 1, idx |-> at + 1,
                              capacity |-> Lesser(size, MaxSize)], at, at + 1)
          /\ buffer' = Written(Dropped(buffer \o Zeros(size - capacity), size - MaxSize), at, new)
      BY <2>1 DEF UpdateInPlace
    <2>. HIDE DEF grows
    <2>4. size = capacity /\ at = idx  BY <2>2
    <2>. HIDE DEF idx, at, size
    <2>. QED  BY <2>2, <2>3, <2>4
  <1>. HIDE DEF idx, new
  <1>4. /\ base \in Seq(Nat) /\ Len(base) = MaxSize
        /\ \A i \in 1..MaxSize : base[i] = buffer[IF i <= Keep THEN i ELSE i + over]
    <2>. DEFINE all == buffer \o Zeros(0)
    <2>1. Zeros(0) \in Seq(Nat) /\ Len(Zeros(0)) = 0  BY ZerosIs
    <2>2. all \in Seq(Nat) /\ Len(all) = capacity /\ \A i \in 1..capacity : all[i] = buffer[i]
      <3>1. /\ all \in Seq(Nat) /\ Len(all) = capacity + 0
            /\ \A i \in 1..capacity + 0 : i <= capacity => all[i] = buffer[i]
        BY <1>1, <2>1, JoinedIs
      <3>. QED  BY <1>1, <3>1
    <2>. HIDE DEF all
    <2>3. Keep + over <= Len(all) /\ Len(all) - over = MaxSize  BY <1>1, <2>2
    <2>4. /\ base \in Seq(Nat) /\ Len(base) = MaxSize
          /\ \A i \in 1..MaxSize : base[i] = all[IF i <= Keep THEN i ELSE i + over]
      <3>1. LET t == Dropped(all, over) IN
            /\ t \in Seq(Nat) /\ Len(t) = Len(all) - over
            /\ \A i \in 1..Len(all) - over : t[i] = all[IF i <= Keep THEN i ELSE i + over]
        BY <1>1, <2>2, <2>3, DroppedIs
      <3>. QED  BY <2>3, <3>1 DEF all
    <2>5. \A i \in 1..MaxSize : i \in 1..capacity /\ i + over \in 1..capacity  BY <1>1
    <2>. QED  BY <2>2, <2>4, <2>5
  <1>. HIDE DEF base, offset, capacity
  <1>5. /\ \A i \in 1..offset : tokens'[i] = tokens[i]
        /\ Len(tokens') = offset + 1 /\ Len(buffer') = MaxSize
        /\ buffer'[idx + 1] = tokens'[offset + 1]
        /\ \A i \in 1..MaxSize : i # idx + 1 => buffer'[i] = base[i]
    BY <1>2, <1>3, <1>4, OneToken DEF new, offset
  <1>6. ASSUME NEW i \in 1..MaxSize, i # idx + 1
        PROVE  buffer'[i] = tokens[TurnedPlace(i, offset, idx, MaxSize, Keep)]
    <2>1. buffer'[i] = buffer[IF i <= Keep THEN i ELSE i + over]  BY <1>4, <1>5, <1>6
    <2>2. CASE Ordered
      <3>1. \A k \in 1..capacity : buffer[k] = tokens[IF k <= Keep THEN k ELSE offset - capacity + k]
        BY <1>1, <2>2 DEF Ordered, HoldsInOrder
      <3>2. idx = Keep  BY <1>1, <1>2, <2>2 DEF Ordered, capacity
      <3>3. CASE i <= Keep
        <4>1. i \in 1..capacity  BY <1>1
        <4>. QED  BY <2>1, <3>1, <3>3, <4>1 DEF TurnedPlace
      <3>4. CASE ~(i <= Keep)
        <4>. DEFINE k == i + over
        <4>1. k \in 1..capacity /\ ~(k <= Keep)  BY <1>1, <3>4
        <4>2. offset - capacity + k = offset - idx + i - (MaxSize - Keep) /\ ~(i <= idx)
          BY <1>1, <3>2, <3>4
        <4>. HIDE DEF k
        <4>3. buffer[k] = tokens[offset - capacity + k]  BY <3>1, <4>1
        <4>4. TurnedPlace(i, offset, idx, MaxSize, Keep) = offset - idx + i - (MaxSize - Keep)
          BY <3>4, <4>2 DEF TurnedPlace
        <4>. QED  BY <2>1, <3>4, <4>2, <4>3, <4>4 DEF k
      <3>. QED  BY <3>3, <3>4
    <2>3. CASE Turned
      <3>1. buffer[i] = tokens[TurnedPlace(i, offset, cache.idx, MaxSize, Keep)]
        BY <2>3 DEF Turned, offset
      <3>2. over = 0 /\ i + over = i  BY <1>1, <2>3 DEF Turned, capacity
      <3>3. buffer'[i] = buffer[i]  BY <2>1, <3>2
      <3>4. TurnedPlace(i, offset, cache.idx, MaxSize, Keep)
              = TurnedPlace(i, offset, idx, MaxSize, Keep)
        <4>1. CASE cache.idx # MaxSize
          <5>1. idx = cache.idx  BY <1>2, <3>2, <4>1
          <5>. QED  BY <5>1
        <4>2. CASE cache.idx = MaxSize
          <5>1. idx = Keep /\ i <= cache.idx  BY <1>1, <1>2, <4>2
          <5>2. CASE i <= Keep  BY <5>2 DEF TurnedPlace
          <5>3. CASE ~(i <= Keep)
            <6>1. TurnedPlace(i, offset, cache.idx, MaxSize, Keep) = offset - cache.idx + i - 0
                  /\ TurnedPlace(i, offset, idx, MaxSize, Keep) = offset - idx + i - (MaxSize - Keep)
              BY <5>1, <5>3 DEF TurnedPlace
            <6>. QED  BY <1>1, <4>2, <5>1, <6>1
          <5>. QED  BY <5>2, <5>3
        <4>. QED  BY <4>1, <4>2
      <3>. QED  BY <3>1, <3>3, <3>4
    <2>. QED  BY <2>2, <2>3
  <1>7. MaxSize' = MaxSize /\ Keep' = Keep /\ plan'.begin = idx /\ plan'.end = idx + 1
        /\ cache'.offset = offset + 1 /\ cache'.idx = idx + 1 /\ cache'.capacity = MaxSize
    BY <1>3, TokensGrow DEF MaxSize, Keep, Planned
  <1>8. ASSUME NEW i \in 1..MaxSize
        PROVE  buffer'[i] = tokens'[TurnedPlace(i, offset + 1, idx + 1, MaxSize, Keep)]
    <2>. DEFINE k == TurnedPlace(i, offset, idx, MaxSize, Keep)
                m == TurnedPlace(i, offset + 1, idx + 1, MaxSize, Keep)
    <2>1. MaxSize <= offset /\ offset \in Nat /\ idx \in Nat /\ MaxSize \in Nat /\ Keep \in Nat
          /\ Keep <= idx /\ idx < MaxSize
      BY <1>1, <1>2
    <2>2. /\ k \in 1..offset /\ (i # idx + 1 => k = m) /\ (i = idx + 1 => m = offset + 1)
      <3>1. k \in 1..offset  BY <2>1, TurnedPlaces
      <3>2. m = IF i = idx + 1 THEN offset + 1 ELSE k
        <4>1. CASE i = idx + 1  BY <2>1, <4>1 DEF TurnedPlace
        <4>2. CASE i # idx + 1  BY <2>1, <4>2 DEF TurnedPlace
        <4>. QED  BY <4>1, <4>2
      <3>. QED  BY <3>1, <3>2
    <2>3. CASE i = idx + 1  BY <1>5, <2>2, <2>3
    <2>4. CASE i # idx + 1
      <3>1. buffer'[i] = tokens[k]  BY <1>6, <2>4
      <3>. HIDE DEF k, m
      <3>2. tokens'[k] = tokens[k]  BY <1>5, <2>2
      <3>. QED  BY <2>2, <2>4, <3>1, <3>2 DEF m
    <2>. QED  BY <2>3, <2>4
  <1>9. Turned'
    <2>1. MaxSize < offset + 1 /\ Keep < idx + 1 /\ idx + 1 <= MaxSize
          /\ (idx + 1) - idx <= 1
      BY <1>1, <1>2
    <2>. QED  BY <1>7, <1>8, <2>1 DEF Turned
  <1>. QED  BY <1>2, <1>3, <1>4, <1>9, InPlaceLeaves DEF new, offset

-----------------------------------------------------------------------------
\* The tokens of the window in their order, whatever the phase.
LEMMA OrderIs ==
    ASSUME WindowInv, Rotates
    PROVE  LET q == TemporalOrder(cache) IN
           /\ q \in Seq(Nat) /\ Len(q) = TemporalCapacity(cache) /\ HoldsInOrder(q, tokens)
           /\ Len(q) < MaxSize => Len(q) = cache.offset
           /\ MaxSize <= Len(q) => MaxSize <= cache.offset
           /\ cache.capacity = 0 => q = <<>>
  <1>. DEFINE q == TemporalOrder(cache)
              offset == cache.offset
              capacity == cache.capacity
              idx == cache.idx
  <1>1. /\ offset \in Nat /\ capacity \in Nat /\ idx \in Nat
        /\ MaxSize \in Nat /\ Keep \in Nat /\ Keep < MaxSize
        /\ Len(tokens) = offset /\ buffer \in Seq(Nat) /\ Len(buffer) = capacity
    BY Layout DEF WindowInv, WindowType
  <1>2. CASE Filling
    <2>1. /\ offset < MaxSize /\ idx = offset /\ offset <= capacity
          /\ \A i \in 1..offset : buffer[i] = tokens[i]
      BY <1>2 DEF Filling
    <2>2. q \in Seq(Nat) /\ Len(q) = offset /\ (\A i \in 1..offset : q[i] = buffer[i])
          /\ TemporalCapacity(cache) = offset
      <3>1. CASE offset = capacity
        <4>1. q = buffer /\ TemporalCapacity(cache) = capacity
          BY <2>1, <3>1 DEF TemporalOrder, TemporalCapacity
        <4>. QED  BY <1>1, <3>1, <4>1
      <3>2. CASE offset # capacity
        <4>1. q = FirstN(buffer, offset) /\ TemporalCapacity(cache) = offset
          BY <1>1, <2>1, <3>2 DEF TemporalOrder, TemporalCapacity
        <4>2. offset \in 0..Len(buffer)  BY <1>1, <2>1
        <4>. HIDE DEF q
        <4>. QED  BY <1>1, <4>1, <4>2, FirstNIs
      <3>. QED  BY <3>1, <3>2
    <2>3. capacity = 0 => q = <<>>
      <3>1. SUFFICES ASSUME capacity = 0 PROVE q = <<>>
        OBVIOUS
      <3>2. Len(q) = 0  BY <1>1, <2>1, <2>2, <3>1
      <3>. HIDE DEF q
      <3>. QED  BY <2>2, <3>2, EmptySeq
    <2>. HIDE DEF q
    <2>4. \A i \in 1..offset : offset - offset + i = i  BY <1>1
    <2>5. \A i \in 1..offset : q[i] = tokens[i]  BY <2>1, <2>2
    <2>6. HoldsInOrder(q, tokens)  BY <1>1, <2>2, <2>4, <2>5 DEF HoldsInOrder
    <2>. QED  BY <1>1, <2>1, <2>2, <2>3, <2>6 DEF q
  <1>3. CASE Ordered
    <2>1. MaxSize <= capacity /\ idx = capacity /\ HoldsInOrder(buffer, tokens)
      BY <1>3 DEF Ordered
    <2>2. q = buffer /\ TemporalCapacity(cache) = capacity /\ capacity # 0
      BY <1>1, <2>1 DEF TemporalOrder, TemporalCapacity
    <2>3. capacity <= offset  BY <1>1, <2>1 DEF HoldsInOrder
    <2>. QED  BY <1>1, <2>1, <2>2, <2>3
  <1>4. CASE Turned
    <2>1. /\ capacity = MaxSize /\ MaxSize < offset /\ Keep < idx /\ idx <= MaxSize
          /\ \A i \in 1..MaxSize : buffer[i] = tokens[TurnedPlace(i, offset, idx, MaxSize, Keep)]
      BY <1>4 DEF Turned
    <2>2. TemporalCapacity(cache) = MaxSize /\ capacity # 0
      BY <1>1, <2>1 DEF TemporalCapacity
    <2>3. q \in Seq(Nat) /\ Len(q) = MaxSize
          /\ \A i \in 1..MaxSize : q[i] = tokens[IF i <= Keep THEN i ELSE offset - MaxSize + i]
      <3>1. CASE idx = MaxSize
        <4>1. q = buffer  BY <2>1, <3>1 DEF TemporalOrder
        <4>2. ASSUME NEW i \in 1..MaxSize
              PROVE  TurnedPlace(i, offset, idx, MaxSize, Keep)
                       = IF i <= Keep THEN i ELSE offset - MaxSize + i
          BY <1>1, <3>1 DEF TurnedPlace
        <4>. HIDE DEF q
        <4>. QED  BY <1>1, <2>1, <4>1, <4>2
      <3>2. CASE idx # MaxSize
        <4>. DEFINE a == FirstN(buffer, Keep)
                    b == PastN(buffer, idx)
                    c == SubSeq(buffer, Keep + 1, idx)
        <4>1. q = (a \o b) \o c
          <5>1. idx # capacity /\ idx < offset  BY <1>1, <2>1, <3>2
          <5>. QED  BY <5>1 DEF TemporalOrder
        <4>2. idx \in 0..Len(buffer) /\ Keep \in 0..Len(buffer)  BY <1>1, <2>1
        <4>3. /\ a \in Seq(Nat) /\ Len(a) = Keep /\ \A i \in 1..Keep : a[i] = buffer[i]
          BY <1>1, <4>2, FirstNIs
        <4>4. /\ b \in Seq(Nat) /\ Len(b) = MaxSize - idx
              /\ \A i \in 1..MaxSize - idx : b[i] = buffer[idx + i]
          <5>1. capacity = MaxSize  BY <2>1
          <5>. HIDE DEF idx, capacity
          <5>. QED  BY <1>1, <4>2, <5>1, PastNIs
        <4>5. /\ c \in Seq(Nat) /\ Len(c) = idx - Keep
              /\ \A i \in 1..idx - Keep : c[i] = buffer[Keep + i]
          <5>1. \A i \in (Keep + 1)..idx : buffer[i] \in Nat
            <6>1. \A i \in (Keep + 1)..idx : i \in 1..Len(buffer)  BY <1>1, <2>1
            <6>. QED  BY <1>1, <6>1, ElementOfSeq
          <5>2. Keep + 1 \in Int /\ idx \in Int /\ Keep + 1 <= idx /\ idx - (Keep + 1) + 1 = idx - Keep
                /\ \A i \in 1..idx - Keep : (Keep + 1) + i - 1 = Keep + i
            BY <1>1, <2>1
          <5>3. /\ c \in Seq(Nat) /\ Len(c) = IF Keep + 1 <= idx THEN idx - (Keep + 1) + 1 ELSE 0
                /\ \A i \in 1..idx - (Keep + 1) + 1 : c[i] = buffer[(Keep + 1) + i - 1]
            <6>. HIDE DEF idx
            <6>. QED  BY <5>1, <5>2, SubSeqProperties
          <5>. HIDE DEF c, idx
          <5>. QED  BY <5>2, <5>3
        <4>. HIDE DEF q, a, b, c, offset, idx
        <4>6. /\ a \o b \in Seq(Nat) /\ Len(a \o b) = Keep + (MaxSize - idx)
              /\ \A i \in 1..Keep + (MaxSize - idx) :
                   (a \o b)[i] = IF i <= Keep THEN a[i] ELSE b[i - Keep]
          <5>1. /\ a \o b \in Seq(Nat) /\ Len(a \o b) = Len(a) + Len(b)
                /\ \A i \in 1..Len(a) + Len(b) :
                     (a \o b)[i] = IF i <= Len(a) THEN a[i] ELSE b[i - Len(a)]
            BY <4>3, <4>4, JoinedIs
          <5>. QED  BY <4>3, <4>4, <5>1
        <4>. DEFINE e == a \o b
                    p == Keep + (MaxSize - idx)
                    r == idx - Keep
        <4>7. /\ q \in Seq(Nat) /\ Len(q) = p + r
              /\ \A i \in 1..p + r : q[i] = IF i <= p THEN e[i] ELSE c[i - p]
          <5>1. q = e \o c /\ e \in Seq(Nat) /\ c \in Seq(Nat) /\ Len(e) = p /\ Len(c) = r
            BY <4>1, <4>5, <4>6
          <5>. HIDE DEF e, p, r
          <5>2. /\ e \o c \in Seq(Nat) /\ Len(e \o c) = Len(e) + Len(c)
                /\ \A i \in 1..Len(e) + Len(c) :
                     (e \o c)[i] = IF i <= Len(e) THEN e[i] ELSE c[i - Len(e)]
            BY <5>1, JoinedIs
          <5>. QED  BY <5>1, <5>2
        <4>8. (Keep + (MaxSize - idx)) + (idx - Keep) = MaxSize  BY <1>1
        <4>9. ASSUME NEW i \in 1..MaxSize
              PROVE  q[i] = tokens[IF i <= Keep THEN i ELSE offset - MaxSize + i]
          <5>1. CASE i <= Keep
            <6>1. i <= Keep + (MaxSize - idx) /\ i \in 1..Keep
                  /\ i \in 1..Keep + (MaxSize - idx)
              BY <1>1, <2>1, <5>1
            <6>2. q[i] = buffer[i]  BY <4>3, <4>6, <4>7, <4>8, <5>1, <6>1
            <6>3. TurnedPlace(i, offset, idx, MaxSize, Keep) = i  BY <5>1 DEF TurnedPlace
            <6>. QED  BY <2>1, <5>1, <6>2, <6>3
          <5>2. CASE ~(i <= Keep) /\ i <= Keep + (MaxSize - idx)
            <6>. DEFINE j == idx + (i - Keep)
            <6>1. i - Keep \in 1..MaxSize - idx /\ j \in 1..MaxSize /\ ~(j <= Keep)
                  /\ i \in 1..Keep + (MaxSize - idx)
                  /\ ~(j <= idx) /\ offset - idx + j - (MaxSize - Keep) = offset - MaxSize + i
              <7>1. i \in Nat /\ Keep < i /\ i <= Keep + (MaxSize - idx) /\ offset \in Nat
                    /\ idx \in Nat /\ MaxSize \in Nat /\ Keep \in Nat /\ Keep < idx
                BY <1>1, <2>1, <5>2
              <7>. QED  BY <7>1
            <6>2. q[i] = b[i - Keep]  BY <4>6, <4>7, <4>8, <5>2, <6>1
            <6>3. b[i - Keep] = buffer[j]  BY <4>4, <6>1
            <6>. HIDE DEF j
            <6>4. TurnedPlace(j, offset, idx, MaxSize, Keep) = offset - MaxSize + i
              BY <6>1 DEF TurnedPlace
            <6>. QED  BY <2>1, <5>2, <6>1, <6>2, <6>3, <6>4
          <5>3. CASE ~(i <= Keep + (MaxSize - idx))
            <6>. DEFINE k == i - (Keep + (MaxSize - idx))
                        j == Keep + k
            <6>1. k \in 1..idx - Keep /\ j \in 1..MaxSize /\ ~(j <= Keep) /\ ~(i <= Keep)
                  /\ j <= idx /\ offset - idx + j - 0 = offset - MaxSize + i
              <7>1. i \in Nat /\ i <= MaxSize /\ Keep + (MaxSize - idx) < i /\ offset \in Nat
                    /\ idx \in Nat /\ MaxSize \in Nat /\ Keep \in Nat /\ Keep < idx /\ idx <= MaxSize
                BY <1>1, <2>1, <5>3
              <7>. QED  BY <7>1
            <6>2. q[i] = c[k]  BY <4>7, <4>8, <5>3
            <6>. HIDE DEF k
            <6>3. c[k] = buffer[j]  BY <4>5, <6>1
            <6>. HIDE DEF j
            <6>4. TurnedPlace(j, offset, idx, MaxSize, Keep) = offset - MaxSize + i
              BY <6>1 DEF TurnedPlace
            <6>. QED  BY <2>1, <6>1, <6>2, <6>3, <6>4
          <5>. QED  BY <5>1, <5>2, <5>3
        <4>. QED  BY <4>7, <4>8, <4>9
      <3>. QED  BY <3>1, <3>2
    <2>. HIDE DEF q
    <2>4. HoldsInOrder(q, tokens)  BY <1>1, <2>1, <2>3 DEF HoldsInOrder
    <2>. QED  BY <1>1, <2>1, <2>2, <2>3, <2>4 DEF q
  <1>. QED  BY <1>2, <1>3, <1>4 DEF WindowInv

\* What a step of several tokens leaves.
LEMMA Concatenates ==
    ASSUME WindowInv, Rotates, NEW n \in Nat, 1 < n, UpdateCache(n)
    PROVE  WindowInv'
  <1>. DEFINE new == [i \in 1..n |-> latest + i]
              offset == cache.offset
              capacity == cache.capacity
              q == TemporalOrder(cache)
              size == Len(q)
              old == TooOld(size)
              left == IF old > 0 THEN size - old ELSE size
              front == Dropped(q, old)
  <1>1. /\ offset \in Nat /\ capacity \in Nat /\ MaxSize \in Nat /\ Keep \in Nat
        /\ Keep < MaxSize /\ Len(tokens) = offset
    BY Layout DEF WindowInv, WindowType
  <1>2. /\ q \in Seq(Nat) /\ size = TemporalCapacity(cache) /\ HoldsInOrder(q, tokens)
        /\ (size < MaxSize => size = offset) /\ (capacity = 0 => q = <<>>)
        /\ (MaxSize <= size => MaxSize <= offset)
    BY OrderIs
  <1>. HIDE DEF q
  <1>3. size \in Nat /\ size <= offset /\ (q = <<>> => size = 0)
        /\ \A i \in 1..size : q[i] = tokens[IF i <= Keep THEN i ELSE offset - size + i]
    BY <1>1, <1>2, LenProperties DEF HoldsInOrder
  <1>4. /\ cache' = [offset |-> offset + n, idx |-> left + n, capacity |-> left + n]
        /\ plan' = Planned(cache', offset, offset + n)
        /\ buffer' = front \o new
    <2>1. UpdateConcat(cache, new) /\ Len(new) = n  BY TokensGrow DEF UpdateCache
    <2>. HIDE DEF new
    <2>. DEFINE all == (IF capacity = 0 THEN 0 ELSE IF TooOld(TemporalCapacity(cache)) > 0
                        THEN TemporalCapacity(cache) - TooOld(TemporalCapacity(cache))
                        ELSE TemporalCapacity(cache)) + n
    <2>2. /\ cache' = [offset |-> offset + n, idx |-> all, capacity |-> all]
          /\ plan' = Planned([offset |-> offset + n, idx |-> all, capacity |-> all],
                             offset, offset + n)
          /\ buffer' = (IF capacity = 0 THEN <<>>
                        ELSE Dropped(q, TooOld(TemporalCapacity(cache)))) \o new
      BY <2>1 DEF UpdateConcat, q
    <2>3. all = left + n
      <3>1. CASE capacity = 0
        <4>1. size = 0 /\ ~(old > 0)  BY <1>1, <1>2, <1>3, <3>1 DEF TooOld
        <4>. QED  BY <3>1, <4>1
      <3>2. CASE capacity # 0  BY <1>2, <3>2
      <3>. QED  BY <3>1, <3>2
    <2>4. front = IF capacity = 0 THEN <<>> ELSE Dropped(q, TooOld(TemporalCapacity(cache)))
      <3>1. CASE capacity = 0
        <4>1. size = 0 /\ old <= 0  BY <1>1, <1>2, <1>3, <3>1 DEF TooOld
        <4>2. front = q  BY <4>1 DEF Dropped
        <4>. QED  BY <1>2, <3>1, <4>2
      <3>2. CASE capacity # 0  BY <1>2, <3>2
      <3>. QED  BY <3>1, <3>2
    <2>. HIDE DEF all, left, front
    <2>. QED  BY <2>2, <2>3, <2>4
  <1>5. /\ new \in Seq(Nat) /\ Len(new) = n /\ tokens' \in Seq(Nat)
        /\ Len(tokens') = offset + n /\ latest' \in Nat /\ window' = window
        /\ \A i \in 1..offset : tokens'[i] = tokens[i]
        /\ \A i \in 1..n : tokens'[offset + i] = new[i]
        /\ \A i \in 1..Len(tokens') : tokens'[i] <= latest'
        /\ \A i, j \in 1..Len(tokens') : i < j => tokens'[i] < tokens'[j]
    BY <1>1, TokensGrow
  <1>. HIDE DEF new, offset, capacity, size
  \* What is left of the old tokens.
  <1>6. /\ left \in Nat /\ left <= offset /\ (left # offset => Keep <= left /\ left = MaxSize - 1)
        /\ (left # offset => old > 0)
        /\ (old > 0 => left = MaxSize - 1 /\ MaxSize <= offset /\ Keep + old <= size)
        /\ (~(old > 0) => left = size /\ size = offset /\ old <= 0 /\ size < MaxSize)
        /\ old \in Int
    <2>1. old = size - MaxSize + 1 /\ old \in Int  BY <1>1, <1>3 DEF TooOld
    <2>2. size \in Nat /\ offset \in Nat /\ size <= offset /\ MaxSize \in Nat /\ Keep \in Nat
          /\ Keep < MaxSize
      BY <1>1, <1>3
    <2>3. (size < MaxSize => size = offset) /\ (MaxSize <= size => MaxSize <= offset)
      BY <1>2 DEF size
    <2>. HIDE DEF old
    <2>4. CASE old > 0
      <3>1. left = size - old  BY <2>4
      <3>. HIDE DEF left
      <3>. QED  BY <2>1, <2>2, <2>3, <2>4, <3>1
    <2>5. CASE ~(old > 0)
      <3>1. left = size  BY <2>5
      <3>. HIDE DEF left
      <3>. QED  BY <2>1, <2>2, <2>3, <2>5, <3>1
    <2>. QED  BY <2>4, <2>5
  <1>7. /\ front \in Seq(Nat) /\ Len(front) = left
        /\ \A i \in 1..left : front[i] = tokens[IF i <= Keep THEN i ELSE offset - left + i]
    <2>1. CASE old > 0
      <3>1. old \in Nat /\ left = size - old /\ Keep + old <= size  BY <1>6, <2>1
      <3>2. /\ front \in Seq(Nat) /\ Len(front) = left
            /\ \A i \in 1..left : front[i] = q[IF i <= Keep THEN i ELSE i + old]
        <4>. HIDE DEF old, left
        <4>1. LET t == Dropped(q, old) IN
              /\ t \in Seq(Nat) /\ Len(t) = Len(q) - old
              /\ \A i \in 1..Len(q) - old : t[i] = q[IF i <= Keep THEN i ELSE i + old]
          BY <1>1, <1>2, <3>1, DroppedIs DEF size
        <4>. QED  BY <3>1, <4>1 DEF size
      <3>. HIDE DEF front
      <3>3. ASSUME NEW i \in 1..left
            PROVE  front[i] = tokens[IF i <= Keep THEN i ELSE offset - left + i]
        <4>1. CASE i <= Keep
          <5>1. i \in 1..size  BY <1>1, <1>3, <1>6, <3>1, <4>1
          <5>. QED  BY <1>3, <3>2, <4>1, <5>1
        <4>2. CASE ~(i <= Keep)
          <5>. DEFINE j == i + old
          <5>1. j \in 1..size /\ ~(j <= Keep) /\ offset - size + j = offset - left + i
            <6>. HIDE DEF old, left
            <6>. QED  BY <1>1, <1>3, <1>6, <3>1, <4>2
          <5>2. front[i] = q[j]  BY <3>2, <4>2
          <5>. HIDE DEF j
          <5>. QED  BY <1>3, <4>2, <5>1, <5>2
        <4>. QED  BY <4>1, <4>2
      <3>. QED  BY <3>2, <3>3
    <2>2. CASE ~(old > 0)
      <3>1. front = q /\ left = size  BY <1>6, <2>2 DEF Dropped
      <3>. HIDE DEF left, old
      <3>. QED  BY <1>2, <1>3, <3>1 DEF size
    <2>. QED  BY <2>1, <2>2
  <1>. HIDE DEF front, left, old
  <1>8. /\ buffer' \in Seq(Nat) /\ Len(buffer') = left + n
        /\ \A i \in 1..left + n : buffer'[i] = IF i <= left THEN front[i] ELSE new[i - left]
    <2>1. /\ front \o new \in Seq(Nat) /\ Len(front \o new) = Len(front) + Len(new)
          /\ \A i \in 1..Len(front) + Len(new) :
               (front \o new)[i] = IF i <= Len(front) THEN front[i] ELSE new[i - Len(front)]
      BY <1>5, <1>7, JoinedIs
    <2>. QED  BY <1>4, <1>5, <1>7, <2>1
  <1>9. ASSUME NEW i \in 1..left + n
        PROVE  buffer'[i] = tokens'[IF i <= Keep THEN i ELSE (offset + n) - (left + n) + i]
    <2>1. CASE i <= left
      <3>. DEFINE k == IF i <= Keep THEN i ELSE offset - left + i
      <3>1. i \in 1..left /\ k \in 1..offset  BY <1>1, <1>6, <2>1
      <3>2. k = IF i <= Keep THEN i ELSE (offset + n) - (left + n) + i
        BY <1>1, <1>6
      <3>3. buffer'[i] = tokens[k]  BY <1>7, <1>8, <2>1, <3>1
      <3>. HIDE DEF k
      <3>4. tokens'[k] = tokens[k]  BY <1>5, <3>1
      <3>. QED  BY <3>2, <3>3, <3>4
    <2>2. CASE ~(i <= left)
      <3>1. PICK k \in 1..n : i = left + k
        <4>1. i - left \in 1..n /\ i = left + (i - left)  BY <1>6, <2>2
        <4>. QED  BY <4>1
      <3>2. i - left = k /\ (offset + n) - (left + n) + i = offset + k
            /\ (i <= Keep => i = offset + k)
        BY <1>1, <1>6, <2>2, <3>1
      <3>3. buffer'[i] = new[k]  BY <1>8, <2>2, <3>2
      <3>. QED  BY <1>5, <3>2, <3>3
    <2>. QED  BY <2>1, <2>2
  <1>10. MaxSize' = MaxSize /\ Keep' = Keep /\ plan'.begin = offset /\ plan'.end = offset + n
         /\ cache'.offset = offset + n /\ cache'.idx = left + n /\ cache'.capacity = left + n
         /\ plan'.fetch = FetchEnd(cache')
    BY <1>4, <1>5 DEF MaxSize, Keep, Planned
  <1>11. (Filling \/ Ordered)'
    <2>1. CASE offset + n < MaxSize
      <3>1. left = offset  BY <1>1, <1>6, <2>1
      <3>2. \A i \in 1..offset + n : (offset + n) - (left + n) + i = i  BY <1>1, <3>1
      <3>3. \A i \in 1..offset + n : buffer'[i] = tokens'[i]  BY <1>9, <3>1, <3>2
      <3>. QED  BY <1>1, <1>10, <2>1, <3>1, <3>3 DEF Filling
    <2>2. CASE ~(offset + n < MaxSize)
      <3>1. left + n <= offset + n /\ MaxSize <= left + n
            /\ (left + n = offset + n \/ (offset + n) - offset <= (left + n) - MaxSize + 1)
        BY <1>1, <1>6, <2>2
      <3>2. HoldsInOrder(buffer, tokens)'
        BY <1>5, <1>8, <1>9, <1>10, <3>1 DEF HoldsInOrder
      <3>. QED  BY <1>10, <3>1, <3>2 DEF Ordered
    <2>. QED  BY <2>1, <2>2
  <1>12. Rotates'  BY <1>5 DEF Rotates
  <1>13. cache' \in [offset : Nat, idx : Nat, capacity : Nat]
    BY <1>1, <1>4, <1>6
  <1>14. plan' \in [begin : Nat, end : Nat, fetch : Nat] /\ FetchEnd(cache)' = FetchEnd(cache')
    <2>1. FetchEnd(cache') \in Nat  BY <1>1, <1>6, <1>10 DEF FetchEnd
    <2>2. FetchEnd(cache)' = FetchEnd(cache')  BY <1>5, <1>10 DEF FetchEnd, Rotates
    <2>. QED  BY <1>1, <1>4, <2>1, <2>2 DEF Planned
  <1>15. WindowType'
    BY <1>5, <1>8, <1>10, <1>13, <1>14 DEF WindowType, WindowInv
  <1>. QED  BY <1>5, <1>10, <1>11, <1>12, <1>14, <1>15 DEF WindowInv

-----------------------------------------------------------------------------
(* Trimming, and a step of no tokens.                                      *)

LEMMA Trims ==
    ASSUME WindowInv, NEW n \in Nat, TrimCache(n)
    PROVE  WindowInv'
  <1>. DEFINE offset == cache.offset
              k == Lesser(n, offset)
              l == offset - k
  <1>1. /\ offset \in Nat /\ cache.capacity \in Nat /\ cache.idx \in Nat
        /\ tokens \in Seq(Nat) /\ Len(tokens) = offset
        /\ cache = [offset |-> offset, idx |-> cache.idx, capacity |-> cache.capacity]
    BY DEF WindowInv, WindowType
  <1>2. k \in Nat /\ k <= offset /\ l \in Nat /\ l <= offset  BY <1>1 DEF Lesser
  <1>3. /\ window' = window /\ buffer' = buffer /\ latest' = latest
        /\ cache' = [cache EXCEPT !.offset = @ - k, !.idx = IF Rotates THEN @ - k ELSE @]
        /\ tokens' = FirstN(tokens, l) /\ plan' = Planned(cache', cache'.offset, cache'.offset)
    BY <1>1 DEF TrimCache
  <1>4. Rotates => /\ MaxSize \in Nat /\ offset < MaxSize /\ cache.idx = offset
                   /\ cache.capacity <= MaxSize
    <2>. SUFFICES ASSUME Rotates
         PROVE  MaxSize \in Nat /\ offset < MaxSize /\ cache.idx = offset /\ cache.capacity <= MaxSize
      OBVIOUS
    <2>1. MaxSize \in Nat /\ offset < MaxSize  BY Layout DEF TrimCache, WindowInv, WindowType
    <2>2. ~Ordered  BY <1>1, <2>1 DEF Ordered, HoldsInOrder, WindowInv, WindowType
    <2>3. ~Turned  BY <1>1, <2>1 DEF Turned
    <2>. QED  BY <2>1, <2>2, <2>3 DEF WindowInv, Filling
  <1>5. offset <= cache.capacity /\ \A i \in 1..offset : buffer[i] = tokens[i]
    <2>1. CASE ~Rotates  BY <2>1 DEF WindowInv
    <2>2. CASE Rotates
      <3>1. ~Ordered  BY <1>1, <1>4, <2>2 DEF Ordered, HoldsInOrder, WindowInv, WindowType
      <3>2. ~Turned  BY <1>1, <1>4, <2>2 DEF Turned
      <3>. QED  BY <2>2, <3>1, <3>2 DEF WindowInv, Filling
    <2>. QED  BY <2>1, <2>2
  <1>. HIDE DEF k, l
  <1>6. /\ cache' = [offset |-> l, idx |-> IF Rotates THEN l ELSE cache.idx,
                     capacity |-> cache.capacity]
    <2>1. CASE Rotates
      <3>1. cache.idx - k = l  BY <1>4, <2>1 DEF l
      <3>. QED  BY <1>1, <1>3, <2>1, <3>1 DEF l
    <2>2. CASE ~Rotates  BY <1>1, <1>3, <2>2 DEF l
    <2>. QED  BY <2>1, <2>2
  <1>7. tokens' \in Seq(Nat) /\ Len(tokens') = l /\ \A i \in 1..l : tokens'[i] = tokens[i]
    <2>1. l \in 0..Len(tokens)  BY <1>1, <1>2
    <2>. QED  BY <1>1, <1>3, <2>1, FirstNIs
  <1>. HIDE DEF offset
  <1>8. \A i \in 1..l : i \in 1..offset  BY <1>1, <1>2
  <1>9. /\ \A i \in 1..l : tokens'[i] <= latest'
        /\ \A i, j \in 1..l : i < j => tokens'[i] < tokens'[j]
    BY <1>1, <1>3, <1>7, <1>8 DEF WindowInv
  <1>10. \A i \in 1..l : buffer'[i] = tokens'[i]  BY <1>3, <1>5, <1>7, <1>8
  <1>11. Rotates' = Rotates /\ MaxSize' = MaxSize  BY <1>3 DEF Rotates, MaxSize
  <1>12. FetchEnd(cache)' = FetchEnd(cache') /\ FetchEnd(cache') = l
    <2>1. cache'.offset = l  BY <1>6
    <2>2. ~Rotates \/ l < MaxSize  BY <1>1, <1>2, <1>4
    <2>3. FetchEnd(cache') = l  BY <2>1, <2>2 DEF FetchEnd
    <2>4. FetchEnd(cache)' = FetchEnd(cache')  BY <1>11 DEF FetchEnd
    <2>. QED  BY <2>3, <2>4
  <1>13. plan' = [begin |-> l, end |-> l, fetch |-> l]
    <2>1. cache'.offset = l  BY <1>6
    <2>. QED  BY <1>3, <1>12, <2>1 DEF Planned
  <1>14. WindowType'
    <2>1. cache' \in [offset : Nat, idx : Nat, capacity : Nat] /\ cache'.capacity = cache.capacity
          /\ cache'.offset = l
      BY <1>1, <1>2, <1>6
    <2>2. plan' \in [begin : Nat, end : Nat, fetch : Nat]  BY <1>2, <1>13
    <2>3. window' \in Windows /\ latest' \in Nat /\ buffer' \in Seq(Nat)
          /\ Len(buffer') = cache.capacity
      BY <1>3 DEF WindowType, WindowInv
    <2>. QED  BY <1>7, <2>1, <2>2, <2>3 DEF WindowType
  <1>15. Rotates => Filling'
    BY <1>1, <1>2, <1>4, <1>5, <1>6, <1>10, <1>11 DEF Filling
  <1>16. ~Rotates => l <= cache'.capacity  BY <1>1, <1>2, <1>5, <1>6
  <1>. QED  BY <1>6, <1>7, <1>9, <1>10, <1>11, <1>12, <1>13, <1>14, <1>15, <1>16 DEF WindowInv

LEMMA DoesNothing ==
    ASSUME WindowInv, ~Rotates, UpdateCache(0)
    PROVE  WindowInv'
  <1>1. /\ tokens' \in Seq(Nat) /\ Len(tokens') = Len(tokens) + 0
        /\ \A i \in 1..Len(tokens) : tokens'[i] = tokens[i]
        /\ \A i \in 1..Len(tokens') : tokens'[i] <= latest'
        /\ \A i, j \in 1..Len(tokens') : i < j => tokens'[i] < tokens'[j]
        /\ latest' \in Nat /\ window' = window
    BY TokensGrow
  <1>2. cache' = cache /\ buffer' = buffer /\ plan' = Planned(cache, cache.offset, cache.offset)
    BY DEF UpdateCache, UpdateNothing
  <1>3. Len(tokens') = cache.offset /\ cache.offset \in Nat  BY <1>1 DEF WindowInv, WindowType
  <1>4. ~Rotates' /\ FetchEnd(cache)' = cache.offset /\ FetchEnd(cache) = cache.offset
    BY <1>1, <1>2 DEF Rotates, FetchEnd
  <1>5. plan' = [begin |-> cache.offset, end |-> cache.offset, fetch |-> cache.offset]
    BY <1>2, <1>4 DEF Planned
  <1>6. WindowType'  BY <1>1, <1>2, <1>3, <1>5 DEF WindowInv, WindowType
  <1>. QED  BY <1>1, <1>2, <1>3, <1>4, <1>5, <1>6 DEF WindowInv, WindowType

LEMMA WindowInvStep == WindowInv /\ [WindowNext]_windowVars => WindowInv'
  <1> SUFFICES ASSUME WindowInv, [WindowNext]_windowVars PROVE WindowInv'
    OBVIOUS
  <1>. USE WindowAssumption
  <1>1. ASSUME NEW n \in 0..LongestStep, Rotates => n > 0, UpdateCache(n) PROVE WindowInv'
    <2>1. CASE ~Rotates /\ n = 0  BY <1>1, <2>1, DoesNothing
    <2>2. CASE ~Rotates /\ n # 0
      <3>1. n \in Nat \ {0}  BY <2>2
      <3>. QED  BY <1>1, <2>2, <3>1, KVGrows
    <2>3. CASE Rotates /\ n = 1
      <3>1. UpdateCache(1)  BY <1>1, <2>3
      <3>2. Filling \/ Ordered \/ Turned  BY <2>3 DEF WindowInv
      <3>. QED  BY <2>3, <3>1, <3>2, InPlaceFilling, InPlaceFull
    <2>4. CASE Rotates /\ n # 1
      <3>1. n \in Nat /\ 1 < n  BY <1>1, <2>4
      <3>. QED  BY <1>1, <2>4, <3>1, Concatenates
    <2>. QED  BY <2>1, <2>2, <2>3, <2>4
  <1>2. ASSUME NEW n \in 1..LongestStep, TrimCache(n) PROVE WindowInv'
    <2>1. n \in Nat  OBVIOUS
    <2>. QED  BY <1>2, <2>1, Trims
  <1>3. CASE UNCHANGED windowVars
    BY <1>3 DEF windowVars, WindowInv, WindowType, FetchEnd, Rotates, MaxSize, Keep, Filling,
                Ordered, Turned, HoldsInOrder
  <1>. QED  BY <1>1, <1>2, <1>3 DEF WindowNext

-----------------------------------------------------------------------------
(* What attention is given.                                                *)

\* The m slots of seen hold tokens, each its own: g says which; the first k tokens are
\* among them, and the last r.
SeenAt(seen, m, g, r, k) ==
    /\ seen \in Seq(Nat) /\ m \in Nat /\ Len(seen) = m
    /\ g \in [1..m -> 1..Len(tokens)]
    /\ \A i \in 1..m : seen[i] = tokens[g[i]]
    /\ \A i, j \in 1..m : g[i] = g[j] => i = j
    /\ r \in 0..Len(tokens) /\ k \in 0..Len(tokens)
    /\ \A p \in 1..Len(tokens) : p <= k \/ Len(tokens) - r < p => \E i \in 1..m : g[i] = p

LEMMA SeenIsExact ==
    ASSUME WindowInv, NEW seen, NEW m, NEW g, NEW r, NEW k, SeenAt(seen, m, g, r, k)
    PROVE  /\ IsInjective(seen) /\ Range(seen) \subseteq Range(tokens)
           /\ Range(PastN(tokens, Len(tokens) - r)) \subseteq Range(seen)
           /\ Range(FirstN(tokens, k)) \subseteq Range(seen)
  <1>. DEFINE l == Len(tokens)
              old == PastN(tokens, l - r)
              first == FirstN(tokens, k)
  <1>0. /\ seen \in Seq(Nat) /\ m \in Nat /\ Len(seen) = m
        /\ g \in [1..m -> 1..l] /\ r \in 0..l /\ k \in 0..l
        /\ \A i \in 1..m : seen[i] = tokens[g[i]]
        /\ \A i, j \in 1..m : g[i] = g[j] => i = j
        /\ \A p \in 1..l : p <= k \/ l - r < p => \E i \in 1..m : g[i] = p
    BY DEF SeenAt
  <1>1. /\ tokens \in Seq(Nat) /\ l \in Nat /\ DOMAIN tokens = 1..l /\ DOMAIN seen = 1..m
        /\ \A i \in 1..l : tokens[i] \in Nat
        /\ \A i, j \in 1..l : i < j => tokens[i] < tokens[j]
    BY <1>0, LenProperties, ElementOfSeq DEF WindowInv, WindowType
  <1>2. \A i, j \in 1..l : tokens[i] = tokens[j] => i = j
    <2>. TAKE i, j \in 1..l
    <2>1. CASE i < j
      <3>1. tokens[i] < tokens[j] /\ tokens[i] \in Nat /\ tokens[j] \in Nat  BY <1>1, <2>1
      <3>. QED  BY <3>1
    <2>2. CASE j < i
      <3>1. tokens[j] < tokens[i] /\ tokens[i] \in Nat /\ tokens[j] \in Nat  BY <1>1, <2>2
      <3>. QED  BY <3>1
    <2>. QED  BY <1>1, <2>1, <2>2
  <1>3. \A i \in 1..m : g[i] \in 1..l  BY <1>0
  <1>4. IsInjective(seen)  BY <1>0, <1>1, <1>2, <1>3 DEF IsInjective
  <1>5. Range(seen) \subseteq Range(tokens)  BY <1>0, <1>1, <1>3 DEF Range
  <1>6. ASSUME NEW p \in 1..l, p <= k \/ l - r < p PROVE tokens[p] \in Range(seen)
    <2>1. PICK i \in 1..m : g[i] = p  BY <1>0, <1>6
    <2>2. seen[i] = tokens[p] /\ i \in DOMAIN seen  BY <1>0, <1>1, <2>1
    <2>. QED  BY <2>2 DEF Range
  <1>7. /\ old \in Seq(Nat) /\ DOMAIN old = 1..r /\ \A i \in 1..r : old[i] = tokens[(l - r) + i]
    <2>. DEFINE d == l - r
    <2>1. d \in 0..l /\ l - d = r  BY <1>0, <1>1
    <2>2. old = PastN(tokens, d)  OBVIOUS
    <2>. HIDE DEF old, d
    <2>3. old \in Seq(Nat) /\ Len(old) = l - d /\ \A i \in 1..l - d : old[i] = tokens[d + i]
      <3>1. tokens \in Seq(Nat) /\ d \in 0..Len(tokens)  BY <1>1, <2>1
      <3>2. /\ PastN(tokens, d) \in Seq(Nat) /\ Len(PastN(tokens, d)) = Len(tokens) - d
            /\ \A i \in 1..Len(tokens) - d : PastN(tokens, d)[i] = tokens[d + i]
        BY <3>1, PastNIs
      <3>. QED  BY <2>2, <3>2
    <2>4. Len(old) = r /\ \A i \in 1..r : old[i] = tokens[d + i]  BY <2>1, <2>3
    <2>. QED  BY <2>3, <2>4, LenProperties DEF d
  <1>8. first \in Seq(Nat) /\ DOMAIN first = 1..k /\ \A i \in 1..k : first[i] = tokens[i]
    <2>1. k \in 0..l  BY <1>0
    <2>. HIDE DEF first
    <2>. QED  BY <1>1, <2>1, FirstNIs, LenProperties DEF first
  <1>. HIDE DEF old, first, l
  <1>9. ASSUME NEW i \in 1..r PROVE old[i] \in Range(seen)
    <2>. DEFINE p == (l - r) + i
    <2>1. p \in 1..l /\ l - r < p  BY <1>0, <1>1
    <2>2. old[i] = tokens[p]  BY <1>7
    <2>. HIDE DEF p
    <2>. QED  BY <1>6, <2>1, <2>2
  <1>10. ASSUME NEW i \in 1..k PROVE first[i] \in Range(seen)
    <2>1. i \in 1..l /\ i <= k  BY <1>0, <1>1
    <2>. QED  BY <1>6, <1>8, <2>1
  <1>11. Range(old) \subseteq Range(seen)  BY <1>7, <1>9 DEF Range
  <1>12. Range(first) \subseteq Range(seen)  BY <1>8, <1>10 DEF Range
  <1>. QED  BY <1>4, <1>5, <1>11, <1>12 DEF l, old, first

LEMMA WindowIsExact == WindowInv => WindowExact
  <1> SUFFICES ASSUME WindowInv PROVE WindowExact
    OBVIOUS
  <1>. DEFINE seen == FirstN(buffer, plan.fetch)
              offset == cache.offset
              capacity == cache.capacity
              idx == cache.idx
              k == Lesser(Keep, Len(tokens))
  <1>1. /\ offset \in Nat /\ capacity \in Nat /\ idx \in Nat /\ buffer \in Seq(Nat)
        /\ Len(buffer) = capacity /\ tokens \in Seq(Nat) /\ Len(tokens) = offset
        /\ plan.fetch = FetchEnd(cache) /\ plan.begin \in Nat /\ plan.end \in Nat
    BY DEF WindowInv, WindowType
  <1>2. CASE ~Rotates
    <2>1. plan.fetch = offset /\ offset <= capacity
          /\ \A i \in 1..offset : buffer[i] = tokens[i]
      BY <1>1, <1>2 DEF FetchEnd, WindowInv
    <2>2. offset \in 0..Len(buffer)  BY <1>1, <2>1
    <2>3. seen \in Seq(Nat) /\ Len(seen) = offset /\ \A i \in 1..offset : seen[i] = tokens[i]
      BY <1>1, <2>1, <2>2, FirstNIs
    <2>. HIDE DEF seen
    <2>4. seen = tokens  BY <1>1, <2>3, SeqEqual
    <2>. QED  BY <1>1, <1>2, <2>1, <2>4 DEF WindowExact, seen
  <1>3. CASE Rotates
    <2>1. MaxSize \in Nat /\ Keep \in Nat /\ Keep < MaxSize  BY <1>3, Layout DEF WindowInv, WindowType
    <2>2. /\ Recent \in 0..offset /\ k \in 0..offset /\ k <= Keep
          /\ plan.end - plan.begin <= 1 => Recent <= MaxSize - Keep
          /\ plan.end - plan.begin <= capacity - MaxSize + 1 /\ MaxSize <= capacity
               => Recent <= capacity - Keep
      <3>. DEFINE e == IF plan.end - plan.begin > 1 THEN plan.end - plan.begin - 1 ELSE 0
      <3>1. Recent = Lesser(offset, MaxSize - Keep + e)  BY <1>1, <1>3 DEF Recent
      <3>2. e \in Nat /\ (plan.end - plan.begin <= 1 => e = 0)
            /\ (plan.end - plan.begin <= capacity - MaxSize + 1 /\ MaxSize <= capacity
                  => e <= capacity - MaxSize)
        BY <1>1, <2>1
      <3>. HIDE DEF e
      <3>3. k \in 0..offset /\ k <= Keep  BY <1>1, <2>1 DEF Lesser
      <3>. QED  BY <1>1, <2>1, <3>1, <3>2, <3>3 DEF Lesser
    <2>. HIDE DEF k
    <2>3. ASSUME NEW m \in Nat, plan.fetch = m, m <= capacity,
                 NEW g \in [1..m -> 1..offset],
                 \A i \in 1..m : buffer[i] = tokens[g[i]],
                 \A i, j \in 1..m : g[i] = g[j] => i = j,
                 \A p \in 1..offset : p <= k \/ offset - Recent < p => \E i \in 1..m : g[i] = p
          PROVE  WindowExact
      <3>1. m \in 0..Len(buffer)  BY <1>1, <2>3
      <3>2. seen \in Seq(Nat) /\ Len(seen) = m /\ \A i \in 1..m : seen[i] = tokens[g[i]]
        BY <1>1, <2>3, <3>1, FirstNIs
      <3>. HIDE DEF seen
      <3>4. /\ g \in [1..m -> 1..Len(tokens)]
            /\ Recent \in 0..Len(tokens) /\ k \in 0..Len(tokens)
            /\ \A p \in 1..Len(tokens) :
                 p <= k \/ Len(tokens) - Recent < p => \E i \in 1..m : g[i] = p
        <4>1. Len(tokens) = offset  BY <1>1
        <4>. HIDE DEF offset
        <4>. QED  BY <2>2, <2>3, <4>1
      <3>. HIDE DEF offset
      <3>5. SeenAt(seen, m, g, Recent, k)  BY <2>3, <3>2, <3>4 DEF SeenAt
      <3>3. /\ IsInjective(seen) /\ Range(seen) \subseteq Range(tokens)
            /\ Range(PastN(tokens, Len(tokens) - Recent)) \subseteq Range(seen)
            /\ Range(FirstN(tokens, k)) \subseteq Range(seen)
        BY <3>5, SeenIsExact
      <3>. QED  BY <1>1, <1>3, <2>3, <3>3 DEF WindowExact, seen, k
    <2>4. CASE Filling
      <3>1. /\ plan.fetch = offset /\ offset <= capacity
            /\ \A i \in 1..offset : buffer[i] = tokens[i]
        BY <1>1, <2>4 DEF Filling, FetchEnd
      <3>. DEFINE g == [i \in 1..offset |-> i]
      <3>2. g \in [1..offset -> 1..offset] /\ \A i \in 1..offset : g[i] = i  OBVIOUS
      <3>. HIDE DEF g, offset
      <3>3. /\ offset \in Nat /\ \A i \in 1..offset : buffer[i] = tokens[g[i]]
            /\ \A i, j \in 1..offset : g[i] = g[j] => i = j
            /\ \A p \in 1..offset : p <= k \/ offset - Recent < p => \E i \in 1..offset : g[i] = p
        BY <1>1, <3>1, <3>2
      <3>. QED  BY <2>3, <3>1, <3>2, <3>3
    <2>5. CASE Ordered
      <3>1. /\ MaxSize <= capacity /\ capacity <= offset
            /\ \A i \in 1..capacity :
                 buffer[i] = tokens[IF i <= Keep THEN i ELSE offset - capacity + i]
            /\ capacity = offset \/ plan.end - plan.begin <= capacity - MaxSize + 1
        BY <1>1, <2>1, <2>5 DEF Ordered, HoldsInOrder
      <3>2. plan.fetch = capacity
        <4>1. ~(cache.offset < MaxSize)  BY <1>1, <2>1, <3>1
        <4>. QED  BY <1>1, <1>3, <4>1 DEF FetchEnd
      <3>. DEFINE g == [i \in 1..capacity |-> IF i <= Keep THEN i ELSE offset - capacity + i]
      <3>. HIDE DEF offset, capacity
      <3>3. g \in [1..capacity -> 1..offset]
        <4>1. \A i \in 1..capacity :
                 (IF i <= Keep THEN i ELSE offset - capacity + i) \in 1..offset
          BY <1>1, <2>1, <3>1
        <4>. QED  BY <4>1
      <3>4. \A i \in 1..capacity : g[i] = IF i <= Keep THEN i ELSE offset - capacity + i
        OBVIOUS
      <3>. HIDE DEF g
      <3>5. ASSUME NEW i \in 1..capacity, NEW j \in 1..capacity, g[i] = g[j] PROVE i = j
        <4>1. (IF i <= Keep THEN i ELSE offset - capacity + i)
                = (IF j <= Keep THEN j ELSE offset - capacity + j)
          BY <3>4, <3>5
        <4>2. offset \in Nat /\ capacity \in Nat /\ Keep \in Nat /\ capacity <= offset
              /\ i \in Nat /\ j \in Nat
          BY <1>1, <2>1, <3>1
        <4>. QED  BY <4>1, <4>2
      <3>6. ASSUME NEW p \in 1..offset, p <= k \/ offset - Recent < p
            PROVE  \E i \in 1..capacity : g[i] = p
        <4>1. CASE p <= k
          <5>1. p \in 1..capacity /\ p <= Keep  BY <1>1, <2>1, <2>2, <3>1, <4>1
          <5>. QED  BY <3>4, <5>1
        <4>2. CASE capacity = offset
          <5>1. p \in 1..capacity /\ offset - capacity + p = p  BY <1>1, <4>2
          <5>. QED  BY <3>4, <5>1
        <4>3. CASE offset - Recent < p /\ capacity # offset
          <5>. DEFINE i == p - (offset - capacity)
          <5>1. Recent <= capacity - Keep /\ Recent \in Nat
            BY <2>2, <3>1, <4>3 DEF offset, capacity
          <5>2. i \in 1..capacity /\ ~(i <= Keep) /\ offset - capacity + i = p
            BY <1>1, <2>1, <3>1, <4>3, <5>1
          <5>. HIDE DEF i
          <5>. QED  BY <3>4, <5>2
        <4>. QED  BY <3>6, <4>1, <4>2, <4>3
      <3>7. \A i \in 1..capacity : buffer[i] = tokens[g[i]]  BY <3>1, <3>4
      <3>8. capacity \in Nat /\ capacity <= capacity  BY <1>1
      <3>. QED  BY <2>3, <3>2, <3>3, <3>5, <3>6, <3>7, <3>8
    <2>6. CASE Turned
      <3>1. /\ capacity = MaxSize /\ MaxSize < offset /\ Keep < idx /\ idx <= MaxSize
            /\ plan.end - plan.begin <= 1
            /\ \A i \in 1..MaxSize :
                 buffer[i] = tokens[TurnedPlace(i, offset, idx, MaxSize, Keep)]
        BY <2>6 DEF Turned
      <3>2. plan.fetch = MaxSize /\ MaxSize <= capacity
        <4>1. ~(cache.offset < MaxSize) /\ capacity = MaxSize /\ MaxSize <= capacity
          BY <1>1, <2>1, <3>1
        <4>. QED  BY <1>1, <1>3, <4>1 DEF FetchEnd
      <3>3. Recent <= MaxSize - Keep /\ Recent \in Nat  BY <2>2, <3>1
      <3>. HIDE DEF offset, capacity, idx
      <3>. DEFINE g == [i \in 1..MaxSize |-> TurnedPlace(i, offset, idx, MaxSize, Keep)]
      <3>4. g \in [1..MaxSize -> 1..offset]
        <4>1. ASSUME NEW i \in 1..MaxSize
              PROVE  TurnedPlace(i, offset, idx, MaxSize, Keep) \in 1..offset
          BY <1>1, <2>1, <3>1 DEF TurnedPlace
        <4>. QED  BY <4>1
      <3>5. \A i \in 1..MaxSize : g[i] = TurnedPlace(i, offset, idx, MaxSize, Keep)
        OBVIOUS
      <3>. HIDE DEF g
      <3>6. ASSUME NEW i \in 1..MaxSize, NEW j \in 1..MaxSize, g[i] = g[j]
            PROVE  i = j
        <4>1. TurnedPlace(i, offset, idx, MaxSize, Keep) = TurnedPlace(j, offset, idx, MaxSize, Keep)
          BY <3>5, <3>6
        <4>. QED  BY <1>1, <2>1, <3>1, <4>1 DEF TurnedPlace
      <3>7. ASSUME NEW p \in 1..offset, p <= k \/ offset - Recent < p
            PROVE  \E i \in 1..MaxSize : g[i] = p
        <4>1. CASE p <= k
          <5>1. p \in 1..MaxSize /\ p <= Keep  BY <1>1, <2>1, <2>2, <4>1
          <5>2. g[p] = p  BY <3>5, <5>1 DEF TurnedPlace
          <5>. QED  BY <5>1, <5>2
        <4>2. CASE offset - Recent < p /\ offset - (idx - Keep) < p
          <5>. DEFINE i == p - offset + idx
          <5>1. i \in 1..MaxSize /\ ~(i <= Keep) /\ i <= idx /\ offset - idx + i - 0 = p
            BY <1>1, <2>1, <3>1, <4>2
          <5>. HIDE DEF i
          <5>2. g[i] = p  BY <3>5, <5>1 DEF TurnedPlace
          <5>. QED  BY <5>1, <5>2
        <4>3. CASE offset - Recent < p /\ ~(offset - (idx - Keep) < p)
          <5>. DEFINE i == p - offset + idx + (MaxSize - Keep)
          <5>1. i \in 1..MaxSize /\ ~(i <= Keep) /\ ~(i <= idx)
                /\ offset - idx + i - (MaxSize - Keep) = p
            BY <1>1, <2>1, <3>1, <3>3, <4>3
          <5>. HIDE DEF i
          <5>2. g[i] = p  BY <3>5, <5>1 DEF TurnedPlace
          <5>. QED  BY <5>1, <5>2
        <4>. QED  BY <3>7, <4>1, <4>2, <4>3
      <3>8. \A i \in 1..MaxSize : buffer[i] = tokens[g[i]]  BY <3>1, <3>5
      <3>. QED  BY <2>1, <2>3, <3>2, <3>4, <3>6, <3>7, <3>8
    <2>. QED  BY <1>3, <2>4, <2>5, <2>6 DEF WindowInv
  <1>. QED  BY <1>2, <1>3

\* The cache's bookkeeping (kvcache.go), for every window and step: attention is given
\* slots that hold tokens, each once, those that are kept and the recent ones among them.
THEOREM WindowSound == WindowSpec => []WindowExact
  <1>1. WindowInit => WindowInv  BY WindowInvInit
  <1>2. WindowInv /\ [WindowNext]_windowVars => WindowInv'  BY WindowInvStep
  <1>3. WindowInv => WindowExact  BY WindowIsExact
  <1>. QED  BY <1>1, <1>2, <1>3, PTL DEF WindowSpec

-----------------------------------------------------------------------------
(* Profiles: for any templates, fields and values that a caller may send.  *)

\* What speculative decoding may not be combined with, and what settings always have.
Switches == {"mtp_enabled", "dflash_enabled", "turboquant_kv_enabled", "vlm_mtp_enabled",
             "specprefill_enabled"}

Covers(fields, body) == DOMAIN body.values \subseteq fields /\ DOMAIN body.odd \subseteq fields

TemplatesFiled ==
    /\ templates = [n \in DOMAIN templates |-> templates[n]]
    /\ \A n \in DOMAIN templates :
          /\ Covers(Universal, templates[n].settings)
          /\ templates[n].created \in Nat /\ templates[n].created <= today
          /\ templates[n].created <= templates[n].updated

ProfilesFiled ==
    \A n \in DOMAIN profiles :
        /\ Covers(Universal \cup ModelSpecific, profiles[n].settings)
        /\ profiles[n].source # NoName => Covers(Universal, profiles[n].settings)

SettingsLegal == Always \subseteq DOMAIN settings /\ Validate(settings)

ProfilesInv == today \in Nat /\ SettingsLegal /\ TemplatesFiled /\ ProfilesFiled

LEMMA FieldsApart ==
    /\ Switches \subseteq Always /\ Switches \subseteq Known /\ Switches \cap Universal = {}
    /\ Universal \subseteq Known
    /\ "active_profile_name" \in Known /\ "active_profile_name" \notin Always
    /\ Excluded \cap (Universal \cup ModelSpecific) = {}
    /\ Switches \cap {"active_profile_name"} = {}
BY DEF Switches, Always, Flags, Sizes, Known, Universal, ModelSpecific, Excluded

\* What filtering leaves.
LEMMA FilterCovers ==
    ASSUME NEW body, NEW fields
    PROVE  Covers(fields, Restricted(body, fields))
BY DEF Covers, Restricted, Within

LEMMA FromDictLegal ==
    ASSUME NEW body, Accepts(body)
    PROVE  Always \subseteq DOMAIN FromDict(body) /\ Validate(FromDict(body))
BY DEF Accepts, FromDict

\* A dictionary that says nothing about the switches leaves them as they are.
LEMMA SwitchesStay ==
    ASSUME SettingsLegal, NEW body, Covers(Universal, body), NEW name
    PROVE  \A f \in Switches : FromDict(Overlaid(settings, body, name))[f] = settings[f]
<1> DEFINE over == Overlaid(settings, body, name)
<1> SUFFICES ASSUME NEW f \in Switches PROVE FromDict(over)[f] = settings[f]
  OBVIOUS
<1>1. /\ f \in Always /\ f \in Known /\ f \notin DOMAIN body.values /\ f \notin DOMAIN body.odd
      /\ f # "active_profile_name" /\ f \in DOMAIN settings
  BY FieldsApart DEF Covers, SettingsLegal
<1>2. f \in DOMAIN over.values /\ over.values[f] = settings[f]
  BY <1>1 DEF Overlaid
<1> QED BY <1>1, <1>2 DEF FromDict

\* So what was legal stays legal.
LEMMA OverlayIsLegal ==
    ASSUME SettingsLegal, NEW body, Covers(Universal, body), NEW name,
           \A f \in DOMAIN body.odd : body.odd[f] # "wrong"
    PROVE  Accepts(Overlaid(settings, body, name))
<1> DEFINE over == Overlaid(settings, body, name)
<1>1. \A f \in Switches : FromDict(over)[f] = settings[f]
  BY SwitchesStay
<1>2. Validate(settings) => Validate(FromDict(over))
  BY <1>1 DEF Validate, Switches
<1>3. \A f \in DOMAIN over.odd : over.odd[f] # "wrong"
  BY DEF Overlaid, Within
<1> QED BY <1>2, <1>3 DEF Accepts, SettingsLegal

LEMMA ApplyKeeps ==
    ASSUME SettingsLegal, NEW body, Covers(Universal \cup ModelSpecific, body), NEW name,
           NEW f \in Known \ {"active_profile_name"},
           f \in Excluded \/ f \notin DOMAIN body.values \cup DOMAIN body.odd
    PROVE  Same(settings, FromDict(Overlaid(settings, body, name)), f)
<1> DEFINE over == Overlaid(settings, body, name)
           new == FromDict(over)
<1>1. f \notin DOMAIN body.values /\ f \notin DOMAIN body.odd
  BY FieldsApart DEF Covers
<1>2. f \in DOMAIN over.values <=> f \in DOMAIN settings
  BY <1>1 DEF Overlaid
<1>3. f \in DOMAIN settings => over.values[f] = settings[f]
  BY <1>1 DEF Overlaid
<1>4. f \in DOMAIN new <=> f \in DOMAIN settings
  BY <1>2 DEF FromDict, SettingsLegal
<1>5. f \in DOMAIN settings => new[f] = settings[f]
  BY <1>2, <1>3 DEF FromDict
<1> QED BY <1>4, <1>5 DEF Same

LEMMA ApplyNames ==
    ASSUME NEW body, NEW name
    PROVE  FromDict(Overlaid(settings, body, name))["active_profile_name"] = name
<1> DEFINE over == Overlaid(settings, body, name)
<1>1. "active_profile_name" \in DOMAIN over.values /\ over.values["active_profile_name"] = name
  BY DEF Overlaid
<1> QED BY <1>1, FieldsApart DEF FromDict

-----------------------------------------------------------------------------
LEMMA ProfilesInvInit == ProfilesInit => ProfilesInv
<1> SUFFICES ASSUME ProfilesInit PROVE ProfilesInv
  OBVIOUS
<1>1. SettingsLegal
  <2>1. \A f \in Switches : settings[f] = FALSE
    <3>1. Switches \subseteq Flags /\ Switches \cap OnByDefault = {}
      BY DEF Switches, Flags, OnByDefault
    <3>2. ASSUME NEW f \in Switches PROVE Default(f) = FALSE
      <4>1. f \in Flags /\ f \notin OnByDefault /\ f # "dflash_in_memory_cache_max_bytes"
                /\ f # "dflash_ssd_cache_max_bytes"
        BY <3>1 DEF Switches
      <4>2. (f \in OnByDefault) = FALSE BY <4>1
      <4> QED BY <4>1, <4>2 DEF Default
    <3> QED BY <3>1, <3>2 DEF ProfilesInit, NewModelSettings, Always
  <2>2. Always \subseteq DOMAIN settings
    BY DEF ProfilesInit, NewModelSettings
  <2> QED BY <2>1, <2>2 DEF SettingsLegal, Validate, Switches
<1>2. TemplatesFiled /\ ProfilesFiled /\ today \in Nat
  BY DEF ProfilesInit, Nothing, TemplatesFiled, ProfilesFiled
<1> QED BY <1>1, <1>2 DEF ProfilesInv

LEMMA SaveTemplateStep ==
    ASSUME ProfilesInv, NEW name, NEW display, NEW body, SaveTemplate(name, display, body)
    PROVE  TemplatesFiled'
<1> DEFINE record == TemplateRecord(name, display, body, CreatedAt(name, today), today)
<1>1. templates' = Filed(templates, name, record) /\ today' = today + 1 /\ today \in Nat
  BY DEF SaveTemplate, Saves, ProfilesInv
<1>2. CreatedAt(name, today) \in Nat /\ CreatedAt(name, today) <= today
  BY <1>1 DEF CreatedAt, ProfilesInv, TemplatesFiled
<1>3. /\ Covers(Universal, record.settings)
      /\ record.created = CreatedAt(name, today) /\ record.updated = today
  BY FilterCovers DEF TemplateRecord, FilterUniversalFields
<1> HIDE DEF record
<1>4. /\ DOMAIN templates' = DOMAIN templates \cup {name}
      /\ \A n \in DOMAIN templates' : templates'[n] = IF n = name THEN record ELSE templates[n]
      /\ templates' = [n \in DOMAIN templates' |-> templates'[n]]
  BY <1>1 DEF Filed
<1>5. ASSUME NEW n \in DOMAIN templates'
      PROVE  /\ Covers(Universal, templates'[n].settings)
             /\ templates'[n].created \in Nat /\ templates'[n].created <= today'
             /\ templates'[n].created <= templates'[n].updated
  <2>1. CASE n = name
    BY <1>1, <1>2, <1>3, <1>4, <2>1
  <2>2. CASE n # name
    BY <1>1, <1>4, <2>2 DEF ProfilesInv, TemplatesFiled
  <2> QED BY <2>1, <2>2
<1>6. templates' = [n \in DOMAIN templates' |-> templates'[n]] BY <1>4
<1>7. (\A n \in DOMAIN templates :
        /\ Covers(Universal, templates[n].settings)
        /\ templates[n].created \in Nat /\ templates[n].created <= today
        /\ templates[n].created <= templates[n].updated)'
  BY <1>5 DEF Covers
<1> QED BY <1>6, <1>7 DEF TemplatesFiled

LEMMA UpdateTemplateStep ==
    ASSUME ProfilesInv, NEW name, NEW newName, NEW display, NEW body,
           UpdateTemplate(name, newName, display, body)
    PROVE  TemplatesFiled'
<1> DEFINE record == UpdateTemplateRecord(templates[name], display, body, today)
<1>1. /\ templates' = Filed(Unfiled(templates, name), newName, record)
      /\ today' = today + 1 /\ today \in Nat /\ name \in DOMAIN templates
  BY DEF UpdateTemplate, Saves, ProfilesInv
<1>2. record.created = templates[name].created /\ record.updated = today
  BY DEF UpdateTemplateRecord
<1>3. Covers(Universal, record.settings)
  <2>1. record.settings = IF body = <<>> THEN templates[name].settings
                          ELSE FilterUniversalFields(body[1])
    BY DEF UpdateTemplateRecord
  <2> QED BY <2>1, <1>1, FilterCovers DEF ProfilesInv, TemplatesFiled, FilterUniversalFields
<1> HIDE DEF record
<1>4. /\ DOMAIN templates' = (DOMAIN templates \ {name}) \cup {newName}
      /\ \A n \in DOMAIN templates' : templates'[n] = IF n = newName THEN record ELSE templates[n]
      /\ templates' = [n \in DOMAIN templates' |-> templates'[n]]
  <2> DEFINE less == Unfiled(templates, name)
  <2>1. DOMAIN less = DOMAIN templates \ {name} /\ \A n \in DOMAIN less : less[n] = templates[n]
    BY DEF Unfiled, Within
  <2> HIDE DEF less
  <2>2. templates' = [n \in DOMAIN less \cup {newName} |-> IF n = newName THEN record ELSE less[n]]
    BY <1>1 DEF Filed, less
  <2> QED BY <2>1, <2>2
<1>5. ASSUME NEW n \in DOMAIN templates'
      PROVE  /\ Covers(Universal, templates'[n].settings)
             /\ templates'[n].created \in Nat /\ templates'[n].created <= today'
             /\ templates'[n].created <= templates'[n].updated
  <2>1. CASE n = newName
    BY <1>1, <1>2, <1>3, <1>4, <2>1 DEF ProfilesInv, TemplatesFiled
  <2>2. CASE n # newName
    BY <1>1, <1>4, <2>2 DEF ProfilesInv, TemplatesFiled
  <2> QED BY <2>1, <2>2
<1>7. (\A n \in DOMAIN templates :
        /\ Covers(Universal, templates[n].settings)
        /\ templates[n].created \in Nat /\ templates[n].created <= today
        /\ templates[n].created <= templates[n].updated)'
  BY <1>5 DEF Covers
<1> QED BY <1>4, <1>7 DEF TemplatesFiled

LEMMA FileProfileStep ==
    ASSUME ProfilesFiled, NEW name, NEW display, NEW body, NEW source, NEW when,
           source # NoName => Covers(Universal, body),
           profiles' = Filed(profiles, name, BuildProfileRecord(name, display, body, source, when))
    PROVE  ProfilesFiled'
<1> DEFINE record == BuildProfileRecord(name, display, body, source, when)
<1>1. record.settings = FilterProfileFields(body) /\ record.source = source
  BY DEF BuildProfileRecord
<1>2. Covers(Universal \cup ModelSpecific, record.settings)
  BY <1>1, FilterCovers DEF FilterProfileFields
<1>3. source # NoName => Covers(Universal, record.settings)
  BY <1>1 DEF FilterProfileFields, Restricted, Within, Covers
<1> HIDE DEF record
<1>4. /\ DOMAIN profiles' = DOMAIN profiles \cup {name}
      /\ \A n \in DOMAIN profiles' : profiles'[n] = IF n = name THEN record ELSE profiles[n]
  BY DEF Filed, record
<1>5. ASSUME NEW n \in DOMAIN profiles'
      PROVE  /\ Covers(Universal \cup ModelSpecific, profiles'[n].settings)
             /\ profiles'[n].source # NoName => Covers(Universal, profiles'[n].settings)
  <2>1. CASE n = name
    BY <1>1, <1>2, <1>3, <1>4, <2>1
  <2>2. CASE n # name
    BY <1>4, <2>2 DEF ProfilesFiled
  <2> QED BY <2>1, <2>2
<1> QED BY <1>5 DEF ProfilesFiled, Covers

LEMMA TemplatesWait ==
    ASSUME ProfilesInv, UNCHANGED templates, today' \in Nat, today <= today'
    PROVE  TemplatesFiled'
<1>1. ASSUME NEW n \in DOMAIN templates PROVE templates[n].created <= today'
  <2>1. templates[n].created \in Nat /\ templates[n].created <= today /\ today \in Nat
    BY DEF ProfilesInv, TemplatesFiled
  <2> QED BY <2>1
<1> QED BY <1>1 DEF ProfilesInv, TemplatesFiled, Covers

LEMMA ProfilesInvStep == ProfilesInv /\ [ProfilesNext]_profileVars => ProfilesInv'
<1> SUFFICES ASSUME ProfilesInv, [ProfilesNext]_profileVars PROVE ProfilesInv'
  OBVIOUS
<1>0. today \in Nat /\ SettingsLegal /\ TemplatesFiled /\ ProfilesFiled
  BY DEF ProfilesInv
<1>1. ASSUME NEW body, EditSettings(body) PROVE ProfilesInv'
  <2>1. SettingsLegal' BY <1>1, FromDictLegal DEF EditSettings, SettingsLegal
  <2>2. ProfilesFiled' BY <1>0, <1>1 DEF EditSettings, ProfilesFiled, Covers
  <2> QED BY <1>0, <1>1, <2>1, <2>2, TemplatesWait DEF ProfilesInv, EditSettings
<1>2. ASSUME NEW name, NEW display, NEW body, SaveProfile(name, display, body)
      PROVE  ProfilesInv'
  <2>1. ProfilesFiled' BY <1>0, <1>2, FileProfileStep DEF SaveProfile
  <2>2. today' = today + 1 /\ UNCHANGED <<settings, templates>>
    BY <1>2 DEF SaveProfile, Saves
  <2>3. SettingsLegal' BY <1>0, <2>2 DEF SettingsLegal, Validate
  <2> QED BY <1>0, <2>1, <2>2, <2>3, TemplatesWait DEF ProfilesInv
<1>3. ASSUME NEW name, NEW template, ProfileFromTemplate(name, template) PROVE ProfilesInv'
  <2>1. Covers(Universal, templates[template].settings)
    BY <1>0, <1>3 DEF ProfileFromTemplate, TemplatesFiled
  <2>2. ProfilesFiled' BY <1>0, <1>3, <2>1, FileProfileStep DEF ProfileFromTemplate
  <2>3. today' = today + 1 /\ UNCHANGED <<settings, templates>>
    BY <1>3 DEF ProfileFromTemplate, Saves
  <2>4. SettingsLegal' BY <1>0, <2>3 DEF SettingsLegal, Validate
  <2> QED BY <1>0, <2>2, <2>3, <2>4, TemplatesWait DEF ProfilesInv
<1>4. ASSUME NEW name, NEW display, NEW body, SaveTemplate(name, display, body)
      PROVE  ProfilesInv'
  <2>1. today' = today + 1 /\ UNCHANGED <<settings, profiles>>
    BY <1>4 DEF SaveTemplate, Saves
  <2>2. SettingsLegal' /\ ProfilesFiled'
    BY <1>0, <2>1 DEF SettingsLegal, Validate, ProfilesFiled, Covers
  <2> QED BY <1>0, <1>4, <2>1, <2>2, SaveTemplateStep DEF ProfilesInv
<1>5. ASSUME NEW name, NEW newName, NEW display, NEW body,
             UpdateTemplate(name, newName, display, body)
      PROVE  ProfilesInv'
  <2>1. today' = today + 1 /\ UNCHANGED <<settings, profiles>>
    BY <1>5 DEF UpdateTemplate, Saves
  <2>2. SettingsLegal' /\ ProfilesFiled'
    BY <1>0, <2>1 DEF SettingsLegal, Validate, ProfilesFiled, Covers
  <2> QED BY <1>0, <1>5, <2>1, <2>2, UpdateTemplateStep DEF ProfilesInv
<1>6. ASSUME NEW name, ApplyProfile(name) PROVE ProfilesInv'
  <2>1. SettingsLegal' BY <1>6, FromDictLegal DEF ApplyProfile, SettingsLegal
  <2>2. UNCHANGED <<profiles, templates, today>> BY <1>6 DEF ApplyProfile
  <2>3. ProfilesFiled' BY <1>0, <2>2 DEF ProfilesFiled, Covers
  <2> QED BY <1>0, <2>1, <2>2, <2>3, TemplatesWait DEF ProfilesInv
<1>7. CASE UNCHANGED profileVars
  <2>1. SettingsLegal' /\ ProfilesFiled'
    BY <1>0, <1>7 DEF profileVars, SettingsLegal, Validate, ProfilesFiled, Covers
  <2> QED BY <1>0, <1>7, <2>1, TemplatesWait DEF ProfilesInv, profileVars
<1> QED BY <1>1, <1>2, <1>3, <1>4, <1>5, <1>6, <1>7 DEF ProfilesNext

-----------------------------------------------------------------------------
\* A profile that was made from a template is always accepted.
LEMMA LegalStays == ProfilesInv => TemplatesAlwaysApply
<1> SUFFICES ASSUME ProfilesInv, NEW name \in DOMAIN profiles,
                    profiles[name].source # NoName,
                    \A f \in DOMAIN profiles[name].settings.odd :
                        profiles[name].settings.odd[f] # "wrong"
             PROVE  Accepts(Overlaid(settings, profiles[name].settings, name))
  BY DEF TemplatesAlwaysApply
<1> QED BY OverlayIsLegal DEF ProfilesInv, ProfilesFiled

LEMMA IdentityStays ==
    ASSUME ProfilesInv, NEW name \in Names, ApplyProfile(name)
    PROVE  LET held == profiles[name].settings IN
           /\ settings'["active_profile_name"] = name
           /\ \A f \in Known \ {"active_profile_name"} :
                 f \in Excluded \/ f \notin DOMAIN held.values \cup DOMAIN held.odd
                     => Same(settings, settings', f)
<1> DEFINE held == profiles[name].settings
<1>1. settings' = FromDict(Overlaid(settings, held, name)) /\ name \in DOMAIN profiles
  BY DEF ApplyProfile
<1>2. Covers(Universal \cup ModelSpecific, held) /\ SettingsLegal
  BY <1>1 DEF ProfilesInv, ProfilesFiled
<1> QED BY <1>1, <1>2, ApplyNames, ApplyKeeps

\* What the dates of templates do in a step.
Aging ==
    /\ \A name \in DOMAIN templates \cap DOMAIN templates' :
          templates'[name].created = templates[name].created
    /\ \A name \in DOMAIN templates \ DOMAIN templates' :
          \E other \in DOMAIN templates' \ DOMAIN templates :
             templates'[other].created = templates[name].created
    /\ \A name \in DOMAIN templates' :
          /\ templates'[name].created <= templates'[name].updated
          /\ name \notin DOMAIN templates \/ templates'[name] # templates[name]
               => templates'[name].updated = today

\* A record is filed in a place, and maybe one is taken from another.
LEMMA Ages ==
    ASSUME ProfilesInv, NEW record, NEW name, NEW old,
           DOMAIN templates' = (DOMAIN templates \ {old}) \cup {name},
           \A n \in DOMAIN templates' : templates'[n] = IF n = name THEN record ELSE templates[n],
           old \in DOMAIN templates \/ old = name,
           name # old => name \notin DOMAIN templates,
           record.updated = today,
           record.created = IF old \in DOMAIN templates THEN templates[old].created ELSE today
    PROVE  Aging
<1>1. record.created <= today
  BY DEF ProfilesInv, TemplatesFiled
<1>2. \A n \in DOMAIN templates : /\ templates[n].created \in Nat /\ templates[n].created <= today
                                   /\ templates[n].created <= templates[n].updated
  BY DEF ProfilesInv, TemplatesFiled
<1>3. \A n \in DOMAIN templates \cap DOMAIN templates' :
          templates'[n].created = templates[n].created
  OBVIOUS
<1>4. \A n \in DOMAIN templates \ DOMAIN templates' :
          \E other \in DOMAIN templates' \ DOMAIN templates :
             templates'[other].created = templates[n].created
  <2> SUFFICES ASSUME NEW n \in DOMAIN templates \ DOMAIN templates'
               PROVE  /\ name \in DOMAIN templates' \ DOMAIN templates
                      /\ templates'[name].created = templates[n].created
    OBVIOUS
  <2>1. n = old /\ name # old
    OBVIOUS
  <2> QED BY <2>1
<1>5. \A n \in DOMAIN templates' :
          /\ templates'[n].created <= templates'[n].updated
          /\ n \notin DOMAIN templates \/ templates'[n] # templates[n]
               => templates'[n].updated = today
  BY <1>1, <1>2
<1> QED BY <1>3, <1>4, <1>5 DEF Aging

LEMMA NothingAges == ASSUME ProfilesInv, UNCHANGED templates PROVE Aging
BY DEF Aging, ProfilesInv, TemplatesFiled

\* Templates are as old as they were, in every step.
LEMMA DatesStay == ASSUME ProfilesInv, [ProfilesNext]_profileVars PROVE Aging
<1>1. ASSUME NEW name, NEW display, NEW body, SaveTemplate(name, display, body)
      PROVE  Aging
  <2> DEFINE record == TemplateRecord(name, display, body, CreatedAt(name, today), today)
  <2>1. templates' = Filed(templates, name, record)
    BY <1>1 DEF SaveTemplate
  <2>2. /\ record.updated = today
        /\ record.created = IF name \in DOMAIN templates THEN templates[name].created ELSE today
    BY DEF TemplateRecord, CreatedAt
  <2> HIDE DEF record
  <2>3. /\ DOMAIN templates' = (DOMAIN templates \ {name}) \cup {name}
        /\ \A n \in DOMAIN templates' : templates'[n] = IF n = name THEN record ELSE templates[n]
    BY <2>1 DEF Filed
  <2> QED BY <2>2, <2>3, Ages
<1>2. ASSUME NEW name, NEW newName, NEW display, NEW body,
             UpdateTemplate(name, newName, display, body)
      PROVE  Aging
  <2> DEFINE record == UpdateTemplateRecord(templates[name], display, body, today)
             less == Unfiled(templates, name)
  <2>1. templates' = Filed(less, newName, record) /\ name \in DOMAIN templates
    BY <1>2 DEF UpdateTemplate
  <2>2. /\ record.updated = today
        /\ record.created = IF name \in DOMAIN templates THEN templates[name].created ELSE today
    BY <2>1 DEF UpdateTemplateRecord
  <2>3. DOMAIN less = DOMAIN templates \ {name} /\ \A n \in DOMAIN less : less[n] = templates[n]
    BY DEF Unfiled, Within
  <2> HIDE DEF record, less
  <2>4. /\ DOMAIN templates' = (DOMAIN templates \ {name}) \cup {newName}
        /\ \A n \in DOMAIN templates' : templates'[n] = IF n = newName THEN record ELSE templates[n]
    BY <2>1, <2>3 DEF Filed
  <2>5. newName # name => newName \notin DOMAIN templates
    BY <1>2 DEF UpdateTemplate
  <2>6. \A n \in DOMAIN templates' : templates'[n] = IF n = newName THEN record ELSE templates[n]
    BY <2>4
  <2> QED BY <2>1, <2>2, <2>4, <2>5, <2>6, Ages
<1>3. CASE UNCHANGED templates
  BY <1>3, NothingAges
<1> QED
  BY <1>1, <1>2, <1>3 DEF ProfilesNext, EditSettings, SaveProfile, ProfileFromTemplate,
                          ApplyProfile, profileVars

\* Settings stay legal, keep what identifies the model, and change by what a profile holds
\* (profiles/); and templates keep their dates.
THEOREM SettingsStaySound == ProfilesSpec => SettingsSound
<1>1. ProfilesInv /\ [ProfilesNext]_profileVars
        => [\A name \in Names : ApplyProfile(name) =>
              LET held == profiles[name].settings IN
              /\ settings'["active_profile_name"] = name
              /\ \A f \in Known \ {"active_profile_name"} :
                    f \in Excluded \/ f \notin DOMAIN held.values \cup DOMAIN held.odd
                        => Same(settings, settings', f)]_profileVars
  BY IdentityStays
<1>2. ProfilesInv /\ [ProfilesNext]_profileVars => [Aging]_profileVars
  BY DatesStay
<1>3. ProfilesSpec => []ProfilesInv
  BY ProfilesInvInit, ProfilesInvStep, PTL DEF ProfilesSpec
<1>4. ProfilesSpec => []TemplatesAlwaysApply
  BY <1>3, LegalStays, PTL
<1>5. ProfilesSpec => IdentityUntouched
  BY <1>1, <1>3, PTL DEF ProfilesSpec, IdentityUntouched
<1>6. ProfilesSpec => [][Aging]_profileVars
  BY <1>2, <1>3, PTL DEF ProfilesSpec
<1>7. ProfilesSpec => DatesKept
  BY <1>6 DEF DatesKept, Aging
<1> QED BY <1>4, <1>5, <1>7 DEF SettingsSound

-----------------------------------------------------------------------------
(* Sums over a set, one member at a time: the order makes no difference.    *)

\* MapThenSumSet takes the members one by one; f[s] is what it has for those of s.
Chosen(s) == CHOOSE x \in s : TRUE
Adds(f, v, S) ==
    f = [s \in SUBSET S |-> IF s = {} THEN 0 ELSE v[Chosen(s)] + f[s \ {Chosen(s)}]]

Sums(f, v, S) == IsFiniteSet(S) /\ (\A x \in S : v[x] \in Int) /\ Adds(f, v, S)

LEMMA ChosenIs ==
    ASSUME NEW s, s # {}
    PROVE  Chosen(s) \in s
BY DEF Chosen

\* One member less.
LEMMA OneLess ==
    ASSUME NEW S, IsFiniteSet(S), NEW s \in SUBSET S, NEW x \in s
    PROVE  /\ IsFiniteSet(s) /\ s \ {x} \in SUBSET S
           /\ Cardinality(s) \in Nat /\ Cardinality(s) > 0
           /\ Cardinality(s \ {x}) = Cardinality(s) - 1
<1>1. IsFiniteSet(s) BY FS_Subset
<1>2. Cardinality(s \ {x}) = Cardinality(s) - 1 BY <1>1, FS_RemoveElement
<1>3. Cardinality(s) \in Nat BY <1>1, FS_CardinalityType
<1>4. Cardinality(s) # 0 BY <1>1, FS_EmptySet
<1> QED BY <1>1, <1>2, <1>3, <1>4

LEMMA SumsExist ==
    ASSUME NEW S, IsFiniteSet(S), NEW v
    PROVE  \E f : Adds(f, v, S)
<1> DEFINE Upto(n) == {s \in SUBSET S : Cardinality(s) <= n}
           Is(f, n) == f = [s \in Upto(n) |->
                              IF s = {} THEN 0 ELSE v[Chosen(s)] + f[s \ {Chosen(s)}]]
           N == {n \in Nat : \E f : Is(f, n)}
<1>1. \A s \in SUBSET S : Cardinality(s) \in Nat /\ IsFiniteSet(s)
  BY FS_Subset, FS_CardinalityType
<1>2. 0 \in N
  <2> DEFINE f == [s \in Upto(0) |-> 0]
             g == [s \in Upto(0) |-> IF s = {} THEN 0 ELSE v[Chosen(s)] + f[s \ {Chosen(s)}]]
  <2>1. \A s \in Upto(0) : s = {} BY <1>1, FS_EmptySet
  <2>2. f = g BY <2>1
  <2>3. Is(f, 0) BY <2>2
  <2> HIDE DEF f, Is
  <2> QED BY <2>3
<1>3. ASSUME NEW n \in N PROVE n + 1 \in N
  <2>1. n \in Nat OBVIOUS
  <2>2. PICK f : Is(f, n) OBVIOUS
  <2> DEFINE g == [s \in Upto(n + 1) |-> IF s = {} THEN 0
                                         ELSE v[Chosen(s)] + f[s \ {Chosen(s)}]]
             h == [s \in Upto(n + 1) |-> IF s = {} THEN 0
                                         ELSE v[Chosen(s)] + g[s \ {Chosen(s)}]]
  <2>3. \A s \in Upto(n) : s \in Upto(n + 1) /\ f[s] = g[s]
    <3>1. ASSUME NEW s \in Upto(n)
          PROVE  s \in Upto(n + 1) /\ f[s] = g[s]
      <4>1. s \in Upto(n + 1) BY <1>1, <2>1
      <4>2. f[s] = IF s = {} THEN 0 ELSE v[Chosen(s)] + f[s \ {Chosen(s)}] BY <2>2
      <4> QED BY <4>1, <4>2
    <3> QED BY <3>1
  <2>4. \A s \in Upto(n + 1) : g[s] = h[s]
    <3>1. ASSUME NEW s \in Upto(n + 1), s # {}
          PROVE  g[s] = h[s]
      <4>1. Chosen(s) \in s BY <3>1, ChosenIs
      <4>2. s \ {Chosen(s)} \in Upto(n) BY <1>1, <2>1, <4>1, OneLess
      <4>3. f[s \ {Chosen(s)}] = g[s \ {Chosen(s)}] BY <2>3, <4>2
      <4> QED BY <3>1, <4>3
    <3> QED BY <3>1
  <2>5. g = h
    <3>1. g = [s \in Upto(n + 1) |-> g[s]] /\ h = [s \in Upto(n + 1) |-> h[s]] OBVIOUS
    <3> HIDE DEF g, h, Upto
    <3> QED BY <2>4, <3>1
  <2>6. Is(g, n + 1) BY <2>5
  <2> HIDE DEF g, h, Is
  <2> QED BY <2>1, <2>6
<1>4. N \subseteq Nat OBVIOUS
<1> HIDE DEF N
<1>5. Cardinality(S) \in N BY <1>1, <1>2, <1>3, <1>4, Induct
<1>6. Upto(Cardinality(S)) = SUBSET S
  <2>1. ASSUME NEW s \in SUBSET S PROVE Cardinality(s) <= Cardinality(S) BY FS_Subset
  <2> QED BY <2>1
<1> QED BY <1>5, <1>6 DEF N, Adds

\* A sum is what any member says and the sum of the others.
LEMMA SumTakes ==
    ASSUME NEW S, NEW v, NEW f, Sums(f, v, S)
    PROVE  /\ f[{}] = 0
           /\ \A s \in SUBSET S : f[s] \in Int
           /\ \A s \in SUBSET S : \A x \in s : f[s] = v[x] + f[s \ {x}]
<1> DEFINE Good(s) == f[s] \in Int /\ \A x \in s : f[s] = v[x] + f[s \ {x}]
           N == {n \in Nat : \A s \in SUBSET S : Cardinality(s) <= n => Good(s)}
<1>0. IsFiniteSet(S) /\ (\A x \in S : v[x] \in Int) /\ Adds(f, v, S) BY DEF Sums
<1>1. \A s \in SUBSET S : Cardinality(s) \in Nat /\ IsFiniteSet(s)
  BY <1>0, FS_Subset, FS_CardinalityType
<1>2. f[{}] = 0 BY <1>0 DEF Adds
<1>3. \A s \in SUBSET S : s # {} => f[s] = v[Chosen(s)] + f[s \ {Chosen(s)}] BY <1>0 DEF Adds
<1>4. 0 \in N
  <2>1. \A s \in SUBSET S : Cardinality(s) <= 0 => s = {} BY <1>1, FS_EmptySet
  <2>2. Good({}) BY <1>2
  <2> HIDE DEF Good
  <2> QED BY <2>1, <2>2
<1>5. ASSUME NEW n \in N PROVE n + 1 \in N
  <2>1. n \in Nat /\ \A s \in SUBSET S : Cardinality(s) <= n => Good(s) OBVIOUS
  <2>2. ASSUME NEW s \in SUBSET S, Cardinality(s) <= n + 1 PROVE Good(s)
    <3>1. CASE s = {} BY <1>2, <3>1
    <3>2. CASE s # {}
      <4> DEFINE c == Chosen(s)
      <4>1. c \in s BY <3>2, ChosenIs
      <4>2. \A x \in s : s \ {x} \in SUBSET S /\ Good(s \ {x})
        BY <1>0, <1>1, <2>1, <2>2, OneLess
      <4>3. f[s] = v[c] + f[s \ {c}] BY <1>3, <3>2
      <4> HIDE DEF c
      <4>4. f[s] \in Int BY <1>0, <4>1, <4>2, <4>3
      <4>5. ASSUME NEW x \in s PROVE f[s] = v[x] + f[s \ {x}]
        <5>1. CASE x = c BY <4>3, <5>1
        <5>2. CASE x # c
          <6>1. x \in s \ {c} /\ c \in s \ {x} BY <4>1, <5>2
          <6>2. f[s \ {c}] = v[x] + f[(s \ {c}) \ {x}] BY <4>1, <4>2, <6>1
          <6>3. f[s \ {x}] = v[c] + f[(s \ {x}) \ {c}] BY <4>2, <6>1
          <6>4. (s \ {c}) \ {x} = (s \ {x}) \ {c} OBVIOUS
          <6> DEFINE rest == f[(s \ {c}) \ {x}]
          <6>5. v[x] \in Int /\ v[c] \in Int BY <1>0, <4>1
          <6>6. rest \in Int
            <7>1. Good(s \ {c}) /\ s \ {c} \in SUBSET S BY <4>1, <4>2
            <7>2. (s \ {c}) \ {x} \in SUBSET S OBVIOUS
            <7>3. Cardinality((s \ {c}) \ {x}) <= n
              BY <1>0, <1>1, <2>1, <2>2, <4>1, <6>1, <7>1, OneLess
            <7> QED BY <2>1, <7>2, <7>3
          <6>7. f[(s \ {x}) \ {c}] = rest BY <6>4
          <6> HIDE DEF rest
          <6> QED BY <4>3, <6>2, <6>3, <6>5, <6>6, <6>7 DEF rest
        <5> QED BY <5>1, <5>2
      <4> QED BY <4>4, <4>5
    <3> QED BY <3>1, <3>2
  <2> HIDE DEF Good
  <2> QED BY <2>1, <2>2
<1>6. N \subseteq Nat OBVIOUS
<1>7. ASSUME NEW s \in SUBSET S PROVE Good(s)
  <2> HIDE DEF N
  <2>1. Cardinality(s) \in N BY <1>1, <1>4, <1>5, <1>6, Induct
  <2> HIDE DEF Good
  <2> QED BY <1>1, <2>1 DEF N
<1> QED BY <1>2, <1>7

LEMMA SumStep ==
    ASSUME NEW S, NEW v, NEW f, Sums(f, v, S), NEW s \in SUBSET S, NEW x \in s
    PROVE  f[s] = v[x] + f[s \ {x}]
BY SumTakes

\* What is summed may be a part of something: only its own members count.
LEMMA SumsAgree ==
    ASSUME NEW S, NEW v, NEW f, Sums(f, v, S), NEW T, NEW w, NEW g, Sums(g, w, T),
           NEW U \in (SUBSET S) \cap (SUBSET T), \A x \in U : v[x] = w[x]
    PROVE  f[U] = g[U]
<1> DEFINE N == {n \in Nat : \A s \in SUBSET U : Cardinality(s) <= n => f[s] = g[s]}
<1>0. IsFiniteSet(U) /\ Cardinality(U) \in Nat BY FS_Subset, FS_CardinalityType DEF Sums
<1>1. \A s \in SUBSET U : Cardinality(s) \in Nat /\ IsFiniteSet(s)
  BY <1>0, FS_Subset, FS_CardinalityType
<1>2. f[{}] = g[{}] BY SumTakes
<1>3. \A s \in SUBSET U : s # {} => /\ f[s] = v[Chosen(s)] + f[s \ {Chosen(s)}]
                                   /\ g[s] = w[Chosen(s)] + g[s \ {Chosen(s)}]
  <2>1. \A s \in SUBSET S : s # {} => f[s] = v[Chosen(s)] + f[s \ {Chosen(s)}]
    BY SumTakes, ChosenIs
  <2>2. \A s \in SUBSET T : s # {} => g[s] = w[Chosen(s)] + g[s \ {Chosen(s)}]
    <3>1. ASSUME NEW s \in SUBSET T, NEW x \in s PROVE g[s] = w[x] + g[s \ {x}]
      BY <3>1, SumStep
    <3> QED BY <3>1, ChosenIs
  <2> QED BY <2>1, <2>2
<1>4. 0 \in N
  <2>1. \A s \in SUBSET U : Cardinality(s) <= 0 => s = {} BY <1>1, FS_EmptySet
  <2> QED BY <1>2, <2>1
<1>5. ASSUME NEW n \in N PROVE n + 1 \in N
  <2>1. n \in Nat /\ \A s \in SUBSET U : Cardinality(s) <= n => f[s] = g[s] OBVIOUS
  <2>2. ASSUME NEW s \in SUBSET U, Cardinality(s) <= n + 1 PROVE f[s] = g[s]
    <3>1. CASE s = {} BY <1>2, <3>1
    <3>2. CASE s # {}
      <4>1. Chosen(s) \in s BY <3>2, ChosenIs
      <4>2. f[s \ {Chosen(s)}] = g[s \ {Chosen(s)}]
        BY <1>0, <1>1, <2>1, <2>2, <4>1, OneLess
      <4>3. v[Chosen(s)] = w[Chosen(s)] BY <4>1
      <4> QED BY <1>3, <3>2, <4>2, <4>3
    <3> QED BY <3>1, <3>2
  <2> QED BY <2>1, <2>2
<1>6. N \subseteq Nat OBVIOUS
<1> HIDE DEF N
<1>7. Cardinality(U) \in N BY <1>0, <1>4, <1>5, <1>6, Induct
<1> QED BY <1>0, <1>7 DEF N

LEMMA SumOfNothing ==
    ASSUME NEW S, NEW v, NEW f, Sums(f, v, S), \A x \in S : v[x] = 0
    PROVE  f[S] = 0
<1> DEFINE g == [s \in SUBSET S |-> 0]
           w == [x \in S |-> 0]
           h == [s \in SUBSET S |-> IF s = {} THEN 0 ELSE w[Chosen(s)] + g[s \ {Chosen(s)}]]
<1>1. \A s \in SUBSET S : s # {} => w[Chosen(s)] = 0 /\ g[s \ {Chosen(s)}] = 0
  BY ChosenIs
<1>2. g = h
  <2>1. ASSUME NEW s \in SUBSET S PROVE g[s] = h[s]
    <3>1. g[s] = 0 OBVIOUS
    <3>2. h[s] = IF s = {} THEN 0 ELSE w[Chosen(s)] + g[s \ {Chosen(s)}] OBVIOUS
    <3>3. CASE s = {} BY <3>1, <3>2, <3>3
    <3>4. CASE s # {}
      <4>1. w[Chosen(s)] = 0 /\ g[s \ {Chosen(s)}] = 0 BY <1>1, <3>4
      <4> HIDE DEF g, h, w
      <4> QED BY <3>1, <3>2, <3>4, <4>1
    <3> QED BY <3>3, <3>4
  <2>2. g = [s \in SUBSET S |-> g[s]] /\ h = [s \in SUBSET S |-> h[s]] OBVIOUS
  <2> HIDE DEF g, h
  <2> QED BY <2>1, <2>2
<1>3. g[S] = 0 OBVIOUS
<1>4. \A x \in S : w[x] \in Int /\ v[x] = w[x] OBVIOUS
<1>5. Adds(g, w, S)
  <2> HIDE DEF g, w
  <2> QED BY <1>2 DEF Adds
<1> HIDE DEF g, w, h
<1>6. Sums(g, w, S) BY <1>4, <1>5 DEF Sums
<1>7. S \in (SUBSET S) \cap (SUBSET S) OBVIOUS
<1>8. f[S] = g[S] BY <1>4, <1>6, <1>7, SumsAgree
<1> QED BY <1>3, <1>8

\* Of two sums over S, one counts d more for the member m.
LEMMA SumChanges ==
    ASSUME NEW S, NEW v, NEW w, NEW f, Sums(f, v, S), NEW g, Sums(g, w, S),
           NEW m \in S, NEW d \in Int, w[m] = v[m] + d, \A x \in S : x # m => w[x] = v[x]
    PROVE  f[S] \in Int /\ g[S] = f[S] + d
<1>1. /\ \A s \in SUBSET S : f[s] \in Int
      /\ \A s \in SUBSET S : \A x \in s : f[s] = v[x] + f[s \ {x}]
  BY SumTakes
<1>2. /\ \A s \in SUBSET S : g[s] \in Int
      /\ \A s \in SUBSET S : \A x \in s : g[s] = w[x] + g[s \ {x}]
  <2>1. ASSUME NEW s \in SUBSET S, NEW x \in s PROVE g[s] = w[x] + g[s \ {x}]
    BY SumTakes
  <2> QED BY <2>1, SumTakes
<1>3. f[S \ {m}] = g[S \ {m}]
  <2>1. S \ {m} \in (SUBSET S) \cap (SUBSET S) /\ \A x \in S \ {m} : v[x] = w[x] OBVIOUS
  <2> QED BY <2>1, SumsAgree
<1>4. f[S] = v[m] + f[S \ {m}] /\ g[S] = w[m] + g[S \ {m}] BY <1>1, <1>2
<1>5. v[m] \in Int /\ f[S] \in Int /\ f[S \ {m}] \in Int BY <1>1 DEF Sums
<1> QED BY <1>3, <1>4, <1>5


\* A sum over one member more.
LEMMA SumGrows ==
    ASSUME NEW S, NEW v, NEW f, Sums(f, v, S), NEW t, t \notin S,
           NEW T, T = S \cup {t}, NEW g, Sums(g, v, T)
    PROVE  f[S] \in Int /\ g[T] = v[t] + f[S]
<1>1. T \in SUBSET T /\ t \in T /\ T \ {t} = S OBVIOUS
<1>2. g[T] = v[t] + g[T \ {t}]
  BY <1>1, SumStep
<1>3. S \in (SUBSET S) \cap (SUBSET T) OBVIOUS
<1>4. ASSUME NEW w, w = v PROVE f[S] = g[S]
  <2>1. Sums(g, w, T) /\ \A x \in S : v[x] = w[x] BY <1>4
  <2> QED BY <1>3, <2>1, SumsAgree
<1>5. f[S] \in Int
  <2>1. S \in SUBSET S OBVIOUS
  <2> QED BY <2>1, SumTakes
<1>6. f[S] = g[S] BY <1>4
<1> QED BY <1>1, <1>2, <1>5, <1>6

-----------------------------------------------------------------------------
(* Statistics: for any counts, clocks and calls.                            *)

Counters  == [CounterKeys -> Nat]
Snapshots == [ts : Nat, counters : Counters, happened : Counters]

\* Between two moments more happened than the counters show, and never less than nothing.
Grew(old, new) ==
    \A key \in CounterKeys :
        /\ old.happened[key] <= new.happened[key]
        /\ new.counters[key] - old.counters[key] <= new.happened[key] - old.happened[key]

Present == [ts |-> now, counters |-> counts, happened |-> happened]

\* The snapshots of a ring, in the order in which they were taken.
InRing(ring) ==
    \A i, j \in DOMAIN ring : i < j => /\ ring[i].ts + MinInterval <= ring[j].ts
                                      /\ Grew(ring[i], ring[j])

Behind(ring, moment) ==
    \A i \in DOMAIN ring : ring[i].ts <= moment.ts /\ Grew(ring[i], moment)

\* A viewer that waits for its rates will be shown nothing old.
Waits(v) ==
    /\ viewer[v] = [at |-> viewer[v].at, since |-> viewer[v].since, shown |-> viewer[v].shown]
    /\ viewer[v].at = "asking" =>
         /\ viewer[v].since \in Nat /\ viewer[v].since <= now
         /\ snapshots # <<>> => \/ Newest.ts = viewer[v].since
                                \/ Newest.ts + MinInterval > viewer[v].since

RatesInv ==
    /\ counts \in Counters /\ happened \in Counters /\ now \in Nat
    /\ snapshots \in Seq(Snapshots) /\ Len(snapshots) <= MaxSnapshots
    /\ InRing(snapshots) /\ Behind(snapshots, Present)
    /\ viewer = [v \in Viewers |-> viewer[v]]
    /\ \A v \in Viewers : Waits(v)

-----------------------------------------------------------------------------
LEMMA RatesInvInit == StatInit => RatesInv
<1> SUFFICES ASSUME StatInit PROVE RatesInv
  OBVIOUS
<1>1. snapshots \in Seq(Snapshots) /\ DOMAIN snapshots = {} /\ Len(snapshots) = 0
  BY DEF StatInit
<1>2. counts \in Counters /\ happened \in Counters /\ now \in Nat
  BY DEF StatInit, Counters
<1>3. InRing(snapshots) /\ Behind(snapshots, Present)
  BY <1>1 DEF InRing, Behind
<1>4. viewer = [v \in Viewers |-> viewer[v]] /\ \A v \in Viewers : Waits(v)
  BY DEF StatInit, Waits
<1> QED BY <1>1, <1>2, <1>3, <1>4, StatisticsAssumption DEF RatesInv

\* What is left when the oldest ones make room.
LEMMA TrimmedIs ==
    ASSUME NEW ring \in Seq(Snapshots), Len(ring) <= MaxSnapshots + 1, ring # <<>>
    PROVE  \E d \in 0..Len(ring) - 1 :
              /\ Trimmed(ring) \in Seq(Snapshots) /\ Len(Trimmed(ring)) = Len(ring) - d
              /\ Len(ring) - d <= MaxSnapshots
              /\ \A i \in 1..Len(ring) - d : Trimmed(ring)[i] = ring[i + d]
<1> DEFINE n == Len(ring)
<1>1. n \in Nat /\ n > 0 /\ MaxSnapshots \in Nat /\ MaxSnapshots > 0
  BY StatisticsAssumption
<1>2. CASE n <= MaxSnapshots
  <2>1. Trimmed(ring) = ring BY <1>1, <1>2 DEF Trimmed
  <2> WITNESS 0 \in 0..n - 1
  <2> QED BY <1>1, <1>2, <2>1
<1>3. CASE n > MaxSnapshots
  <2> DEFINE d == n - MaxSnapshots
             t == SubSeq(ring, d + 1, n)
  <2>1. Trimmed(ring) = t BY <1>1, <1>3 DEF Trimmed
  <2>2. d \in 0..n - 1 /\ n - d = MaxSnapshots BY <1>1, <1>3
  <2>3. t \in Seq(Snapshots) /\ Len(t) = n - d /\ \A i \in 1..n - d : t[i] = ring[i + d]
    <3>1. d + 1 \in 1..n + 1 /\ n \in d..n BY <1>1, <2>2
    <3>2. t = [i \in 1..n - d |-> ring[i + d]]
      BY <1>1, <2>2
    <3>3. \A i \in 1..n - d : ring[i + d] \in Snapshots
      BY <1>1, <2>2
    <3> QED BY <1>1, <2>2, <3>2, <3>3
  <2> HIDE DEF d, t
  <2> QED BY <2>1, <2>2, <2>3, <1>1
<1> QED BY <1>1, <1>2, <1>3

LEMMA GrewOn ==
    ASSUME NEW a, NEW b, NEW c, a.counters \in Counters, a.happened \in Counters,
           b.counters \in Counters, b.happened \in Counters,
           c.counters \in Counters, c.happened \in Counters, Grew(a, b), Grew(b, c)
    PROVE  Grew(a, c)
<1> SUFFICES ASSUME NEW key \in CounterKeys
             PROVE  /\ a.happened[key] <= c.happened[key]
                    /\ c.counters[key] - a.counters[key] <= c.happened[key] - a.happened[key]
  BY DEF Grew
<1>1. /\ a.happened[key] \in Nat /\ b.happened[key] \in Nat /\ c.happened[key] \in Nat
      /\ a.counters[key] \in Nat /\ b.counters[key] \in Nat /\ c.counters[key] \in Nat
  BY DEF Counters
<1>2. /\ a.happened[key] <= b.happened[key]
      /\ b.counters[key] - a.counters[key] <= b.happened[key] - a.happened[key]
      /\ b.happened[key] <= c.happened[key]
      /\ c.counters[key] - b.counters[key] <= c.happened[key] - b.happened[key]
  BY DEF Grew
<1> QED BY <1>1, <1>2

\* A snapshot is taken.
LEMMA RingGoesOn ==
    ASSUME RatesInv, ~TooSoon,
           snapshots' = Trimmed(Append(snapshots, Present))
    PROVE  /\ snapshots' \in Seq(Snapshots) /\ Len(snapshots') <= MaxSnapshots
           /\ InRing(snapshots') /\ Behind(snapshots', Present)
           /\ snapshots' # <<>> /\ Newest'.ts = now
<1> DEFINE ring == Append(snapshots, Present)
           n == Len(snapshots)
<1>1. /\ snapshots \in Seq(Snapshots) /\ n \in Nat /\ n <= MaxSnapshots /\ MaxSnapshots \in Nat
      /\ MinInterval \in Nat /\ now \in Nat
  BY StatisticsAssumption DEF RatesInv
<1>2. Present \in Snapshots /\ Present.ts = now
  BY DEF RatesInv, Present, Snapshots
<1>3. ring \in Seq(Snapshots) /\ Len(ring) = n + 1 /\ ring # <<>> /\ ring[n + 1] = Present
      /\ \A i \in 1..n : ring[i] = snapshots[i]
  BY <1>1, <1>2
<1>4. \A i \in 1..n : snapshots[i].ts + MinInterval <= now
  <2> SUFFICES ASSUME NEW i \in 1..n PROVE snapshots[i].ts + MinInterval <= now
    OBVIOUS
  <2>0. snapshots[n] \in Snapshots /\ snapshots[i] \in Snapshots /\ n > 0
    BY <1>1
  <2>1. now - snapshots[n].ts >= MinInterval /\ snapshots[n].ts \in Nat /\ snapshots[i].ts \in Nat
    <3>1. snapshots[n].ts \in Nat /\ snapshots[i].ts \in Nat BY <2>0 DEF Snapshots
    <3> QED BY <1>1, <2>0, <3>1 DEF TooSoon, Newest
  <2>2. i < n => snapshots[i].ts + MinInterval <= snapshots[n].ts
    BY <1>1 DEF RatesInv, InRing
  <2> QED BY <1>1, <2>1, <2>2
<1>5. InRing(ring)
  <2> SUFFICES ASSUME NEW i \in 1..n + 1, NEW j \in 1..n + 1, i < j
               PROVE  ring[i].ts + MinInterval <= ring[j].ts /\ Grew(ring[i], ring[j])
    BY <1>3 DEF InRing
  <2>1. i \in 1..n /\ ring[i] = snapshots[i] BY <1>1, <1>3
  <2>2. CASE j = n + 1
    <3>1. Grew(snapshots[i], Present) BY <1>1, <2>1 DEF RatesInv, Behind
    <3> QED BY <1>2, <1>3, <1>4, <2>1, <2>2, <3>1
  <2>3. CASE j # n + 1
    <3>1. j \in 1..n /\ ring[j] = snapshots[j] BY <1>1, <1>3, <2>3
    <3> QED BY <1>1, <2>1, <3>1 DEF RatesInv, InRing
  <2> QED BY <2>2, <2>3
<1>6. Behind(ring, Present)
  <2> SUFFICES ASSUME NEW i \in 1..n + 1
               PROVE  ring[i].ts <= Present.ts /\ Grew(ring[i], Present)
    BY <1>3 DEF Behind
  <2>1. CASE i \in 1..n
    BY <1>1, <1>3, <2>1 DEF RatesInv, Behind
  <2>2. CASE i = n + 1
    <3>1. \A key \in CounterKeys : Present.happened[key] \in Nat /\ Present.counters[key] \in Nat
      BY DEF RatesInv, Present, Counters
    <3>2. Grew(Present, Present)
      BY <3>1 DEF Grew
    <3> QED BY <1>1, <1>2, <1>3, <2>2, <3>2
  <2> QED BY <1>1, <2>1, <2>2
<1> HIDE DEF ring
<1>7. PICK d \in 0..n : /\ Trimmed(ring) \in Seq(Snapshots) /\ Len(Trimmed(ring)) = n + 1 - d
                        /\ n + 1 - d <= MaxSnapshots
                        /\ \A i \in 1..n + 1 - d : Trimmed(ring)[i] = ring[i + d]
  <2>1. Len(ring) - 1 = n /\ Len(ring) <= MaxSnapshots + 1 BY <1>1, <1>3
  <2>2. \E d \in 0..Len(ring) - 1 :
              /\ Trimmed(ring) \in Seq(Snapshots) /\ Len(Trimmed(ring)) = Len(ring) - d
              /\ Len(ring) - d <= MaxSnapshots
              /\ \A i \in 1..Len(ring) - d : Trimmed(ring)[i] = ring[i + d]
    BY <1>3, <2>1, TrimmedIs
  <2> QED BY <1>3, <2>1, <2>2
<1>8. snapshots' = Trimmed(ring) BY DEF ring
<1>9. /\ snapshots' \in Seq(Snapshots) /\ Len(snapshots') = n + 1 - d /\ Len(snapshots') > 0
      /\ DOMAIN snapshots' = 1..n + 1 - d /\ Len(snapshots') <= MaxSnapshots
  BY <1>1, <1>7, <1>8
<1>10. \A i \in DOMAIN snapshots' : i + d \in DOMAIN ring /\ snapshots'[i] = ring[i + d]
  BY <1>1, <1>3, <1>7, <1>8, <1>9
<1>11. InRing(snapshots')
  <2> SUFFICES ASSUME NEW i \in DOMAIN snapshots', NEW j \in DOMAIN snapshots', i < j
               PROVE  /\ snapshots'[i].ts + MinInterval <= snapshots'[j].ts
                      /\ Grew(snapshots'[i], snapshots'[j])
    BY DEF InRing
  <2>1. i + d < j + d BY <1>7, <1>9
  <2> QED BY <1>5, <1>10, <2>1 DEF InRing
<1>12. Behind(snapshots', Present)
  BY <1>6, <1>10 DEF Behind
<1>13. snapshots'[n + 1 - d] = Present
  BY <1>1, <1>3, <1>7, <1>8
<1>14. Newest'.ts = now
  BY <1>2, <1>9, <1>13 DEF Newest
<1> QED BY <1>9, <1>11, <1>12, <1>14

\* Counters only grow, but for being reset.
LEMMA TimeGoesOn ==
    ASSUME RatesInv, counts' \in Counters, happened' \in Counters, now' \in Nat, now <= now',
           Grew(Present, Present'), UNCHANGED snapshots
    PROVE  Behind(snapshots, Present)'
<1> SUFFICES ASSUME NEW i \in DOMAIN snapshots
             PROVE  snapshots[i].ts <= now' /\ Grew(snapshots[i], Present')
  BY DEF Behind, Present
<1>1. /\ snapshots[i].ts \in Nat /\ snapshots[i].counters \in Counters
      /\ snapshots[i].happened \in Counters
  <2>1. snapshots[i] \in Snapshots BY DEF RatesInv
  <2> QED BY <2>1 DEF Snapshots
<1>2. snapshots[i].ts <= now /\ Grew(snapshots[i], Present) /\ now \in Nat
  BY DEF RatesInv, Behind, Present
<1>3. /\ Present.counters \in Counters /\ Present.happened \in Counters
      /\ Present'.counters \in Counters /\ Present'.happened \in Counters
  BY DEF RatesInv, Present
<1> QED BY <1>1, <1>2, <1>3, GrewOn

LEMMA ViewersWait ==
    ASSUME RatesInv, UNCHANGED <<snapshots, viewer>>, now' \in Nat, now <= now'
    PROVE  \A v \in Viewers : Waits(v)'
BY DEF RatesInv, Waits, Newest

LEMMA PlusGrows ==
    ASSUME counts \in Counters, happened \in Counters, NEW some
    PROVE  /\ Plus(counts, some) \in Counters /\ Plus(happened, some) \in Counters
           /\ \A key \in CounterKeys :
                /\ happened[key] <= Plus(happened, some)[key]
                /\ Plus(counts, some)[key] - counts[key] <= Plus(happened, some)[key] - happened[key]
BY DEF Plus, Counters

LEMMA LessGrows ==
    ASSUME counts \in Counters, happened \in Counters, NEW some
    PROVE  /\ Less(counts, some) \in Counters
           /\ \A key \in CounterKeys :
                /\ happened[key] <= happened[key]
                /\ Less(counts, some)[key] - counts[key] <= happened[key] - happened[key]
BY DEF Less, Counters

LEMMA RatesInvStep == RatesInv /\ [StatNext]_statVars => RatesInv'
<1> SUFFICES ASSUME RatesInv, [StatNext]_statVars PROVE RatesInv'
  OBVIOUS
<1>0. /\ counts \in Counters /\ happened \in Counters /\ now \in Nat
      /\ MinInterval \in Nat /\ snapshots \in Seq(Snapshots)
      /\ viewer = [v \in Viewers |-> viewer[v]]
  BY StatisticsAssumption DEF RatesInv
<1>g. \A key \in CounterKeys : counts[key] \in Nat /\ happened[key] \in Nat
  BY <1>0 DEF Counters
<1>1. ASSUME NEW op, Record(op) PROVE RatesInv'
  <2>1. /\ counts' = Plus(counts, Bumped(op)) /\ happened' = Plus(happened, Bumped(op))
        /\ UNCHANGED <<now, snapshots, viewer>>
    BY <1>1 DEF Record
  <2>2. counts' \in Counters /\ happened' \in Counters /\ Grew(Present, Present')
    BY <1>0, <2>1, PlusGrows DEF Grew, Present
  <2>3. Behind(snapshots, Present)' BY <1>0, <2>1, <2>2, TimeGoesOn
  <2>4. \A v \in Viewers : Waits(v)' BY <1>0, <2>1, ViewersWait
  <2> QED BY <2>1, <2>2, <2>3, <2>4 DEF RatesInv, InRing
<1>2. ASSUME NEW tier, ResetTier(tier) PROVE RatesInv'
  <2>1. /\ counts' = Less(counts, Cleared(tier))
        /\ UNCHANGED <<happened, now, snapshots, viewer>>
    BY <1>2 DEF ResetTier
  <2>2. counts' \in Counters /\ happened' \in Counters /\ Grew(Present, Present')
    BY <1>0, <2>1, LessGrows DEF Grew, Present
  <2>3. Behind(snapshots, Present)' BY <1>0, <2>1, <2>2, TimeGoesOn
  <2>4. \A v \in Viewers : Waits(v)' BY <1>0, <2>1, ViewersWait
  <2> QED BY <2>1, <2>2, <2>3, <2>4 DEF RatesInv, InRing
<1>3. CASE TimePasses
  <2>1. now' = now + 1 /\ UNCHANGED <<counts, happened, snapshots, viewer>>
    BY <1>3 DEF TimePasses
  <2>2. Grew(Present, Present')
    BY <1>g, <2>1 DEF Grew, Present
  <2>3. Behind(snapshots, Present)' BY <1>0, <2>1, <2>2, TimeGoesOn
  <2>4. \A v \in Viewers : Waits(v)' BY <1>0, <2>1, ViewersWait
  <2> QED BY <1>0, <2>1, <2>3, <2>4 DEF RatesInv, InRing
<1>4. ASSUME NEW v \in Viewers, MaybeSnapshot(v) PROVE RatesInv'
  <2>1. /\ UNCHANGED <<counts, happened, now>>
        /\ viewer' = [viewer EXCEPT ![v] = [at |-> "asking", since |-> now, shown |-> Nowhere]]
        /\ snapshots' = IF TooSoon THEN snapshots ELSE Trimmed(Append(snapshots, Present))
    BY <1>4 DEF MaybeSnapshot, Present
  <2>2. viewer' = [u \in Viewers |-> viewer'[u]]
    BY <1>0, <2>1
  <2>3. /\ viewer'[v] = [at |-> "asking", since |-> now, shown |-> Nowhere]
        /\ \A u \in Viewers \ {v} : viewer'[u] = viewer[u]
    BY <1>0, <2>1
  <2>4. CASE TooSoon
    <3>1. snapshots' = snapshots /\ now - Newest.ts < MinInterval /\ Newest' = Newest
      BY <2>1, <2>4 DEF TooSoon, Newest
    <3>2. Newest.ts \in Nat
      <4>1. Newest \in Snapshots BY <1>0, <2>4 DEF TooSoon, Newest
      <4> QED BY <4>1 DEF Snapshots
    <3>3. Waits(v)' BY <1>0, <2>1, <2>3, <3>1, <3>2 DEF Waits
    <3>4. \A u \in Viewers \ {v} : Waits(u)'
      BY <2>1, <2>3, <3>1 DEF RatesInv, Waits
    <3>5. Behind(snapshots, Present)'
      BY <2>1, <3>1 DEF RatesInv, Behind, Present
    <3> QED BY <2>1, <2>2, <3>1, <3>3, <3>4, <3>5 DEF RatesInv, InRing
  <2>5. CASE ~TooSoon
    <3>1. snapshots' = Trimmed(Append(snapshots, Present)) BY <2>1, <2>5
    <3>2. /\ snapshots' \in Seq(Snapshots) /\ Len(snapshots') <= MaxSnapshots
          /\ InRing(snapshots') /\ Behind(snapshots', Present)
          /\ snapshots' # <<>> /\ Newest'.ts = now
      BY <2>5, <3>1, RingGoesOn
    <3>3. Waits(v)' BY <1>0, <2>1, <2>3, <3>2 DEF Waits
    <3>4. ASSUME NEW u \in Viewers \ {v} PROVE Waits(u)'
      <4>1. Waits(u) BY DEF RatesInv
      <4>2. viewer'[u] = viewer[u] BY <2>3
      <4> QED BY <1>0, <2>1, <3>2, <4>1, <4>2 DEF Waits
    <3>5. Present' = Present BY <2>1 DEF Present
    <3>6. InRing(snapshots)' /\ Behind(snapshots, Present)'
      BY <3>2, <3>5 DEF InRing, Behind
    <3> QED BY <1>0, <2>1, <2>2, <3>2, <3>3, <3>4, <3>6 DEF RatesInv
  <2> QED BY <2>4, <2>5
<1>5. ASSUME NEW v \in Viewers, ShowRates(v) PROVE RatesInv'
  <2>1. /\ UNCHANGED <<counts, happened, now, snapshots>>
        /\ viewer' = [viewer EXCEPT ![v] = [@ EXCEPT !.at = "idle", !.shown = GetRates]]
    BY <1>5 DEF ShowRates
  <2>2. viewer' = [u \in Viewers |-> viewer'[u]]
    BY <1>0, <2>1
  <2>3. viewer[v] = [at |-> viewer[v].at, since |-> viewer[v].since, shown |-> viewer[v].shown]
    BY DEF RatesInv, Waits
  <2>4. viewer'[v] = [at |-> "idle", since |-> viewer[v].since, shown |-> GetRates]
    BY <1>0, <2>1, <2>3
  <2>5. Waits(v)' BY <2>4 DEF Waits
  <2>6. \A u \in Viewers \ {v} : Waits(u)'
    BY <1>0, <2>1 DEF RatesInv, Waits, Newest
  <2>7. Behind(snapshots, Present)' BY <2>1 DEF RatesInv, Behind, Present
  <2> QED BY <2>1, <2>2, <2>5, <2>6, <2>7 DEF RatesInv, InRing
<1>6. CASE ClearSnapshots
  <2>1. UNCHANGED <<counts, happened, now, viewer>> /\ snapshots' = <<>>
    BY <1>6 DEF ClearSnapshots
  <2>2. snapshots' \in Seq(Snapshots) /\ Len(snapshots') = 0 /\ DOMAIN snapshots' = {}
    BY <2>1
  <2>3. InRing(snapshots)' /\ Behind(snapshots, Present)'
    BY <2>2 DEF InRing, Behind
  <2>4. \A v \in Viewers : Waits(v)'
    BY <2>1 DEF RatesInv, Waits
  <2> QED BY <2>1, <2>2, <2>3, <2>4, StatisticsAssumption DEF RatesInv
<1>7. CASE UNCHANGED statVars
  <2>1. UNCHANGED <<counts, happened, now, snapshots, viewer>> BY <1>7 DEF statVars
  <2>2. Behind(snapshots, Present)' /\ InRing(snapshots)'
    BY <2>1 DEF RatesInv, Behind, Present, InRing
  <2>3. \A v \in Viewers : Waits(v)' BY <1>0, <2>1, ViewersWait
  <2> QED BY <2>1, <2>2, <2>3 DEF RatesInv
<1> QED BY <1>1, <1>2, <1>3, <1>4, <1>5, <1>6, <1>7 DEF StatNext
-----------------------------------------------------------------------------
\* The windows of a ring, as they are shown.
LEMMA WindowsHonest == RatesInv => RatesHonest
<1> SUFFICES ASSUME RatesInv, NEW w \in DOMAIN GetRates
             PROVE  /\ GetRates[w].elapsed <= w
                    /\ \A key \in CounterKeys :
                          /\ GetRates[w].grown[key] >= 0
                          /\ GetRates[w].grown[key] <= Newest.happened[key] - Baseline(w).happened[key]
  BY DEF RatesHonest
<1> DEFINE n == Len(snapshots)
           old == Baseline(w)
           new == Newest
<1>1. /\ snapshots \in Seq(Snapshots) /\ n \in Nat /\ n > 0 /\ w \in Spans /\ w \in Nat
      /\ GetRates[w] = ComputeWindow(old, new)
  BY StatisticsAssumption DEF RatesInv, GetRates, Nowhere
<1>2. new = snapshots[n] /\ new \in Snapshots
  BY <1>1 DEF Newest
<1>3. InWindow(w) \subseteq 1..n /\ n \in InWindow(w)
  BY <1>1, <1>2 DEF InWindow, Snapshots
<1>4. PICK i \in InWindow(w) : old = snapshots[i]
  <2>1. \E i \in InWindow(w) : \A j \in InWindow(w) : i <= j
    <3>1. InWindow(w) \subseteq Nat /\ InWindow(w) # {} BY <1>3
    <3> QED BY <3>1, LeastOf
  <2> QED BY <1>3, <2>1 DEF Baseline
<1>5. /\ i \in 1..n /\ old \in Snapshots /\ new.ts - old.ts <= w
  BY <1>1, <1>3, <1>4 DEF InWindow
<1>6. Grew(old, new)
  <2>1. CASE i = n
    <3>1. \A key \in CounterKeys : new.happened[key] \in Nat /\ new.counters[key] \in Nat
      BY <1>2 DEF Snapshots, Counters
    <3> QED BY <1>2, <1>4, <2>1, <3>1 DEF Grew
  <2>2. CASE i < n
    BY <1>1, <1>2, <1>4, <1>5, <2>2 DEF RatesInv, InRing
  <2> QED BY <1>1, <1>5, <2>1, <2>2
<1> HIDE DEF old, new
<1>7. old.ts \in Nat /\ new.ts \in Nat
  BY <1>2, <1>5 DEF Snapshots
<1>8. ASSUME NEW key \in CounterKeys
      PROVE  /\ GetRates[w].grown[key] >= 0
             /\ GetRates[w].grown[key] <= new.happened[key] - old.happened[key]
  <2>1. /\ old.happened[key] \in Nat /\ new.happened[key] \in Nat
        /\ old.counters[key] \in Nat /\ new.counters[key] \in Nat
    BY <1>2, <1>5 DEF Snapshots, Counters
  <2>2. /\ old.happened[key] <= new.happened[key]
        /\ new.counters[key] - old.counters[key] <= new.happened[key] - old.happened[key]
    BY <1>6 DEF Grew
  <2>3. GetRates[w].grown[key] = IF new.ts - old.ts < 1 THEN 0
                                 ELSE Delta(old.counters[key], new.counters[key])
    BY <1>1 DEF ComputeWindow, NoWindow
  <2> QED BY <1>7, <2>1, <2>2, <2>3 DEF Delta
<1>9. GetRates[w].elapsed <= w
  BY <1>1, <1>5, <1>7 DEF ComputeWindow, NoWindow
<1> QED BY <1>8, <1>9 DEF old, new

LEMMA RingIsSpaced == RatesInv => RingSpaced
BY DEF RatesInv, RingSpaced, InRing

LEMMA ShownFresh ==
    ASSUME RatesInv, NEW v \in Viewers, ShowRates(v), DOMAIN viewer'[v].shown # {}
    PROVE  Newest.ts = viewer[v].since \/ Newest.ts + MinInterval > viewer[v].since
<1>1. /\ viewer = [u \in Viewers |-> viewer[u]]
      /\ viewer' = [viewer EXCEPT ![v] = [@ EXCEPT !.at = "idle", !.shown = GetRates]]
      /\ viewer[v].at = "asking" /\ Waits(v)
  BY DEF RatesInv, ShowRates
<1>2. viewer'[v].shown = GetRates
  <2>1. viewer[v] = [at |-> viewer[v].at, since |-> viewer[v].since, shown |-> viewer[v].shown]
    BY <1>1 DEF Waits
  <2> QED BY <1>1, <2>1
<1>3. Len(snapshots) # 0
  BY <1>2 DEF GetRates, Nowhere
<1> QED BY <1>1, <1>3 DEF Waits

\* The rates that a dashboard shows (observability.go), for any number of viewers, whoever
\* records, resets, snapshots or clears in between.
THEOREM RatesAreSound == StatSpec => RatesSound
<1>1. StatSpec => []RatesInv
  BY RatesInvInit, RatesInvStep, PTL DEF StatSpec
<1>2. RatesInv /\ [StatNext]_statVars
        => [\A v \in Viewers : ShowRates(v) /\ DOMAIN viewer'[v].shown # {} =>
              Newest.ts = viewer[v].since \/ Newest.ts + MinInterval > viewer[v].since]_statVars
  BY ShownFresh
<1>3. StatSpec => RatesFresh
  BY <1>1, <1>2, PTL DEF StatSpec, RatesFresh
<1>4. StatSpec => []RingSpaced /\ []RatesHonest
  BY <1>1, RingIsSpaced, WindowsHonest, PTL
<1> QED BY <1>3, <1>4 DEF RatesSound

-----------------------------------------------------------------------------
(* The counters of requests: for any models and completions.               *)

Counts(c) ==
    /\ c \in [prompt : Nat, completion : Nat, cached : Nat, requests : Nat, prefill : Nat,
              generation : Nat]
    /\ c.cached <= c.prompt
    /\ c.requests = 0 => c = NoCounters

Fields == {"served", "cached", "prompt", "completion", "requests"}

\* What a request adds to a field that is shown.
Gain(r, field) == BuildSnapshot(Added(NoCounters, r))[field]

LEMMA NothingCounts == Counts(NoCounters)
BY DEF Counts, NoCounters

LEMMA ShownCounts ==
    ASSUME NEW c, Counts(c), NEW field \in Fields
    PROVE  BuildSnapshot(c)[field] \in Nat
BY DEF Counts, Fields, BuildSnapshot

LEMMA AddedCounts ==
    ASSUME NEW c, Counts(c), NEW r \in Completions
    PROVE  Counts(Added(c, r))
<1> DEFINE d == Added(c, r)
<1>1. /\ r.prompt \in Nat /\ r.completion \in Nat /\ r.cached \in Nat /\ r.prefill \in Nat
      /\ r.generation \in Nat /\ r.cached <= r.prompt
  BY MetricsAssumption
<1>2. /\ c.prompt \in Nat /\ c.completion \in Nat /\ c.cached \in Nat /\ c.prefill \in Nat
      /\ c.generation \in Nat /\ c.requests \in Nat /\ c.cached <= c.prompt
  BY DEF Counts
<1>3. d \in [prompt : Nat, completion : Nat, cached : Nat, requests : Nat, prefill : Nat,
             generation : Nat]
  BY <1>1, <1>2 DEF Added
<1>4. d.cached <= d.prompt /\ d.requests # 0 BY <1>1, <1>2 DEF Added
<1> QED BY <1>3, <1>4 DEF Counts

LEMMA AddedShows ==
    ASSUME NEW c, Counts(c), NEW r \in Completions, NEW field \in Fields
    PROVE  /\ Gain(r, field) \in Nat
           /\ BuildSnapshot(Added(c, r))[field] = BuildSnapshot(c)[field] + Gain(r, field)
<1>1. /\ r.prompt \in Nat /\ r.completion \in Nat /\ r.cached \in Nat /\ r.prefill \in Nat
      /\ r.generation \in Nat
  BY MetricsAssumption
<1>2. /\ c.prompt \in Nat /\ c.completion \in Nat /\ c.cached \in Nat /\ c.requests \in Nat
  BY DEF Counts
<1>3. Gain(r, field) \in Nat BY NothingCounts, AddedCounts, ShownCounts DEF Gain
<1>4. CASE field = "served"
  BY <1>1, <1>2, <1>4 DEF Gain, BuildSnapshot, Added, NoCounters
<1>5. CASE field = "cached"
  BY <1>1, <1>2, <1>5 DEF Gain, BuildSnapshot, Added, NoCounters
<1>6. CASE field = "prompt"
  BY <1>1, <1>2, <1>6 DEF Gain, BuildSnapshot, Added, NoCounters
<1>7. CASE field = "completion"
  BY <1>1, <1>2, <1>7 DEF Gain, BuildSnapshot, Added, NoCounters
<1>8. CASE field = "requests"
  BY <1>1, <1>2, <1>8 DEF Gain, BuildSnapshot, Added, NoCounters
<1> QED BY <1>3, <1>4, <1>5, <1>6, <1>7, <1>8 DEF Fields

\* The counters that a scope has, and what is shown of a model.
ModelsIn(scope) == IF scope = "alltime" THEN alltimePerModel ELSE perModel
TotalOf(scope) == IF scope = "alltime" THEN alltime ELSE session
ShownOf(scope, field) == [id \in ModelIDs |-> BuildSnapshot(ModelCounters(ModelsIn(scope), id))[field]]

LEMMA SnapshotIs ==
    ASSUME NEW scope \in Scopes
    PROVE  /\ GetSnapshot(NoModel, scope) = BuildSnapshot(TotalOf(scope))
           /\ \A id \in ModelIDs :
                 GetSnapshot(id, scope) = BuildSnapshot(ModelCounters(ModelsIn(scope), id))
BY MetricsAssumption DEF GetSnapshot, TotalOf, ModelsIn, ModelCounters, Scopes

LEMMA SumIs ==
    ASSUME NEW scope \in Scopes, NEW field,
           \A id \in ModelIDs : ShownOf(scope, field)[id] \in Int
    PROVE  \E f : /\ Sums(f, ShownOf(scope, field), ModelIDs)
                  /\ SumOf(field, scope) = f[ModelIDs] + BuildSnapshot(anonymous)[field]
<1> DEFINE v == ShownOf(scope, field)
           Is(f) == f = [s \in SUBSET ModelIDs |->
                           IF s = {} THEN 0
                           ELSE GetSnapshot(CHOOSE x \in s : TRUE, scope)[field]
                                  + f[s \ {CHOOSE x \in s : TRUE}]]
           h == CHOOSE f : Is(f)
<1>1. \A s \in SUBSET ModelIDs :
        s # {} => GetSnapshot(CHOOSE x \in s : TRUE, scope)[field] = v[CHOOSE x \in s : TRUE]
  BY SnapshotIs DEF ShownOf
<1>2. ASSUME NEW f PROVE Is(f) <=> Adds(f, v, ModelIDs)
  <2> DEFINE a == [s \in SUBSET ModelIDs |->
                           IF s = {} THEN 0
                           ELSE GetSnapshot(CHOOSE x \in s : TRUE, scope)[field]
                                  + f[s \ {CHOOSE x \in s : TRUE}]]
             b == [s \in SUBSET ModelIDs |->
                      IF s = {} THEN 0
                      ELSE v[CHOOSE x \in s : TRUE] + f[s \ {CHOOSE x \in s : TRUE}]]
  <2> HIDE DEF v
  <2>1. a = b BY <1>1
  <2> QED BY <2>1 DEF Adds, Chosen
<1>3. \E f : Is(f)
  <2> HIDE DEF Is, v
  <2> QED BY <1>2, SumsExist, MetricsAssumption
<1>4. Is(h)
  <2> HIDE DEF Is
  <2> QED BY <1>3
<1>5. SumOf(field, scope) = h[ModelIDs] + BuildSnapshot(anonymous)[field]
  BY DEF SumOf, MapThenSumSet, MapThenFoldSet
<1> HIDE DEF h, Is, v
<1>6. Adds(h, v, ModelIDs) BY <1>2, <1>4
<1>7. Sums(h, v, ModelIDs) BY <1>6, MetricsAssumption DEF Sums, v
<1> QED BY <1>5, <1>7 DEF v

\* The same before and after a step.
IsSum(scope, field) ==
    (\A id \in ModelIDs : ShownOf(scope, field)[id] \in Int) =>
       \E f : /\ Sums(f, ShownOf(scope, field), ModelIDs)
              /\ SumOf(field, scope) = f[ModelIDs] + BuildSnapshot(anonymous)[field]
AreSums == \A scope \in Scopes : \A field \in Fields : IsSum(scope, field)

LEMMA SumsNow == AreSums
BY SumIs DEF AreSums, IsSum

LEMMA SumsNext == AreSums'
BY SumsNow, PTL

MetricsInv ==
    /\ Counts(session) /\ Counts(alltime) /\ Counts(anonymous)
    /\ \A scope \in Scopes : /\ DOMAIN ModelsIn(scope) \subseteq ModelIDs
                            /\ \A id \in DOMAIN ModelsIn(scope) : Counts(ModelsIn(scope)[id])
    /\ \A scope \in Scopes : \A field \in Fields :
          BuildSnapshot(TotalOf(scope))[field] = SumOf(field, scope)

LEMMA EachCounts ==
    ASSUME MetricsInv, NEW scope \in Scopes
    PROVE  /\ Counts(TotalOf(scope))
           /\ \A id \in ModelIDs : Counts(ModelCounters(ModelsIn(scope), id))
           /\ \A field \in Fields : \A id \in ModelIDs : ShownOf(scope, field)[id] \in Int
<1>1. Counts(TotalOf(scope)) BY DEF MetricsInv, TotalOf
<1>2. \A id \in ModelIDs : Counts(ModelCounters(ModelsIn(scope), id))
  BY NothingCounts DEF MetricsInv, ModelCounters
<1>3. \A field \in Fields : \A id \in ModelIDs : ShownOf(scope, field)[id] \in Int
  BY <1>2, ShownCounts DEF ShownOf
<1> QED BY <1>1, <1>2, <1>3

LEMMA MetricsInvInit == MetricsInit => MetricsInv
<1> SUFFICES ASSUME MetricsInit PROVE MetricsInv
  OBVIOUS
<1>1. Counts(session) /\ Counts(alltime) /\ Counts(anonymous)
  BY NothingCounts DEF MetricsInit
<1>2. \A scope \in Scopes : DOMAIN ModelsIn(scope) = {} BY DEF MetricsInit, ModelsIn
<1>3. ASSUME NEW scope \in Scopes, NEW field \in Fields
      PROVE  BuildSnapshot(TotalOf(scope))[field] = SumOf(field, scope)
  <2> DEFINE v == ShownOf(scope, field)
  <2>1. \A id \in ModelIDs : v[id] = 0
    <3>1. BuildSnapshot(NoCounters)[field] = 0 BY DEF Fields, BuildSnapshot, NoCounters
    <3> QED BY <1>2, <3>1 DEF ShownOf, ModelCounters
  <2>2. PICK f : /\ Sums(f, v, ModelIDs)
                 /\ SumOf(field, scope) = f[ModelIDs] + BuildSnapshot(anonymous)[field]
    BY <2>1, SumIs
  <2> HIDE DEF v
  <2>3. f[ModelIDs] = 0 BY <2>1, <2>2, SumOfNothing
  <2>4. BuildSnapshot(TotalOf(scope))[field] = BuildSnapshot(anonymous)[field]
    BY DEF MetricsInit, TotalOf
  <2>5. BuildSnapshot(anonymous)[field] \in Nat BY <1>1, ShownCounts
  <2> QED BY <2>2, <2>3, <2>4, <2>5
<1> QED BY <1>1, <1>2, <1>3 DEF MetricsInv

LEMMA MetricsInvStep == MetricsInv /\ [MetricsNext]_metricsVars => MetricsInv'
<1> SUFFICES ASSUME MetricsInv, [MetricsNext]_metricsVars PROVE MetricsInv'
  OBVIOUS
<1>1. CASE UNCHANGED metricsVars
  <2>1. ASSUME NEW scope \in Scopes, NEW field \in Fields
        PROVE  SumOf(field, scope)' = SumOf(field, scope)
    <3> DEFINE v == ShownOf(scope, field)
               w == ShownOf(scope, field)'
    <3>1. v = w BY <1>1 DEF metricsVars, ShownOf, ModelsIn
    <3>2. \A m \in ModelIDs : v[m] \in Int BY EachCounts
    <3>3. PICK f : /\ Sums(f, v, ModelIDs)
                   /\ SumOf(field, scope) = f[ModelIDs] + BuildSnapshot(anonymous)[field]
      BY <3>2, SumsNow DEF AreSums, IsSum
    <3>4. PICK g : /\ Sums(g, w, ModelIDs)
                   /\ SumOf(field, scope)' = g[ModelIDs] + BuildSnapshot(anonymous')[field]
      BY <3>1, <3>2, SumsNext DEF AreSums, IsSum
    <3> HIDE DEF v, w
    <3>5. f[ModelIDs] = g[ModelIDs] BY <3>1, <3>3, <3>4, SumsAgree
    <3> QED BY <1>1, <3>3, <3>4, <3>5 DEF metricsVars
  <2>2. /\ \A scope \in Scopes : TotalOf(scope)' = TotalOf(scope)
        /\ \A scope \in Scopes : ModelsIn(scope)' = ModelsIn(scope)
    BY <1>1 DEF metricsVars, TotalOf, ModelsIn
  <2>3. UNCHANGED <<session, alltime, anonymous>> BY <1>1 DEF metricsVars
  <2>4. ASSUME NEW scope \in Scopes, NEW field \in Fields
        PROVE  BuildSnapshot(TotalOf(scope)')[field] = SumOf(field, scope)'
    BY <2>1, <2>2 DEF MetricsInv
  <2>5. ASSUME NEW scope \in Scopes
        PROVE  /\ DOMAIN ModelsIn(scope)' \subseteq ModelIDs
               /\ \A id \in DOMAIN ModelsIn(scope)' : Counts(ModelsIn(scope)'[id])
    BY <2>2 DEF MetricsInv
  <2> QED BY <2>3, <2>4, <2>5 DEF MetricsInv
<1>2. ASSUME NEW r \in Completions, NEW id \in ModelIDs \cup {NoModel},
             RecordRequestComplete(r, id)
      PROVE  MetricsInv'
  <2>1. /\ session' = Added(session, r) /\ alltime' = Added(alltime, r)
        /\ anonymous' = IF id = NoModel THEN Added(anonymous, r) ELSE anonymous
    BY <1>2 DEF RecordRequestComplete
  <2>2. Counts(session') /\ Counts(alltime') /\ Counts(anonymous')
    BY <2>1, AddedCounts DEF MetricsInv
  <2>3. \A scope \in Scopes : TotalOf(scope)' = Added(TotalOf(scope), r)
    BY <2>1 DEF TotalOf
  <2>4. ASSUME NEW scope \in Scopes
        PROVE  ModelsIn(scope)' = IF id = NoModel THEN ModelsIn(scope)
                                  ELSE AddedFor(ModelsIn(scope), id, r)
    BY <1>2 DEF RecordRequestComplete, Named, ModelsIn
  <2>5. ASSUME NEW scope \in Scopes
        PROVE  /\ DOMAIN ModelsIn(scope)' \subseteq ModelIDs
               /\ \A m \in DOMAIN ModelsIn(scope)' : Counts(ModelsIn(scope)'[m])
    <3>1. CASE id = NoModel BY <2>4, <3>1 DEF MetricsInv
    <3>2. CASE id # NoModel
      <4>1. id \in ModelIDs BY <3>2
      <4>2. ModelsIn(scope)' = AddedFor(ModelsIn(scope), id, r) BY <2>4, <3>2
      <4>6. /\ DOMAIN ModelsIn(scope)' = DOMAIN ModelsIn(scope) \cup {id}
            /\ \A m \in ModelIDs :
                 ModelCounters(ModelsIn(scope)', m) =
                    IF m = id THEN Added(ModelCounters(ModelsIn(scope), id), r)
                    ELSE ModelCounters(ModelsIn(scope), m)
        BY <4>1, <4>2 DEF AddedFor, ModelCounters
      <4>3. DOMAIN ModelsIn(scope)' \subseteq ModelIDs
        BY <4>1, <4>6 DEF MetricsInv
      <4>4. \A m \in DOMAIN ModelsIn(scope)' :
              ModelsIn(scope)'[m] = ModelCounters(ModelsIn(scope)', m)
        BY DEF ModelCounters
      <4>5. \A m \in ModelIDs : Counts(ModelCounters(ModelsIn(scope)', m))
        BY <4>1, <4>6, AddedCounts, EachCounts
      <4> QED BY <4>3, <4>4, <4>5
    <3> QED BY <3>1, <3>2
  <2>6. ASSUME NEW scope \in Scopes, NEW field \in Fields
        PROVE  (BuildSnapshot(TotalOf(scope))[field] = SumOf(field, scope))'
    <3> DEFINE v == ShownOf(scope, field)
               w == ShownOf(scope, field)'
               d == Gain(r, field)
    <3>1. PICK f : /\ Sums(f, v, ModelIDs)
                   /\ SumOf(field, scope) = f[ModelIDs] + BuildSnapshot(anonymous)[field]
      BY EachCounts, SumIs
    <3>2. \A m \in ModelIDs : w[m] \in Int
      <4>1. \A m \in ModelIDs : Counts(ModelCounters(ModelsIn(scope)', m))
        BY <2>5, NothingCounts DEF ModelCounters
      <4> QED BY <4>1, ShownCounts DEF ShownOf
    <3>3. PICK g : /\ Sums(g, w, ModelIDs)
                   /\ SumOf(field, scope)' = g[ModelIDs] + BuildSnapshot(anonymous')[field]
      BY <3>2, SumsNext DEF AreSums, IsSum
    <3>4. /\ d \in Nat
          /\ BuildSnapshot(TotalOf(scope)')[field] = BuildSnapshot(TotalOf(scope))[field] + d
      BY <2>3, AddedShows, EachCounts
    <3>5. /\ BuildSnapshot(anonymous)[field] \in Nat /\ f[ModelIDs] \in Int
          /\ BuildSnapshot(TotalOf(scope))[field] = f[ModelIDs] + BuildSnapshot(anonymous)[field]
      BY <3>1, ShownCounts, SumTakes DEF MetricsInv
    <3>6. CASE id = NoModel
      <4>1. \A m \in ModelIDs : v[m] = w[m] BY <2>4, <3>6 DEF ShownOf
      <4> HIDE DEF v, w
      <4>2. f[ModelIDs] = g[ModelIDs] BY <3>1, <3>3, <4>1, SumsAgree
      <4>3. BuildSnapshot(anonymous')[field] = BuildSnapshot(anonymous)[field] + d
        BY <2>1, <3>6, AddedShows DEF MetricsInv
      <4> QED BY <3>3, <3>4, <3>5, <4>2, <4>3
    <3>7. CASE id # NoModel
      <4>1. id \in ModelIDs /\ ModelsIn(scope)' = AddedFor(ModelsIn(scope), id, r)
        BY <2>4, <3>7
      <4>6. \A m \in ModelIDs :
               ModelCounters(ModelsIn(scope)', m) =
                  IF m = id THEN Added(ModelCounters(ModelsIn(scope), id), r)
                  ELSE ModelCounters(ModelsIn(scope), m)
        BY <4>1 DEF AddedFor, ModelCounters
      <4>2. w[id] = v[id] + d
        <5>1. ModelCounters(ModelsIn(scope)', id) = Added(ModelCounters(ModelsIn(scope), id), r)
          BY <4>1, <4>6
        <5> QED BY <4>1, <5>1, EachCounts, AddedShows DEF ShownOf
      <4>3. \A m \in ModelIDs : m # id => w[m] = v[m] BY <4>6 DEF ShownOf
      <4> HIDE DEF v, w
      <4>4. g[ModelIDs] = f[ModelIDs] + d BY <3>1, <3>3, <3>4, <4>1, <4>2, <4>3, SumChanges
      <4>5. anonymous' = anonymous BY <2>1, <3>7
      <4> QED BY <3>3, <3>4, <3>5, <4>4, <4>5
    <3> QED BY <3>6, <3>7
  <2> QED BY <2>2, <2>5, <2>6 DEF MetricsInv
<1> QED BY <1>1, <1>2 DEF MetricsNext

\* The counters of requests (servermetrics.go), for any models and completions: what the
\* dashboard shows of each, and of the requests that named none, adds up to the total.
THEOREM TotalsAddUp == MetricsSpec => []DashboardAddsUp
<1>1. MetricsInv => DashboardAddsUp
  <2> SUFFICES ASSUME MetricsInv PROVE DashboardAddsUp
    OBVIOUS
  <2>1. ASSUME NEW scope \in Scopes, NEW field \in Fields
        PROVE  GetSnapshot(NoModel, scope)[field] = SumOf(field, scope)
    BY SnapshotIs DEF MetricsInv
  <2>2. ASSUME NEW scope \in Scopes, NEW id \in ModelIDs \cup {NoModel}
        PROVE  LET shown == GetSnapshot(id, scope) IN
               /\ shown.prefillRate[1] >= 0 /\ shown.prefillRate[1] <= shown.served
               /\ shown.requests = 0 => shown = BuildSnapshot(NoCounters)
    <3>1. PICK c : Counts(c) /\ GetSnapshot(id, scope) = BuildSnapshot(c)
      BY SnapshotIs, EachCounts
    <3>2. /\ c.prompt \in Nat /\ c.completion \in Nat /\ c.cached \in Nat /\ c.prefill \in Nat
          /\ c.requests \in Nat /\ c.cached <= c.prompt /\ (c.requests = 0 => c = NoCounters)
      BY <3>1 DEF Counts
    <3>3. /\ BuildSnapshot(c).prefillRate = Per(c.prompt - c.cached, c.prefill)
          /\ BuildSnapshot(c).served = c.prompt + c.completion
          /\ BuildSnapshot(c).requests = c.requests
      BY DEF BuildSnapshot
    <3>4. Per(c.prompt - c.cached, c.prefill)[1] \in {0, c.prompt - c.cached} BY DEF Per
    <3> QED BY <3>1, <3>2, <3>3, <3>4
  <2> QED BY <2>1, <2>2 DEF DashboardAddsUp, Fields
<1> QED BY <1>1, MetricsInvInit, MetricsInvStep, PTL DEF MetricsSpec

-----------------------------------------------------------------------------
(* Quantization, the names: for any words, tags and levels.                *)

\* All that a name may be made of.
Words == Tags \cup UNION {{name[i] : i \in DOMAIN name} : name \in Pieces}
IsName(name) == name \in Seq(Words) /\ name # <<>>

\* Where the last piece stands that is no tag: the first at least.
Stems(name) == {1} \cup {n \in DOMAIN name : name[n] \notin Tags}

LEMMA BaseIs ==
    ASSUME NEW name, IsName(name)
    PROVE  /\ Max(Stems(name)) \in 1..Len(name)
           /\ \A n \in Stems(name) : n <= Max(Stems(name))
           /\ BaseName(name) = SubSeq(name, 1, Max(Stems(name)))
           /\ Len(BaseName(name)) = Max(Stems(name)) /\ IsName(BaseName(name))
           /\ \A n \in 1..Max(Stems(name)) : BaseName(name)[n] = name[n]
<1> DEFINE k == Max(Stems(name))
<1>1. Len(name) \in Nat /\ Len(name) > 0 /\ DOMAIN name = 1..Len(name) /\ name \in Seq(Words)
  BY DEF IsName
<1>2. Stems(name) \subseteq 1..Len(name) /\ Stems(name) # {} /\ Stems(name) \subseteq Nat
  BY <1>1 DEF Stems
<1>3. \A n \in Stems(name) : n <= Len(name)
  BY <1>1, <1>2
<1>4. k \in Stems(name) /\ \A n \in Stems(name) : n <= k
  BY <1>1, <1>2, <1>3, MaxIsGreatest
<1>5. BaseName(name) = SubSeq(name, 1, k)
  BY DEF BaseName, Stems
<1> HIDE DEF k
<1>6. k \in 1..Len(name) BY <1>2, <1>4
<1>7. /\ SubSeq(name, 1, k) \in Seq(Words) /\ Len(SubSeq(name, 1, k)) = k
      /\ \A n \in 1..k : SubSeq(name, 1, k)[n] = name[n]
  <2>1. /\ SubSeq(name, 1, k) \in Seq(Words)
        /\ Len(SubSeq(name, 1, k)) = IF 1 <= k THEN k - 1 + 1 ELSE 0
        /\ \A i \in 1..k - 1 + 1 : SubSeq(name, 1, k)[i] = name[1 + i - 1]
    BY <1>1, <1>6, SubSeqProperties
  <2> QED BY <1>6, <2>1
<1> QED BY <1>4, <1>5, <1>6, <1>7 DEF k, IsName

LEMMA TagsAreText ==
    ASSUME NEW s \in Seq(Tags) PROVE s \in Seq(Words) /\ Len(s) \in Nat
<1>1. \A x \in Tags : x \in Words BY DEF Words
<1>2. s = [i \in 1..Len(s) |-> s[i]] /\ Len(s) \in Nat /\ \A i \in 1..Len(s) : s[i] \in Tags
  OBVIOUS
<1>3. \A i \in 1..Len(s) : s[i] \in Words BY <1>1, <1>2
<1> QED BY <1>2, <1>3

LEMMA OneTag == ASSUME NEW x \in Tags PROVE <<x>> \in Seq(Tags) /\ Len(<<x>>) = 1
OBVIOUS

LEMMA NoTag == <<>> \in Seq(Tags) /\ Len(<<>>) = 0
OBVIOUS

LEMMA TagsAtEnd ==
    ASSUME NEW name, IsName(name), NEW tags \in Seq(Tags)
    PROVE  BaseName(BaseName(name) \o tags) = BaseName(name) /\ IsName(BaseName(name) \o tags)
<1> DEFINE k == Max(Stems(name))
           base == BaseName(name)
           new == base \o tags
<1>1. /\ k \in 1..Len(name) /\ \A n \in Stems(name) : n <= k
      /\ Len(base) = k /\ IsName(base) /\ \A n \in 1..k : base[n] = name[n]
  BY BaseIs
<1>2. base \in Seq(Words) /\ tags \in Seq(Words) /\ Len(tags) \in Nat /\ Len(name) \in Nat
  BY <1>1, TagsAreText DEF IsName
<1> HIDE DEF base, k
<1>3. /\ new \in Seq(Words) /\ Len(new) = k + Len(tags)
      /\ \A n \in 1..k : new[n] = base[n]
      /\ \A n \in k + 1..k + Len(tags) : new[n] \in Tags
  <2>1. new \in Seq(Words) /\ Len(new) = k + Len(tags) BY <1>1, <1>2
  <2>2. \A n \in 1..k : new[n] = base[n] BY <1>1, <1>2
  <2>3. ASSUME NEW n \in k + 1..k + Len(tags) PROVE new[n] \in Tags
    <3>1. n - k \in 1..Len(tags) BY <1>1, <1>2
    <3>2. new[n] = tags[n - k] BY <1>1, <1>2, <3>1
    <3> QED BY <3>1, <3>2
  <2> QED BY <2>1, <2>2, <2>3
<1> HIDE DEF new
<1>4. IsName(new)
  <2>1. Len(new) > 0 BY <1>1, <1>2, <1>3
  <2> QED BY <1>3, <2>1 DEF IsName
<1>5. Stems(new) = Stems(name)
  <2>1. DOMAIN new = 1..k + Len(tags) /\ DOMAIN name = 1..Len(name)
    BY <1>3, <1>1, <1>2 DEF IsName
  <2>2. ASSUME NEW n \in Stems(new) PROVE n \in Stems(name)
    <3>1. CASE n = 1 BY <3>1 DEF Stems
    <3>2. CASE n # 1
      <4>1. n \in 1..k + Len(tags) /\ new[n] \notin Tags BY <2>1, <3>2 DEF Stems
      <4>2. n \in 1..k BY <1>1, <1>2, <1>3, <4>1
      <4>3. new[n] = name[n] /\ n \in 1..Len(name) BY <1>1, <1>2, <1>3, <4>2
      <4> QED BY <2>1, <4>1, <4>3 DEF Stems
    <3> QED BY <3>1, <3>2
  <2>3. ASSUME NEW n \in Stems(name) PROVE n \in Stems(new)
    <3>1. CASE n = 1 BY <3>1 DEF Stems
    <3>2. CASE n # 1
      <4>1. n \in 1..Len(name) /\ name[n] \notin Tags /\ n <= k BY <1>1, <2>1, <3>2 DEF Stems
      <4>2. n \in 1..k BY <1>1, <1>2, <4>1
      <4>3. new[n] = name[n] /\ n \in 1..k + Len(tags) BY <1>1, <1>2, <1>3, <4>2
      <4> QED BY <2>1, <4>1, <4>3 DEF Stems
    <3> QED BY <3>1, <3>2
  <2> QED BY <2>2, <2>3
<1>6. /\ BaseName(new) \in Seq(Words) /\ Len(BaseName(new)) = k
      /\ \A n \in 1..k : BaseName(new)[n] = new[n]
  BY <1>4, <1>5, BaseIs DEF IsName, k
<1>7. BaseName(new) = base
  <2>1. \A n \in 1..k : BaseName(new)[n] = base[n] BY <1>3, <1>6
  <2> QED BY <1>1, <1>2, <1>6, <2>1, SeqEqual
<1> QED BY <1>4, <1>7 DEF new, base

LEMMA NameGoesOn ==
    ASSUME NEW name, IsName(name), NEW float16 \in BOOLEAN, NEW mtp \in BOOLEAN
    PROVE  LET new == ResolveOutputName(name, float16, mtp)
           IN  /\ IsName(new) /\ BaseName(new) = BaseName(name)
               /\ Len(new) <= Len(BaseName(name)) + 3
<1> DEFINE fp == IF float16 THEN <<"fp">> ELSE <<>>
           mt == IF mtp THEN <<"mtp">> ELSE <<>>
           base == BaseName(name)
           tags == <<"oQ">> \o fp \o mt
<1>1. fp \in Seq(Tags) /\ mt \in Seq(Tags) /\ <<"oQ">> \in Seq(Tags) /\ Len(fp) <= 1 /\ Len(mt) <= 1
      /\ Len(<<"oQ">>) = 1
  <2>1. "oQ" \in Tags /\ "fp" \in Tags /\ "mtp" \in Tags BY DEF Tags
  <2>2. /\ <<"oQ">> \in Seq(Tags) /\ Len(<<"oQ">>) = 1 /\ <<"fp">> \in Seq(Tags) /\ Len(<<"fp">>) = 1
        /\ <<"mtp">> \in Seq(Tags) /\ Len(<<"mtp">>) = 1
    BY <2>1, OneTag
  <2> QED BY <2>2, NoTag
<1>2. base \in Seq(Words) /\ Len(base) \in Nat
  BY BaseIs DEF IsName
<1>3. fp \in Seq(Words) /\ mt \in Seq(Words) /\ <<"oQ">> \in Seq(Words)
  BY <1>1, TagsAreText
<1> HIDE DEF base, fp, mt
<1>4. tags \in Seq(Tags) /\ Len(tags) <= 3
  <2>1. <<"oQ">> \o fp \in Seq(Tags) /\ Len(<<"oQ">> \o fp) = 1 + Len(fp) BY <1>1
  <2>2. tags \in Seq(Tags) /\ Len(tags) = Len(<<"oQ">> \o fp) + Len(mt) BY <1>1, <2>1
  <2>3. Len(fp) \in Nat /\ Len(mt) \in Nat BY <1>1
  <2> QED BY <1>1, <2>1, <2>2, <2>3
<1>5. ((base \o <<"oQ">>) \o fp) \o mt = base \o tags
  <2>1. (base \o <<"oQ">>) \o fp = base \o (<<"oQ">> \o fp)
    BY <1>2, <1>3, ConcatAssociative
  <2>2. <<"oQ">> \o fp \in Seq(Words) BY <1>3
  <2>3. (base \o (<<"oQ">> \o fp)) \o mt = base \o ((<<"oQ">> \o fp) \o mt)
    BY <1>2, <1>3, <2>2, ConcatAssociative
  <2> QED BY <2>1, <2>3
<1>6. ResolveOutputName(name, float16, mtp) = base \o tags
  BY <1>5 DEF ResolveOutputName, base, fp, mt
<1> HIDE DEF tags
<1>7. tags \in Seq(Words) /\ Len(base \o tags) = Len(base) + Len(tags) /\ Len(tags) \in Nat
  <2>1. tags \in Seq(Words) BY <1>4, TagsAreText
  <2> QED BY <1>2, <2>1
<1>8. BaseName(base \o tags) = base /\ IsName(base \o tags)
  BY <1>4, TagsAtEnd DEF base
<1> QED BY <1>2, <1>4, <1>6, <1>7, <1>8 DEF base

LEMMA KeysGoOn ==
    ASSUME LoadKeys, NEW name
    PROVE  /\ name \in DOMAIN keys.bare \cup DOMAIN keys.prefixed
                 => name \in DOMAIN keys'.bare \cap DOMAIN keys'.prefixed
           /\ name \in DOMAIN keys.bare => keys'.bare[name] = keys.bare[name]
           /\ name \in DOMAIN keys.prefixed => keys'.prefixed[name] = keys.prefixed[name]
BY DEF LoadKeys, ExpandPerLayerQuantKeys, WithAliases

\* What a step may do to the keys and to the name.
KeysStep ==
    keys' # keys =>
        \A name \in LayerNames :
            /\ name \in DOMAIN keys.bare \cup DOMAIN keys.prefixed
                 => name \in DOMAIN keys'.bare \cap DOMAIN keys'.prefixed
            /\ name \in DOMAIN keys.bare => keys'.bare[name] = keys.bare[name]
            /\ name \in DOMAIN keys.prefixed => keys'.prefixed[name] = keys.prefixed[name]
NameStep ==
    /\ BaseName(outputName') = BaseName(outputName)
    /\ outputName' # outputName => Len(outputName') <= Len(BaseName(outputName)) + 3

LEMMA NamesStep ==
    ASSUME IsName(outputName), [QuantNext]_quantVars
    PROVE  IsName(outputName)' /\ KeysStep /\ NameStep
<1>1. ASSUME NEW level, Ask(level) PROVE UNCHANGED <<keys, outputName>>
  BY <1>1 DEF Ask
<1>2. ASSUME NEW t, EstimateNext(t) PROVE UNCHANGED <<keys, outputName>>
  BY <1>2 DEF EstimateNext
<1>3. CASE LoadKeys
  <2>1. outputName' = outputName BY <1>3 DEF LoadKeys
  <2> QED BY <1>3, <2>1, KeysGoOn DEF KeysStep, NameStep, IsName
<1>4. ASSUME NEW float16 \in BOOLEAN, NEW mtp \in BOOLEAN, Requantize(float16, mtp)
      PROVE  IsName(outputName)' /\ KeysStep /\ NameStep
  <2>1. outputName' = ResolveOutputName(outputName, float16, mtp) /\ keys' = keys
    BY <1>4 DEF Requantize
  <2> QED BY <2>1, NameGoesOn DEF KeysStep, NameStep, IsName
<1>5. ASSUME UNCHANGED <<keys, outputName>>
      PROVE  IsName(outputName)' /\ KeysStep /\ NameStep
  BY <1>5 DEF KeysStep, NameStep, IsName
<1> QED
  BY <1>1, <1>2, <1>3, <1>4, <1>5 DEF QuantNext, StashMap, StripMTP, quantVars

\* Names (oq.go, quantkeys.go, resolve_output_name.go): any name of any number of pieces
\* keeps its base and gets one set of tags, however often the model is quantized; and a
\* layer is found under both of its names when it was found under one.
THEOREM NamesAreSafe == QuantSpec => NamesKept
<1>1. QuantInit => IsName(outputName)
  <2> SUFFICES ASSUME NEW name \in Pieces PROVE name \in Seq(Words) /\ name # <<>>
    BY DEF QuantInit, IsName
  <2>1. name # <<>> /\ name \in Seq({name[i] : i \in DOMAIN name})
    BY QuantAssumption
  <2>2. {name[i] : i \in DOMAIN name} \subseteq Words
    BY DEF Words
  <2> QED BY <2>1, <2>2
<1>2. IsName(outputName) /\ [QuantNext]_quantVars
        => IsName(outputName)' /\ [KeysStep]_quantVars /\ [NameStep]_quantVars
  BY NamesStep
<1>3. QuantSpec => [][KeysStep]_quantVars /\ [][NameStep]_quantVars
  BY <1>1, <1>2, PTL DEF QuantSpec
<1>4. QuantSpec => KeysFound
  BY <1>3 DEF KeysStep, KeysFound
<1>5. QuantSpec => NameKept
  BY <1>3 DEF NameStep, NameKept
<1> QED BY <1>4, <1>5 DEF NamesKept

-----------------------------------------------------------------------------
(* Quantization, the estimate: for any weights, shapes and overrides.       *)

\* A weight's bits are at least those that it was given, and at most 16.
LEMMA GroupsFit ==
    ASSUME NEW rows \in Nat, NEW last \in Nat, NEW group \in Nat, group >= 32,
           last % group = 0, NEW per \in {1, 2, 4}
    PROVE  LET n == rows * last
               overhead == (n \div Greater(last, 1)) * (last \div group) * per
           IN  n \in Nat /\ overhead \in Nat /\ 8 * overhead <= n
<1> DEFINE n == rows * last
           k == last \div group
           r == n \div Greater(last, 1)
<1>1. n \in Nat /\ k \in Nat OBVIOUS
<1>2. last = group * k OBVIOUS
<1>3. CASE last = 0
  <2>1. n = 0 /\ k = 0 BY <1>2, <1>3
  <2>2. r \in Nat BY <1>1 DEF Greater
  <2> HIDE DEF r, k
  <2> QED BY <2>1, <2>2 DEF r, k
<1>4. CASE last # 0
  <2>1. Greater(last, 1) = last BY <1>4 DEF Greater
  <2>2. r = rows BY <1>4, <2>1
  <2>3. 32 * k <= last BY <1>1, <1>2
  <2>4. 8 * ((rows * k) * per) <= rows * (32 * k)
    <3>1. rows * k \in Nat BY <1>1
    <3>2. rows * (32 * k) = 32 * (rows * k) BY <1>1
    <3> QED BY <3>1, <3>2
  <2>5. rows * (32 * k) <= rows * last BY <1>1, <2>3
  <2>6. rows * k * per \in Nat BY <1>1
  <2> HIDE DEF r, k
  <2> QED BY <1>1, <2>2, <2>4, <2>5, <2>6 DEF r, k
<1> QED BY <1>3, <1>4

LEMMA BytesFit ==
    ASSUME NEW shape \in [dims : Nat, rows : Nat, last : Nat], NEW bits \in 0..8,
           NEW group \in Nat, group >= 32, NEW mode
    PROVE  LET bytes == TensorQuantizedBytes(shape, bits, group, mode) IN
           /\ bytes \in Nat /\ Elements(shape) \in Nat
           /\ Elements(shape) * bits <= 8 * bytes /\ 8 * bytes <= 16 * Elements(shape)
<1> DEFINE n == Elements(shape)
           bytes == TensorQuantizedBytes(shape, bits, group, mode)
           overhead == (n \div Greater(shape.last, 1)) * (shape.last \div group) * BytesPerGroup(mode)
<1>1. n \in Nat BY DEF Elements
<1>2. n * bits \in Nat /\ n * bits <= 8 * n BY <1>1
<1>3. CASE shape.dims < 2 \/ shape.last % group # 0
  <2>1. bytes = 2 * n BY <1>3 DEF TensorQuantizedBytes
  <2> HIDE DEF bytes, n
  <2> QED BY <1>1, <1>2, <2>1 DEF bytes, n
<1>4. CASE ~(shape.dims < 2 \/ shape.last % group # 0)
  <2>1. bytes = (n * bits + 7) \div 8 + overhead BY <1>4 DEF TensorQuantizedBytes
  <2>2. overhead \in Nat /\ 8 * overhead <= n
    <3>1. shape.last \in Nat /\ shape.rows \in Nat /\ shape.last % group = 0 BY <1>4
    <3>2. BytesPerGroup(mode) \in {1, 2, 4} BY DEF BytesPerGroup
    <3> QED BY <3>1, <3>2, GroupsFit DEF Elements
  <2>3. ASSUME NEW m \in Nat PROVE (m + 7) \div 8 \in Nat /\ m <= 8 * ((m + 7) \div 8)
                                   /\ 8 * ((m + 7) \div 8) <= m + 7
    OBVIOUS
  <2>4. n = 0 => (n * bits + 7) \div 8 = 0 OBVIOUS
  <2> HIDE DEF bytes, n, overhead
  <2>5. PICK m \in Nat : m = n * bits BY <1>2
  <2> QED BY <1>1, <1>2, <2>1, <2>2, <2>3, <2>4, <2>5 DEF bytes, n
<1> QED BY <1>3, <1>4

LEMMA WeightFits ==
    ASSUME NEW e \in Estimates, NEW t \in Weights
    PROVE  /\ EstimatedBytes(e, t) \in Nat /\ Elements(t.shape) \in Nat
           /\ Elements(t.shape) * GivenBits(e, t) \in Nat
           /\ Elements(t.shape) * GivenBits(e, t) <= 8 * EstimatedBytes(e, t)
           /\ 8 * EstimatedBytes(e, t) <= 16 * Elements(t.shape)
<1>1. t.shape \in [dims : Nat, rows : Nat, last : Nat] /\ IsEstimate(e) BY QuantAssumption
<1>2. Elements(t.shape) \in Nat BY <1>1 DEF Elements
<1>3. GivenBits(e, t) \in 0..8 BY <1>1 DEF IsEstimate, GivenBits, Lookup
<1>4. PICK group, mode : /\ group \in Nat /\ group >= 32
                         /\ EstimatedBytes(e, t) =
                              TensorQuantizedBytes(t.shape, GivenBits(e, t), group, mode)
  <2>1. CASE t \in DOMAIN e.overrides
    <3> DEFINE o == e.overrides[t]
    <3>1. Lookup(o, "group_size", e.group) \in Nat /\ Lookup(o, "group_size", e.group) >= 32
      BY <1>1, <2>1 DEF IsEstimate, Lookup
    <3>2. EstimatedBytes(e, t) =
            TensorQuantizedBytes(t.shape, GivenBits(e, t), Lookup(o, "group_size", e.group),
                                 Lookup(o, "mode", "affine"))
      BY <2>1 DEF EstimatedBytes, GivenBits
    <3> QED BY <3>1, <3>2
  <2>2. CASE t \notin DOMAIN e.overrides
    BY <1>1, <2>2 DEF IsEstimate, EstimatedBytes, GivenBits
  <2> QED BY <2>1, <2>2
<1>5. Elements(t.shape) * GivenBits(e, t) \in Nat BY <1>2, <1>3
<1> QED BY <1>1, <1>2, <1>3, <1>4, <1>5, BytesFit

Given(e) == [t \in Weights |-> Elements(t.shape) * GivenBits(e, t)]

\* What the weights of S were given.
LEMMA GivenIs ==
    ASSUME NEW e \in Estimates, NEW S, S \subseteq Weights
    PROVE  \E f : /\ Sums(f, Given(e), S)
                  /\ GivenTo(e, S) = f[S]
<1> DEFINE v == Given(e)
           Is(f) == f = [s \in SUBSET S |->
                           IF s = {} THEN 0
                           ELSE Elements((CHOOSE x \in s : TRUE).shape) * GivenBits(e, CHOOSE x \in s : TRUE)
                                  + f[s \ {CHOOSE x \in s : TRUE}]]
           h == CHOOSE f : Is(f)
<1>1. \A s \in SUBSET S :
        s # {} => Elements((CHOOSE x \in s : TRUE).shape) * GivenBits(e, CHOOSE x \in s : TRUE)
                    = v[CHOOSE x \in s : TRUE]
  BY DEF Given
<1>2. ASSUME NEW f PROVE Is(f) <=> Adds(f, v, S)
  <2> DEFINE a == [s \in SUBSET S |->
                      IF s = {} THEN 0
                      ELSE Elements((CHOOSE x \in s : TRUE).shape) * GivenBits(e, CHOOSE x \in s : TRUE)
                             + f[s \ {CHOOSE x \in s : TRUE}]]
             b == [s \in SUBSET S |->
                      IF s = {} THEN 0
                      ELSE v[CHOOSE x \in s : TRUE] + f[s \ {CHOOSE x \in s : TRUE}]]
  <2> HIDE DEF v
  <2>1. a = b BY <1>1
  <2> QED BY <2>1 DEF Adds, Chosen
<1>0. IsFiniteSet(S) BY QuantAssumption, FS_Subset
<1>3. \E f : Is(f)
  <2> HIDE DEF Is, v
  <2> QED BY <1>0, <1>2, SumsExist
<1>4. Is(h)
  <2> HIDE DEF Is
  <2> QED BY <1>3
<1>5. GivenTo(e, S) = h[S]
  BY DEF GivenTo, MapThenSumSet, MapThenFoldSet
<1>6. \A t \in S : v[t] \in Int BY WeightFits DEF Given
<1> HIDE DEF h, Is, v
<1>7. Adds(h, v, S) BY <1>2, <1>4
<1>8. Sums(h, v, S) BY <1>0, <1>6, <1>7 DEF Sums
<1> QED BY <1>5, <1>8 DEF v

EstimateInv ==
    /\ estimate = [of |-> estimate.of, todo |-> estimate.todo, bits |-> estimate.bits,
                   params |-> estimate.params]
    /\ estimate.of \in Estimates /\ estimate.todo \subseteq Estimated
    /\ estimate.bits \in Nat /\ estimate.params \in Nat
    /\ EstimateBounded

LEMMA EstimateInvInit == QuantInit => EstimateInv
<1> SUFFICES ASSUME QuantInit PROVE EstimateInv
  OBVIOUS
<1>1. /\ estimate = [of |-> estimate.of, todo |-> Estimated, bits |-> 0, params |-> 0]
      /\ estimate.of \in Estimates
  BY DEF QuantInit
<1>2. Estimated \ estimate.todo = {} /\ estimate.bits = 0 /\ estimate.params = 0 BY <1>1
<1>3. PICK f : /\ Sums(f, Given(estimate.of), {})
               /\ GivenTo(estimate.of, {}) = f[{}]
  BY <1>1, GivenIs
<1>4. f[{}] = 0 BY <1>3, SumTakes
<1>5. EstimateBounded BY <1>2, <1>3, <1>4 DEF EstimateBounded
<1> QED BY <1>1, <1>5 DEF EstimateInv

LEMMA EstimateInvStep == EstimateInv /\ [QuantNext]_quantVars => EstimateInv'
<1> SUFFICES ASSUME EstimateInv, [QuantNext]_quantVars PROVE EstimateInv'
  OBVIOUS
<1>1. CASE UNCHANGED estimate
  BY <1>1 DEF EstimateInv, EstimateBounded
<1>2. ASSUME NEW t \in Weights, EstimateNext(t) PROVE EstimateInv'
  <2> DEFINE e == estimate.of
             done == Estimated \ estimate.todo
             v == Given(e)
             w == Elements(t.shape) * GivenBits(e, t)
             b == 8 * EstimatedBytes(e, t)
             n == Elements(t.shape)
  <2>1. /\ t \in estimate.todo /\ e \in Estimates
        /\ estimate' = [of |-> e, todo |-> estimate.todo \ {t}, bits |-> estimate.bits + b,
                        params |-> estimate.params + n]
    BY <1>2 DEF EstimateNext, EstimateInv
  <2>2. /\ Estimated \ estimate'.todo = done \cup {t} /\ t \notin done
        /\ t \in Estimated /\ done \subseteq Weights
    BY <2>1 DEF EstimateInv, Estimated
  <2>3. b \in Nat /\ n \in Nat /\ w \in Nat /\ w <= b /\ b <= 16 * n
    BY <2>1, WeightFits
  <2>4. PICK f : /\ Sums(f, v, done)
                 /\ GivenTo(e, done) = f[done]
    BY <2>1, <2>2, GivenIs
  <2>5. PICK g : /\ Sums(g, v, done \cup {t})
                 /\ GivenTo(e, done \cup {t}) = g[done \cup {t}]
    BY <2>1, <2>2, GivenIs
  <2>6. v[t] = w BY DEF Given
  <2>7. estimate.bits <= 16 * estimate.params /\ estimate.bits >= f[done]
    BY <2>4 DEF EstimateInv, EstimateBounded
  <2>8. estimate.bits \in Nat /\ estimate.params \in Nat BY DEF EstimateInv
  <2> HIDE DEF v, w, b, n, done
  <2>9. f[done] \in Int /\ g[done \cup {t}] = w + f[done]
    BY <2>2, <2>4, <2>5, <2>6, SumGrows
  <2>10. /\ estimate'.bits = estimate.bits + b /\ estimate'.params = estimate.params + n
         /\ estimate'.of = e /\ estimate'.todo = estimate.todo \ {t}
    BY <2>1
  <2>11. /\ estimate'.bits \in Nat /\ estimate'.params \in Nat
         /\ estimate'.bits <= 16 * estimate'.params /\ estimate'.bits >= g[done \cup {t}]
    BY <2>3, <2>7, <2>8, <2>9, <2>10
  <2>12. EstimateBounded' BY <2>2, <2>5, <2>10, <2>11 DEF EstimateBounded
  <2> QED BY <2>1, <2>10, <2>11, <2>12 DEF EstimateInv
<1> QED
  BY <1>1, <1>2 DEF QuantNext, Ask, StashMap, StripMTP, LoadKeys, Requantize, quantVars

-----------------------------------------------------------------------------
(* Quantization, the plan: for every model that may be described.          *)

-----------------------------------------------------------------------------
(* The map of the positions says what the positions say.                   *)

LEMMA Quarters ==
    ASSUME NEW n \in Nat, n > 0
    PROVE  /\ n \div 8 \in Nat /\ (7 * n) \div 8 \in Nat /\ n \div 4 \in Nat
           /\ n \div 8 <= (7 * n) \div 8 /\ (7 * n) \div 8 < n
           /\ n \div 4 - 1 < n \div 8 + (n - (7 * n) \div 8)
OBVIOUS

LEMMA MapSpeaks ==
    ASSUME NEW n \in Nat, n > 0
    PROVE  /\ PositionSensitivityMap(n) \in [0..n - 1 -> {1, 2, 5}]
           /\ \A i \in 0..n - 1 : PositionSensitivityMap(n)[i] = 5
                                    <=> i < n \div 8 \/ i >= (7 * n) \div 8
           /\ Threshold(PositionSensitivityMap(n)) = 5
<1> DEFINE map == PositionSensitivityMap(n)
           a == n \div 8
           b == (7 * n) \div 8
           ends == 0..a - 1 \cup b..n - 1
<1>1. /\ a \in Nat /\ b \in Nat /\ n \div 4 \in Nat /\ a <= b /\ b < n
      /\ n \div 4 - 1 < a + (n - b)
  BY Quarters
<1>2. /\ map \in [0..n - 1 -> {1, 2, 5}]
      /\ \A i \in 0..n - 1 : map[i] = 5 <=> i < a \/ i >= b
  BY DEF PositionSensitivityMap
<1> HIDE DEF map, a, b
<1>3. {i \in 0..n - 1 : map[i] = 5} = ends
  <2>1. \A i \in 0..n - 1 : i \in ends <=> i < a \/ i >= b BY <1>1
  <2>2. ends \subseteq 0..n - 1 BY <1>1
  <2> QED BY <1>2, <2>1, <2>2
<1>4. IsFiniteSet(ends) /\ Cardinality(ends) = a + (n - b)
  <2>1. IsFiniteSet(0..a - 1) /\ Cardinality(0..a - 1) = a
    BY <1>1, FS_Interval
  <2>2. IsFiniteSet(b..n - 1) /\ Cardinality(b..n - 1) = n - b
    BY <1>1, FS_Interval
  <2>3. (0..a - 1) \cap (b..n - 1) = {} BY <1>1
  <2>4. IsFiniteSet(0..a - 1 \cup b..n - 1) BY <2>1, <2>2, FS_Union
  <2>5. Cardinality(0..a - 1 \cup b..n - 1) = Cardinality(0..a - 1) + Cardinality(b..n - 1)
                                                - Cardinality((0..a - 1) \cap (b..n - 1))
    BY <2>1, <2>2, FS_Union
  <2>6. Cardinality((0..a - 1) \cap (b..n - 1)) = 0 BY <2>3, FS_EmptySet
  <2> QED BY <1>1, <2>1, <2>2, <2>4, <2>5, <2>6
<1> HIDE DEF ends
<1>5. Quarter(map) \in Nat /\ Quarter(map) < Cardinality(ends)
  <2>1. DOMAIN map = 0..n - 1 BY <1>2
  <2>2. Cardinality(0..n - 1) = n BY FS_Interval
  <2> QED BY <1>1, <1>4, <2>1, <2>2 DEF Quarter, Greater
<1>6. Reach(map, 5) = ends /\ Exceed(map, 5) = {}
  <2>1. \A i \in 0..n - 1 : (map[i] >= 5 <=> map[i] = 5) /\ ~(map[i] > 5) BY <1>2
  <2> QED BY <1>2, <1>3, <2>1 DEF Reach, Exceed
<1>7. 5 \in {map[i] : i \in DOMAIN map}
  <2>1. n - 1 \in 0..n - 1 /\ map[n - 1] = 5 BY <1>1, <1>2
  <2> QED BY <1>2, <2>1
<1>8. ASSUME NEW s \in {map[i] : i \in DOMAIN map}, Cardinality(Exceed(map, s)) <= Quarter(map)
      PROVE  s = 5
  <2> SUFFICES ASSUME s # 5 PROVE FALSE
    OBVIOUS
  <2>1. s \in {1, 2} BY <1>2
  <2>2. ends \subseteq Exceed(map, s) BY <1>2, <1>3, <2>1 DEF Exceed
  <2>3. IsFiniteSet(Exceed(map, s))
    <3>1. Exceed(map, s) \subseteq 0..n - 1 BY <1>2 DEF Exceed
    <3>2. IsFiniteSet(0..n - 1) BY FS_Interval
    <3> QED BY <3>1, <3>2, FS_Subset
  <2>4. Cardinality(ends) <= Cardinality(Exceed(map, s)) BY <2>2, <2>3, FS_Subset
  <2>5. Cardinality(ends) \in Nat /\ Cardinality(Exceed(map, s)) \in Nat
    BY <1>4, <2>3, FS_CardinalityType
  <2> QED BY <1>5, <1>8, <2>4, <2>5
<1>9. Threshold(map) = 5
  <2>1. Cardinality(Exceed(map, 5)) <= Quarter(map) /\ Quarter(map) < Cardinality(Reach(map, 5))
    BY <1>5, <1>6, FS_EmptySet
  <2> QED BY <1>7, <1>8, <2>1 DEF Threshold
<1> QED BY <1>2, <1>9 DEF map, a, b

LEMMA LayersCounted ==
    ASSUME NEW m, IsConfig(m)
    PROVE  NumLayers(m) \in Nat
BY DEF IsConfig, NumLayers, IsSet, Lookup

\* So to stash it changes nothing.
LEMMA StashSaysTheSame ==
    ASSUME NEW m, IsConfig(m), DOMAIN m.sensitivity = {}, NEW layer \in Int, layer < NumLayers(m)
    PROVE  IsSensitive([m EXCEPT !.sensitivity = PositionSensitivityMap(NumLayers(m))], layer)
             <=> IsSensitive(m, layer)
<1> DEFINE n == NumLayers(m)
           map == PositionSensitivityMap(n)
           s == [m EXCEPT !.sensitivity = map]
<1>1. n \in Nat BY LayersCounted
<1>2. s.sensitivity = map /\ s.top = m.top /\ s.text = m.text
  BY DEF IsConfig
<1>3. NumLayers(s) = n
  BY <1>2 DEF NumLayers
<1> HIDE DEF n, s
<1>4. CASE layer < 0
  BY <1>4 DEF IsSensitive, s
<1>5. CASE layer >= 0
  <2>1. n > 0 /\ layer \in 0..n - 1 BY <1>1, <1>5 DEF n
  <2>2. /\ map \in [0..n - 1 -> {1, 2, 5}] /\ Threshold(map) = 5
        /\ map[layer] = 5 <=> layer < n \div 8 \/ layer >= (7 * n) \div 8
    BY <1>1, <2>1, MapSpeaks
  <2>3. DOMAIN s.sensitivity # {} BY <1>2, <2>1, <2>2
  <2> HIDE DEF map
  <2>4. Lookup(s.sensitivity, layer, 0) >= Threshold(s.sensitivity) <=> map[layer] = 5
    <3>1. Lookup(s.sensitivity, layer, 0) = map[layer] /\ map[layer] \in {1, 2, 5}
      BY <1>2, <2>1, <2>2 DEF Lookup
    <3> QED BY <1>2, <2>2, <3>1
  <2>5. IsSensitive(s, layer) <=> map[layer] = 5
    BY <1>5, <2>3, <2>4 DEF IsSensitive
  <2>6. IsSensitive(m, layer) <=> layer < n \div 8 \/ layer >= (7 * n) \div 8
    BY <1>5 DEF IsSensitive, AtTheEnds, n
  <2> QED BY <2>2, <2>5, <2>6 DEF s, map, n
<1> QED BY <1>4, <1>5
-----------------------------------------------------------------------------
(* The rules, at each level.                                               *)

Rules(t, m) ==
    {KeepFP16, UseDefault, Pinned} \cup {Bits(n) : n \in 3..8}
        \cup (IF t \in DOMAIN m.boost THEN {FromMap(m.boost[t])} ELSE {})

\* 3.5 bits give the experts' down projections more than their base; nothing else knows
\* the level.
ByLevel(level) == Either(level = 7, 4, UseDefault)
Akin(rule, other, l, h) == rule = other \/ (rule = ByLevel(l) /\ other = ByLevel(h))

LEMMA ProjectionAkin ==
    ASSUME NEW p, NEW m, NEW l, NEW h, NEW sensitive \in BOOLEAN
    PROVE  Akin(ProjectionRule(p, m, l, sensitive), ProjectionRule(p, m, h, sensitive), l, h)
BY DEF ProjectionRule, Akin, ByLevel

LEMMA ProjectionIs ==
    ASSUME NEW p, NEW m, NEW l, NEW sensitive \in BOOLEAN
    PROVE  ProjectionRule(p, m, l, sensitive) \in {UseDefault} \cup {Bits(n) : n \in 3..8}
<1>1. \A n \in 3..8 : Bits(n) \in {Bits(i) : i \in 3..8}
  OBVIOUS
<1>2. Bits(4) \in {Bits(i) : i \in 3..8} /\ Bits(5) \in {Bits(i) : i \in 3..8}
      /\ Bits(6) \in {Bits(i) : i \in 3..8}
  BY <1>1
<1> QED BY <1>2 DEF ProjectionRule, Either

LEMMA ProtectionAkin ==
    ASSUME NEW p, NEW m, NEW l, NEW h, NEW sensitive \in BOOLEAN
    PROVE  Akin(ProtectionRule(p, m, l, sensitive), ProtectionRule(p, m, h, sensitive), l, h)
BY ProjectionAkin DEF ProtectionRule, Akin

LEMMA ProtectionIs ==
    ASSUME NEW p, NEW m, NEW l, NEW sensitive \in BOOLEAN
    PROVE  ProtectionRule(p, m, l, sensitive) \in {UseDefault} \cup {Bits(n) : n \in 3..8}
<1>1. \A n \in 3..8 : Bits(n) \in {Bits(i) : i \in 3..8}
  OBVIOUS
<1>2. \A n \in {3, 4, 5, 6, 8} : Bits(n) \in {Bits(i) : i \in 3..8}
  BY <1>1
<1> QED BY <1>2, ProjectionIs DEF ProtectionRule

LEMMA RuleAkin ==
    ASSUME NEW t, NEW m, NEW l, NEW h
    PROVE  Akin(UniversalQuantPredicate(t, m, l), UniversalQuantPredicate(t, m, h), l, h)
<1>1. IsSensitive(m, t.layer) \in BOOLEAN
  BY DEF IsSensitive
<1>2. Akin(ProtectionRule(t.path, m, l, IsSensitive(m, t.layer)),
           ProtectionRule(t.path, m, h, IsSensitive(m, t.layer)), l, h)
  BY <1>1, ProtectionAkin
<1> QED BY <1>2 DEF UniversalQuantPredicate, Akin

LEMMA RuleIs ==
    ASSUME NEW t, NEW m, NEW l
    PROVE  UniversalQuantPredicate(t, m, l) \in Rules(t, m)
<1>1. ProtectionRule(t.path, m, l, IsSensitive(m, t.layer)) \in {UseDefault} \cup {Bits(n) : n \in 3..8}
  <2>1. IsSensitive(m, t.layer) \in BOOLEAN BY DEF IsSensitive
  <2> QED BY <2>1, ProtectionIs
<1>2. Bits(8) \in {Bits(n) : n \in 3..8} /\ Bits(5) \in {Bits(n) : n \in 3..8}
  OBVIOUS
<1> QED BY <1>1, <1>2 DEF UniversalQuantPredicate, BudgetRule, Rules

LEMMA KeptIs ==
    ASSUME NEW t, NEW m, NEW l,
           \/ IsMoERouter(t.path) \/ IsMTPProtectedTensor(t.name)
           \/ IsKeptToo(t.path) /\ ~IsSharedGate(t.path)
    PROVE  GetPredicateBits(t, m, l) = NotQuantized
<1>1. IsMTPProtectedTensor(t.name) \/ UniversalQuantPredicate(t, m, l) = KeepFP16
  BY DEF UniversalQuantPredicate, IsKept
<1> QED BY <1>1 DEF GetPredicateBits, KeepFP16

LEMMA Bases ==
    ASSUME NEW l \in Levels, NEW h \in Levels
    PROVE  /\ BaseBits(l) \in 2..8 /\ l \in Nat
           /\ l <= h => BaseBits(l) <= BaseBits(h)
           /\ l <= 7 => BaseBits(l) <= 3
           /\ l > 7 => BaseBits(l) >= 4
<1>1. l \in {4, 6, 7, 8, 10, 12, 16} /\ h \in {4, 6, 7, 8, 10, 12, 16}
  BY QuantAssumption
<1>2. /\ BaseBits(4) = 2 /\ BaseBits(6) = 3 /\ BaseBits(7) = 3 /\ BaseBits(8) = 4
      /\ BaseBits(10) = 5 /\ BaseBits(12) = 6 /\ BaseBits(16) = 8
  BY DEF BaseBits
<1> HIDE DEF BaseBits
<1> QED BY <1>1, <1>2

LEMMA Kinds ==
    /\ KeepFP16.kind = "keep" /\ UseDefault.kind = "default"
    /\ \A n : Bits(n).kind = "bits" /\ Bits(n).bits = n
    /\ \A e : FromMap(e).kind = "entry" /\ FromMap(e).entry = e
BY DEF KeepFP16, UseDefault, Bits, FromMap

LEMMA EntryBits ==
    ASSUME NEW m, IsConfig(m), NEW t \in DOMAIN m.boost, NEW l \in Levels
    PROVE  BitsOf(FromMap(m.boost[t]), l) = IF "bits" \in DOMAIN m.boost[t] THEN m.boost[t]["bits"]
                                            ELSE BaseBits(l)
BY Kinds DEF BitsOf, Lookup

LEMMA PinnedBits == ASSUME NEW l PROVE BitsOf(Pinned, l) = 8
<1> DEFINE e == [bits |-> 8, group_size |-> 64, mode |-> "affine"]
<1>1. Pinned.kind = "entry" /\ Pinned.entry = e BY Kinds DEF Pinned
<1>2. "bits" \in DOMAIN e /\ e["bits"] = 8 OBVIOUS
<1> QED BY <1>1, <1>2 DEF BitsOf, Lookup

LEMMA DefaultBits == ASSUME NEW l PROVE BitsOf(UseDefault, l) = BaseBits(l)
BY Kinds DEF BitsOf

LEMMA FixedBits == ASSUME NEW l, NEW n PROVE BitsOf(Bits(n), l) = Greater(n, BaseBits(l))
BY Kinds DEF BitsOf

\* No rule but an entry of the boost map takes bits away.
LEMMA AtLeastBase ==
    ASSUME NEW m, NEW t, t \notin DOMAIN m.boost, NEW l \in Levels,
           NEW rule \in Rules(t, m), rule.kind # "keep"
    PROVE  BitsOf(rule, l) >= BaseBits(l)
<1>1. BaseBits(l) \in 2..8 BY Bases
<1>2. rule = UseDefault \/ rule = Pinned \/ \E n \in 3..8 : rule = Bits(n)
  BY Kinds DEF Rules
<1>3. CASE rule = UseDefault BY <1>1, <1>3, DefaultBits
<1>4. CASE rule = Pinned BY <1>1, <1>4, PinnedBits
<1>5. ASSUME NEW n \in 3..8, rule = Bits(n) PROVE BitsOf(rule, l) >= BaseBits(l)
  BY <1>1, <1>5, FixedBits DEF Greater
<1> QED BY <1>2, <1>3, <1>4, <1>5

\* More bits to begin with are never fewer in the end.
LEMMA BitsGrow ==
    ASSUME NEW m, IsConfig(m), NEW t, NEW l \in Levels, NEW h \in Levels, l <= h,
           NEW rule \in Rules(t, m), rule.kind # "keep"
    PROVE  BitsOf(rule, l) <= BitsOf(rule, h)
<1>1. BaseBits(l) \in 2..8 /\ BaseBits(h) \in 2..8 /\ BaseBits(l) <= BaseBits(h) BY Bases
<1>2. \/ rule = UseDefault \/ rule = Pinned \/ \E n \in 3..8 : rule = Bits(n)
      \/ t \in DOMAIN m.boost /\ rule = FromMap(m.boost[t])
  BY Kinds DEF Rules
<1>3. CASE rule = UseDefault BY <1>1, <1>3, DefaultBits
<1>4. CASE rule = Pinned BY <1>4, PinnedBits
<1>5. ASSUME NEW n \in 3..8, rule = Bits(n) PROVE BitsOf(rule, l) <= BitsOf(rule, h)
  BY <1>1, <1>5, FixedBits DEF Greater
<1>6. CASE t \in DOMAIN m.boost /\ rule = FromMap(m.boost[t])
  <2>1. "bits" \in DOMAIN m.boost[t] => m.boost[t]["bits"] \in Nat
    BY <1>6 DEF IsConfig
  <2> QED BY <1>1, <1>6, <2>1, EntryBits
<1> QED BY <1>2, <1>3, <1>4, <1>5, <1>6

LEMMA ByLevelGrows ==
    ASSUME NEW l \in Levels, NEW h \in Levels, l <= h
    PROVE  BitsOf(ByLevel(l), l) <= BitsOf(ByLevel(h), h)
<1>1. /\ BaseBits(l) \in 2..8 /\ BaseBits(h) \in 2..8 /\ BaseBits(l) <= BaseBits(h)
      /\ l \in Nat /\ h \in Nat
      /\ l <= 7 => BaseBits(l) <= 3
      /\ h <= 7 => BaseBits(h) <= 3
      /\ h > 7 => BaseBits(h) >= 4
  BY Bases
<1>2. BitsOf(ByLevel(l), l) = IF l = 7 THEN Greater(4, BaseBits(l)) ELSE BaseBits(l)
  BY DefaultBits, FixedBits DEF ByLevel, Either
<1>3. BitsOf(ByLevel(h), h) = IF h = 7 THEN Greater(4, BaseBits(h)) ELSE BaseBits(h)
  BY DefaultBits, FixedBits DEF ByLevel, Either
<1> QED BY <1>1, <1>2, <1>3 DEF Greater

LEMMA AnswerIs ==
    ASSUME NEW t, NEW m, NEW l
    PROVE  LET rule == UniversalQuantPredicate(t, m, l)
               a == GetPredicateBits(t, m, l)
               kept == IsMTPProtectedTensor(t.name) \/ rule.kind = "keep"
           IN  /\ a.quantized = ~kept
               /\ a.bits = IF kept THEN 0 ELSE BitsOf(rule, l)
BY DEF GetPredicateBits, NotQuantized, Quantized

LEMMA AnswersOrdered ==
    ASSUME NEW m, IsConfig(m), NEW t, NEW l \in Levels, NEW h \in Levels, l <= h
    PROVE  /\ GetPredicateBits(t, m, l).quantized = GetPredicateBits(t, m, h).quantized
           /\ GetPredicateBits(t, m, l).bits <= GetPredicateBits(t, m, h).bits
<1> DEFINE rule == UniversalQuantPredicate(t, m, l)
           other == UniversalQuantPredicate(t, m, h)
           safe == IsMTPProtectedTensor(t.name)
           a == GetPredicateBits(t, m, l)
           b == GetPredicateBits(t, m, h)
<1>1. /\ a.quantized = ~(safe \/ rule.kind = "keep")
      /\ a.bits = IF safe \/ rule.kind = "keep" THEN 0 ELSE BitsOf(rule, l)
  BY AnswerIs
<1>2. /\ b.quantized = ~(safe \/ other.kind = "keep")
      /\ b.bits = IF safe \/ other.kind = "keep" THEN 0 ELSE BitsOf(other, h)
  BY AnswerIs
<1>3. Akin(rule, other, l, h) BY RuleAkin
<1>4. rule \in Rules(t, m) BY RuleIs
<1> HIDE DEF rule, other, a, b, safe
<1>5. CASE rule = other
  <2>1. rule.kind # "keep" => BitsOf(rule, l) <= BitsOf(rule, h)
    BY <1>4, BitsGrow
  <2>2. a.bits <= b.bits
    <3>1. CASE safe \/ rule.kind = "keep" BY <1>1, <1>2, <1>5, <3>1
    <3>2. CASE ~(safe \/ rule.kind = "keep") BY <1>1, <1>2, <1>5, <2>1, <3>2
    <3> QED BY <3>1, <3>2
  <2>3. a.quantized = b.quantized BY <1>1, <1>2, <1>5
  <2> QED BY <2>2, <2>3 DEF a, b
<1>6. CASE rule = ByLevel(l) /\ other = ByLevel(h)
  <2>1. rule.kind # "keep" /\ other.kind # "keep"
    BY <1>6, Kinds DEF ByLevel, Either
  <2>2. BitsOf(rule, l) <= BitsOf(other, h) BY <1>6, ByLevelGrows
  <2>3. a.bits <= b.bits
    <3>1. CASE safe BY <1>1, <1>2, <3>1
    <3>2. CASE ~safe BY <1>1, <1>2, <2>1, <2>2, <3>2
    <3> QED BY <3>1, <3>2
  <2>4. a.quantized = b.quantized BY <1>1, <1>2, <2>1
  <2> QED BY <2>3, <2>4 DEF a, b
<1> QED BY <1>3, <1>5, <1>6 DEF Akin

LEMMA AnswerAtLeast ==
    ASSUME NEW m, NEW t, NEW l \in Levels, t \notin DOMAIN m.boost,
           GetPredicateBits(t, m, l).quantized
    PROVE  GetPredicateBits(t, m, l).bits >= BaseBits(l)
<1> DEFINE rule == UniversalQuantPredicate(t, m, l)
<1>1. rule.kind # "keep" /\ GetPredicateBits(t, m, l).bits = BitsOf(rule, l)
  BY AnswerIs
<1>2. rule \in Rules(t, m) BY RuleIs
<1> HIDE DEF rule
<1> QED BY <1>1, <1>2, AtLeastBase

-----------------------------------------------------------------------------
(* What the planner does to a config.                                      *)

\* Configs of which the rules cannot tell the difference, for a layer.
Alike(m, s, layer) ==
    /\ s.nonQuantizable = m.nonQuantizable /\ s.boost = m.boost /\ s.budget = m.budget
    /\ NumExperts(s) = NumExperts(m) /\ HiddenSize(s) = HiddenSize(m)
    /\ IsSensitive(s, layer) = IsSensitive(m, layer)

LEMMA AlikeAnswers ==
    ASSUME NEW t, NEW m, NEW s, NEW l, Alike(m, s, t.layer)
    PROVE  GetPredicateBits(t, s, l) = GetPredicateBits(t, m, l)
<1>1. /\ s.nonQuantizable = m.nonQuantizable /\ s.boost = m.boost /\ s.budget = m.budget
      /\ IsMoE(s) = IsMoE(m) /\ IsHuge(s) = IsHuge(m) /\ NumExperts(s) = NumExperts(m)
      /\ IsSensitive(s, t.layer) = IsSensitive(m, t.layer)
  BY DEF Alike, IsMoE, IsHuge
<1>2. ASSUME NEW sensitive
      PROVE  ProtectionRule(t.path, s, l, sensitive) = ProtectionRule(t.path, m, l, sensitive)
  <2>1. ProjectionRule(t.path, s, l, sensitive) = ProjectionRule(t.path, m, l, sensitive)
    BY <1>1 DEF ProjectionRule
  <2> QED BY <1>1, <2>1 DEF ProtectionRule
<1>3. ProtectionRule(t.path, s, l, IsSensitive(s, t.layer))
        = ProtectionRule(t.path, m, l, IsSensitive(m, t.layer))
  BY <1>1, <1>2
<1>4. UniversalQuantPredicate(t, s, l) = UniversalQuantPredicate(t, m, l)
  BY <1>1, <1>3 DEF UniversalQuantPredicate, IsKept
<1>5. GroupSizeOf(s) = GroupSizeOf(m)
  BY <1>1 DEF GroupSizeOf
<1> QED BY <1>4, <1>5 DEF GetPredicateBits

LEMMA Stashed ==
    ASSUME NEW m, IsConfig(m), DOMAIN m.sensitivity = {}
    PROVE  LET s == [m EXCEPT !.sensitivity = PositionSensitivityMap(NumLayers(m))]
           IN  /\ IsConfig(s) /\ NumLayers(s) = NumLayers(m) /\ s.boost = m.boost
               /\ \A layer \in Int : layer < NumLayers(m) => Alike(m, s, layer)
<1> DEFINE map == PositionSensitivityMap(NumLayers(m))
           s == [m EXCEPT !.sensitivity = map]
<1>1. /\ s.sensitivity = map /\ s.top = m.top /\ s.text = m.text /\ s.boost = m.boost
      /\ s.nonQuantizable = m.nonQuantizable /\ s.budget = m.budget /\ DOMAIN s = DOMAIN m
  BY DEF IsConfig
<1>2. map \in [DOMAIN map -> Nat]
  BY DEF PositionSensitivityMap
<1>3. ASSUME NEW layer \in Int, layer < NumLayers(m)
      PROVE  IsSensitive(s, layer) = IsSensitive(m, layer)
  <2>1. IsSensitive(s, layer) <=> IsSensitive(m, layer) BY <1>3, StashSaysTheSame
  <2>2. IsSensitive(s, layer) \in BOOLEAN /\ IsSensitive(m, layer) \in BOOLEAN BY DEF IsSensitive
  <2> QED BY <2>1, <2>2
<1> HIDE DEF map, s
<1>4. IsConfig(s) BY <1>1, <1>2 DEF IsConfig
<1>5. NumLayers(s) = NumLayers(m) /\ NumExperts(s) = NumExperts(m) /\ HiddenSize(s) = HiddenSize(m)
  BY <1>1 DEF NumLayers, NumExperts, HiddenSize
<1>6. \A layer \in Int : layer < NumLayers(m) => Alike(m, s, layer)
  BY <1>1, <1>3, <1>5 DEF Alike
<1> QED BY <1>1, <1>4, <1>5, <1>6 DEF s, map

LEMMA Stripped ==
    ASSUME NEW m, IsConfig(m)
    PROVE  LET s == NormalizeMTPInConfig(m)
           IN  /\ IsConfig(s) /\ NumLayers(s) = NumLayers(m) /\ s.boost = m.boost
               /\ \A layer : Alike(m, s, layer)
<1> DEFINE s == NormalizeMTPInConfig(m)
<1>1. /\ s.top = Zeroed(m.top) /\ s.text = Zeroed(m.text) /\ s.boost = m.boost
      /\ s.nonQuantizable = m.nonQuantizable /\ s.budget = m.budget
      /\ s.sensitivity = m.sensitivity /\ DOMAIN s = DOMAIN m
  BY DEF NormalizeMTPInConfig, IsConfig
<1>2. ASSUME NEW dict, dict \in [DOMAIN dict -> Nat]
      PROVE  /\ Zeroed(dict) \in [DOMAIN Zeroed(dict) -> Nat] /\ DOMAIN Zeroed(dict) = DOMAIN dict
             /\ \A key \in DOMAIN dict \ MTPCounts : Zeroed(dict)[key] = dict[key]
  BY <1>2 DEF Zeroed
<1>3. /\ "num_hidden_layers" \notin MTPCounts /\ "num_local_experts" \notin MTPCounts
      /\ "num_experts" \notin MTPCounts /\ "hidden_size" \notin MTPCounts
  BY DEF MTPCounts
<1> HIDE DEF s
<1>4. IsConfig(s) BY <1>1, <1>2 DEF IsConfig
<1>5. /\ s.top \in [DOMAIN m.top -> Nat] /\ s.text \in [DOMAIN m.text -> Nat]
      /\ \A key \in DOMAIN m.top \ MTPCounts : s.top[key] = m.top[key]
      /\ \A key \in DOMAIN m.text \ MTPCounts : s.text[key] = m.text[key]
      /\ DOMAIN s.top = DOMAIN m.top /\ DOMAIN s.text = DOMAIN m.text
  BY <1>1, <1>2 DEF IsConfig
<1>6. ASSUME NEW key, key \notin MTPCounts
      PROVE  /\ IsSet(s.top, key) = IsSet(m.top, key) /\ IsSet(s.text, key) = IsSet(m.text, key)
             /\ IsSet(m.top, key) => s.top[key] = m.top[key]
             /\ IsSet(m.text, key) => s.text[key] = m.text[key]
             /\ \A default : Lookup(s.text, key, default) = Lookup(m.text, key, default)
  BY <1>5, <1>6 DEF IsSet, Lookup
<1>7. NumLayers(s) = NumLayers(m)
  BY <1>3, <1>6 DEF NumLayers
<1>8. NumExperts(s) = NumExperts(m)
  BY <1>3, <1>6 DEF NumExperts
<1>9. HiddenSize(s) = HiddenSize(m)
  BY <1>3, <1>6 DEF HiddenSize
<1>10. \A layer : IsSensitive(s, layer) = IsSensitive(m, layer)
  BY <1>1, <1>7 DEF IsSensitive, AtTheEnds
<1> QED BY <1>1, <1>4, <1>7, <1>8, <1>9, <1>10 DEF Alike, s

-----------------------------------------------------------------------------
\* What a level starts from is kept.
FloorKept ==
    \A l \in DOMAIN answers :
        answers[l].quantized /\ tensor \notin DOMAIN model.boost => answers[l].bits >= BaseBits(l)

PlanInv ==
    /\ IsConfig(model) /\ tensor.layer \in Int /\ DOMAIN answers \subseteq Levels
    /\ AnswersStay /\ DelicateKept /\ FloorKept

LEMMA PlanInvInit == QuantInit => PlanInv
<1> SUFFICES ASSUME QuantInit PROVE PlanInv
  OBVIOUS
<1>1. DOMAIN answers = {} BY DEF QuantInit
<1>2. IsConfig(model) /\ tensor.layer \in Int BY QuantAssumption DEF QuantInit
<1> QED BY <1>1, <1>2 DEF PlanInv, AnswersStay, DelicateKept, FloorKept

\* The config is changed to one that is like it.
LEMMA PlanGoesOn ==
    ASSUME PlanInv, IsConfig(model'), UNCHANGED <<tensor, answers>>,
           NumLayers(model') = NumLayers(model), model'.boost = model.boost,
           tensor.layer < NumLayers(model) => Alike(model, model', tensor.layer)
    PROVE  PlanInv'
<1>1. AnswersStay'
  <2> SUFFICES ASSUME tensor.layer < NumLayers(model), NEW l \in DOMAIN answers
               PROVE  answers[l] = GetPredicateBits(tensor, model', l)
    BY DEF AnswersStay
  <2>1. GetPredicateBits(tensor, model', l) = GetPredicateBits(tensor, model, l)
    BY AlikeAnswers
  <2> QED BY <2>1 DEF PlanInv, AnswersStay
<1>2. DelicateKept' /\ FloorKept'
  BY DEF PlanInv, DelicateKept, FloorKept
<1> QED BY <1>1, <1>2 DEF PlanInv

LEMMA PlanInvStep == PlanInv /\ [QuantNext]_quantVars => PlanInv'
<1> SUFFICES ASSUME PlanInv, [QuantNext]_quantVars PROVE PlanInv'
  OBVIOUS
<1>1. ASSUME NEW level \in Levels, Ask(level) PROVE PlanInv'
  <2> DEFINE a == GetPredicateBits(tensor, model, level)
  <2>1. /\ UNCHANGED <<model, tensor>> /\ DOMAIN answers' = DOMAIN answers \cup {level}
        /\ \A l \in DOMAIN answers' : answers'[l] = IF l = level THEN a ELSE answers[l]
    BY <1>1 DEF Ask
  <2>2. \/ IsMoERouter(tensor.path) \/ IsMTPProtectedTensor(tensor.name)
        \/ IsKeptToo(tensor.path) /\ ~IsSharedGate(tensor.path)
        => ~a.quantized
    <3>1. NotQuantized.quantized = FALSE BY DEF NotQuantized
    <3>2. ASSUME \/ IsMoERouter(tensor.path) \/ IsMTPProtectedTensor(tensor.name)
                 \/ IsKeptToo(tensor.path) /\ ~IsSharedGate(tensor.path)
          PROVE  a = NotQuantized
      BY <3>2, KeptIs
    <3> QED BY <3>1, <3>2
  <2>3. a.quantized /\ tensor \notin DOMAIN model.boost => a.bits >= BaseBits(level)
    BY AnswerAtLeast
  <2> HIDE DEF a
  <2>4. AnswersStay' BY <2>1 DEF PlanInv, AnswersStay, a
  <2>5. DelicateKept' BY <2>1, <2>2 DEF PlanInv, DelicateKept
  <2>6. FloorKept' BY <2>1, <2>3 DEF PlanInv, FloorKept
  <2> QED BY <2>1, <2>4, <2>5, <2>6 DEF PlanInv
<1>2. CASE StashMap
  BY <1>2, Stashed, PlanGoesOn DEF StashMap, PlanInv
<1>3. CASE StripMTP
  BY <1>3, Stripped, PlanGoesOn DEF StripMTP, PlanInv
<1>4. CASE UNCHANGED <<model, tensor, answers>>
  BY <1>4 DEF PlanInv, AnswersStay, DelicateKept, FloorKept
<1> QED
  BY <1>1, <1>2, <1>3, <1>4
  DEF QuantNext, EstimateNext, LoadKeys, Requantize, quantVars

LEMMA PlanIsSound == PlanInv /\ EstimateInv => BitsSound
<1> SUFFICES ASSUME PlanInv PROVE LevelsOrdered
  BY DEF PlanInv, EstimateInv, BitsSound
<1> SUFFICES ASSUME NEW l \in DOMAIN answers, NEW h \in DOMAIN answers
             PROVE  /\ l <= h /\ tensor.layer < NumLayers(model) =>
                          /\ answers[l].quantized = answers[h].quantized
                          /\ answers[l].bits <= answers[h].bits
                    /\ answers[l].quantized /\ tensor \notin DOMAIN model.boost
                         => answers[l].bits >= BaseBits(l)
  BY DEF LevelsOrdered
<1>1. l \in Levels /\ h \in Levels /\ IsConfig(model) BY DEF PlanInv
<1>2. tensor.layer < NumLayers(model) => /\ answers[l] = GetPredicateBits(tensor, model, l)
                                         /\ answers[h] = GetPredicateBits(tensor, model, h)
  BY DEF PlanInv, AnswersStay
<1>3. answers[l].quantized /\ tensor \notin DOMAIN model.boost => answers[l].bits >= BaseBits(l)
  BY DEF PlanInv, FloorKept
<1> QED BY <1>1, <1>2, <1>3, AnswersOrdered

\* The plan of the bits (oq.go UniversalQuantPredicate, GetPredicateBits), for any config,
\* tensor, boost map and order of levels: a higher level never gives less, nothing touches
\* what must keep its precision, and no answer changes when the planner writes its map of
\* the positions or strips the MTP head.  And the estimate (EstimateEffectiveBPW), for any
\* weights and overrides and in any order, stays between what they were given and 16 bits.
THEOREM PlanStaysSound == QuantSpec => []BitsSound
<1>1. QuantSpec => []PlanInv
  BY PlanInvInit, PlanInvStep, PTL DEF QuantSpec
<1>2. QuantSpec => []EstimateInv
  BY EstimateInvInit, EstimateInvStep, PTL DEF QuantSpec
<1> QED BY <1>1, <1>2, PlanIsSound, PTL

-----------------------------------------------------------------------------
(* Updates: for every list of releases, in whatever order.                *)

Signs == {-1, 0, 1}

\* What a comparison may say of three: they are in an order.
Consistent(ab, bc, ac) ==
    /\ ab \in Signs /\ bc \in Signs /\ ac \in Signs
    /\ ab = 0 => ac = bc
    /\ bc = 0 => ac = ab
    /\ ab = bc => ac = ab

LEMMA Refined ==
    ASSUME NEW x, NEW y, NEW z, Consistent(x, y, z), NEW a \in Signs, NEW b \in Signs, NEW c \in Signs,
           x = 0 /\ y = 0 => Consistent(a, b, c)
    PROVE  Consistent(Otherwise(x, a), Otherwise(y, b), Otherwise(z, c))
BY DEF Consistent, Otherwise, Signs

LEMMA IntsFit ==
    ASSUME NEW a \in Int, NEW b \in Int, NEW c \in Int
    PROVE  Consistent(CmpInt(a, b), CmpInt(b, c), CmpInt(a, c))
BY DEF Consistent, CmpInt, Signs

LEMMA IntSigns ==
    ASSUME NEW a \in Int, NEW b \in Int
    PROVE  CmpInt(a, b) \in Signs /\ CmpInt(a, a) = 0
BY DEF CmpInt, Signs

-----------------------------------------------------------------------------
(* Sequences of numbers.                                                   *)

\* a and b are the same in front of place i, and b goes on, or on with more, there.
Apart(a, b, i) ==
    /\ \A j \in 1..i - 1 : j \in DOMAIN a /\ j \in DOMAIN b /\ a[j] = b[j]
    /\ i \in DOMAIN b /\ (i \in DOMAIN a => a[i] < b[i])
Below(a, b) == \E i \in Nat \ {0} : Apart(a, b, i)

LEMMA BelowGoesOn ==
    ASSUME NEW a \in Seq(Int), NEW b \in Seq(Int), NEW c \in Seq(Int), Below(a, b), Below(b, c)
    PROVE  Below(a, c)
<1>1. PICK i \in Nat \ {0} : Apart(a, b, i) BY DEF Below
<1>2. PICK k \in Nat \ {0} : Apart(b, c, k) BY DEF Below
<1>3. /\ DOMAIN a = 1..Len(a) /\ DOMAIN b = 1..Len(b) /\ DOMAIN c = 1..Len(c)
      /\ Len(a) \in Nat /\ Len(b) \in Nat /\ Len(c) \in Nat
      /\ \A j \in 1..Len(a) : a[j] \in Int
      /\ \A j \in 1..Len(b) : b[j] \in Int
      /\ \A j \in 1..Len(c) : c[j] \in Int
  OBVIOUS
<1>4. CASE i <= k
  <2>1. \A j \in 1..i - 1 : j \in DOMAIN a /\ j \in DOMAIN c /\ a[j] = c[j]
    BY <1>1, <1>2, <1>4 DEF Apart
  <2>2. i \in DOMAIN c /\ (i \in DOMAIN a => a[i] < c[i])
    <3>1. CASE i = k
      BY <1>1, <1>2, <1>3, <3>1 DEF Apart
    <3>2. CASE i < k
      <4>1. i \in 1..k - 1 BY <3>2
      <4>2. i \in DOMAIN c /\ b[i] = c[i] BY <1>2, <4>1 DEF Apart
      <4> QED BY <1>1, <4>2 DEF Apart
    <3> QED BY <1>4, <3>1, <3>2
  <2>3. Apart(a, c, i) BY <2>1, <2>2 DEF Apart
  <2> QED BY <2>3 DEF Below
<1>5. CASE k < i
  <2>1. \A j \in 1..k - 1 : j \in DOMAIN a /\ j \in DOMAIN c /\ a[j] = c[j]
    BY <1>1, <1>2, <1>5 DEF Apart
  <2>2. k \in 1..i - 1 BY <1>5
  <2>3. k \in DOMAIN a /\ k \in DOMAIN b /\ a[k] = b[k] BY <1>1, <2>2 DEF Apart
  <2>4. k \in DOMAIN c /\ a[k] < c[k] BY <1>2, <2>3 DEF Apart
  <2>5. Apart(a, c, k) BY <2>1, <2>4 DEF Apart
  <2> QED BY <2>5 DEF Below
<1> QED BY <1>4, <1>5

LEMMA NotBelowItself == ASSUME NEW a \in Seq(Int) PROVE ~Below(a, a)
<1> SUFFICES ASSUME NEW i \in Nat \ {0}, Apart(a, a, i) PROVE FALSE
  BY DEF Below
<1>1. i \in DOMAIN a /\ a[i] < a[i] BY DEF Apart
<1>2. a[i] \in Int BY <1>1
<1> QED BY <1>1, <1>2

\* What is said of two is true.
Said(a, b) ==
    \/ CmpInts(a, b) = -1 /\ Below(a, b)
    \/ CmpInts(a, b) = 1 /\ Below(b, a)
    \/ CmpInts(a, b) = 0 /\ a = b

LEMMA SequencesCompare ==
    ASSUME NEW a \in Seq(Int), NEW b \in Seq(Int)
    PROVE  Said(a, b)
<1>1. /\ DOMAIN a = 1..Len(a) /\ DOMAIN b = 1..Len(b) /\ Len(a) \in Nat /\ Len(b) \in Nat
      /\ \A j \in 1..Len(a) : a[j] \in Int
      /\ \A j \in 1..Len(b) : b[j] \in Int
  OBVIOUS
<1>0. Len(a) \in Nat /\ Len(b) \in Nat
  OBVIOUS
<1>2. CASE Differ(a, b) = {}
  <2>1. CmpInts(a, b) = CmpInt(Len(a), Len(b)) BY <1>2 DEF CmpInts
  <2>2. \A j \in DOMAIN a \cap DOMAIN b : a[j] = b[j] BY <1>2 DEF Differ
  <2>3. CASE Len(a) < Len(b)
    <3>1. Apart(a, b, Len(a) + 1)
      <4>1. (Len(a) + 1) - 1 = Len(a) /\ Len(a) + 1 \in 1..Len(b) /\ Len(a) + 1 \notin 1..Len(a)
            /\ \A j \in 1..Len(a) : j \in 1..Len(b)
        BY <1>1, <2>3
      <4> QED BY <1>1, <2>2, <4>1 DEF Apart
    <3>2. Len(a) + 1 \in Nat \ {0} BY <1>1
    <3>3. Below(a, b) BY <3>1, <3>2 DEF Below
    <3> QED BY <1>1, <2>1, <2>3, <3>3 DEF CmpInt, Said
  <2>4. CASE Len(b) < Len(a)
    <3>1. Apart(b, a, Len(b) + 1)
      <4>1. (Len(b) + 1) - 1 = Len(b) /\ Len(b) + 1 \in 1..Len(a) /\ Len(b) + 1 \notin 1..Len(b)
            /\ \A j \in 1..Len(b) : j \in 1..Len(a)
        BY <1>1, <2>4
      <4> QED BY <1>1, <2>2, <4>1 DEF Apart
    <3>2. Len(b) + 1 \in Nat \ {0} BY <1>1
    <3>3. Below(b, a) BY <3>1, <3>2 DEF Below
    <3> QED BY <1>1, <2>1, <2>4, <3>3 DEF CmpInt, Said
  <2>5. CASE Len(a) = Len(b)
    <3>1. \A j \in 1..Len(a) : a[j] = b[j] BY <1>1, <2>2, <2>5
    <3>2. a = b BY <2>5, <3>1, SeqEqual
    <3>3. CmpInts(a, b) = 0 BY <1>1, <2>1, <2>5 DEF CmpInt
    <3> QED BY <3>2, <3>3 DEF Said
  <2>6. Len(a) < Len(b) \/ Len(b) < Len(a) \/ Len(a) = Len(b) BY ONLY <1>0
  <2> QED BY <2>3, <2>4, <2>5, <2>6
<1>3. CASE Differ(a, b) # {}
  <2> DEFINE m == Min(Differ(a, b))
  <2>1. m \in Differ(a, b) /\ \A j \in Differ(a, b) : m <= j
    <3>1. Differ(a, b) \subseteq Nat BY <1>1 DEF Differ
    <3> QED BY <1>3, <3>1, MinIsLeast
  <2>2. CmpInts(a, b) = CmpInt(a[m], b[m]) BY <1>3 DEF CmpInts
  <2> HIDE DEF m
  <2>3. m \in DOMAIN a /\ m \in DOMAIN b /\ a[m] # b[m] /\ m \in Nat \ {0}
    BY <1>1, <2>1 DEF Differ
  <2>4. \A j \in 1..m - 1 : j \in DOMAIN a /\ j \in DOMAIN b /\ a[j] = b[j]
    <3> SUFFICES ASSUME NEW j \in 1..m - 1 PROVE j \in DOMAIN a /\ j \in DOMAIN b /\ a[j] = b[j]
      OBVIOUS
    <3>1. j \in DOMAIN a /\ j \in DOMAIN b BY <1>1, <2>3
    <3>2. ~(m <= j) BY <2>3
    <3> QED BY <2>1, <3>1, <3>2 DEF Differ
  <2>5. a[m] \in Int /\ b[m] \in Int BY <1>1, <2>3
  <2>6. CASE a[m] < b[m]
    <3>1. Apart(a, b, m) BY <2>3, <2>4, <2>6 DEF Apart
    <3>2. Below(a, b) BY <2>3, <3>1 DEF Below
    <3> QED BY <2>2, <2>5, <2>6, <3>2 DEF CmpInt, Said
  <2>7. CASE b[m] < a[m]
    <3>1. Apart(b, a, m) BY <2>3, <2>4, <2>7 DEF Apart
    <3>2. Below(b, a) BY <2>3, <3>1 DEF Below
    <3> QED BY <2>2, <2>5, <2>7, <3>2 DEF CmpInt, Said
  <2> QED BY <2>3, <2>5, <2>6, <2>7
<1> QED BY <1>2, <1>3

LEMMA SequencesFit ==
    ASSUME NEW a \in Seq(Int), NEW b \in Seq(Int), NEW c \in Seq(Int)
    PROVE  Consistent(CmpInts(a, b), CmpInts(b, c), CmpInts(a, c)) /\ CmpInts(a, a) = 0
<1>1. Said(a, b) /\ Said(b, c) /\ Said(a, c) /\ Said(a, a)
  BY SequencesCompare
<1>2. ~Below(a, a) /\ ~Below(c, c) BY NotBelowItself
<1>3. /\ Below(a, b) /\ Below(b, c) => Below(a, c)
      /\ Below(c, b) /\ Below(b, a) => Below(c, a)
      /\ Below(a, c) /\ Below(c, a) => Below(a, a)
  BY BelowGoesOn
<1>4. CASE CmpInts(a, b) = 0 BY <1>1, <1>2, <1>4 DEF Consistent, Signs, Said
<1>5. CASE CmpInts(b, c) = 0 BY <1>1, <1>2, <1>5 DEF Consistent, Signs, Said
<1>6. CASE CmpInts(a, b) = -1 /\ CmpInts(b, c) = -1
  <2>1. Below(a, c) BY <1>1, <1>3, <1>6 DEF Said
  <2>2. CmpInts(a, c) = -1 BY <1>1, <1>2, <1>3, <2>1 DEF Said
  <2> QED BY <1>1, <1>2, <1>6, <2>2 DEF Consistent, Signs, Said
<1>7. CASE CmpInts(a, b) = 1 /\ CmpInts(b, c) = 1
  <2>1. Below(c, a) BY <1>1, <1>3, <1>7 DEF Said
  <2>2. CmpInts(a, c) = 1 BY <1>1, <1>2, <1>3, <2>1 DEF Said
  <2> QED BY <1>1, <1>2, <1>7, <2>2 DEF Consistent, Signs, Said
<1>8. CASE /\ CmpInts(a, b) # 0 /\ CmpInts(b, c) # 0 /\ CmpInts(a, b) # CmpInts(b, c)
  BY <1>1, <1>2, <1>8 DEF Consistent, Signs, Said
<1> QED BY <1>1, <1>4, <1>5, <1>6, <1>7, <1>8 DEF Said

-----------------------------------------------------------------------------
(* Versions.                                                               *)

Parts == [present : BOOLEAN, num : Int]
IsParsed(v) ==
    /\ v.epoch \in Int /\ v.release \in Seq(Nat)
    /\ \A part \in {v.pre, v.post, v.dev} : part.present \in BOOLEAN /\ part.num \in Int
    /\ v.hasLoc \in BOOLEAN /\ (v.hasLoc => v.local \in Seq(Int))

LEMMA WrittenParses ==
    ASSUME NEW written,
           written = <<>> \/ Len(written) = 1 \/ (Len(written) = 2 /\ written[2] \in Nat)
    PROVE  /\ ParseLetterVersion(written).present \in BOOLEAN
           /\ ParseLetterVersion(written).num \in Int
<1>1. CASE written = <<>>
  <2>1. ParseLetterVersion(written) = None
    BY <1>1 DEF ParseLetterVersion
  <2>2. None.present \in BOOLEAN BY DEF None
  <2>3. None.num \in Int BY DEF None
  <2> QED BY <2>1, <2>2, <2>3
<1>2. CASE written # <<>>
  <2>1. /\ ParseLetterVersion(written).present = TRUE
        /\ ParseLetterVersion(written).num = IF Len(written) > 1 THEN written[2] ELSE 0
    BY <1>2 DEF ParseLetterVersion, LetterNum
  <2>2. Len(written) > 1 => written[2] \in Int BY <1>2
  <2>3. ParseLetterVersion(written).present \in BOOLEAN BY <2>1
  <2>4. ParseLetterVersion(written).num \in Int BY <2>1, <2>2
  <2> QED BY <2>3, <2>4
<1> QED BY <1>1, <1>2

LEMMA PartsParse ==
    ASSUME NEW tag, NEW key, IsPart(tag, key)
    PROVE  /\ ParseLetterVersion(PartOf(tag, key)).present \in BOOLEAN
           /\ ParseLetterVersion(PartOf(tag, key)).num \in Int
<1> DEFINE written == PartOf(tag, key)
<1>1. written = <<>> \/ Len(written) = 1 \/ (Len(written) = 2 /\ written[2] \in Nat)
  BY DEF PartOf, IsPart
<1> HIDE DEF written
<1>2. /\ ParseLetterVersion(written).present \in BOOLEAN
      /\ ParseLetterVersion(written).num \in Int
  BY <1>1, WrittenParses
<1> QED BY <1>2 DEF written

LEMMA TagsParse ==
    ASSUME NEW tag, IsTag(tag), IsVersion(tag)
    PROVE  IsParsed(ParseVersion(tag))
<1> DEFINE v == ParseVersion(tag)
<1>1. /\ tag.epoch \in Nat /\ tag.release \in Seq(Nat)
      /\ IsPart(tag, "pre") /\ IsPart(tag, "post") /\ IsPart(tag, "dev")
      /\ "local" \in DOMAIN tag => tag.local \in Seq(Int)
  BY DEF IsTag, IsVersion
<1>2. /\ v.epoch = tag.epoch /\ v.release = tag.release
      /\ v.pre = ParseLetterVersion(PartOf(tag, "pre"))
      /\ v.post = ParseLetterVersion(PartOf(tag, "post"))
      /\ v.dev = ParseLetterVersion(PartOf(tag, "dev"))
      /\ v.hasLoc = ("local" \in DOMAIN tag) /\ v.local = PartOf(tag, "local")
  BY DEF ParseVersion
<1> HIDE DEF v
<1>3. /\ v.pre.present \in BOOLEAN /\ v.pre.num \in Int
      /\ v.post.present \in BOOLEAN /\ v.post.num \in Int
      /\ v.dev.present \in BOOLEAN /\ v.dev.num \in Int
  BY <1>1, <1>2, PartsParse
<1>4. v.hasLoc \in BOOLEAN /\ (v.hasLoc => v.local \in Seq(Int))
  BY <1>1, <1>2 DEF PartOf
<1>5. v.epoch \in Int /\ v.release \in Seq(Nat)
  BY <1>1, <1>2
<1> QED BY <1>3, <1>4, <1>5 DEF IsParsed, v

\* The places that are not zero.
Counting(r) == {0} \cup {i \in DOMAIN r : r[i] # 0}

LEMMA StrippedIs ==
    ASSUME NEW r \in Seq(Nat)
    PROVE  /\ Max(Counting(r)) \in 0..Len(r) /\ Max(Counting(r)) \in Counting(r)
           /\ \A i \in Counting(r) : i <= Max(Counting(r))
           /\ StripTrailingZeros(r) \in Seq(Int)
           /\ Len(StripTrailingZeros(r)) = Max(Counting(r))
           /\ \A i \in 1..Max(Counting(r)) : StripTrailingZeros(r)[i] = r[i]
<1> DEFINE k == Max(Counting(r))
<1>1. Counting(r) \subseteq 0..Len(r) /\ Counting(r) # {} /\ Counting(r) \subseteq Nat
      /\ Len(r) \in Nat
  BY DEF Counting
<1>2. k \in Counting(r) /\ \A i \in Counting(r) : i <= k
  <2>1. \A i \in Counting(r) : i <= Len(r) BY <1>1
  <2> QED BY <1>1, <2>1, MaxIsGreatest
<1>3. StripTrailingZeros(r) = SubSeq(r, 1, k) BY DEF StripTrailingZeros, Counting
<1> HIDE DEF k
<1>4. k \in 0..Len(r) BY <1>1, <1>2
<1>5. \A i \in 1..k : r[i] \in Int BY <1>4
<1>6. /\ SubSeq(r, 1, k) \in Seq(Int) /\ Len(SubSeq(r, 1, k)) = k
      /\ \A i \in 1..k : SubSeq(r, 1, k)[i] = r[i]
  <2>1. /\ SubSeq(r, 1, k) \in Seq(Int)
        /\ Len(SubSeq(r, 1, k)) = IF 1 <= k THEN k - 1 + 1 ELSE 0
        /\ \A i \in 1..k - 1 + 1 : SubSeq(r, 1, k)[i] = r[1 + i - 1]
    BY <1>4, <1>5, SubSeqProperties
  <2> QED BY <1>4, <2>1
<1> QED BY <1>2, <1>3, <1>4, <1>6 DEF k

LEMMA RanksAre ==
    ASSUME NEW letter
    PROVE  LetterRank(letter) \in 0..4
BY DEF LetterRank

LEMMA PreFits ==
    ASSUME NEW u, IsParsed(u), NEW v, IsParsed(v), NEW w, IsParsed(w)
    PROVE  Consistent(CmpPre(u, v), CmpPre(v, w), CmpPre(u, w)) /\ CmpPre(u, u) = 0
<1> DEFINE Inner(a, b) == Otherwise(CmpInt(LetterRank(a.pre.letter), LetterRank(b.pre.letter)),
                                    CmpInt(a.pre.num, b.pre.num))
           Rest(a, b) == IF PreRank(a) # 0 THEN 0 ELSE Inner(a, b)
<1>1. /\ PreRank(u) \in Int /\ PreRank(v) \in Int /\ PreRank(w) \in Int
  BY DEF PreRank
<1>2. /\ LetterRank(u.pre.letter) \in Int /\ LetterRank(v.pre.letter) \in Int
      /\ LetterRank(w.pre.letter) \in Int
      /\ u.pre.num \in Int /\ v.pre.num \in Int /\ w.pre.num \in Int
  <2>1. \A letter : LetterRank(letter) \in Int
    <3>1. \A letter : LetterRank(letter) \in 0..4 BY RanksAre
    <3> QED BY <3>1
  <2> HIDE DEF LetterRank
  <2> QED BY <2>1 DEF IsParsed
<1>3. Consistent(Inner(u, v), Inner(v, w), Inner(u, w)) /\ Inner(u, u) = 0
  <2>1. /\ Consistent(CmpInt(LetterRank(u.pre.letter), LetterRank(v.pre.letter)),
                CmpInt(LetterRank(v.pre.letter), LetterRank(w.pre.letter)),
                CmpInt(LetterRank(u.pre.letter), LetterRank(w.pre.letter)))
        /\ Consistent(CmpInt(u.pre.num, v.pre.num), CmpInt(v.pre.num, w.pre.num),
                CmpInt(u.pre.num, w.pre.num))
    BY <1>2, IntsFit
  <2>2. /\ CmpInt(u.pre.num, v.pre.num) \in Signs /\ CmpInt(v.pre.num, w.pre.num) \in Signs
        /\ CmpInt(u.pre.num, w.pre.num) \in Signs
    BY <2>1 DEF Consistent
  <2>3. Consistent(Inner(u, v), Inner(v, w), Inner(u, w))
    BY <2>1, <2>2, Refined
  <2>4. CmpInt(LetterRank(u.pre.letter), LetterRank(u.pre.letter)) = 0
        /\ CmpInt(u.pre.num, u.pre.num) = 0
    BY <1>2, IntSigns
  <2> QED BY <2>3, <2>4 DEF Otherwise
<1>4. /\ CmpPre(u, v) = Otherwise(CmpInt(PreRank(u), PreRank(v)), Rest(u, v))
      /\ CmpPre(v, w) = Otherwise(CmpInt(PreRank(v), PreRank(w)), Rest(v, w))
      /\ CmpPre(u, w) = Otherwise(CmpInt(PreRank(u), PreRank(w)), Rest(u, w))
      /\ CmpPre(u, u) = Otherwise(CmpInt(PreRank(u), PreRank(u)), Rest(u, u))
  BY <1>1 DEF CmpPre, Otherwise, CmpInt
<1> HIDE DEF Inner
<1>5. /\ Rest(u, v) \in Signs /\ Rest(v, w) \in Signs /\ Rest(u, w) \in Signs /\ Rest(u, u) = 0
  BY <1>3 DEF Consistent, Signs
<1>6. Consistent(CmpInt(PreRank(u), PreRank(v)), CmpInt(PreRank(v), PreRank(w)),
           CmpInt(PreRank(u), PreRank(w)))
  BY <1>1, IntsFit
<1>7. CmpInt(PreRank(u), PreRank(v)) = 0 /\ CmpInt(PreRank(v), PreRank(w)) = 0
        => Consistent(Rest(u, v), Rest(v, w), Rest(u, w))
  <2>1. CmpInt(PreRank(u), PreRank(v)) = 0 => PreRank(u) = PreRank(v)
    BY <1>1 DEF CmpInt
  <2> QED BY <1>3, <2>1 DEF Consistent, Signs
<1> HIDE DEF Rest
<1>8. Consistent(Otherwise(CmpInt(PreRank(u), PreRank(v)), Rest(u, v)),
           Otherwise(CmpInt(PreRank(v), PreRank(w)), Rest(v, w)),
           Otherwise(CmpInt(PreRank(u), PreRank(w)), Rest(u, w)))
  BY <1>5, <1>6, <1>7, Refined
<1>9. CmpInt(PreRank(u), PreRank(u)) = 0 BY <1>1, IntSigns
<1> QED BY <1>4, <1>5, <1>8, <1>9 DEF Otherwise

LEMMA PartsFit ==
    ASSUME NEW a, NEW b, NEW c, NEW absent \in {-1, 1},
           a.present \in BOOLEAN, b.present \in BOOLEAN, c.present \in BOOLEAN,
           a.num \in Int, b.num \in Int, c.num \in Int
    PROVE  Consistent(CmpPart(a, b, absent), CmpPart(b, c, absent), CmpPart(a, c, absent))
           /\ CmpPart(a, a, absent) = 0
<1> DEFINE Rest(p, q) == IF ~p.present THEN 0 ELSE CmpInt(p.num, q.num)
           R(p) == Rank(p, absent)
<1>1. R(a) \in Int /\ R(b) \in Int /\ R(c) \in Int BY DEF Rank
<1>2. /\ CmpPart(a, b, absent) = Otherwise(CmpInt(R(a), R(b)), Rest(a, b))
      /\ CmpPart(b, c, absent) = Otherwise(CmpInt(R(b), R(c)), Rest(b, c))
      /\ CmpPart(a, c, absent) = Otherwise(CmpInt(R(a), R(c)), Rest(a, c))
      /\ CmpPart(a, a, absent) = Otherwise(CmpInt(R(a), R(a)), Rest(a, a))
  BY <1>1 DEF CmpPart, Otherwise, CmpInt
<1>3. /\ Consistent(CmpInt(a.num, b.num), CmpInt(b.num, c.num), CmpInt(a.num, c.num))
      /\ CmpInt(a.num, a.num) = 0
  BY IntsFit, IntSigns
<1>4. Rest(a, b) \in Signs /\ Rest(b, c) \in Signs /\ Rest(a, c) \in Signs /\ Rest(a, a) = 0
  BY <1>3 DEF Consistent, Signs
<1>5. CmpInt(R(a), R(b)) = 0 /\ CmpInt(R(b), R(c)) = 0 => Consistent(Rest(a, b), Rest(b, c), Rest(a, c))
  <2>1. CmpInt(R(a), R(b)) = 0 => a.present = b.present
    BY DEF CmpInt, Rank
  <2> QED BY <1>3, <2>1 DEF Consistent, Signs
<1>6. Consistent(CmpInt(R(a), R(b)), CmpInt(R(b), R(c)), CmpInt(R(a), R(c))) /\ CmpInt(R(a), R(a)) = 0
  BY <1>1, IntsFit, IntSigns
<1> HIDE DEF Rest, R
<1>7. Consistent(Otherwise(CmpInt(R(a), R(b)), Rest(a, b)), Otherwise(CmpInt(R(b), R(c)), Rest(b, c)),
           Otherwise(CmpInt(R(a), R(c)), Rest(a, c)))
  BY <1>4, <1>5, <1>6, Refined
<1> QED BY <1>2, <1>4, <1>6, <1>7 DEF Otherwise

LEMMA LocalsFit ==
    ASSUME NEW u, IsParsed(u), NEW v, IsParsed(v), NEW w, IsParsed(w)
    PROVE  Consistent(CmpLocal(u, v), CmpLocal(v, w), CmpLocal(u, w)) /\ CmpLocal(u, u) = 0
<1>1. /\ u.hasLoc \in BOOLEAN /\ v.hasLoc \in BOOLEAN /\ w.hasLoc \in BOOLEAN
      /\ u.hasLoc => u.local \in Seq(Int)
      /\ v.hasLoc => v.local \in Seq(Int)
      /\ w.hasLoc => w.local \in Seq(Int)
  BY DEF IsParsed
<1>2. u.hasLoc => CmpInts(u.local, u.local) = 0
  BY <1>1, SequencesFit
<1>3. u.hasLoc /\ v.hasLoc => CmpInts(u.local, v.local) \in Signs
  BY <1>1, SequencesFit DEF Consistent
<1>4. v.hasLoc /\ w.hasLoc => CmpInts(v.local, w.local) \in Signs
  BY <1>1, SequencesFit DEF Consistent
<1>5. u.hasLoc /\ w.hasLoc => CmpInts(u.local, w.local) \in Signs
  BY <1>1, SequencesFit DEF Consistent
<1>6. u.hasLoc /\ v.hasLoc /\ w.hasLoc
        => Consistent(CmpInts(u.local, v.local), CmpInts(v.local, w.local), CmpInts(u.local, w.local))
  BY <1>1, SequencesFit
<1> HIDE DEF CmpInts
<1> QED BY <1>1, <1>2, <1>3, <1>4, <1>5, <1>6 DEF CmpLocal, Consistent, Signs

\* Versions are in an order.
LEMMA VersionsFit ==
    ASSUME NEW u, IsParsed(u), NEW v, IsParsed(v), NEW w, IsParsed(w)
    PROVE  Consistent(Compare(u, v), Compare(v, w), Compare(u, w)) /\ Compare(u, u) = 0
<1> DEFINE S(x) == StripTrailingZeros(x.release)
           Local(x, y) == CmpLocal(x, y)
           Dev(x, y) == Otherwise(CmpDev(x.dev, y.dev), Local(x, y))
           Post(x, y) == Otherwise(CmpPost(x.post, y.post), Dev(x, y))
           Pre(x, y) == Otherwise(CmpPre(x, y), Post(x, y))
           Offerable(x, y) == Otherwise(CmpInts(S(x), S(y)), Pre(x, y))
<1>1. Consistent(Local(u, v), Local(v, w), Local(u, w)) /\ Local(u, u) = 0
  BY LocalsFit
<1>2. Consistent(CmpDev(u.dev, v.dev), CmpDev(v.dev, w.dev), CmpDev(u.dev, w.dev))
        /\ CmpDev(u.dev, u.dev) = 0
  BY PartsFit DEF CmpDev, IsParsed
<1>3. Consistent(CmpPost(u.post, v.post), CmpPost(v.post, w.post), CmpPost(u.post, w.post))
        /\ CmpPost(u.post, u.post) = 0
  BY PartsFit DEF CmpPost, IsParsed
<1>4. Consistent(CmpPre(u, v), CmpPre(v, w), CmpPre(u, w)) /\ CmpPre(u, u) = 0
  BY PreFits
<1>5. Consistent(CmpInts(S(u), S(v)), CmpInts(S(v), S(w)), CmpInts(S(u), S(w)))
        /\ CmpInts(S(u), S(u)) = 0
  <2>1. u.release \in Seq(Nat) /\ v.release \in Seq(Nat) /\ w.release \in Seq(Nat)
    BY DEF IsParsed
  <2>2. S(u) \in Seq(Int) /\ S(v) \in Seq(Int) /\ S(w) \in Seq(Int)
    BY <2>1, StrippedIs
  <2> QED BY <2>2, SequencesFit
<1>6. Consistent(CmpInt(u.epoch, v.epoch), CmpInt(v.epoch, w.epoch), CmpInt(u.epoch, w.epoch))
        /\ CmpInt(u.epoch, u.epoch) = 0
  BY IntsFit, IntSigns DEF IsParsed
<1>7. /\ Compare(u, v) = Otherwise(CmpInt(u.epoch, v.epoch), Offerable(u, v))
      /\ Compare(v, w) = Otherwise(CmpInt(v.epoch, w.epoch), Offerable(v, w))
      /\ Compare(u, w) = Otherwise(CmpInt(u.epoch, w.epoch), Offerable(u, w))
      /\ Compare(u, u) = Otherwise(CmpInt(u.epoch, u.epoch), Offerable(u, u))
  BY DEF Compare
<1> HIDE DEF Local
<1>8. Consistent(Dev(u, v), Dev(v, w), Dev(u, w)) /\ Dev(u, u) = 0
  <2>1. Local(u, v) \in Signs /\ Local(v, w) \in Signs /\ Local(u, w) \in Signs
    BY <1>1 DEF Consistent
  <2>2. Consistent(Dev(u, v), Dev(v, w), Dev(u, w)) BY <1>1, <1>2, <2>1, Refined
  <2> QED BY <1>1, <1>2, <2>2 DEF Otherwise
<1> HIDE DEF Dev
<1>9. Consistent(Post(u, v), Post(v, w), Post(u, w)) /\ Post(u, u) = 0
  <2>1. Dev(u, v) \in Signs /\ Dev(v, w) \in Signs /\ Dev(u, w) \in Signs
    BY <1>8 DEF Consistent
  <2>2. Consistent(Post(u, v), Post(v, w), Post(u, w)) BY <1>3, <1>8, <2>1, Refined
  <2> QED BY <1>3, <1>8, <2>2 DEF Otherwise
<1> HIDE DEF Post
<1>10. Consistent(Pre(u, v), Pre(v, w), Pre(u, w)) /\ Pre(u, u) = 0
  <2>1. Post(u, v) \in Signs /\ Post(v, w) \in Signs /\ Post(u, w) \in Signs
    BY <1>9 DEF Consistent
  <2>2. Consistent(Pre(u, v), Pre(v, w), Pre(u, w)) BY <1>4, <1>9, <2>1, Refined
  <2> QED BY <1>4, <1>9, <2>2 DEF Otherwise
<1> HIDE DEF Pre
<1>11. Consistent(Offerable(u, v), Offerable(v, w), Offerable(u, w)) /\ Offerable(u, u) = 0
  <2>1. Pre(u, v) \in Signs /\ Pre(v, w) \in Signs /\ Pre(u, w) \in Signs
    BY <1>10 DEF Consistent
  <2>2. Consistent(Offerable(u, v), Offerable(v, w), Offerable(u, w)) BY <1>5, <1>10, <2>1, Refined
  <2> QED BY <1>5, <1>10, <2>2 DEF Otherwise
<1> HIDE DEF Offerable
<1>12. Consistent(Compare(u, v), Compare(v, w), Compare(u, w))
  <2>1. Offerable(u, v) \in Signs /\ Offerable(v, w) \in Signs /\ Offerable(u, w) \in Signs
    BY <1>11 DEF Consistent
  <2> QED BY <1>6, <1>7, <1>11, <2>1, Refined
<1> QED BY <1>6, <1>7, <1>11, <1>12 DEF Otherwise

\* The version that is newer than another, in terms of a third.
LEMMA NewerOrder ==
    ASSUME NEW a, NEW b, NEW c, IsTag(a), IsTag(b), IsTag(c),
           IsVersion(a), IsVersion(b), IsVersion(c)
    PROVE  /\ ~Newer(a, a)
           /\ Newer(a, b) => ~Newer(b, a)
           /\ Newer(a, b) /\ ~Newer(c, b) => Newer(a, c)
<1> DEFINE u == ParseVersion(a)
           v == ParseVersion(b)
           w == ParseVersion(c)
<1>1. IsParsed(u) /\ IsParsed(v) /\ IsParsed(w) BY TagsParse
<1> HIDE DEF u, v, w
<1>2. /\ Consistent(Compare(u, v), Compare(v, u), Compare(u, u)) /\ Compare(u, u) = 0
      /\ Consistent(Compare(w, v), Compare(v, w), Compare(w, w)) /\ Compare(w, w) = 0
      /\ Consistent(Compare(u, v), Compare(v, w), Compare(u, w))
  BY <1>1, VersionsFit
<1>3. Compare(u, v) > 0 => ~(Compare(v, u) > 0)
  BY <1>2 DEF Consistent, Signs
<1>4. Compare(u, v) > 0 /\ ~(Compare(w, v) > 0) => Compare(u, w) > 0
  BY <1>2 DEF Consistent, Signs
<1> QED BY <1>2, <1>3, <1>4 DEF Newer, u, v, w

\* 1.0 is 1.0.0.
LEMMA SameStripped ==
    ASSUME NEW r \in Seq(Nat), NEW s \in Seq(Nat), SameNumber(r, s)
    PROVE  StripTrailingZeros(r) = StripTrailingZeros(s)
<1> DEFINE k == Max(Counting(r))
           n == Max(Counting(s))
<1>0. /\ DOMAIN r = 1..Len(r) /\ DOMAIN s = 1..Len(s) /\ Len(r) \in Nat /\ Len(s) \in Nat
  OBVIOUS
<1>1. Counting(r) = Counting(s)
  <2>1. ASSUME NEW i \in DOMAIN r \cup DOMAIN s
        PROVE  i \in DOMAIN r /\ r[i] # 0 <=> i \in DOMAIN s /\ s[i] # 0
    BY DEF SameNumber, Number
  <2> QED BY <2>1 DEF Counting
<1>2. k = n BY <1>1
<1>3. /\ k \in 0..Len(r) /\ StripTrailingZeros(r) \in Seq(Int) /\ Len(StripTrailingZeros(r)) = k
      /\ \A i \in 1..k : StripTrailingZeros(r)[i] = r[i]
  BY StrippedIs
<1>4. /\ n \in 0..Len(s) /\ StripTrailingZeros(s) \in Seq(Int) /\ Len(StripTrailingZeros(s)) = n
      /\ \A i \in 1..n : StripTrailingZeros(s)[i] = s[i]
  BY StrippedIs
<1> HIDE DEF k, n
<1>5. \A i \in 1..k : r[i] = s[i]
  <2> SUFFICES ASSUME NEW i \in 1..k PROVE r[i] = s[i]
    OBVIOUS
  <2>1. i \in DOMAIN r /\ i \in DOMAIN s BY <1>0, <1>2, <1>3, <1>4
  <2> QED BY <2>1 DEF SameNumber, Number
<1> QED BY <1>2, <1>3, <1>4, <1>5, SeqEqual

LEMMA FinalsCompare ==
    ASSUME NEW a, NEW b, IsTag(a), IsTag(b), IsVersion(a), IsVersion(b), IsFinal(a), IsFinal(b),
           a.epoch = b.epoch, SameNumber(a.release, b.release)
    PROVE  ~Newer(a, b)
<1> DEFINE u == ParseVersion(a)
           v == ParseVersion(b)
<1>1. a.release \in Seq(Nat) /\ b.release \in Seq(Nat) /\ a.epoch \in Nat
  BY DEF IsTag, IsVersion
<1>2. StripTrailingZeros(a.release) = StripTrailingZeros(b.release) BY <1>1, SameStripped
<1>3. /\ u.epoch = a.epoch /\ v.epoch = a.epoch /\ u.release = a.release /\ v.release = b.release
      /\ u.pre = None /\ v.pre = None /\ u.post = None /\ v.post = None
      /\ u.dev = None /\ v.dev = None /\ ~u.hasLoc /\ ~v.hasLoc
  <2>1. ASSUME NEW t, IsFinal(t)
        PROVE  /\ "pre" \notin DOMAIN t /\ "post" \notin DOMAIN t
               /\ "dev" \notin DOMAIN t /\ "local" \notin DOMAIN t
    BY <2>1 DEF IsFinal
  <2>2. ParseLetterVersion(<<>>) = None BY DEF ParseLetterVersion
  <2>3. ASSUME NEW t, IsFinal(t)
        PROVE  PartOf(t, "pre") = <<>> /\ PartOf(t, "post") = <<>> /\ PartOf(t, "dev") = <<>>
    BY <2>1, <2>3 DEF PartOf
  <2>4. u.epoch = a.epoch /\ v.epoch = a.epoch /\ u.release = a.release /\ v.release = b.release
    BY DEF ParseVersion
  <2>5. /\ u.pre = ParseLetterVersion(PartOf(a, "pre")) /\ v.pre = ParseLetterVersion(PartOf(b, "pre"))
        /\ u.post = ParseLetterVersion(PartOf(a, "post")) /\ v.post = ParseLetterVersion(PartOf(b, "post"))
        /\ u.dev = ParseLetterVersion(PartOf(a, "dev")) /\ v.dev = ParseLetterVersion(PartOf(b, "dev"))
    BY DEF ParseVersion
  <2>6. u.hasLoc = ("local" \in DOMAIN a) /\ v.hasLoc = ("local" \in DOMAIN b)
    BY DEF ParseVersion
  <2>7. ~u.hasLoc /\ ~v.hasLoc
    <3>1. ~("local" \in DOMAIN a) /\ ~("local" \in DOMAIN b) BY <2>1
    <3> QED BY <2>6, <3>1
  <2> QED BY <2>2, <2>3, <2>4, <2>5, <2>7
<1>4. CmpInts(StripTrailingZeros(a.release), StripTrailingZeros(b.release)) = 0
  <2>1. StripTrailingZeros(a.release) \in Seq(Int) BY <1>1, StrippedIs
  <2> QED BY <1>2, <2>1, SequencesFit
<1> HIDE DEF u, v
<1>5. None.present = FALSE BY DEF None
<1>6. CmpPre(u, v) = 0 BY <1>3, <1>5 DEF CmpPre, PreRank
<1>7. CmpPost(u.post, v.post) = 0 /\ CmpDev(u.dev, v.dev) = 0
  BY <1>3, <1>5 DEF CmpPost, CmpDev, CmpPart, Rank
<1>8. CmpLocal(u, v) = 0
  <2>1. u.hasLoc \in BOOLEAN /\ v.hasLoc \in BOOLEAN BY DEF u, v, ParseVersion
  <2> QED BY <1>3, <2>1 DEF CmpLocal
<1>9. CmpInt(u.epoch, v.epoch) = 0 BY <1>1, <1>3, IntSigns
<1>10. Compare(u, v) = 0
  BY <1>3, <1>4, <1>6, <1>7, <1>8, <1>9 DEF Compare, Otherwise
<1> QED BY <1>10 DEF Newer, u, v

-----------------------------------------------------------------------------
(* The scan and the offer.                                                 *)

Listed(list) ==
    /\ list \in Seq([tag : {list[i].tag : i \in DOMAIN list}, draft : BOOLEAN, prerelease : BOOLEAN])
    /\ \A i \in DOMAIN list : IsTag(list[i].tag)

Offerable(r) == IsTag(r.tag) /\ IsVersion(r.tag) /\ ~IsPrerelease(ParseVersion(r.tag))

OfferInv ==
    \/ offer = <<>>
    \/ \E r : /\ offer = <<r>> /\ Offerable(r)
              /\ IsVersion(current) /\ Newer(r.tag, current)

UpdatesInv ==
    /\ scan = [list |-> scan.list, at |-> scan.at, best |-> scan.best]
    /\ Listed(scan.list) /\ scan.at \in Nat
    /\ BestIsLatest
    /\ IsTag(current) /\ OfferInv

LEMMA UpdatesInvInit == ReleaseInit => UpdatesInv
<1> SUFFICES ASSUME ReleaseInit PROVE UpdatesInv
  OBVIOUS
<1>1. scan.list = <<>> /\ scan.at = 0 /\ scan.best = 0
      /\ scan = [list |-> scan.list, at |-> scan.at, best |-> scan.best]
  BY DEF ReleaseInit, NoScan
<1>2. Listed(scan.list) BY <1>1 DEF Listed
<1>3. BestIsLatest
  <2>1. DOMAIN scan.list = {} BY <1>1
  <2> QED BY <1>1, <2>1 DEF BestIsLatest
<1>4. IsTag(current) /\ OfferInv BY ReleaseAssumption DEF ReleaseInit, OfferInv
<1> QED BY <1>1, <1>2, <1>3, <1>4 DEF UpdatesInv

\* The loop goes on by one.
LEMMA ScanGoesOn ==
    ASSUME UpdatesInv, Consider
    PROVE  BestIsLatest'
<1> DEFINE list == scan.list
           at == scan.at
           best == scan.best
           seen == {i \in DOMAIN list : i < at /\ IsStable(list[i])}
           more == {i \in DOMAIN list : i < at + 1 /\ IsStable(list[i])}
<1>1. /\ at \in DOMAIN list /\ at \in Nat /\ DOMAIN list = 1..Len(list) /\ Len(list) \in Nat
      /\ scan'.list = list /\ scan'.at = at + 1
      /\ scan'.best = IF Better(list[at], best) THEN at ELSE best
  <2>1. /\ scan = [list |-> scan.list, at |-> scan.at, best |-> scan.best] /\ at \in Nat
        /\ list \in Seq([tag : {list[i].tag : i \in DOMAIN list}, draft : BOOLEAN, prerelease : BOOLEAN])
    BY DEF UpdatesInv, Listed
  <2>2. DOMAIN list = 1..Len(list) /\ Len(list) \in Nat BY <2>1
  <2>3. /\ scan'.list = list /\ scan'.at = at + 1 /\ at \in DOMAIN list
        /\ scan'.best = IF Better(list[at], best) THEN at ELSE best
    BY <2>1 DEF Consider
  <2> QED BY <2>1, <2>2, <2>3
<1>2. \A i \in more : IsTag(list[i].tag) /\ IsVersion(list[i].tag)
  BY DEF UpdatesInv, Listed, IsStable
<1>3. IF seen = {} THEN best = 0
      ELSE /\ best \in seen
           /\ \A i \in seen : ~Newer(list[i].tag, list[best].tag)
           /\ \A i \in seen : i < best => Newer(list[best].tag, list[i].tag)
  BY DEF UpdatesInv, BestIsLatest
<1>4. more = IF IsStable(list[at]) THEN seen \cup {at} ELSE seen
  BY <1>1
<1>5. Better(list[at], best) <=> IsStable(list[at]) /\ (best = 0 \/ Newer(list[at].tag, list[best].tag))
  BY DEF Better
<1> HIDE DEF list, at, best
<1>6. IF more = {} THEN scan'.best = 0
      ELSE /\ scan'.best \in more
           /\ \A i \in more : ~Newer(list[i].tag, list[scan'.best].tag)
           /\ \A i \in more : i < scan'.best => Newer(list[scan'.best].tag, list[i].tag)
  <2>1. CASE ~IsStable(list[at])
    <3>1. more = seen /\ scan'.best = best BY <1>1, <1>4, <1>5, <2>1
    <3> HIDE DEF more, seen
    <3> QED BY <1>3, <3>1
  <2>2. CASE IsStable(list[at]) /\ seen = {}
    <3>1. more = {at} /\ scan'.best = at BY <1>1, <1>3, <1>4, <1>5, <2>2
    <3>2. at \in more BY <3>1
    <3>3. ~Newer(list[at].tag, list[at].tag) BY <1>2, <3>2, NewerOrder
    <3>4. ~(at < at) BY <1>1
    <3> HIDE DEF more, seen
    <3> QED BY <3>1, <3>2, <3>3, <3>4
  <2>3. CASE IsStable(list[at]) /\ seen # {}
    <3>1. /\ more = seen \cup {at} /\ best \in seen /\ best # 0 /\ at \in more
          /\ \A i \in seen : i < at
      BY <1>1, <1>3, <1>4, <2>3
    <3>2. \A i \in more : IsTag(list[i].tag) /\ IsVersion(list[i].tag) BY <1>2
    <3> HIDE DEF more, seen
    <3>3. CASE Newer(list[at].tag, list[best].tag)
      <4>1. scan'.best = at BY <1>1, <1>5, <2>3, <3>3
      <4>2. ASSUME NEW i \in seen PROVE Newer(list[at].tag, list[i].tag) /\ ~Newer(list[i].tag, list[at].tag)
        <5>1. ~Newer(list[i].tag, list[best].tag) BY <1>3, <2>3
        <5>2. i \in more /\ best \in more BY <3>1
        <5>3. Newer(list[at].tag, list[i].tag) BY <3>1, <3>2, <3>3, <5>1, <5>2, NewerOrder
        <5> QED BY <3>1, <3>2, <5>2, <5>3, NewerOrder
      <4>3. ~Newer(list[at].tag, list[at].tag) BY <3>1, <3>2, NewerOrder
      <4>4. ~(at < at) BY <1>1
      <4> QED BY <3>1, <4>1, <4>2, <4>3, <4>4
    <3>4. CASE ~Newer(list[at].tag, list[best].tag)
      <4>1. scan'.best = best BY <1>1, <1>5, <3>1, <3>4
      <4>2. ~(at < best)
        <5>1. best < at /\ best \in Nat
          BY <1>1, <3>1 DEF seen
        <5> QED BY <1>1, <5>1
      <4> QED BY <1>3, <2>3, <3>1, <3>4, <4>1, <4>2
    <3> QED BY <3>3, <3>4
  <2> QED BY <2>1, <2>2, <2>3
<1>7. {i \in DOMAIN scan'.list : i < scan'.at /\ IsStable(scan'.list[i])} = more
  BY <1>1
<1> QED BY <1>1, <1>6, <1>7 DEF BestIsLatest, list

LEMMA OfferIsNew ==
    ASSUME UpdatesInv, BuildUpdateResult
    PROVE  OfferInv'
<1> DEFINE list == scan.list
           best == scan.best
<1>1. offer' = Offered(best) /\ current' = current BY DEF BuildUpdateResult
<1>2. CASE Offered(best) = <<>> BY <1>1, <1>2 DEF OfferInv
<1>3. CASE Offered(best) # <<>>
  <2>1. /\ best # 0 /\ Offered(best) = <<list[best]>> /\ IsVersion(list[best].tag)
        /\ IsVersion(current) /\ Newer(list[best].tag, current)
    BY <1>3 DEF Offered
  <2>2. best \in DOMAIN list /\ IsStable(list[best])
    BY <2>1 DEF UpdatesInv, BestIsLatest
  <2>3. Offerable(list[best]) BY <2>1, <2>2 DEF UpdatesInv, Listed, IsStable, Offerable
  <2> QED BY <1>1, <2>1, <2>3 DEF OfferInv
<1> QED BY <1>2, <1>3

LEMMA UpdatesInvStep == UpdatesInv /\ [ReleaseNext]_releaseVars => UpdatesInv'
<1> SUFFICES ASSUME UpdatesInv, [ReleaseNext]_releaseVars PROVE UpdatesInv'
  OBVIOUS
<1>1. ASSUME NEW list \in Lists, Fetch(list) PROVE UpdatesInv'
  <2>1. scan' = [list |-> list, at |-> 1, best |-> 0] /\ UNCHANGED <<current, offer>>
    BY <1>1 DEF Fetch
  <2>2. scan'.list = list /\ scan'.at = 1 /\ scan'.best = 0
        /\ scan' = [list |-> scan'.list, at |-> scan'.at, best |-> scan'.best]
    BY <2>1
  <2>3. Listed(list) BY ReleaseAssumption DEF Listed
  <2>4. BestIsLatest'
    <3>1. DOMAIN list \subseteq Nat /\ \A i \in DOMAIN list : ~(i < 1)
      BY <2>3 DEF Listed
    <3> QED BY <2>2, <3>1 DEF BestIsLatest
  <2>5. OfferInv' BY <2>1 DEF UpdatesInv, OfferInv
  <2>6. Listed(scan.list)' BY <2>2, <2>3 DEF Listed
  <2> QED BY <2>1, <2>2, <2>4, <2>5, <2>6 DEF UpdatesInv
<1>2. CASE Consider
  <2>1. BestIsLatest' BY <1>2, ScanGoesOn
  <2>2. /\ scan'.list = scan.list /\ scan'.at = scan.at + 1
        /\ scan' = [list |-> scan'.list, at |-> scan'.at, best |-> scan'.best]
        /\ UNCHANGED <<current, offer>>
    <3>1. scan = [list |-> scan.list, at |-> scan.at, best |-> scan.best] BY DEF UpdatesInv
    <3> QED BY <1>2, <3>1 DEF Consider
  <2>3. OfferInv' BY <2>2 DEF UpdatesInv, OfferInv
  <2>4. Listed(scan.list)' BY <2>2 DEF UpdatesInv, Listed
  <2>5. scan'.at \in Nat BY <2>2 DEF UpdatesInv
  <2> QED BY <2>1, <2>2, <2>3, <2>4, <2>5 DEF UpdatesInv
<1>3. CASE BuildUpdateResult
  <2>1. OfferInv' BY <1>3, OfferIsNew
  <2>2. scan' = NoScan /\ current' = current BY <1>3 DEF BuildUpdateResult
  <2>3. scan'.list = <<>> /\ scan'.at = 0 /\ scan'.best = 0
        /\ scan' = [list |-> scan'.list, at |-> scan'.at, best |-> scan'.best]
    BY <2>2 DEF NoScan
  <2>4. Listed(scan.list)' BY <2>3 DEF Listed
  <2>5. BestIsLatest'
    <3>1. DOMAIN scan'.list = {} BY <2>3
    <3> QED BY <2>3, <3>1 DEF BestIsLatest
  <2> QED BY <2>1, <2>2, <2>3, <2>4, <2>5 DEF UpdatesInv
<1>4. CASE Install
  <2>1. scan' = scan /\ offer' = <<>> /\ current' = offer[1].tag /\ offer # <<>>
    BY <1>4 DEF Install
  <2>2. IsTag(offer[1].tag) BY <2>1 DEF UpdatesInv, OfferInv, Offerable
  <2>3. BestIsLatest' /\ Listed(scan.list)'
    BY <2>1 DEF UpdatesInv, BestIsLatest, Listed
  <2> QED BY <2>1, <2>2, <2>3 DEF UpdatesInv, OfferInv
<1>5. CASE UNCHANGED releaseVars
  BY <1>5 DEF releaseVars, UpdatesInv, BestIsLatest, Listed, OfferInv
<1> QED BY <1>1, <1>2, <1>3, <1>4, <1>5 DEF ReleaseNext

LEMMA InstallGoesUp ==
    ASSUME UpdatesInv, [ReleaseNext]_releaseVars, current' # current
    PROVE  /\ IsVersion(current) /\ IsVersion(current')
           /\ ~IsPrerelease(ParseVersion(current')) /\ Newer(current', current)
           /\ IsFinal(current) /\ IsFinal(current') /\ current.epoch = current'.epoch
                => ~SameNumber(current.release, current'.release)
<1>1. Install
  BY DEF ReleaseNext, Fetch, Consider, BuildUpdateResult, releaseVars
<1>2. offer # <<>> /\ current' = offer[1].tag BY <1>1 DEF Install
<1>3. PICK r : offer = <<r>> /\ Offerable(r) /\ IsVersion(current) /\ Newer(r.tag, current)
  BY <1>2 DEF UpdatesInv, OfferInv
<1>4. current' = r.tag BY <1>2, <1>3
<1>5. IsTag(current) BY DEF UpdatesInv
<1>6. ASSUME IsFinal(current), IsFinal(r.tag), current.epoch = r.tag.epoch,
             SameNumber(current.release, r.tag.release)
      PROVE  FALSE
  <2>1. SameNumber(r.tag.release, current.release)
    BY <1>6 DEF SameNumber
  <2> QED BY <1>3, <1>5, <1>6, <2>1, FinalsCompare DEF Offerable
<1> QED BY <1>3, <1>4, <1>6 DEF Offerable

\* The update check (version.go, select.go, update.go): for any lists of releases, in any
\* order, the loop has the latest stable one, and an update never steps back, never
\* installs what is not stable, and never the version that runs, however it is written.
THEOREM UpdatesAreSound == ReleaseSpec => UpdatesSound
<1>1. ReleaseSpec => []UpdatesInv
  BY UpdatesInvInit, UpdatesInvStep, PTL DEF ReleaseSpec
<1>2. UpdatesInv /\ [ReleaseNext]_releaseVars
        => [current' # current =>
              /\ IsVersion(current) /\ IsVersion(current')
              /\ ~IsPrerelease(ParseVersion(current')) /\ Newer(current', current)
              /\ IsFinal(current) /\ IsFinal(current') /\ current.epoch = current'.epoch
                   => ~SameNumber(current.release, current'.release)]_releaseVars
  BY InstallGoesUp
<1>3. UpdatesInv => BestIsLatest BY DEF UpdatesInv
<1>4. ReleaseSpec => []BestIsLatest
  BY <1>1, <1>3, PTL
<1>5. ReleaseSpec => UpdatesGoUp
  BY <1>1, <1>2, PTL DEF ReleaseSpec, UpdatesGoUp
<1> QED BY <1>4, <1>5 DEF UpdatesSound
=============================================================================
