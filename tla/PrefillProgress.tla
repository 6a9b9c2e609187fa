--------------------------- MODULE PrefillProgress ---------------------------
(***************************************************************************)
(* The progress of the prompts that are being processed, for the dashboard  *)
(* (scheduler/prefill_progress.go): reports come in from the scheduler, and *)
(* entries go when they are complete, removed or cleared.  A report that    *)
(* changes the phase starts the clock and the speed anew.                   *)
(***************************************************************************)
EXTENDS Integers, Sequences, SequencesExt

CONSTANTS
    Prompts,        \* the requests
    Total,          \* how many tokens each has
    Phases,
    ModelOf,        \* the model that each runs on
    MaxReports      \* bound: reports, removals and ticks of the clock

ASSUME ProgressAssumption == Total \in [Prompts -> Nat] /\ DOMAIN ModelOf = Prompts

VARIABLES
    progress,   \* the entries: [processed, phase, startTime, lastTime, speed]
    order,      \* the requests in the order of the dashboard
    time,       \* the clock that is passed in
    reports     \* history: all reports so far

progressVars == <<progress, order, time, reports>>

Tracked == DOMAIN progress

\* A speed is what it is computed from: tokens and time.
NoSpeed == <<0, 0>>

\* Does the entry go on, or is it another phase?
Continues_Always(r, phase) == r \in Tracked
Continues(r, phase) == r \in Tracked /\ progress[r].phase = phase

Speed(prev, processed) ==
    IF time > prev.lastTime /\ processed > prev.processed
    THEN <<processed - prev.processed, time - prev.lastTime>> ELSE prev.speed

Updated(r, processed, phase) ==
    LET fresh == [processed |-> processed, phase |-> phase, startTime |-> time,
                  lastTime |-> time, speed |-> NoSpeed]
    IN IF Continues(r, phase)
       THEN [fresh EXCEPT !.startTime = progress[r].startTime,
                          !.speed = Speed(progress[r], processed)]
       ELSE fresh

\* popLocked.
Pop(r) == IF r \in Tracked
          THEN /\ progress' = [p \in Tracked \ {r} |-> progress[p]]
               /\ order' = RemoveFirst(order, r)
          ELSE UNCHANGED <<progress, order>>

Reported(r, processed, phase) ==
    reports' = Append(reports, [of |-> r, processed |-> processed, phase |-> phase, at |-> time])

-----------------------------------------------------------------------------
ProgressInit == progress = << >> /\ order = <<>> /\ time = 0 /\ reports = <<>>

UpdateProgress(r, processed, phase) ==
    /\ IF processed >= Total[r] THEN Pop(r)
       ELSE /\ progress' = [p \in Tracked \cup {r} |->
                                IF p = r THEN Updated(r, processed, phase) ELSE progress[p]]
            /\ order' = IF r \in Tracked THEN order ELSE Append(order, r)
    /\ Reported(r, processed, phase)
    /\ UNCHANGED time

\* In the history a removal is a report that all is processed.
RemovePrompt(r) == Pop(r) /\ Reported(r, Total[r], "removed") /\ UNCHANGED time

ClearProgress ==
    /\ progress' = << >> /\ order' = <<>>
    /\ reports' = <<>>
    /\ UNCHANGED time

PassTime == time' = time + 1 /\ UNCHANGED <<progress, order, reports>>

GetModelProgress(model) ==
    LET found[i \in 0..Len(order)] ==
            IF i = 0 THEN <<>>
            ELSE IF ModelOf[order[i]] = model
            THEN Append(found[i - 1], [request |-> order[i], entry |-> progress[order[i]]])
            ELSE found[i - 1]
    IN found[Len(order)]

ProgressNext ==
    /\ Len(reports) + time < MaxReports
    /\ \/ PassTime
       \/ reports # <<>> /\ ClearProgress
       \/ \E r \in Prompts : \/ RemovePrompt(r)
                             \/ \E processed \in 0..Total[r], phase \in Phases :
                                    UpdateProgress(r, processed, phase)

ProgressSpec == ProgressInit /\ [][ProgressNext]_progressVars

-----------------------------------------------------------------------------
(* What the reports say, each taken as a whole.                            *)

\* The reports on r since it was complete or removed, by their place.
Current(r) ==
    {i \in DOMAIN reports : reports[i].of = r
        /\ \A j \in i..Len(reports) : reports[j].of = r => reports[j].processed < Total[r]}
Latest(S)   == CHOOSE i \in S : \A j \in S : j <= i
Soonest(S) == CHOOSE i \in S : \A j \in S : i <= j

\* Those of the phase it is in.
InPhase(r) ==
    {i \in Current(r) : \A j \in Current(r) : j >= i => reports[j].phase = reports[Latest(Current(r))].phase}

\* The last two neighbours of a set between which there was progress.
Strides(S) ==
    {s \in S \X S : /\ s[1] < s[2] /\ \A k \in S : k <= s[1] \/ k >= s[2]
                   /\ reports[s[1]].at < reports[s[2]].at
                   /\ reports[s[1]].processed < reports[s[2]].processed}
SpeedOf(S) ==
    IF Strides(S) = {} THEN NoSpeed
    ELSE LET s == CHOOSE s \in Strides(S) : \A q \in Strides(S) : q[2] <= s[2]
         IN <<reports[s[2]].processed - reports[s[1]].processed, reports[s[2]].at - reports[s[1]].at>>

\* The dashboard shows the prompts that are not through, each once and in the order
\* in which they began, with the time since its phase began and a speed that was
\* measured in that phase.
ShowsWhatRuns ==
    /\ \A r \in Prompts : (r \in Tracked) = (Current(r) # {})
    /\ \A model \in Range(ModelOf) :
         LET shown == GetModelProgress(model) IN
         /\ {shown[i].request : i \in DOMAIN shown}
              = {r \in Tracked : ModelOf[r] = model}
         /\ \A i, j \in DOMAIN shown : i < j =>
              Soonest(Current(shown[i].request)) < Soonest(Current(shown[j].request))
         /\ \A i \in DOMAIN shown :
              LET entry == shown[i].entry
                  phase == InPhase(shown[i].request)
              IN /\ entry.startTime = reports[Soonest(phase)].at
                 /\ entry.processed = reports[Latest(phase)].processed
                 /\ entry.speed = SpeedOf(phase)
=============================================================================
