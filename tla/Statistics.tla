------------------------------ MODULE Statistics ------------------------------
(***************************************************************************)
(* What the server counts.                                                 *)
(*                                                                         *)
(* The statistics of the cache tiers (cache/stats.go) and the rates that   *)
(* the dashboard derives from them (RateTracker of cache/observability.go): *)
(* snapshots of the counters, not closer than an interval and no more than  *)
(* a ring holds, and for each window what the counters grew by in it.      *)
(* Viewers share a tracker.  SnapshotAndGetRates locks it twice, and in     *)
(* between others may take a snapshot, or clear it.  A viewer reads the     *)
(* counters when it takes its snapshot.                                    *)
(*                                                                          *)
(* And the counters of requests (metrics/servermetrics.go): the tokens and  *)
(* durations of completed requests, in this session and of all time, in    *)
(* total and for each model, and the snapshot that a dashboard is given.   *)
(* A lock makes each operation one step; totals of all time are not kept    *)
(* on the disk yet.                                                        *)
(***************************************************************************)
EXTENDS Integers, Sequences, FiniteSetsExt

CONSTANTS
    Viewers,        \* goroutines that show the rates
    Recorded,       \* the operations that are recorded, and
    MostRecorded,   \* how many of them
    Spans,        \* in seconds
    MaxSnapshots, MinInterval,
    LongestTime     \* the clock stops there

ASSUME StatisticsAssumption ==
    /\ Spans \subseteq Nat /\ MaxSnapshots \in Nat \ {0} /\ MinInterval \in Nat
    /\ MostRecorded \in Nat /\ LongestTime \in Nat

VARIABLES
    counts,     \* the counters of the tiers
    happened,   \* history: what they would be if they were never reset
    now,        \* the clock
    snapshots,  \* [ts, counters, happened: the history at that moment]
    viewer      \* per viewer: [at, since: when it asked, shown: the windows it was shown]

statVars == <<counts, happened, now, snapshots, viewer>>

-----------------------------------------------------------------------------
(* The counters.                                                           *)

PrefixKeys == {"prefix_hits", "prefix_misses", "evictions"}
SSDKeys    == {"ssd_hits", "ssd_misses", "ssd_disk_loads", "ssd_saves", "ssd_errors"}
HotKeys    == {"ssd_hot_hits"}
CounterKeys == PrefixKeys \cup SSDKeys \cup HotKeys

\* What an operation counts.  (A load from the disk is a hit, too.)
Bumped(op) ==
    CASE op = "RecordHit"      -> {"prefix_hits"}
      [] op = "RecordMiss"     -> {"prefix_misses"}
      [] op = "RecordEviction" -> {"evictions"}
      [] op = "RecordLoad"     -> {"ssd_disk_loads", "ssd_hits"}
      [] op = "RecordSSDMiss"  -> {"ssd_misses"}
      [] op = "RecordSave"     -> {"ssd_saves"}
      [] op = "RecordError"    -> {"ssd_errors"}
      [] op = "HotHit"         -> {"ssd_hot_hits"}
      [] OTHER -> {}

\* Reset of a tier; what the hot cache counts is not reset with its tier.
Cleared(tier) == IF tier = "prefix" THEN PrefixKeys ELSE SSDKeys

Plus(c, keys) == [key \in CounterKeys |-> IF key \in keys THEN c[key] + 1 ELSE c[key]]
Less(c, keys) == [key \in CounterKeys |-> IF key \in keys THEN 0 ELSE c[key]]

-----------------------------------------------------------------------------
(* The ring of snapshots.                                                  *)

Newest == snapshots[Len(snapshots)]

TooSoon_AtMost == Len(snapshots) > 0 /\ now - Newest.ts <= MinInterval
TooSoon == Len(snapshots) > 0 /\ now - Newest.ts < MinInterval

Trimmed(ring) ==
    IF Len(ring) > MaxSnapshots
    THEN SubSeq(ring, Len(ring) - MaxSnapshots + 1, Len(ring)) ELSE ring

\* The oldest snapshot that is not older than the window.
InWindow(w) == {i \in DOMAIN snapshots : Newest.ts - snapshots[i].ts <= w}
Baseline(w) ==
    IF InWindow(w) = {} THEN snapshots[1]
    ELSE snapshots[CHOOSE i \in InWindow(w) : \A j \in InWindow(w) : i <= j]

\* computeWindow: a counter that was reset in the window has not grown by less than
\* nothing.
Delta(old, new) == IF new < old THEN 0 ELSE new - old

NoWindow == [elapsed |-> 0, grown |-> [key \in CounterKeys |-> 0]]
ComputeWindow(old, new) ==
    IF new.ts - old.ts < 1 THEN NoWindow
    ELSE [elapsed |-> new.ts - old.ts,
          grown |-> [key \in CounterKeys |-> Delta(old.counters[key], new.counters[key])]]

Nowhere == [w \in {} |-> NoWindow]
GetRates ==
    IF Len(snapshots) = 0 THEN Nowhere
    ELSE [w \in Spans |-> ComputeWindow(Baseline(w), Newest)]

-----------------------------------------------------------------------------
StatInit ==
    /\ counts = [key \in CounterKeys |-> 0] /\ happened = counts
    /\ now = 0 /\ snapshots = <<>>
    /\ viewer = [v \in Viewers |-> [at |-> "idle", since |-> 0, shown |-> Nowhere]]

\* (The bound: no counter is ever as far as MostRecorded.)
Record(op) ==
    /\ \A key \in CounterKeys : happened[key] < MostRecorded
    /\ counts' = Plus(counts, Bumped(op)) /\ happened' = Plus(happened, Bumped(op))
    /\ UNCHANGED <<now, snapshots, viewer>>

ResetTier(tier) ==
    /\ counts' = Less(counts, Cleared(tier))
    /\ UNCHANGED <<happened, now, snapshots, viewer>>

TimePasses ==
    /\ now < LongestTime /\ now' = now + 1
    /\ UNCHANGED <<counts, happened, snapshots, viewer>>

\* The first half of SnapshotAndGetRates.
MaybeSnapshot(v) ==
    /\ viewer[v].at = "idle"
    /\ snapshots' = IF TooSoon THEN snapshots
                    ELSE Trimmed(Append(snapshots,
                                        [ts |-> now, counters |-> counts, happened |-> happened]))
    /\ viewer' = [viewer EXCEPT ![v] = [at |-> "asking", since |-> now, shown |-> Nowhere]]
    /\ UNCHANGED <<counts, happened, now>>

\* The second half.
ShowRates(v) ==
    /\ viewer[v].at = "asking"
    /\ viewer' = [viewer EXCEPT ![v] = [@ EXCEPT !.at = "idle", !.shown = GetRates]]
    /\ UNCHANGED <<counts, happened, now, snapshots>>

ClearSnapshots ==
    /\ snapshots # <<>> /\ snapshots' = <<>>
    /\ UNCHANGED <<counts, happened, now, viewer>>

StatNext ==
    \/ \E op \in Recorded : Record(op)
    \/ \E tier \in {"prefix", "ssd"} : ResetTier(tier)
    \/ TimePasses
    \/ \E v \in Viewers : MaybeSnapshot(v) \/ ShowRates(v)
    \/ ClearSnapshots

StatSpec == StatInit /\ [][StatNext]_statVars

-----------------------------------------------------------------------------
\* The snapshots are a ring: no more than it holds, in order, and none closer to the
\* one before it than the interval.
RingSpaced ==
    /\ Len(snapshots) <= MaxSnapshots
    /\ \A i, j \in DOMAIN snapshots : i < j =>
          snapshots[i].ts + MinInterval <= snapshots[j].ts

\* A window never shows more than what happened between its ends, whatever was reset
\* meanwhile, and no window is longer than it says.
RatesHonest ==
    \A w \in DOMAIN GetRates :
        /\ GetRates[w].elapsed <= w
        /\ \A key \in CounterKeys :
              /\ GetRates[w].grown[key] >= 0
              /\ GetRates[w].grown[key] <= Newest.happened[key] - Baseline(w).happened[key]

\* Who asks is shown what is not older than the interval, or nothing, even if others
\* took snapshots or cleared them after its own was refused for being too soon.
RatesFresh ==
    [][\A v \in Viewers : ShowRates(v) /\ DOMAIN viewer'[v].shown # {} =>
          Newest.ts = viewer[v].since \/ Newest.ts + MinInterval > viewer[v].since]_statVars

\* The rates of the dashboard are of evenly spaced snapshots, claim no more than
\* happened, and are fresh.
RatesSound == []RingSpaced /\ []RatesHonest /\ RatesFresh

-----------------------------------------------------------------------------
(* The counters of requests.                                               *)

CONSTANTS
    ModelIDs,       \* the models that are known by name
    NoModel,        \* the empty name
    Completions,    \* what a request may have taken: [prompt, completion, cached, prefill,
                    \* generation]
    MostCompleted   \* how many requests complete

\* (What is taken from the cache is a part of the prompt.)
ASSUME MetricsAssumption ==
    /\ IsFiniteSet(ModelIDs) /\ NoModel \notin ModelIDs /\ MostCompleted \in Nat
    /\ Completions \subseteq [prompt : Nat, completion : Nat, cached : Nat, prefill : Nat,
                              generation : Nat]
    /\ \A r \in Completions : r.cached <= r.prompt

VARIABLES
    session, alltime,   \* counters
    perModel,           \* the counters of the session, for the models seen in it
    alltimePerModel,
    anonymous           \* history: the counters of the requests that named no model

metricsVars == <<session, alltime, perModel, alltimePerModel, anonymous>>

Scopes == {"session", "alltime"}

-----------------------------------------------------------------------------
NoCounters == [prompt |-> 0, completion |-> 0, cached |-> 0, requests |-> 0,
               prefill |-> 0, generation |-> 0]

Added(c, r) ==
    [prompt |-> c.prompt + r.prompt, completion |-> c.completion + r.completion,
     cached |-> c.cached + r.cached, requests |-> c.requests + 1,
     prefill |-> c.prefill + r.prefill, generation |-> c.generation + r.generation]

\* modelCounters: a model that was not seen yet starts with nothing.
ModelCounters(models, id) == IF id \in DOMAIN models THEN models[id] ELSE NoCounters
AddedFor_FirstLost(models, id, r) ==
    [m \in DOMAIN models \cup {id} |->
        IF m \notin DOMAIN models THEN NoCounters
        ELSE IF m = id THEN Added(models[m], r) ELSE models[m]]
AddedFor(models, id, r) ==
    [m \in DOMAIN models \cup {id} |->
        IF m = id THEN Added(ModelCounters(models, id), r) ELSE models[m]]

Named(id) == id # NoModel

\* A rate is a fraction, and none where there is nothing to divide by.
Per(amount, by) == IF by > 0 THEN <<amount, by>> ELSE <<0, 1>>

\* What was cached was not processed, and does not count for the rate of the prefill.
BuildSnapshot(c) ==
    [served |-> c.prompt + c.completion, cached |-> c.cached, prompt |-> c.prompt,
     completion |-> c.completion, requests |-> c.requests,
     efficiency |-> Per(c.cached, c.prompt), prefillRate |-> Per(c.prompt - c.cached, c.prefill),
     generationRate |-> Per(c.completion, c.generation)]

GetSnapshot(id, scope) ==
    LET models == IF scope = "alltime" THEN alltimePerModel ELSE perModel
    IN BuildSnapshot(IF id = NoModel THEN (IF scope = "alltime" THEN alltime ELSE session)
                     ELSE IF id \in DOMAIN models THEN models[id] ELSE NoCounters)

-----------------------------------------------------------------------------
MetricsInit ==
    /\ session = NoCounters /\ alltime = NoCounters /\ anonymous = NoCounters
    /\ perModel = [id \in {} |-> NoCounters] /\ alltimePerModel = perModel

RecordRequestComplete(r, id) ==
    /\ session.requests < MostCompleted
    /\ session' = Added(session, r) /\ alltime' = Added(alltime, r)
    /\ IF Named(id)
       THEN /\ perModel' = AddedFor(perModel, id, r)
            /\ alltimePerModel' = AddedFor(alltimePerModel, id, r)
       ELSE UNCHANGED <<perModel, alltimePerModel>>
    /\ anonymous' = IF id = NoModel THEN Added(anonymous, r) ELSE anonymous

MetricsNext ==
    \E r \in Completions, id \in ModelIDs \cup {NoModel} : RecordRequestComplete(r, id)

MetricsSpec == MetricsInit /\ [][MetricsNext]_metricsVars

-----------------------------------------------------------------------------
\* The dashboard adds up: in each scope the total is that of the models and of what
\* named none, every request counts once, the prefill is credited with what it
\* processed and with no more than that, and a model nobody used has done nothing.
SumOf(field, scope) ==
    MapThenSumSet(LAMBDA id : GetSnapshot(id, scope)[field], ModelIDs)
        + BuildSnapshot(anonymous)[field]
DashboardAddsUp ==
    \A scope \in Scopes :
        LET total == GetSnapshot(NoModel, scope) IN
        /\ \A field \in {"served", "cached", "prompt", "completion", "requests"} :
              total[field] = SumOf(field, scope)
        /\ \A id \in ModelIDs \cup {NoModel} :
              LET shown == GetSnapshot(id, scope) IN
              /\ shown.prefillRate[1] >= 0 /\ shown.prefillRate[1] <= shown.served
              /\ shown.requests = 0 => shown = BuildSnapshot(NoCounters)
===============================================================================
