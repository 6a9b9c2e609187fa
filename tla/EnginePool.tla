------------------------------ MODULE EnginePool ------------------------------
(***************************************************************************)
(* The pool of loaded models (enginepool/pool.go).  Before a model is       *)
(* loaded, Admit makes room for it under the ceiling of the memory guard:   *)
(* it measures, picks the least recently used model nobody pinned or uses,  *)
(* has it unloaded, and measures again.  It holds the pool's mutex only     *)
(* while it picks and while it marks, so that requests end and models are   *)
(* touched, pinned and registered between any two of its steps.  That       *)
(* admissions do not overlap, and that no request begins during one, is the  *)
(* caller's part.                                                           *)
(*                                                                          *)
(* And the registry of model owners (registry/registry.go): an engine that  *)
(* is to drive a model takes the model's slot; it is refused while another   *)
(* living engine has it, unless it forces the transfer, which resets the    *)
(* other.  Owners die without a word, and slots of the dead are reclaimed.  *)
(* Every method is one critical section; the engines act between them.      *)
(***************************************************************************)
EXTENDS Integers, FiniteSets, FiniteSetsExt

CONSTANTS
    PoolModels,     \* the ids, numbered in their order
    ModelSize,      \* estimatedSize of each
    Readings,       \* what the guard may read: [enabled, system, tier, footprint, ...]
    Others,         \* memory the process uses for other things
    LastTime        \* bound: the clock stops here

ASSUME PoolAssumption ==
    /\ PoolModels \subseteq Nat /\ IsFiniteSet(PoolModels)
    /\ ModelSize \in [PoolModels -> Nat]
    /\ Others \in Nat /\ LastTime \in Nat

VARIABLES
    entries,     \* what the pool knows of the models that are registered
    clock,       \* the reading of now()
    resident,    \* the models whose engine is in memory
    active,      \* those with a request that is not over
    admission    \* the call of Admit under way, if there is one

poolVars == <<entries, clock, resident, active, admission>>

-----------------------------------------------------------------------------
(* The arithmetic of the memory guard (memguard/memguard.go): how a reading *)
(* of the machine becomes the ceiling for loading, the cap for a running    *)
(* prefill and the level of pressure.  The unit is a gigabyte; fractions    *)
(* are given in percent.                                                    *)

SmallSystemReserve   == 4
SmallSystemThreshold == 16

Tiers == {"safe", "balanced", "aggressive", "custom"}

StaticReserveLarge ==
    [safe |-> 12, balanced |-> 8, aggressive |-> 6, custom |-> 2]
ActiveReclaimRatio ==
    [safe |-> 20, balanced |-> 50, aggressive |-> 80, custom |-> 0]

clampZero(v) == IF v < 0 THEN 0 ELSE v
Smaller(a, b) == IF a < b THEN a ELSE b

\* An unknown tier is "balanced".
NormalizeTier(tier) == IF tier \in Tiers THEN tier ELSE "balanced"

StaticCeiling(system, tier) ==
    clampZero(system - IF tier # "custom" /\ system < SmallSystemThreshold
                       THEN SmallSystemReserve ELSE StaticReserveLarge[tier])

ReclaimableCeiling(footprint, free, inactive, running, tier) ==
    clampZero(footprint + free + inactive + (running * ActiveReclaimRatio[tier]) \div 100)

DynamicCeilingFallback(footprint, available) == clampZero(footprint + available)

Watermark(ceiling, percent) == IF ceiling <= 0 THEN 0 ELSE (ceiling * percent) \div 100
SoftBytes(ceiling, soft) == Watermark(ceiling, soft)
HardBytes(ceiling, hard) == Watermark(ceiling, hard)

ClassifyPressure(current, ceiling, soft, hard) ==
    IF ceiling <= 0 \/ current < SoftBytes(ceiling, soft) THEN "ok"
    ELSE IF current < HardBytes(ceiling, hard) THEN "soft" ELSE "hard"

\* No cap of the GPU is 0, and so is no limit.
HardLimit(enabled, static, dynamicOrCustom, metalCap) ==
    LET limit == Smaller(static, dynamicOrCustom) IN
    IF ~enabled THEN 0
    ELSE IF metalCap > 0 THEN Smaller(metalCap, limit) ELSE limit

AbortLimit(enabled, static, metalCap) ==
    IF ~enabled THEN 0
    ELSE IF metalCap > 0 THEN Smaller(static, metalCap) ELSE static

-----------------------------------------------------------------------------
Footprint(models) == Others + MapThenSumSet(LAMBDA m : ModelSize[m], models)
Memory == Footprint(resident)

\* The ceiling of a reading, which Admit is given.
Ceiling(r) ==
    LET tier == NormalizeTier(r.tier) IN
    HardLimit(r.enabled, StaticCeiling(r.system, tier),
              IF tier = "custom" THEN r.custom
              ELSE IF r.vmStat
              THEN ReclaimableCeiling(r.footprint, r.free, r.inactive, r.active, tier)
              ELSE DynamicCeilingFallback(r.footprint, r.free),
              r.metalCap)

\* Sizes are whole numbers.
ASSUME ReadingAssumption == \A r \in Readings : Ceiling(r) \in Int

Registered == DOMAIN entries
Entry(pinned) == [pinned |-> pinned, loaded |-> FALSE, lastAccess |-> 0]

NoAdmission == [at |-> "none"]
Admitting == admission.at \notin {"none", "load"}

-----------------------------------------------------------------------------
PoolInit ==
    /\ entries = << >> /\ clock = 0 /\ resident = {} /\ active = {}
    /\ admission = NoAdmission

Tick == clock < LastTime /\ clock' = clock + 1
        /\ UNCHANGED <<entries, resident, active, admission>>

\* A model starts unloaded.  (One that is loaded is not registered again: its engine
\* would be forgotten, and never unloaded.)
Register(m, pinned) ==
    /\ m \in Registered => ~entries[m].loaded
    /\ entries' = [n \in Registered \cup {m} |-> IF n = m THEN Entry(pinned) ELSE entries[n]]
    /\ UNCHANGED <<clock, resident, active, admission>>

SetPinned(m, pinned) ==
    /\ m \in Registered
    /\ entries' = [entries EXCEPT ![m].pinned = pinned]
    /\ UNCHANGED <<clock, resident, active, admission>>

\* A request finds its model loaded.
BeginRequest(m) ==
    /\ admission.at = "none" /\ m \in Registered /\ entries[m].loaded
    /\ entries' = [entries EXCEPT ![m].lastAccess = clock]
    /\ active' = active \cup {m}
    /\ UNCHANGED <<clock, resident, admission>>

EndRequest(m) ==
    /\ m \in active /\ active' = active \ {m}
    /\ UNCHANGED <<entries, clock, resident, admission>>

-----------------------------------------------------------------------------
(* Admit, and the loading it is for.                                       *)

At(step) == admission' = [admission EXCEPT !.at = step]

BeginAdmit(m, reading) ==
    /\ admission.at = "none"
    /\ m \in Registered => ~entries[m].loaded
    /\ admission' = [at |-> IF m \notin Registered THEN "NotFound"
                            ELSE IF Ceiling(reading) <= 0 THEN "load" ELSE "measure",
                     model |-> m, ceiling |-> Ceiling(reading), victim |-> m]
    /\ UNCHANGED <<entries, clock, resident, active>>

Fits == Memory + ModelSize[admission.model] <= admission.ceiling

Measure ==
    /\ admission.at = "measure"
    /\ At(IF Fits THEN "load" ELSE "pick")
    /\ UNCHANGED <<entries, clock, resident, active>>

\* findLRUVictimLocked.
Candidates_Busy == {m \in Registered : entries[m].loaded /\ ~entries[m].pinned}
Candidates ==
    {m \in Registered : entries[m].loaded /\ ~entries[m].pinned /\ m \notin active}

Older(m, n) ==
    \/ entries[m].lastAccess < entries[n].lastAccess
    \/ entries[m].lastAccess = entries[n].lastAccess /\ m <= n

PickVictim ==
    /\ admission.at = "pick"
    /\ \/ \E v \in Candidates :
            /\ \A m \in Candidates : Older(v, m)
            /\ admission' = [admission EXCEPT !.at = "unload", !.victim = v]
       \/ /\ Candidates = {}
          /\ At(IF ModelSize[admission.model] > admission.ceiling
                THEN "TooLarge" ELSE "Insufficient")
    /\ UNCHANGED <<entries, clock, resident, active>>

Unload ==
    /\ admission.at = "unload"
    /\ resident' = resident \ {admission.victim}
    /\ At("mark")
    /\ UNCHANGED <<entries, clock, active>>

Unmarked_Kept == entries
Unmarked == IF admission.victim \in Registered
            THEN [entries EXCEPT ![admission.victim].loaded = FALSE] ELSE entries

MarkUnloaded ==
    /\ admission.at = "mark"
    /\ entries' = Unmarked
    /\ At("measure")
    /\ UNCHANGED <<clock, resident, active>>

\* The caller loads the model and calls MarkLoaded, or fails to load it.
Load ==
    /\ admission.at = "load"
    /\ \/ /\ resident' = resident \cup {admission.model}
          /\ entries' = [entries EXCEPT ![admission.model] =
                             [@ EXCEPT !.loaded = TRUE, !.lastAccess = clock]]
       \/ UNCHANGED <<resident, entries>>
    /\ admission' = NoAdmission
    /\ UNCHANGED <<clock, active>>

Refuse ==
    /\ admission.at \in {"NotFound", "TooLarge", "Insufficient"}
    /\ admission' = NoAdmission
    /\ UNCHANGED <<entries, clock, resident, active>>

Admit == Measure \/ PickVictim \/ Unload \/ MarkUnloaded \/ Refuse

PoolNext ==
    \/ Tick
    \/ \E m \in PoolModels : \/ \E pinned \in BOOLEAN : Register(m, pinned) \/ SetPinned(m, pinned)
                             \/ BeginRequest(m) \/ EndRequest(m)
                             \/ \E r \in Readings : BeginAdmit(m, r)
    \/ Measure \/ PickVictim \/ Unload \/ MarkUnloaded \/ Refuse
    \/ Load

\* Admit is a loop that nothing blocks.
PoolSpec == PoolInit /\ [][PoolNext]_poolVars /\ WF_poolVars(Admit)

-----------------------------------------------------------------------------
\* A model is loaded only where it fits: whatever happened between the measurements
\* of Admit and the loading, what is in memory then keeps the ceiling.  And what is
\* in memory the pool knows of, but for the victim that is on its way out.
WithinCeiling ==
    /\ admission.at = "load" /\ admission.ceiling > 0 => Fits
    /\ {m \in Registered : entries[m].loaded} =
         resident \cup (IF admission.at = "mark" THEN {admission.victim} ELSE {})

\* No engine is torn down under a request, though Admit does not hold the mutex
\* between picking the victim and unloading it (pool.go:228-231).
UnloadsIdle == [][resident' \cap active = resident \cap active]_poolVars

\* Both: what is loaded fits, and what is unloaded is idle.
PoolSound == []WithinCeiling /\ UnloadsIdle

\* Admit returns: every round takes a model out of memory, and none comes in.
AdmitReturns == Admitting ~> ~Admitting

-----------------------------------------------------------------------------
(* The registry.                                                            *)

CONSTANTS Keys, Engines   \* the models, and the engines that ever live

VARIABLES
    owners,    \* the slots: the owner's id for some of the keys
    life,      \* of an engine: "unborn", "alive" or "dead"
    driving    \* the engines that drive each model

registryVars == <<owners, life, driving>>

Alive(e) == life[e] = "alive"
Held(key) == key \in DOMAIN owners
Without(keys) == [key \in DOMAIN owners \ keys |-> owners[key]]
With(key, e)  == [k \in DOMAIN owners \cup {key} |-> IF k = key THEN e ELSE owners[k]]

RegistryInit ==
    /\ owners = << >>
    /\ life = [e \in Engines |-> "unborn"]
    /\ driving = [key \in Keys |-> {}]

Live(e) ==
    /\ \/ life[e] = "unborn" /\ life' = [life EXCEPT ![e] = "alive"] /\ UNCHANGED driving
       \/ /\ Alive(e) /\ life' = [life EXCEPT ![e] = "dead"]
          /\ driving' = [key \in Keys |-> driving[key] \ {e}]
    /\ UNCHANGED owners

Contested(key, e) == Held(key) /\ Alive(owners[key]) /\ owners[key] # e

\* The engines that still drive the model once e has it: Reset stops the old owner.
Reset_Nobody(key, e) == driving[key]
Reset(key, e) == IF Contested(key, e) THEN driving[key] \ {owners[key]} ELSE driving[key]

Acquire(key, e, force) ==
    /\ Alive(e)
    /\ IF Contested(key, e) /\ ~force THEN UNCHANGED <<owners, driving>>
       ELSE /\ owners' = With(key, e)
            /\ driving' = [driving EXCEPT ![key] = Reset(key, e) \cup {e}]
    /\ UNCHANGED life

\* An engine stops before it gives the slot up; it may have lost it by then.
StopDriving(key, e) ==
    /\ e \in driving[key] /\ driving' = [driving EXCEPT ![key] = @ \ {e}]
    /\ UNCHANGED <<owners, life>>

Releases_Any(key, e) == Held(key)
Releases(key, e) == Held(key) /\ owners[key] = e

Release(key, e) ==
    /\ Alive(e) /\ e \notin driving[key]
    /\ Releases(key, e) /\ owners' = Without({key})
    /\ UNCHANGED <<life, driving>>

\* IsOwned reclaims one slot, Cleanup all of them.
Reclaim(keys) ==
    /\ keys # {} /\ \A key \in keys : Held(key) /\ ~Alive(owners[key])
    /\ owners' = Without(keys)
    /\ UNCHANGED <<life, driving>>
IsOwned(key) == Reclaim({key})
Cleanup == Reclaim({key \in Keys : Held(key) /\ ~Alive(owners[key])})

\* (Stats.)
Stats == [total  |-> Cardinality(DOMAIN owners),
          active |-> Cardinality({key \in DOMAIN owners : Alive(owners[key])})]

RegistryNext ==
    \/ Cleanup
    \/ \E e \in Engines : Live(e)
    \/ \E key \in Keys : \/ IsOwned(key)
                         \/ \E e \in Engines : \/ \E force \in BOOLEAN : Acquire(key, e, force)
                                               \/ StopDriving(key, e) \/ Release(key, e)

RegistrySpec == RegistryInit /\ [][RegistryNext]_registryVars

-----------------------------------------------------------------------------
\* A model is driven by one engine at most, and that engine has the slot, whoever
\* forces, releases late, dies or is cleaned up; the summary counts it.
OneDriver ==
    /\ \A key \in Keys : driving[key] # {} => Held(key) /\ driving[key] = {owners[key]}
    /\ Cardinality({key \in Keys : driving[key] # {}}) <= Stats.active
===============================================================================
