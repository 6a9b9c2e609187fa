---------------------------- MODULE BatchGenerator ----------------------------
(***************************************************************************)
(* The batched token generator (compute/batch_generator.go) over a model   *)
(* adapter (compute/models/adapter.go) and its KV caches                   *)
(* (compute/models/cache.go).                                              *)
(*                                                                         *)
(* A step takes one of three paths: one forward for a synchronized cohort  *)
(* of decoding sequences, one left-padded forward for a cohort of fresh    *)
(* prompts, or one forward per sequence.  The mutex is held throughout, so *)
(* a step is one action.                                                   *)
(*                                                                         *)
(* Tokens are named by their index in the history of their sequence, 0     *)
(* being the padding token.  A cache is the sequence of the keys it holds, *)
(* each with the RoPE position it was rotated to; a forward computes the   *)
(* token that follows the keys the attention mask lets it see.  Any token  *)
(* may turn out to be the end of its sequence.                             *)
(***************************************************************************)
EXTENDS Integers, Sequences, FiniteSetsExt, FiniteSetTheorems, Induction

CONSTANTS
    PromptLens,     \* lengths of the prompts
    WarmLens,       \* lengths of the caches of prefix-cache hits; 0 is no hit
    Caps,           \* DecodeRequest.MaxTokens; 0 means no cap
    MaxInserts,     \* bound: the number of sequences ever inserted
    MaxTokens,      \* bound: a sequence ends at this many generated tokens
    BatchDecoder,   \* does the model implement BatchDecoder ...
    BatchPrefiller, \* ... and BatchPrefiller?
    StepFails       \* may a forward return an error?

\* Insert refuses an empty prompt (ErrEmptyPrompt), and no caller passes a cache yet.
ASSUME GeneratorAssumption ==
    PromptLens \subseteq Nat \ {0} /\ WarmLens \subseteq {0} /\ Caps \subseteq Nat

VARIABLES
    nextUID,    \* BatchGenerator.nextUID
    active,     \* BatchGenerator.active, from uids to sequences
    failed,     \* a step failed, and its caller is removing what is active
    promptOf,   \* history: the length of the prompt of each uid
    reported,   \* history: the tokens reported for each uid
    declared    \* history: the uids whose finish was reported

generatorVars == <<nextUID, active, failed, promptOf, reported, declared>>

\* bgSeq; the keys and their left padding are those of its KVTensorCache.
Keys      == [tok : Nat, pos : Int]
Sequence  == [pending : Seq(Nat), generated : Nat, cap : Nat, offset : Nat,
              finished : BOOLEAN, keys : Seq(Keys), pad : Nat]

Extended(f, u, x) == [v \in DOMAIN f \cup {u} |-> IF v = u THEN x ELSE f[v]]

\* (Sequences that wait for their removal are stepped too.)
Live_Finished == DOMAIN active

Live == {u \in DOMAIN active : ~active[u].finished}

-----------------------------------------------------------------------------
GeneratorInit ==
    /\ nextUID = 0
    /\ active = [u \in {} |-> u]
    /\ failed = FALSE
    /\ promptOf = [u \in {} |-> u] /\ reported = [u \in {} |-> u]
    /\ declared = {}

-----------------------------------------------------------------------------
(* The forward.                                                            *)

\* A slip, as everywhere in this project: a definition named *_<slip> is the
\* one after it with a plausible programming error.
\* (The rope ignores the padding.)
Fed_PaddedRope(s, pad, toks) ==
    s.keys \o [i \in 1..Len(toks) |-> [tok |-> toks[i], pos |-> Len(s.keys) + i - 1]]

\* The keys after feeding toks to a cache whose padding is pad: each is rotated
\* to its place behind the padding (RopeOffsets).
Fed(s, pad, toks) ==
    s.keys \o [i \in 1..Len(toks) |-> [tok |-> toks[i], pos |-> Len(s.keys) - pad + i - 1]]

\* (The mask hides nothing.)
Visible_All(keys, pad) == keys

\* The mask hides the padding at the front (AttnMask).
Visible(keys, pad) == SubSeq(keys, pad + 1, Len(keys))

\* The token the model computes after keys.
Following(keys, pad) == Len(Visible(keys, pad)) + 1

\* (The offset advances by the tokens of the sequence, not by the padded width.)
Advanced_OwnLength(s, width) == s.offset + Len(s.pending)

\* The offset after a forward over width tokens.
Advanced(s, width) == s.offset + width

\* (The cap is compared with > instead of >=.)
CapReached_Late(s) == s.cap > 0 /\ s.generated + 1 > s.cap

\* The token being consumed is the last one the request allows.
CapReached(s) == s.cap > 0 /\ s.generated + 1 >= s.cap

\* The sequence after a forward over width tokens, which left it with keys and
\* padding pad, and after consume: the sampled token waits to be fed.
Consumed(s, keys, pad, width, eos) ==
    [s EXCEPT !.keys = keys, !.pad = pad,
              !.offset = Advanced(s, width),
              !.pending = <<Following(keys, pad)>>,
              !.generated = @ + 1,
              !.finished = eos \/ CapReached(s)]

-----------------------------------------------------------------------------
(* Which path a step takes.                                                *)

\* (The offsets are not compared.)
Synchronized_AnyOffset ==
    /\ BatchDecoder /\ Cardinality(Live) > 1
    /\ \A u \in Live : Len(active[u].pending) = 1

\* tryBatchedStep: at least two sequences, each about to be fed one token, all
\* at the same offset.
Synchronized ==
    /\ BatchDecoder /\ Cardinality(Live) > 1
    /\ \A u \in Live : Len(active[u].pending) = 1
    /\ \A u, v \in Live : active[u].offset = active[v].offset

\* (Offsets are not looked at.)
Fresh_AnyOffset ==
    /\ BatchPrefiller /\ Cardinality(Live) > 1
    /\ \E u \in Live : Len(active[u].pending) > 1

\* tryBatchedPrefill: at least two sequences, all at offset 0, not all of them
\* about to be fed a single token.
Fresh ==
    /\ BatchPrefiller /\ Cardinality(Live) > 1
    /\ \A u \in Live : active[u].offset = 0
    /\ \E u \in Live : Len(active[u].pending) > 1

-----------------------------------------------------------------------------
(* The batched forwards work on the merged caches of the cohort.           *)

First == Min(Live)

\* Merging fails unless the caches are equally long; but if the first one is
\* empty (nil), all are taken to be.
Mergeable == \/ active[First].keys = <<>>
             \/ \A u \in Live : Len(active[u].keys) = Len(active[First].keys)

AsMerged(u) == [active[u] EXCEPT !.keys = IF active[First].keys = <<>> THEN <<>> ELSE @]

Width == Max({Len(active[u].pending) : u \in Live})

\* leftPadCohort: the padding of a row, and the row behind it.
LeftPad(u) == Width - Len(active[u].pending)

Padded(u)  == [i \in 1..LeftPad(u) |-> 0] \o active[u].pending

\* The keys and the padding that a forward leaves to u.
DecodeKeys(u)  == Fed(AsMerged(u), active[u].pad, active[u].pending)
PrefillKeys(u) == Fed(AsMerged(u), LeftPad(u), Padded(u))
OwnKeys(u)     == Fed(active[u], active[u].pad, active[u].pending)

-----------------------------------------------------------------------------
(* The operations.                                                         *)

\* (Uids are given out by counting.)
UIDAfter_Count == Cardinality(DOMAIN active) + 1

\* The uid that the next insert gets.
UIDAfter == nextUID + 1

\* Insert; a prefix-cache hit hands over the keys of the first w tokens of the
\* prompt, and the rest of it is pending.
Insert(n, w, cap) ==
    /\ ~failed /\ nextUID < MaxInserts
    /\ nextUID' = UIDAfter
    /\ promptOf' = Extended(promptOf, nextUID, n + w)
    /\ reported' = Extended(reported, nextUID, <<>>)
    /\ active' = Extended(active, nextUID,
         [pending |-> [i \in 1..n |-> w + i], generated |-> 0, cap |-> cap, offset |-> 0,
          finished |-> FALSE, pad |-> 0,
          keys |-> [i \in 1..w |-> [tok |-> i, pos |-> i - 1]]])
    /\ UNCHANGED <<failed, declared>>

\* What a step reports, and what it makes of the sequences; next[u] is what it makes of u.
Report(next) ==
    /\ active' = [u \in DOMAIN active |-> IF u \in Live THEN next[u] ELSE active[u]]
    /\ reported' = [u \in DOMAIN reported |->
                      IF u \in Live THEN reported[u] \o next[u].pending ELSE reported[u]]
    /\ declared' = declared \cup {u \in Live : next[u].finished}
    /\ UNCHANGED <<nextUID, failed, promptOf>>

\* Where the model says a sequence ends; it ends every one at the bound.
Ends == {E \in SUBSET Live : \A u \in Live : active[u].generated + 1 >= MaxTokens => u \in E}

DecodeTogether ==
    /\ ~failed /\ Synchronized /\ Mergeable
    /\ \E E \in Ends : Report([u \in Live |->
         Consumed(active[u], DecodeKeys(u), active[u].pad, 1, u \in E)])

PrefillTogether ==
    /\ ~failed /\ ~Synchronized /\ Fresh /\ Mergeable
    /\ \E E \in Ends : Report([u \in Live |->
         Consumed(active[u], PrefillKeys(u), LeftPad(u), Width, u \in E)])

StepEach ==
    /\ ~failed /\ ~Synchronized /\ ~Fresh
    /\ \E E \in Ends : Report([u \in Live |->
         Consumed(active[u], OwnKeys(u), active[u].pad, Len(active[u].pending), u \in E)])

\* The step returns an error, and no results; its caller, the scheduler, then
\* removes every sequence.
Fail(next) ==
    /\ active' = next
    /\ failed' = TRUE
    /\ UNCHANGED <<nextUID, promptOf, reported, declared>>

\* A batched forward fails before the caches are split back, or after.
FailTogether ==
    /\ ~failed /\ (Synchronized \/ Fresh)
    /\ StepFails \/ ~Mergeable
    /\ \/ Fail(active)
       \/ /\ Mergeable
          /\ Fail([u \in DOMAIN active |->
               IF u \notin Live THEN active[u]
               ELSE IF Synchronized THEN [active[u] EXCEPT !.keys = DecodeKeys(u)]
               ELSE [active[u] EXCEPT !.keys = PrefillKeys(u), !.pad = LeftPad(u)]])

\* The forward of one sequence fails, with its cache fed or not; those before
\* it have consumed their token.
FailEach ==
    /\ StepFails
    /\ ~failed /\ ~Synchronized /\ ~Fresh
    /\ \E k \in Live, E \in Ends, fed \in BOOLEAN :
         Fail([u \in DOMAIN active |->
           IF u \in Live /\ u < k
             THEN Consumed(active[u], OwnKeys(u), active[u].pad,
                           Len(active[u].pending), u \in E)
           ELSE IF u = k /\ fed THEN [active[u] EXCEPT !.keys = OwnKeys(u)]
           ELSE active[u]])

RemoveSeq(u) ==
    /\ active' = [v \in DOMAIN active \ {u} |-> active[v]]
    /\ failed' = (failed /\ DOMAIN active # {u})
    /\ UNCHANGED <<nextUID, promptOf, reported, declared>>

GeneratorNext ==
    \/ \E n \in PromptLens, w \in WarmLens, cap \in Caps : Insert(n, w, cap)
    \/ DecodeTogether \/ PrefillTogether \/ StepEach
    \/ FailTogether \/ FailEach
    \/ \E u \in DOMAIN active : RemoveSeq(u)

GeneratorSpec == GeneratorInit /\ [][GeneratorNext]_generatorVars

-----------------------------------------------------------------------------
(* Properties.                                                             *)

\* Every variable stays in its type.
TypeOK ==
    /\ nextUID \in Nat /\ failed \in BOOLEAN
    /\ DOMAIN active \subseteq 0..(nextUID - 1)
    /\ \A u \in DOMAIN active : active[u] \in Sequence
    /\ promptOf \in [0..(nextUID - 1) -> Nat \ {0}]
    /\ reported \in [0..(nextUID - 1) -> Seq(Nat)]
    /\ declared \subseteq 0..(nextUID - 1)

\* The offset the generator keeps is the length of the cache, which is what
\* makes its test for a synchronized cohort a test of the caches.
OffsetIsCacheLength ==
    ~failed => \A u \in DOMAIN active : active[u].offset = Len(active[u].keys)

\* Whatever cohorts a sequence was stepped in, attention sees its own tokens,
\* all of them, in order, at their own positions, and no padding; and what is
\* to be fed next continues them.
ContextExact ==
    ~failed =>
        \A u \in DOMAIN active :
            LET s   == active[u]
                fed == promptOf[u] + s.generated - Len(s.pending)
            IN  /\ Visible(s.keys, s.pad) = [i \in 1..fed |-> [tok |-> i, pos |-> i - 1]]
                /\ s.pending = [i \in 1..Len(s.pending) |-> fed + i]

\* A capped sequence reports at most its cap, and the token that reaches the
\* cap declares the finish.
CapKept ==
    \A u \in DOMAIN active :
        active[u].cap > 0 => /\ Len(reported[u]) <= active[u].cap
                             /\ Len(reported[u]) = active[u].cap => u \in declared

\* The sequences that a step takes together have caches that can be merged:
\* equally long ones for a decode, none for a padded prefill, whose padding
\* would not sit in front of them.
CohortsMerge ==
    ~failed =>
        /\ Synchronized =>
             \A u, v \in Live : Len(active[u].keys) = Len(active[v].keys)
        /\ ~Synchronized /\ Fresh => \A u \in Live : active[u].keys = <<>>

\* The generator is sound (compute/batch_generator.go): offsets are cache lengths,
\* every sequence attends to its own history and no padding, cohorts can be merged,
\* and caps are kept.
GeneratorSound == OffsetIsCacheLength /\ ContextExact /\ CohortsMerge /\ CapKept

\* The generator is what the scheduler takes it for: stepping sequences
\* together is stepping each alone.
Seam == INSTANCE DecodeSeam WITH
    next <- nextUID, prompt <- promptOf, live <- DOMAIN active,
    said <- reported, done <- declared
ImplementsSeam == Seam!SeamSpec

-----------------------------------------------------------------------------
(* The proofs.                                                             *)

\* A sequence in step with its cache: behind the padding are the first tokens of
\* its history, and what is pending goes on from there.
FedUpTo(s, n) == n + s.generated - Len(s.pending)

InStep(s, n) ==
    /\ s \in Sequence
    /\ Len(s.pending) # 0 /\ FedUpTo(s, n) \in Nat
    /\ s.generated = 0 => s.pad = 0 /\ FedUpTo(s, n) = 0
    /\ s.generated # 0 => Len(s.pending) = 1
    /\ s.offset = Len(s.keys) /\ Len(s.keys) = s.pad + FedUpTo(s, n)
    /\ \A i \in 1..FedUpTo(s, n) : s.keys[s.pad + i] = [tok |-> i, pos |-> i - 1]
    /\ \A i \in 1..Len(s.pending) : s.pending[i] = FedUpTo(s, n) + i

\* ... and with what was said of it.
Accounted(s, said, over) ==
    /\ Len(said) = s.generated
    /\ s.finished <=> over
    /\ s.cap > 0 => s.generated <= s.cap /\ (s.generated = s.cap => over)

\* A step leads from s to c.
Stepped(s, c, n) ==
    /\ InStep(c, n)
    /\ c.pending = <<n + s.generated + 1>>
    /\ c.generated = s.generated + 1 /\ c.cap = s.cap
    /\ c.finished \in BOOLEAN /\ (CapReached(s) => c.finished)

GeneratorInv ==
    /\ TypeOK /\ CapKept
    /\ ~failed => \A u \in DOMAIN active :
         /\ InStep(active[u], promptOf[u])
         /\ Accounted(active[u], reported[u], u \in declared)

\* A sequence that was inserted.
LEMMA Inserted ==
    ASSUME NEW n \in Nat \ {0}, NEW cap \in Nat,
           NEW s, s = [pending |-> [i \in 1..n |-> i], generated |-> 0, cap |-> cap, offset |-> 0,
                       finished |-> FALSE, keys |-> <<>>, pad |-> 0]
    PROVE  InStep(s, n) /\ Accounted(s, <<>>, FALSE)
<1> DEFINE q == [i \in 1..n |-> i]
<1>1. q \in Seq(Nat) /\ Len(q) = n /\ \A i \in 1..n : q[i] = i
  OBVIOUS
<1> HIDE DEF q
<1>2. s = [pending |-> q, generated |-> 0, cap |-> cap, offset |-> 0,
           finished |-> FALSE, keys |-> <<>>, pad |-> 0]
  BY DEF q
<1>3. s \in Sequence
  BY <1>1, <1>2 DEF Sequence
<1>4. FedUpTo(s, n) = 0
  BY <1>1, <1>2 DEF FedUpTo
<1>5. /\ s.pending = q /\ s.generated = 0 /\ s.pad = 0 /\ s.offset = 0 /\ s.cap = cap
      /\ s.finished = FALSE /\ s.keys = <<>> /\ Len(s.keys) = 0
  BY <1>2
<1>6. InStep(s, n)
  <2>1. \A i \in 1..0 : FALSE
    OBVIOUS
  <2>2. \A i \in 1..Len(s.pending) : s.pending[i] = FedUpTo(s, n) + i
    BY <1>1, <1>4, <1>5
  <2>3. \A i \in 1..FedUpTo(s, n) : s.keys[s.pad + i] = [tok |-> i, pos |-> i - 1]
    BY <1>4, <2>1
  <2>4. /\ Len(s.pending) # 0 /\ FedUpTo(s, n) \in Nat
        /\ s.generated = 0 => s.pad = 0 /\ FedUpTo(s, n) = 0
        /\ s.generated # 0 => Len(s.pending) = 1
        /\ s.offset = Len(s.keys) /\ Len(s.keys) = s.pad + FedUpTo(s, n)
    BY <1>1, <1>4, <1>5
  <2> QED BY <1>3, <2>2, <2>3, <2>4, Zenon DEF InStep
<1>7. Accounted(s, <<>>, FALSE)
  BY <1>5 DEF Accounted
<1> QED BY <1>6, <1>7

\* The types of its fields.
LEMMA InStepFields ==
    ASSUME NEW n \in Nat \ {0}, NEW s, InStep(s, n)
    PROVE  /\ s.pending \in Seq(Nat) /\ Len(s.pending) \in Nat \ {0}
           /\ s.keys \in Seq(Keys) /\ Len(s.keys) \in Nat
           /\ s.pad \in Nat /\ s.generated \in Nat /\ s.cap \in Nat /\ s.finished \in BOOLEAN
           /\ s.offset = Len(s.keys) /\ s.offset \in Nat
           /\ FedUpTo(s, n) \in Nat /\ Len(s.keys) = s.pad + FedUpTo(s, n)
           /\ FedUpTo(s, n) + Len(s.pending) = n + s.generated
<1>1. s \in Sequence
  BY DEF InStep
<1>2. /\ s.pending \in Seq(Nat) /\ s.keys \in Seq(Keys) /\ s.offset \in Nat
      /\ s.pad \in Nat /\ s.generated \in Nat /\ s.cap \in Nat /\ s.finished \in BOOLEAN
  BY <1>1 DEF Sequence
<1>3. Len(s.pending) \in Nat /\ Len(s.keys) \in Nat
  BY <1>2, LenProperties
<1>4. /\ Len(s.pending) # 0 /\ FedUpTo(s, n) \in Nat
      /\ s.offset = Len(s.keys) /\ Len(s.keys) = s.pad + FedUpTo(s, n)
  BY DEF InStep
<1>5. FedUpTo(s, n) + Len(s.pending) = n + s.generated
  BY <1>2, <1>3 DEF FedUpTo
<1> QED BY <1>2, <1>3, <1>4, <1>5

\* A forward that leaves the keys of its history behind the padding keeps it in step.
LEMMA ConsumedInStep ==
    ASSUME NEW n \in Nat \ {0}, NEW s, InStep(s, n), NEW pad \in Nat, NEW width \in Nat,
           NEW eos \in BOOLEAN, NEW keys \in Seq(Keys),
           Len(keys) = pad + n + s.generated, s.offset + width = Len(keys),
           \A i \in 1..n + s.generated : keys[pad + i] = [tok |-> i, pos |-> i - 1]
    PROVE  Stepped(s, Consumed(s, keys, pad, width, eos), n)
<1> DEFINE c == Consumed(s, keys, pad, width, eos)
           k == n + s.generated
<1>1. s \in Sequence /\ s.generated \in Nat /\ s.cap \in Nat /\ k \in Nat /\ n + s.generated = k
  BY InStepFields DEF InStep
<1>2. Following(keys, pad) = k + 1
  <2>1. SubSeq(keys, pad + 1, Len(keys)) \in Seq(Keys)
        /\ Len(SubSeq(keys, pad + 1, Len(keys))) = k
    BY <1>1
  <2> QED BY <2>1 DEF Following, Visible
<1>3. CapReached(s) \in BOOLEAN
  BY DEF CapReached
<1>4. c = [s EXCEPT !.keys = keys, !.pad = pad, !.offset = Len(keys), !.pending = <<k + 1>>,
                    !.generated = s.generated + 1, !.finished = eos \/ CapReached(s)]
  BY <1>1, <1>2 DEF Consumed, Advanced
<1> HIDE DEF c
<1>8. DOMAIN s = {"pending", "generated", "cap", "offset", "finished", "keys", "pad"}
  BY <1>1 DEF Sequence
<1>9. /\ c.pending = <<k + 1>> /\ c.generated = s.generated + 1
      /\ c.cap = s.cap /\ c.finished = (eos \/ CapReached(s)) /\ c.offset = Len(keys)
      /\ c.keys = keys /\ c.pad = pad
  BY <1>1, <1>4 DEF Sequence
<1>5. c \in Sequence
  <2> DEFINE over == eos \/ CapReached(s)
             next == <<k + 1>>
  <2>1. over \in BOOLEAN /\ next \in Seq(Nat) /\ s.generated + 1 \in Nat /\ Len(keys) \in Nat
    BY <1>1, <1>3
  <2>2. c = [s EXCEPT !.keys = keys, !.pad = pad, !.offset = Len(keys), !.pending = next,
                      !.generated = s.generated + 1, !.finished = over]
    BY <1>4
  <2> HIDE DEF over, next
  <2> QED BY <1>1, <2>1, <2>2 DEF Sequence
<1>6. FedUpTo(c, n) = k /\ Len(c.pending) = 1 /\ c.pending[1] = k + 1
  BY <1>1, <1>9 DEF FedUpTo
<1>7. InStep(c, n)
  BY <1>1, <1>5, <1>6, <1>9 DEF InStep
<1>11. c.finished \in BOOLEAN /\ (CapReached(s) => c.finished)
  BY <1>3, <1>9
<1> QED BY <1>7, <1>9, <1>11 DEF c, Stepped

\* What a forward adds to the keys.
LEMMA FedKeys ==
    ASSUME NEW s, s.keys \in Seq(Keys), NEW pad \in Nat, NEW toks \in Seq(Nat)
    PROVE  LET old == s.keys IN
           /\ Fed(s, pad, toks) \in Seq(Keys)
           /\ Len(Fed(s, pad, toks)) = Len(old) + Len(toks)
           /\ \A i \in 1..Len(old) : Fed(s, pad, toks)[i] = old[i]
           /\ \A i \in 1..Len(toks) :
                Fed(s, pad, toks)[Len(old) + i] = [tok |-> toks[i], pos |-> Len(old) - pad + i - 1]
<1> DEFINE old == s.keys
           l == Len(old)
           m == Len(toks)
           new == [i \in 1..m |-> [tok |-> toks[i], pos |-> l - pad + i - 1]]
<1>1. l \in Nat /\ m \in Nat /\ \A i \in 1..m : toks[i] \in Nat
  OBVIOUS
<1>2. \A i \in 1..m : [tok |-> toks[i], pos |-> l - pad + i - 1] \in Keys
  BY <1>1 DEF Keys
<1>3. new \in Seq(Keys) /\ Len(new) = m
  BY <1>1, <1>2
<1>4. Fed(s, pad, toks) = old \o new
  BY DEF Fed
<1>7. old \in Seq(Keys)
  OBVIOUS
<1> HIDE DEF new, old
<1>5. /\ old \o new \in Seq(Keys) /\ Len(old \o new) = l + m
      /\ \A i \in 1..l : (old \o new)[i] = old[i]
      /\ \A i \in 1..m : (old \o new)[l + i] = new[i]
  <2>1. ASSUME NEW a \in Seq(Keys), NEW b \in Seq(Keys)
        PROVE  /\ a \o b \in Seq(Keys) /\ Len(a \o b) = Len(a) + Len(b)
               /\ \A i \in 1..Len(a) : (a \o b)[i] = a[i]
               /\ \A i \in 1..Len(b) : (a \o b)[Len(a) + i] = b[i]
    OBVIOUS
  <2>2. Len(new) = m
    BY <1>3
  <2>3. /\ old \o new \in Seq(Keys) /\ Len(old \o new) = Len(old) + Len(new)
        /\ \A i \in 1..Len(old) : (old \o new)[i] = old[i]
        /\ \A i \in 1..Len(new) : (old \o new)[Len(old) + i] = new[i]
    <3>1. new \in Seq(Keys)
      BY <1>3
    <3> QED BY <1>7, <2>1, <3>1
  <2> HIDE DEF m
  <2> QED BY <2>2, <2>3
<1>6. \A i \in 1..m : new[i] = [tok |-> toks[i], pos |-> l - pad + i - 1]
  BY DEF new
<1> QED BY <1>4, <1>5, <1>6 DEF old

\* A sequence that is stepped with its own cache and its own padding.
LEMMA FedAlone ==
    ASSUME NEW n \in Nat \ {0}, NEW s, InStep(s, n), NEW eos \in BOOLEAN, NEW t, t.keys = s.keys
    PROVE  Stepped(s, Consumed(s, Fed(t, s.pad, s.pending), s.pad, Len(s.pending), eos), n)
<1> DEFINE keys == Fed(t, s.pad, s.pending)
           f == FedUpTo(s, n)
           w == Len(s.pending)
           l == Len(s.keys)
           g == n + s.generated
<1>1. /\ s.pending \in Seq(Nat) /\ s.keys \in Seq(Keys) /\ s.pad \in Nat /\ s.generated \in Nat
      /\ w \in Nat /\ l \in Nat /\ f \in Nat /\ l = s.pad + f /\ f + w = g
      /\ s.offset = l /\ g \in Nat
  BY InStepFields
<1>2. /\ keys \in Seq(Keys) /\ Len(keys) = l + w
      /\ \A i \in 1..l : keys[i] = s.keys[i]
      /\ \A i \in 1..w : keys[l + i] = [tok |-> s.pending[i], pos |-> l - s.pad + i - 1]
  <2> DEFINE toks == s.pending
             pad == s.pad
  <2>1. t.keys \in Seq(Keys) /\ toks \in Seq(Nat) /\ pad \in Nat
    BY <1>1
  <2> HIDE DEF toks, pad
  <2>2. LET old == t.keys IN
        /\ Fed(t, pad, toks) \in Seq(Keys)
        /\ Len(Fed(t, pad, toks)) = Len(old) + Len(toks)
        /\ \A i \in 1..Len(old) : Fed(t, pad, toks)[i] = old[i]
        /\ \A i \in 1..Len(toks) :
             Fed(t, pad, toks)[Len(old) + i] = [tok |-> toks[i], pos |-> Len(old) - pad + i - 1]
    BY <2>1, FedKeys
  <2> QED BY <2>2 DEF toks, pad
<1> HIDE DEF keys, f, w, l, g
<1>3. ASSUME NEW i \in 1..g PROVE keys[s.pad + i] = [tok |-> i, pos |-> i - 1]
  <2>1. CASE i <= f
    <3>1. i \in 1..f /\ s.pad + i \in 1..l
      BY <1>1, <2>1
    <3>2. s.keys[s.pad + i] = [tok |-> i, pos |-> i - 1]
      BY <3>1 DEF InStep, f
    <3> QED BY <1>2, <3>1, <3>2
  <2>2. CASE i > f
    <3> DEFINE j == i - f
    <3>1. j \in 1..w /\ s.pad + i = l + j /\ l - s.pad + j - 1 = i - 1 /\ f + j = i
      BY <1>1, <2>2
    <3> HIDE DEF j
    <3>2. s.pending[j] = f + j
      BY <3>1 DEF InStep, f, w
    <3> QED BY <1>2, <3>1, <3>2
  <2> QED BY <1>1, <2>1, <2>2
<1>4. Len(keys) = s.pad + n + s.generated /\ s.offset + w = Len(keys)
  <2>1. Len(keys) = l + w
    BY <1>2
  <2>2. l + w = s.pad + g
    <3> DEFINE pad == s.pad
    <3>1. pad \in Nat /\ l = pad + f /\ f + w = g /\ f \in Nat /\ w \in Nat
      BY <1>1
    <3> HIDE DEF pad
    <3>2. l + w = pad + g
      BY <3>1
    <3> QED BY <3>2 DEF pad
  <2>3. s.pad + g = s.pad + n + s.generated
    BY <1>1 DEF g
  <2> QED BY <1>1, <2>1, <2>2, <2>3
<1>5. Stepped(s, Consumed(s, keys, s.pad, w, eos), n)
  <2> DEFINE pad == s.pad
  <2>1. /\ pad \in Nat /\ w \in Nat /\ keys \in Seq(Keys) /\ s.offset + w = Len(keys)
        /\ Len(keys) = pad + n + s.generated
        /\ \A i \in 1..n + s.generated : keys[pad + i] = [tok |-> i, pos |-> i - 1]
    BY <1>1, <1>2, <1>3, <1>4 DEF g
  <2> HIDE DEF pad
  <2>2. Stepped(s, Consumed(s, keys, pad, w, eos), n)
    BY <2>1, ConsumedInStep
  <2> QED BY <2>2 DEF pad
<1> QED BY <1>5 DEF keys, w

\* A fresh sequence that is stepped behind padding.
LEMMA FedPadded ==
    ASSUME NEW n \in Nat \ {0}, NEW s, InStep(s, n), s.offset = 0, NEW eos \in BOOLEAN,
           NEW width \in Nat, Len(s.pending) <= width,
           NEW t, t.keys \in Seq(Keys), Len(t.keys) = 0
    PROVE  LET pad == width - Len(s.pending)
               toks == [i \in 1..pad |-> 0] \o s.pending
           IN  /\ pad \in Nat /\ Fed(t, pad, toks) \in Seq(Keys)
               /\ Stepped(s, Consumed(s, Fed(t, pad, toks), pad, width, eos), n)
<1> DEFINE w == Len(s.pending)
           pad == width - w
           zeros == [i \in 1..pad |-> 0]
           toks == zeros \o s.pending
           keys == Fed(t, pad, toks)
<1>1. /\ s.pending \in Seq(Nat) /\ w \in Nat \ {0} /\ s.generated \in Nat
      /\ FedUpTo(s, n) = 0 /\ w = n + s.generated /\ s.offset = 0 /\ pad \in Nat
  <2>1. /\ s.pending \in Seq(Nat) /\ w \in Nat \ {0} /\ s.generated \in Nat /\ s.pad \in Nat
        /\ FedUpTo(s, n) \in Nat /\ s.offset = s.pad + FedUpTo(s, n)
        /\ FedUpTo(s, n) + w = n + s.generated
    BY InStepFields
  <2> HIDE DEF w
  <2>2. FedUpTo(s, n) = 0
    BY <2>1
  <2>3. pad \in Nat
    BY <2>1 DEF w
  <2> QED BY <2>1, <2>2, <2>3
<1>2. zeros \in Seq(Nat) /\ Len(zeros) = pad
  BY <1>1
<1> HIDE DEF zeros
<1>3. /\ toks \in Seq(Nat) /\ Len(toks) = width
      /\ \A i \in 1..w : toks[pad + i] = i
  <2>1. ASSUME NEW a \in Seq(Nat), NEW b \in Seq(Nat)
        PROVE  /\ a \o b \in Seq(Nat) /\ Len(a \o b) = Len(a) + Len(b)
               /\ \A i \in 1..Len(b) : (a \o b)[Len(a) + i] = b[i]
    OBVIOUS
  <2>2. /\ toks \in Seq(Nat) /\ Len(toks) = Len(zeros) + w
        /\ \A i \in 1..w : toks[Len(zeros) + i] = s.pending[i]
    BY <1>1, <1>2, <2>1
  <2>3. \A i \in 1..w : s.pending[i] = i
    <3>1. \A i \in 1..w : s.pending[i] = FedUpTo(s, n) + i
      BY DEF InStep
    <3> QED BY <1>1, <3>1
  <2>4. Len(zeros) + w = width
    BY <1>1, <1>2
  <2> HIDE DEF toks, pad, w
  <2> QED BY <1>2, <2>2, <2>3, <2>4
<1> HIDE DEF toks, w, pad, keys
<1>4. /\ keys \in Seq(Keys) /\ Len(keys) = width
      /\ \A i \in 1..width : keys[i] = [tok |-> toks[i], pos |-> 0 - pad + i - 1]
  <2>1. t.keys \in Seq(Keys) /\ Len(t.keys) = 0 /\ toks \in Seq(Nat) /\ pad \in Nat
    BY <1>1, <1>3
  <2>2. /\ Fed(t, pad, toks) \in Seq(Keys) /\ Len(Fed(t, pad, toks)) = Len(t.keys) + Len(toks)
        /\ \A i \in 1..Len(toks) :
             Fed(t, pad, toks)[Len(t.keys) + i]
               = [tok |-> toks[i], pos |-> Len(t.keys) - pad + i - 1]
    BY <2>1, FedKeys
  <2>3. /\ keys \in Seq(Keys) /\ Len(keys) = 0 + width
        /\ \A i \in 1..width : keys[0 + i] = [tok |-> toks[i], pos |-> 0 - pad + i - 1]
    BY <1>3, <2>1, <2>2 DEF keys
  <2> QED BY <2>3
<1>5. pad + w = width
  BY <1>1 DEF pad
<1>6. ASSUME NEW i \in 1..w PROVE keys[pad + i] = [tok |-> i, pos |-> i - 1]
  <2>1. pad + i \in 1..width /\ 0 - pad + (pad + i) - 1 = i - 1
    BY <1>1, <1>5
  <2>2. keys[pad + i] = [tok |-> toks[pad + i], pos |-> 0 - pad + (pad + i) - 1]
    BY <1>4, <2>1
  <2> QED BY <1>3, <2>1, <2>2
<1>7. Stepped(s, Consumed(s, keys, pad, width, eos), n)
  <2>1. /\ Len(keys) = pad + n + s.generated /\ s.offset + width = Len(keys)
        /\ \A i \in 1..n + s.generated : keys[pad + i] = [tok |-> i, pos |-> i - 1]
    <3>1. width = pad + n + s.generated
      BY <1>1, <1>5
    <3>2. n + s.generated = w /\ s.offset + width = width
      BY <1>1
    <3> QED BY <1>4, <1>6, <3>1, <3>2
  <2> QED BY <1>1, <1>4, <2>1, ConsumedInStep
<1> QED BY <1>1, <1>4, <1>7 DEF keys, pad, toks, zeros, w

\* What is said of it keeps up.
LEMMA KeepsAccount ==
    ASSUME NEW n \in Nat \ {0}, NEW s, InStep(s, n), NEW said \in Seq(Nat),
           Accounted(s, said, FALSE), NEW c, Stepped(s, c, n)
    PROVE  /\ said \o c.pending \in Seq(Nat)
           /\ said \o c.pending = Append(said, n + Len(said) + 1)
           /\ Accounted(c, said \o c.pending, c.finished)
           /\ c.cap > 0 => /\ Len(said \o c.pending) <= c.cap
                           /\ Len(said \o c.pending) = c.cap => c.finished
<1> DEFINE g == s.generated
<1>1. g \in Nat /\ s.cap \in Nat
  BY InStepFields
<1>2. /\ Len(said) = g /\ c.pending = <<n + g + 1>> /\ c.generated = g + 1 /\ c.cap = s.cap
      /\ c.finished \in BOOLEAN /\ (CapReached(s) => c.finished)
      /\ s.cap > 0 => g <= s.cap /\ g # s.cap
  BY DEF Stepped, Accounted
<1> HIDE DEF g
<1>3. /\ said \o <<n + g + 1>> \in Seq(Nat) /\ Len(said \o <<n + g + 1>>) = g + 1
      /\ said \o <<n + g + 1>> = Append(said, n + g + 1)
  BY <1>1, <1>2
<1>4. s.cap > 0 => g + 1 <= s.cap /\ (g + 1 = s.cap => c.finished)
  BY <1>1, <1>2 DEF CapReached, g
<1>5. Accounted(c, said \o c.pending, c.finished)
  BY <1>2, <1>3, <1>4 DEF Accounted
<1> QED BY <1>2, <1>3, <1>4, <1>5

\* What is known of a sequence that a step takes.
LEMMA LiveFacts ==
    ASSUME GeneratorInv, ~failed, NEW u \in Live
    PROVE  /\ u \in DOMAIN active /\ u \in 0..(nextUID - 1)
           /\ promptOf[u] \in Nat \ {0} /\ reported[u] \in Seq(Nat)
           /\ InStep(active[u], promptOf[u]) /\ Accounted(active[u], reported[u], FALSE)
           /\ u \notin declared
<1>1. u \in DOMAIN active /\ ~active[u].finished
  BY DEF Live
<1>2. u \in 0..(nextUID - 1) /\ promptOf[u] \in Nat \ {0} /\ reported[u] \in Seq(Nat)
  BY <1>1 DEF GeneratorInv, TypeOK
<1>3. InStep(active[u], promptOf[u]) /\ Accounted(active[u], reported[u], u \in declared)
  BY <1>1 DEF GeneratorInv
<1>4. u \notin declared
  BY <1>1, <1>3 DEF Accounted
<1>5. Accounted(active[u], reported[u], FALSE)
  BY <1>1, <1>3, <1>4 DEF Accounted
<1> QED BY <1>1, <1>2, <1>3, <1>4, <1>5

\* A step that takes every live sequence one token further keeps the invariant, and is a
\* step of what the scheduler takes the generator for.
LEMMA ReportKeeps ==
    ASSUME GeneratorInv, ~failed, NEW next, Report(next),
           \A u \in Live : Stepped(active[u], next[u], promptOf[u])
    PROVE  GeneratorInv' /\ Seam!SeamStep
<1>1. /\ DOMAIN active' = DOMAIN active /\ DOMAIN reported' = DOMAIN reported
      /\ UNCHANGED <<nextUID, failed, promptOf>>
      /\ declared' = declared \cup {u \in Live : next[u].finished}
      /\ Live \subseteq DOMAIN active
  BY DEF Report, Live
<1>2. /\ nextUID \in Nat /\ DOMAIN active \subseteq 0..(nextUID - 1)
      /\ DOMAIN reported = 0..(nextUID - 1) /\ declared \subseteq 0..(nextUID - 1)
      /\ \A u \in 0..(nextUID - 1) : reported[u] \in Seq(Nat)
  BY DEF GeneratorInv, TypeOK
<1>3. ASSUME NEW u \in Live
      PROVE  /\ active'[u] = next[u] /\ u \in DOMAIN active /\ u \notin declared
             /\ reported'[u] = reported[u] \o next[u].pending
             /\ u \in declared' <=> next[u].finished
             /\ InStep(next[u], promptOf[u]) /\ next[u].finished \in BOOLEAN
             /\ reported'[u] \in Seq(Nat)
             /\ reported'[u] = Append(reported[u], promptOf[u] + Len(reported[u]) + 1)
             /\ Accounted(next[u], reported'[u], next[u].finished)
             /\ next[u].cap > 0 => /\ Len(reported'[u]) <= next[u].cap
                                   /\ Len(reported'[u]) = next[u].cap => next[u].finished
  <2> DEFINE n == promptOf[u]
             s == active[u]
             said == reported[u]
             c == next[u]
  <2>1. /\ u \in DOMAIN active /\ u \in 0..(nextUID - 1) /\ u \notin declared
        /\ n \in Nat \ {0} /\ said \in Seq(Nat) /\ InStep(s, n) /\ Accounted(s, said, FALSE)
    BY LiveFacts
  <2>2. Stepped(s, c, n)
    OBVIOUS
  <2>3. active'[u] = c /\ reported'[u] = said \o c.pending
    BY <1>2, <2>1 DEF Report
  <2>4. u \in declared' <=> c.finished
    BY <1>1, <2>1
  <2> HIDE DEF n, s, said, c
  <2>5. /\ said \o c.pending \in Seq(Nat)
        /\ said \o c.pending = Append(said, n + Len(said) + 1)
        /\ Accounted(c, said \o c.pending, c.finished)
        /\ c.cap > 0 => /\ Len(said \o c.pending) <= c.cap
                        /\ Len(said \o c.pending) = c.cap => c.finished
    BY <2>1, <2>2, KeepsAccount
  <2>6. InStep(c, n) /\ c.finished \in BOOLEAN
    BY <2>2 DEF Stepped
  <2> QED BY <2>1, <2>3, <2>4, <2>5, <2>6 DEF n, s, said, c
<1>4. ASSUME NEW u \in DOMAIN reported, u \notin Live
      PROVE  reported'[u] = reported[u] /\ (u \in declared' <=> u \in declared)
  BY <1>1, <1>4 DEF Report
<1>5. ASSUME NEW u \in DOMAIN active, u \notin Live
      PROVE  active'[u] = active[u] /\ u \in DOMAIN reported /\ u \in declared
  <2>1. active'[u] = active[u] /\ u \in DOMAIN reported /\ active[u].finished
    BY <1>1, <1>2, <1>5 DEF Report, Live
  <2>2. Accounted(active[u], reported[u], u \in declared)
    BY DEF GeneratorInv
  <2> QED BY <2>1, <2>2 DEF Accounted
<1>6. TypeOK'
  <2>1. \A u \in DOMAIN active : active'[u] \in Sequence
    BY <1>3, <1>5 DEF GeneratorInv, TypeOK, InStep
  <2>2. \A u \in DOMAIN reported : reported'[u] \in Seq(Nat)
    BY <1>2, <1>3, <1>4
  <2>3. reported' = [u \in 0..(nextUID - 1) |-> reported'[u]]
    BY <1>2 DEF Report
  <2>4. reported' \in [0..(nextUID - 1) -> Seq(Nat)]
    BY <1>2, <2>2, <2>3
  <2> QED BY <1>1, <1>2, <2>1, <2>4 DEF GeneratorInv, TypeOK
<1>7. CapKept'
  BY <1>1, <1>3, <1>4, <1>5 DEF GeneratorInv, CapKept
<1>8. ASSUME NEW u \in DOMAIN active
      PROVE  InStep(active'[u], promptOf[u]) /\ Accounted(active'[u], reported'[u], u \in declared')
  <2>1. CASE u \in Live
    <3> QED BY <1>3, <2>1 DEF Accounted
  <2>2. CASE u \notin Live
    <3>1. InStep(active[u], promptOf[u]) /\ Accounted(active[u], reported[u], u \in declared)
      BY DEF GeneratorInv
    <3> QED BY <1>4, <1>5, <2>2, <3>1 DEF Accounted
  <2> QED BY <2>1, <2>2
<1>9. GeneratorInv'
  BY <1>1, <1>6, <1>7, <1>8 DEF GeneratorInv
<1>10. Seam!SeamStep
  <2>1. Live = DOMAIN active \ declared
    BY <1>1, <1>3, <1>5
  <2>2. \A u \in DOMAIN reported :
          reported'[u] = IF u \in DOMAIN active \ declared
                         THEN Append(reported[u], promptOf[u] + Len(reported[u]) + 1)
                         ELSE reported[u]
    BY <1>3, <1>4, <2>1
  <2>3. reported' = [u \in DOMAIN reported |->
                       IF u \in DOMAIN active \ declared
                       THEN Append(reported[u], promptOf[u] + Len(reported[u]) + 1)
                       ELSE reported[u]]
    <3>1. reported' = [u \in DOMAIN reported |-> reported'[u]]
      BY DEF Report
    <3> QED BY <2>2, <3>1
  <2> QED BY <1>1, <2>3 DEF Seam!SeamStep
<1> QED BY <1>9, <1>10

\* The keys that the batched forwards start from are the sequences' own.
LEMMA CohortKeys ==
    ASSUME GeneratorInv, ~failed, Synchronized \/ Fresh
    PROVE  \A u \in Live : AsMerged(u).keys = active[u].keys
<1>1. Live # {} /\ Live \subseteq Nat
  <2>1. Cardinality(Live) > 1
    BY DEF Synchronized, Fresh
  <2>2. Cardinality({}) = 0
    BY FS_EmptySet
  <2>3. Live \subseteq 0..(nextUID - 1) /\ nextUID \in Nat
    BY DEF GeneratorInv, TypeOK, Live
  <2> QED BY <2>1, <2>2, <2>3
<1>2. First \in Live
  BY <1>1, MinIsLeast DEF First
<1>3. \A u \in Live : active[u].offset = active[First].offset
  BY <1>2 DEF Synchronized, Fresh
<1>4. ASSUME NEW u \in Live PROVE AsMerged(u).keys = active[u].keys
  <2>1. /\ active[u].keys \in Seq(Keys) /\ Len(active[u].keys) = Len(active[First].keys)
        /\ active[u] \in Sequence
    BY <1>2, <1>3, LiveFacts DEF InStep, Sequence
  <2>2. ASSUME active[First].keys = <<>> PROVE active[u].keys = <<>>
    BY <2>1, <2>2
  <2> QED BY <2>1, <2>2 DEF AsMerged, Sequence
<1> QED BY <1>4

\* The width of a padded prefill.
LEMMA WidthBounds ==
    ASSUME GeneratorInv, ~failed, Live # {}
    PROVE  Width \in Nat /\ \A u \in Live : Len(active[u].pending) <= Width
<1> DEFINE f == [u \in 0..(nextUID - 1) |-> IF u \in Live THEN Len(active[u].pending) ELSE 0]
           T == {Len(active[u].pending) : u \in Live}
<1>1. nextUID \in Nat /\ \A u \in Live : u \in 0..(nextUID - 1) /\ Len(active[u].pending) \in Nat
  BY LiveFacts, InStepFields DEF GeneratorInv, TypeOK
<1>2. \A u \in 0..(nextUID - 1) : f[u] \in Nat
  BY <1>1
<1>3. PICK b \in Nat : \A u \in 0..(nextUID - 1) : f[u] <= b
  <2> HIDE DEF f
  <2> QED BY <1>1, <1>2, HaveBound
<1>4. T \subseteq Nat /\ T # {} /\ \A m \in T : m <= b
  BY <1>1, <1>3
<1>5. Max(T) \in T /\ \A m \in T : m <= Max(T)
  <2> HIDE DEF T
  <2> QED BY <1>4, MaxIsGreatest
<1> QED BY <1>4, <1>5 DEF Width

\* Each of the three paths takes a live sequence one token further.
LEMMA PathsStep ==
    ASSUME GeneratorInv, ~failed, NEW u \in Live, NEW eos \in BOOLEAN
    PROVE  /\ Stepped(active[u], Consumed(active[u], OwnKeys(u), active[u].pad,
                                          Len(active[u].pending), eos), promptOf[u])
           /\ Synchronized =>
                /\ DecodeKeys(u) \in Seq(Keys)
                /\ Stepped(active[u], Consumed(active[u], DecodeKeys(u), active[u].pad, 1, eos),
                           promptOf[u])
           /\ Fresh =>
                /\ LeftPad(u) \in Nat /\ PrefillKeys(u) \in Seq(Keys)
                /\ Stepped(active[u], Consumed(active[u], PrefillKeys(u), LeftPad(u), Width, eos),
                           promptOf[u])
<1> DEFINE s == active[u]
           n == promptOf[u]
           m == AsMerged(u)
<1>1. n \in Nat \ {0} /\ InStep(s, n)
  BY LiveFacts
<1>2. /\ s.keys \in Seq(Keys) /\ s.pad \in Nat /\ s.pending \in Seq(Nat) /\ s.offset = Len(s.keys)
      /\ Len(s.pending) \in Nat
  <2> HIDE DEF s, n
  <2> QED BY <1>1, InStepFields
<1>3. Stepped(s, Consumed(s, OwnKeys(u), s.pad, Len(s.pending), eos), n)
  <2>1. OwnKeys(u) = Fed(s, s.pad, s.pending)
    BY DEF OwnKeys
  <2> HIDE DEF s, n
  <2> QED BY <1>1, <2>1, FedAlone
<1>4. ASSUME Synchronized
      PROVE  /\ DecodeKeys(u) \in Seq(Keys)
             /\ Stepped(s, Consumed(s, DecodeKeys(u), s.pad, 1, eos), n)
  <2>1. m.keys = s.keys /\ Len(s.pending) = 1
    BY <1>4, CohortKeys DEF Synchronized
  <2>2. DecodeKeys(u) = Fed(m, s.pad, s.pending)
    BY DEF DecodeKeys
  <2> HIDE DEF s, n, m
  <2>3. Stepped(s, Consumed(s, Fed(m, s.pad, s.pending), s.pad, Len(s.pending), eos), n)
    BY <1>1, <2>1, FedAlone
  <2>4. Fed(m, s.pad, s.pending) \in Seq(Keys)
    <3> DEFINE toks == s.pending
               pad == s.pad
    <3>1. m.keys \in Seq(Keys) /\ pad \in Nat /\ toks \in Seq(Nat)
      BY <1>2, <2>1
    <3> HIDE DEF toks, pad
    <3>2. Fed(m, pad, toks) \in Seq(Keys)
      BY <3>1, FedKeys
    <3> QED BY <3>2 DEF toks, pad
  <2> QED BY <2>1, <2>2, <2>3, <2>4
<1>5. ASSUME Fresh
      PROVE  /\ LeftPad(u) \in Nat /\ PrefillKeys(u) \in Seq(Keys)
             /\ Stepped(s, Consumed(s, PrefillKeys(u), LeftPad(u), Width, eos), n)
  <2>1. s.offset = 0 /\ m.keys = s.keys
    BY <1>5, CohortKeys DEF Fresh
  <2>2. Width \in Nat /\ Len(s.pending) <= Width
    BY WidthBounds
  <2>3. /\ LeftPad(u) = Width - Len(s.pending)
        /\ PrefillKeys(u) = Fed(m, Width - Len(s.pending),
                                [i \in 1..Width - Len(s.pending) |-> 0] \o s.pending)
    BY DEF PrefillKeys, LeftPad, Padded
  <2> HIDE DEF s, n, m
  <2>4. m.keys \in Seq(Keys) /\ Len(m.keys) = 0
    BY <1>2, <2>1
  <2> DEFINE width == Width
             pad == width - Len(s.pending)
             toks == [i \in 1..pad |-> 0] \o s.pending
  <2>5. width \in Nat /\ Len(s.pending) <= width
    BY <2>2
  <2> HIDE DEF width
  <2>6. /\ pad \in Nat /\ Fed(m, pad, toks) \in Seq(Keys)
        /\ Stepped(s, Consumed(s, Fed(m, pad, toks), pad, width, eos), n)
    BY <1>1, <2>1, <2>4, <2>5, FedPadded
  <2> QED BY <2>3, <2>6 DEF width
<1> QED BY <1>3, <1>4, <1>5

LEMMA InsertKeeps ==
    ASSUME GeneratorInv, NEW n \in PromptLens, NEW w \in WarmLens, NEW cap \in Caps,
           Insert(n, w, cap)
    PROVE  GeneratorInv' /\ Seam!SeamInsert
<1> DEFINE q == [pending |-> [i \in 1..n |-> w + i], generated |-> 0, cap |-> cap, offset |-> 0,
                 finished |-> FALSE, pad |-> 0,
                 keys |-> [i \in 1..w |-> [tok |-> i, pos |-> i - 1]]]
<1>1. n \in Nat \ {0} /\ cap \in Nat /\ w = 0 /\ n + w = n
  BY GeneratorAssumption
<1>2. InStep(q, n) /\ Accounted(q, <<>>, FALSE)
  <2>1. [i \in 1..w |-> [tok |-> i, pos |-> i - 1]] = <<>>
    BY <1>1
  <2>2. [i \in 1..n |-> w + i] = [i \in 1..n |-> i]
    BY <1>1
  <2>3. q = [pending |-> [i \in 1..n |-> i], generated |-> 0, cap |-> cap, offset |-> 0,
             finished |-> FALSE, keys |-> <<>>, pad |-> 0]
    BY <2>1, <2>2
  <2> HIDE DEF q
  <2> QED BY <1>1, <2>3, Inserted
<1>3. q \in Sequence /\ q.cap = cap
  BY <1>2 DEF InStep
<1>4. /\ ~failed /\ failed' = failed /\ nextUID' = nextUID + 1
      /\ promptOf' = Extended(promptOf, nextUID, n + w)
      /\ reported' = Extended(reported, nextUID, <<>>)
      /\ active' = Extended(active, nextUID, q)
      /\ declared' = declared
  BY DEF Insert, UIDAfter
<1> HIDE DEF q
<1>5. /\ nextUID \in Nat /\ DOMAIN active \subseteq 0..(nextUID - 1)
      /\ \A u \in DOMAIN active : active[u] \in Sequence
      /\ promptOf \in [0..(nextUID - 1) -> Nat \ {0}]
      /\ reported \in [0..(nextUID - 1) -> Seq(Nat)]
      /\ declared \subseteq 0..(nextUID - 1) /\ failed \in BOOLEAN
  BY DEF GeneratorInv, TypeOK
<1>6. /\ (0..(nextUID - 1)) \cup {nextUID} = 0..(nextUID' - 1) /\ nextUID' \in Nat
      /\ nextUID \notin 0..(nextUID - 1)
  BY <1>4, <1>5
<1>7. /\ DOMAIN active' = DOMAIN active \cup {nextUID}
      /\ active'[nextUID] = q /\ \A u \in DOMAIN active : active'[u] = active[u]
  BY <1>4, <1>5, <1>6 DEF Extended
<1>8. /\ promptOf' \in [0..(nextUID' - 1) -> Nat \ {0}] /\ promptOf'[nextUID] = n
      /\ \A u \in 0..(nextUID - 1) : promptOf'[u] = promptOf[u]
      /\ DOMAIN promptOf' = DOMAIN promptOf \cup {nextUID}
  BY <1>1, <1>4, <1>5, <1>6 DEF Extended
<1>9. /\ reported' \in [0..(nextUID' - 1) -> Seq(Nat)] /\ reported'[nextUID] = <<>>
      /\ \A u \in 0..(nextUID - 1) : reported'[u] = reported[u]
      /\ DOMAIN reported' = DOMAIN reported \cup {nextUID}
  <2>1. <<>> \in Seq(Nat)
    OBVIOUS
  <2> QED BY <1>4, <1>5, <1>6, <2>1 DEF Extended
<1>10. TypeOK'
  <2>1. DOMAIN active' \subseteq 0..(nextUID' - 1) /\ declared' \subseteq 0..(nextUID' - 1)
    BY <1>4, <1>5, <1>6, <1>7
  <2>2. \A u \in DOMAIN active' : active'[u] \in Sequence
    BY <1>3, <1>5, <1>7
  <2>3. failed' \in BOOLEAN
    BY <1>4, <1>5
  <2> QED BY <1>6, <1>8, <1>9, <2>1, <2>2, <2>3 DEF TypeOK
<1>11. CapKept'
  <2>1. Len(<<>>) = 0 /\ nextUID \notin DOMAIN active
    BY <1>5, <1>6
  <2>2. \A u \in DOMAIN active : reported'[u] = reported[u]
    BY <1>5, <1>9
  <2>3. CapKept
    BY DEF GeneratorInv
  <2>4. q.cap > 0 => Len(<<>>) <= q.cap /\ Len(<<>>) # q.cap
    BY <1>1, <1>3, <2>1
  <2> QED BY <1>4, <1>7, <1>9, <2>2, <2>3, <2>4 DEF CapKept
<1>12. ASSUME NEW u \in DOMAIN active'
       PROVE  InStep(active'[u], promptOf'[u]) /\ Accounted(active'[u], reported'[u], u \in declared')
  <2>1. CASE u = nextUID
    <3>1. nextUID \notin declared
      BY <1>5, <1>6
    <3> QED BY <1>2, <1>4, <1>7, <1>8, <1>9, <2>1, <3>1 DEF Accounted
  <2>2. CASE u # nextUID
    <3>1. u \in DOMAIN active /\ u \in 0..(nextUID - 1)
      BY <1>5, <1>7, <2>2
    <3>2. InStep(active[u], promptOf[u]) /\ Accounted(active[u], reported[u], u \in declared)
      BY <1>4, <3>1 DEF GeneratorInv
    <3> QED BY <1>4, <1>7, <1>8, <1>9, <3>1, <3>2
  <2> QED BY <2>1, <2>2
<1>13. GeneratorInv'
  BY <1>10, <1>11, <1>12 DEF GeneratorInv
<1>14. Seam!SeamInsert
  <2>1. DOMAIN promptOf = 0..(nextUID - 1) /\ DOMAIN reported = 0..(nextUID - 1)
    BY <1>5
  <2>2. promptOf'[nextUID] > 0
    BY <1>1, <1>8
  <2>3. /\ DOMAIN promptOf' = DOMAIN promptOf \cup {nextUID}
        /\ \A u \in DOMAIN promptOf : promptOf'[u] = promptOf[u]
    BY <1>8, <2>1
  <2>4. /\ DOMAIN reported' = DOMAIN reported \cup {nextUID}
        /\ \A u \in DOMAIN reported : reported'[u] = reported[u]
    BY <1>9, <2>1
  <2> QED BY <1>4, <1>7, <1>9, <2>2, <2>3, <2>4 DEF Seam!SeamInsert, Seam!Longer
<1> QED BY <1>13, <1>14

\* What the seam sees of the generator.
Seen == <<nextUID, promptOf, DOMAIN active, reported, declared>>

\* Whatever of the sequences is stepped when a step fails, what was said stays.
LEMMA FailLeaves ==
    ASSUME GeneratorInv, NEW next, Fail(next), DOMAIN next = DOMAIN active,
           \A u \in DOMAIN active : next[u] \in Sequence /\ next[u].cap = active[u].cap
    PROVE  GeneratorInv' /\ Seen' = Seen
<1>1. /\ active' = next /\ failed' = TRUE
      /\ UNCHANGED <<nextUID, promptOf, reported, declared>>
  BY DEF Fail
<1>2. TypeOK'
  BY <1>1 DEF GeneratorInv, TypeOK
<1>3. CapKept'
  BY <1>1 DEF GeneratorInv, CapKept
<1> QED BY <1>1, <1>2, <1>3 DEF GeneratorInv, Seen

LEMMA FailTogetherKeeps == GeneratorInv /\ FailTogether => GeneratorInv' /\ Seen' = Seen
<1> SUFFICES ASSUME GeneratorInv, FailTogether PROVE GeneratorInv' /\ Seen' = Seen
  OBVIOUS
<1>1. ~failed /\ (Synchronized \/ Fresh) /\ \A u \in DOMAIN active : active[u] \in Sequence
  BY DEF FailTogether, GeneratorInv, TypeOK
<1>2. CASE Fail(active)
  BY <1>1, <1>2, FailLeaves
<1>3. ASSUME NEW next,
             next = [u \in DOMAIN active |->
               IF u \notin Live THEN active[u]
               ELSE IF Synchronized THEN [active[u] EXCEPT !.keys = DecodeKeys(u)]
               ELSE [active[u] EXCEPT !.keys = PrefillKeys(u), !.pad = LeftPad(u)]],
             Fail(next)
      PROVE  GeneratorInv' /\ Seen' = Seen
  <2>1. ASSUME NEW u \in Live
        PROVE  /\ Synchronized => DecodeKeys(u) \in Seq(Keys)
               /\ Fresh => PrefillKeys(u) \in Seq(Keys) /\ LeftPad(u) \in Nat
    BY <1>1, PathsStep
  <2>2. ASSUME NEW u \in DOMAIN active
        PROVE  next[u] \in Sequence /\ next[u].cap = active[u].cap
    <3>1. CASE u \notin Live
      BY <1>1, <1>3, <3>1
    <3>2. CASE u \in Live /\ Synchronized
      <4>1. next[u] = [active[u] EXCEPT !.keys = DecodeKeys(u)]
        BY <1>3, <3>2
      <4> QED BY <1>1, <2>1, <3>2, <4>1 DEF Sequence
    <3>3. CASE u \in Live /\ ~Synchronized
      <4>1. next[u] = [active[u] EXCEPT !.keys = PrefillKeys(u), !.pad = LeftPad(u)]
        BY <1>3, <3>3
      <4> QED BY <1>1, <2>1, <3>3, <4>1 DEF Sequence
    <3> QED BY <3>1, <3>2, <3>3
  <2>3. DOMAIN next = DOMAIN active
    BY <1>3
  <2> QED BY <1>3, <2>2, <2>3, FailLeaves
<1> QED BY <1>2, <1>3 DEF FailTogether

LEMMA FailEachKeeps == GeneratorInv /\ FailEach => GeneratorInv' /\ Seen' = Seen
<1> SUFFICES ASSUME GeneratorInv, FailEach PROVE GeneratorInv' /\ Seen' = Seen
  OBVIOUS
<1>1. ~failed /\ \A u \in DOMAIN active : active[u] \in Sequence
  BY DEF FailEach, GeneratorInv, TypeOK
<1>2. PICK k \in Live, E \in Ends, fed \in BOOLEAN :
        Fail([u \in DOMAIN active |->
           IF u \in Live /\ u < k
             THEN Consumed(active[u], OwnKeys(u), active[u].pad,
                           Len(active[u].pending), u \in E)
           ELSE IF u = k /\ fed THEN [active[u] EXCEPT !.keys = OwnKeys(u)]
           ELSE active[u]])
  BY DEF FailEach
<1> DEFINE next == [u \in DOMAIN active |->
           IF u \in Live /\ u < k
             THEN Consumed(active[u], OwnKeys(u), active[u].pad,
                           Len(active[u].pending), u \in E)
           ELSE IF u = k /\ fed THEN [active[u] EXCEPT !.keys = OwnKeys(u)]
           ELSE active[u]]
<1>3. ASSUME NEW u \in DOMAIN active
      PROVE  next[u] \in Sequence /\ next[u].cap = active[u].cap
  <2>1. CASE u \in Live /\ u < k
    <3> DEFINE c == Consumed(active[u], OwnKeys(u), active[u].pad, Len(active[u].pending), u \in E)
    <3>1. (u \in E) \in BOOLEAN
      OBVIOUS
    <3>2. Stepped(active[u], c, promptOf[u])
      BY <1>1, <2>1, <3>1, PathsStep
    <3>3. next[u] = c
      BY <2>1
    <3> QED BY <3>2, <3>3 DEF Stepped, InStep
  <2>2. CASE u = k /\ fed /\ ~(u \in Live /\ u < k)
    <3>1. next[u] = [active[u] EXCEPT !.keys = OwnKeys(u)]
      BY <2>2
    <3>2. OwnKeys(u) \in Seq(Keys)
      <4> DEFINE s == active[u]
                 toks == s.pending
                 pad == s.pad
      <4>1. s.keys \in Seq(Keys) /\ pad \in Nat /\ toks \in Seq(Nat)
        BY <1>1 DEF Sequence
      <4>2. OwnKeys(u) = Fed(s, pad, toks)
        BY DEF OwnKeys
      <4> HIDE DEF s, toks, pad
      <4> QED BY <4>1, <4>2, FedKeys
    <3> QED BY <1>1, <3>1, <3>2 DEF Sequence
  <2>3. CASE ~(u \in Live /\ u < k) /\ ~(u = k /\ fed)
    BY <1>1, <2>3
  <2> QED BY <2>1, <2>2, <2>3
<1>4. DOMAIN next = DOMAIN active /\ Fail(next)
  BY <1>2
<1> HIDE DEF next
<1> QED BY <1>3, <1>4, FailLeaves

LEMMA RemoveKeeps ==
    ASSUME GeneratorInv, NEW u \in DOMAIN active, RemoveSeq(u)
    PROVE  GeneratorInv' /\ Seam!SeamRemove
<1>1. /\ DOMAIN active' = DOMAIN active \ {u}
      /\ \A v \in DOMAIN active' : active'[v] = active[v]
      /\ failed' = (failed /\ DOMAIN active # {u})
      /\ UNCHANGED <<nextUID, promptOf, reported, declared>>
  BY DEF RemoveSeq
<1>2. TypeOK' /\ CapKept'
  <2>1. failed' \in BOOLEAN
    BY <1>1
  <2> QED BY <1>1, <2>1 DEF GeneratorInv, TypeOK, CapKept
<1>3. ASSUME ~failed', NEW v \in DOMAIN active'
      PROVE  InStep(active'[v], promptOf'[v]) /\ Accounted(active'[v], reported'[v], v \in declared')
  <2>1. ~failed
    BY <1>1, <1>3
  <2> QED BY <1>1, <2>1 DEF GeneratorInv
<1>4. Seam!SeamRemove
  BY <1>1 DEF Seam!SeamRemove
<1> QED BY <1>2, <1>3, <1>4 DEF GeneratorInv

-----------------------------------------------------------------------------
\* The invariant holds at the start, and every step keeps it and is one of the seam or
\* one that the seam does not see.
LEMMA GeneratorStarts == GeneratorInit => GeneratorInv /\ Seam!SeamInit
<1> SUFFICES ASSUME GeneratorInit PROVE GeneratorInv /\ Seam!SeamInit
  OBVIOUS
<1>1. DOMAIN active = {} /\ 0..(nextUID - 1) = {}
  BY DEF GeneratorInit
<1>2. TypeOK
  BY <1>1 DEF GeneratorInit, TypeOK
<1> QED BY <1>1, <1>2 DEF GeneratorInit, GeneratorInv, CapKept, Seam!SeamInit

LEMMA GeneratorSteps ==
    GeneratorInv /\ [GeneratorNext]_generatorVars
      => GeneratorInv' /\ [Seam!SeamInsert \/ Seam!SeamStep \/ Seam!SeamRemove]_Seen
<1> SUFFICES ASSUME GeneratorInv, [GeneratorNext]_generatorVars
             PROVE  /\ GeneratorInv'
                    /\ Seam!SeamInsert \/ Seam!SeamStep \/ Seam!SeamRemove \/ Seen' = Seen
  OBVIOUS
<1>1. ASSUME NEW n \in PromptLens, NEW w \in WarmLens, NEW cap \in Caps, Insert(n, w, cap)
      PROVE  GeneratorInv' /\ Seam!SeamInsert
  BY <1>1, InsertKeeps
<1>2. CASE DecodeTogether
  <2>1. PICK E \in Ends : Report([u \in Live |->
           Consumed(active[u], DecodeKeys(u), active[u].pad, 1, u \in E)])
    BY <1>2 DEF DecodeTogether
  <2> DEFINE next == [u \in Live |-> Consumed(active[u], DecodeKeys(u), active[u].pad, 1, u \in E)]
  <2>2. ASSUME NEW u \in Live PROVE Stepped(active[u], next[u], promptOf[u])
    <3>1. (u \in E) \in BOOLEAN
      OBVIOUS
    <3> QED BY <1>2, <3>1, PathsStep DEF DecodeTogether
  <2>3. ~failed /\ Report(next)
    BY <1>2, <2>1 DEF DecodeTogether
  <2> HIDE DEF next
  <2> QED BY <2>2, <2>3, ReportKeeps
<1>3. CASE PrefillTogether
  <2>1. PICK E \in Ends : Report([u \in Live |->
           Consumed(active[u], PrefillKeys(u), LeftPad(u), Width, u \in E)])
    BY <1>3 DEF PrefillTogether
  <2> DEFINE next == [u \in Live |-> Consumed(active[u], PrefillKeys(u), LeftPad(u), Width, u \in E)]
  <2>2. ASSUME NEW u \in Live PROVE Stepped(active[u], next[u], promptOf[u])
    <3>1. (u \in E) \in BOOLEAN
      OBVIOUS
    <3> QED BY <1>3, <3>1, PathsStep DEF PrefillTogether
  <2>3. ~failed /\ Report(next)
    BY <1>3, <2>1 DEF PrefillTogether
  <2> HIDE DEF next
  <2> QED BY <2>2, <2>3, ReportKeeps
<1>4. CASE StepEach
  <2>1. PICK E \in Ends : Report([u \in Live |->
           Consumed(active[u], OwnKeys(u), active[u].pad, Len(active[u].pending), u \in E)])
    BY <1>4 DEF StepEach
  <2> DEFINE next == [u \in Live |->
           Consumed(active[u], OwnKeys(u), active[u].pad, Len(active[u].pending), u \in E)]
  <2>2. ASSUME NEW u \in Live PROVE Stepped(active[u], next[u], promptOf[u])
    <3>1. (u \in E) \in BOOLEAN
      OBVIOUS
    <3> QED BY <1>4, <3>1, PathsStep DEF StepEach
  <2>3. ~failed /\ Report(next)
    BY <1>4, <2>1 DEF StepEach
  <2> HIDE DEF next
  <2> QED BY <2>2, <2>3, ReportKeeps
<1>5. CASE FailTogether \/ FailEach
  BY <1>5, FailTogetherKeeps, FailEachKeeps
<1>6. ASSUME NEW u \in DOMAIN active, RemoveSeq(u) PROVE GeneratorInv' /\ Seam!SeamRemove
  BY <1>6, RemoveKeeps
<1>7. CASE UNCHANGED generatorVars
  BY <1>7 DEF generatorVars, GeneratorInv, TypeOK, CapKept, Seen
<1> QED BY <1>1, <1>2, <1>3, <1>4, <1>5, <1>6, <1>7 DEF GeneratorNext

\* Whatever the cohorts, the lengths of the prompts and the failures: the generator keeps
\* its offsets, attends to what it should, merges only what fits together and keeps the caps
\* (compute/batch_generator.go Step, tryBatchedStep, tryBatchedPrefill, consume).
THEOREM GeneratorIsSound == GeneratorSpec => []GeneratorSound
<1>1. ASSUME GeneratorInv PROVE GeneratorSound
  <2>1. OffsetIsCacheLength
    BY <1>1 DEF GeneratorInv, InStep, OffsetIsCacheLength
  <2>2. ASSUME ~failed, NEW u \in DOMAIN active
        PROVE  LET s   == active[u]
                   fed == promptOf[u] + s.generated - Len(s.pending)
               IN  /\ Visible(s.keys, s.pad) = [i \in 1..fed |-> [tok |-> i, pos |-> i - 1]]
                   /\ s.pending = [i \in 1..Len(s.pending) |-> fed + i]
    <3> DEFINE s == active[u]
               n == promptOf[u]
               f == FedUpTo(s, n)
    <3>1. InStep(s, n) /\ n \in Nat \ {0}
      BY <1>1, <2>2 DEF GeneratorInv, TypeOK
    <3>2. f = promptOf[u] + s.generated - Len(s.pending)
      BY DEF FedUpTo
    <3> HIDE DEF s, n
    <3>3. /\ s.keys \in Seq(Keys) /\ s.pad \in Nat /\ f \in Nat /\ Len(s.keys) = s.pad + f
          /\ s.pending \in Seq(Nat)
      BY <3>1, InStepFields
    <3>4. /\ \A i \in 1..f : s.keys[s.pad + i] = [tok |-> i, pos |-> i - 1]
          /\ \A i \in 1..Len(s.pending) : s.pending[i] = f + i
      BY <3>1 DEF InStep
    <3> HIDE DEF f
    <3>5. s.pending = [i \in 1..Len(s.pending) |-> f + i]
      <4> DEFINE q == s.pending
      <4>1. q \in Seq(Nat) /\ \A i \in 1..Len(q) : q[i] = f + i
        BY <3>3, <3>4
      <4>2. q = [i \in 1..Len(q) |-> q[i]]
        BY <4>1
      <4> HIDE DEF q
      <4>3. q = [i \in 1..Len(q) |-> f + i]
        BY <4>1, <4>2
      <4> QED BY <4>3 DEF q
    <3>6. Visible(s.keys, s.pad) = [i \in 1..f |-> [tok |-> i, pos |-> i - 1]]
      <4> DEFINE a == s.keys
                 p == s.pad
                 v == SubSeq(a, p + 1, Len(a))
      <4>1. a \in Seq(Keys) /\ p \in Nat /\ Len(a) = p + f /\ f \in Nat
        BY <3>3
      <4>2. \A i \in 1..f : a[p + i] = [tok |-> i, pos |-> i - 1]
        BY <3>4
      <4> HIDE DEF a, p
      <4>3. v = [i \in 1..f |-> a[p + i]]
        <5>1. Len(a) \in Nat /\ Len(a) - (p + 1) + 1 = f
          BY <4>1
        <5>2. v \in Seq(Keys) /\ Len(v) = f
          BY <4>1, <5>1
        <5>3. \A i \in 1..f : v[i] = a[p + i]
          BY <4>1, <5>1
        <5>4. v = [i \in 1..Len(v) |-> v[i]]
          BY <5>2
        <5> HIDE DEF v
        <5> QED BY <5>2, <5>3, <5>4
      <4>4. v = [i \in 1..f |-> [tok |-> i, pos |-> i - 1]]
        BY <4>2, <4>3
      <4> QED BY <4>4 DEF Visible, a, p
    <3> QED BY <3>2, <3>5, <3>6 DEF s
  <2>3. ContextExact
    BY <2>2 DEF ContextExact
  <2>4. CohortsMerge
    <3> SUFFICES ASSUME ~failed PROVE
                   /\ Synchronized =>
                        \A u, v \in Live : Len(active[u].keys) = Len(active[v].keys)
                   /\ ~Synchronized /\ Fresh => \A u \in Live : active[u].keys = <<>>
      BY DEF CohortsMerge
    <3>1. \A u \in Live : /\ active[u].offset = Len(active[u].keys)
                          /\ active[u].keys \in Seq(Keys)
      BY <1>1, LiveFacts DEF InStep, Sequence
    <3> QED BY <3>1 DEF Synchronized, Fresh
  <2> QED BY <1>1, <2>1, <2>3, <2>4 DEF GeneratorSound, GeneratorInv
<1>2. GeneratorInit => GeneratorInv
  BY GeneratorStarts
<1>3. GeneratorInv /\ [GeneratorNext]_generatorVars => GeneratorInv'
  BY GeneratorSteps
<1> QED BY <1>1, <1>2, <1>3, PTL DEF GeneratorSpec

\* Stepping sequences together is stepping each alone: the generator implements what
\* pipeline.DecodeStrategy promises the scheduler.
THEOREM GeneratorImplementsSeam == GeneratorSpec => ImplementsSeam
<1>1. GeneratorInit => GeneratorInv /\ Seam!SeamInit
  BY GeneratorStarts
<1>2. GeneratorInv /\ [GeneratorNext]_generatorVars
        => GeneratorInv' /\ [Seam!SeamInsert \/ Seam!SeamStep \/ Seam!SeamRemove]_(Seam!seamVars)
  BY GeneratorSteps DEF Seen, Seam!seamVars
<1> QED BY <1>1, <1>2, PTL DEF GeneratorSpec, ImplementsSeam, Seam!SeamSpec
=============================================================================
