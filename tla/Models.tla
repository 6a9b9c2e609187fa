--------------------------------- MODULE Models --------------------------------
(***************************************************************************)
(* A checkpoint becomes a model and the model serves two sequences         *)
(* (compute/models/registry.go, serve.go and adapter.go): each prompt is   *)
(* run on its own or both are run in one left-padded block, and each       *)
(* sequence is decoded on its own or both in one step, whenever their      *)
(* caches are of the same length.  This is what the batch generator asks   *)
(* of the adapter; what is left open here is only when it asks for it.     *)
(*                                                                         *)
(* The numbers are abstracted to what they were computed from (Tensors).   *)
(***************************************************************************)
EXTENDS Tensors

CONSTANTS
    Cases,      \* checkpoints (a family, a config, what is stored) with pairs of prompts for them
    NextTokens, \* the tokens that sampling may return
    MaxLen,     \* the bound on the length of a sequence
    SortFrom    \* the number of slots from which switchGLU sorts

KV  == INSTANCE Decoder
Ll  == INSTANCE Llama
Q3  == INSTANCE Qwen3
Gl  == INSTANCE Glm4
Phi == INSTANCE Phi4
Mi  == INSTANCE Ministral3
Ge  == INSTANCE Gemma4Text
Ds  == INSTANCE DeepseekV3
Qn  == INSTANCE Qwen3Next

\* modelBuilders: the families that BuildModel knows.
RegisteredModelTypes ==
    {"llama", "qwen3", "glm4", "phi3", "ministral3", "gemma4_text", "deepseek_v3", "qwen3_next"}

Accepts(family, config) ==
    CASE family = "llama"       -> Ll!Accepts(config)
      [] family = "qwen3"       -> Q3!Accepts(config)
      [] family = "glm4"        -> Gl!Accepts(config)
      [] family = "phi3"        -> Phi!Accepts(config)
      [] family = "ministral3"  -> Mi!Accepts(config)
      [] family = "gemma4_text" -> Ge!Accepts(config)
      [] family = "deepseek_v3" -> Ds!Accepts(config)
      [] family = "qwen3_next"  -> Qn!Accepts(config)

Parse(family, config) ==
    CASE family = "llama"       -> Ll!Parse(config)
      [] family = "qwen3"       -> Q3!Parse(config)
      [] family = "glm4"        -> Gl!Parse(config)
      [] family = "phi3"        -> Phi!Parse(config)
      [] family = "ministral3"  -> Mi!Parse(config)
      [] family = "gemma4_text" -> Ge!Parse(config)
      [] family = "deepseek_v3" -> Ds!Parse(config)
      [] family = "qwen3_next"  -> Qn!Parse(config)

\* The arrays of a whole checkpoint, in their shapes.
Whole(family, a, raw) ==
    CASE family = "llama"       -> Ll!Checkpoint(Ll!WeightNames(a), Ll!Dims(a), Ll!Linears, a.quant)
      [] family = "qwen3"       -> Q3!Checkpoint(Q3!WeightNames(a), Q3!Dims(a), Q3!Linears, a.quant)
      [] family = "glm4"        -> Gl!Checkpoint(Gl!WeightNames(a), Gl!Dims(a), Gl!Linears, a.quant)
      [] family = "phi3"        -> Phi!Checkpoint(Phi!WeightNames(a), Phi!Dims(a), Phi!Linears, a.quant)
      [] family = "ministral3"  -> Mi!Checkpoint(Mi!WeightNames(a), Mi!Dims(a), Mi!Linears, a.quant)
      [] family = "gemma4_text" -> [n \in Ge!WeightNames(a) |-> Zeros(Ge!ShapeIn(Ge!Dims(a, IF n[1] = 0 THEN 1 ELSE n[1]), n))]
      [] family = "deepseek_v3" -> [n \in IF raw THEN Ds!RawNames(a) ELSE Ds!WeightNames(a) |-> Zeros(Ds!ShapeOf(a, n))]
      [] family = "qwen3_next"  -> Qn!Checkpoint(Qn!WeightNames(a), Qn!Dims(a), Qn!Linears(a), a.quant)

\* What is stored of it: not what is missing, and what is stray as well.
Stored(whole, missing, stray) ==
    [n \in (DOMAIN whole \ missing) \cup stray |-> IF n \in DOMAIN whole THEN whole[n] ELSE Zeros(<<1>>)]

Sanitize(family, a, w) ==
    CASE family = "llama"       -> Ll!Sanitize(a, w)
      [] family = "qwen3"       -> Q3!Sanitize(a, w)
      [] family = "glm4"        -> Gl!Sanitize(a, w)
      [] family = "phi3"        -> Phi!Sanitize(a, w)
      [] family = "ministral3"  -> Mi!Sanitize(a, w)
      [] family = "gemma4_text" -> Ge!Sanitize(a, w)
      [] family = "deepseek_v3" -> Ds!Sanitize(a, w)
      [] family = "qwen3_next"  -> Qn!Sanitize(a, w)

Builds(family, a, w) ==
    CASE family = "llama"       -> Ll!Builds(a, w)
      [] family = "qwen3"       -> Q3!Builds(a, w)
      [] family = "glm4"        -> Gl!Builds(a, w)
      [] family = "phi3"        -> Phi!Builds(a, w)
      [] family = "ministral3"  -> Mi!Builds(a, w)
      [] family = "gemma4_text" -> Ge!Builds(a, w)
      [] family = "deepseek_v3" -> Ds!Builds(a, w)
      [] family = "qwen3_next"  -> Qn!Builds(a, w)

NoModel == [args |-> <<>>, weights |-> <<>>]

\* A model holds its arguments and its weights.
Model(family, a, w) ==
    IF Builds(family, a, w) THEN [args |-> a, weights |-> IF family = "deepseek_v3" THEN Ds!Patched(a, w) ELSE w]
    ELSE NoModel

Sanitized(family, a, stored) == Model(family, a, Sanitize(family, a, stored))
Loaded(c, a) == Sanitized(c.family, a, Stored(Whole(c.family, a, c.raw), c.missing, c.stray))

\* BuildModel: an unknown family, a refused config or a missing weight is an
\* error.
BuildModel(c) ==
    IF c.family \in RegisteredModelTypes /\ Accepts(c.family, c.config) THEN Loaded(c, Parse(c.family, c.config))
    ELSE NoModel

\* The number of caches that the builder gives the adapter.
NumLayers(family, a) == IF family = "gemma4_text" THEN Ge!NumLayers(a) ELSE a.layers

forwardBL(family, m, tokens, batch, L, caches) ==
    CASE family = "llama"       -> Ll!forwardBL(m, tokens, batch, L, caches)
      [] family = "qwen3"       -> Q3!forwardBL(m, tokens, batch, L, caches)
      [] family = "glm4"        -> Gl!forwardBL(m, tokens, batch, L, caches)
      [] family = "phi3"        -> Phi!forwardBL(m, tokens, batch, L, caches)
      [] family = "ministral3"  -> Mi!forwardBL(m, tokens, batch, L, caches)
      [] family = "gemma4_text" -> Ge!forwardBL(m, tokens, batch, L, caches)
      [] family = "deepseek_v3" -> Ds!forwardBL(m, tokens, batch, L, caches)
      [] family = "qwen3_next"  -> Qn!forwardBL(m, tokens, batch, L, caches)

-----------------------------------------------------------------------------
VARIABLES
    case,       \* the checkpoint
    stage,      \* "stored", "refused" or "serving"
    model,      \* the model that was built of it
    prompts,    \* the prompt of each sequence
    seen,       \* the tokens that each sequence was run on
    caches,     \* its caches
    logits      \* its last logits

vars == <<case, stage, model, prompts, seen, caches, logits>>

Pair == 1..2

Init ==
    /\ case \in Cases /\ prompts \in case.prompts
    /\ stage = "stored" /\ model = NoModel
    /\ seen = [i \in Pair |-> <<>>] /\ logits = [i \in Pair |-> Nil]
    /\ caches = [i \in Pair |-> <<>>]

\* BuildModel, and NewCache for each sequence.
Load ==
    /\ stage = "stored"
    /\ model' = BuildModel(case)
    /\ stage' = IF model' = NoModel THEN "refused" ELSE "serving"
    /\ caches' = [i \in Pair |-> IF model' = NoModel THEN <<>> ELSE KV!NewCache(NumLayers(case.family, model'.args))]
    /\ UNCHANGED <<case, prompts, seen, logits>>

F(tokens, batch, L, cs) == forwardBL(case.family, model, tokens, batch, L, cs)

\* Sequence i was run, or all were, and r came out of it.
Ran(i, tokens, r) ==
    /\ logits' = [logits EXCEPT ![i] = r.logits]
    /\ caches' = [caches EXCEPT ![i] = r.caches]
    /\ seen' = [seen EXCEPT ![i] = @ \o tokens]
    /\ UNCHANGED <<case, stage, model, prompts>>

AllRan(tokens, r) ==
    /\ logits' = r.logits
    /\ caches' = r.caches
    /\ seen' = [i \in Pair |-> seen[i] \o tokens[i]]
    /\ UNCHANGED <<case, stage, model, prompts>>

Works(i) == stage = "serving" /\ ~Failed(logits[i])

\* The adapter's Forward: one sequence.
Forward(tokens, cs) == KV!OfOne(F(tokens, 1, Len(tokens), cs))

Prefill(i) ==
    /\ Works(i) /\ seen[i] = <<>>
    /\ Ran(i, prompts[i], Forward(prompts[i], caches[i]))

\* The adapter's BatchPrefill: prompts of any length in one block.
Prefilled(c) ==
    IF c.width = 0 THEN KV!Failing(caches)
    ELSE KV!OfPrompt(F(c.padded, 2, c.width, KV!WithPad(KV!mergeCachesAlongBatch(caches), c.leftPad)), caches)

BatchPrefill ==
    /\ \A i \in Pair : Works(i) /\ seen[i] = <<>>
    /\ AllRan(prompts, Prefilled(KV!leftPadCohort(prompts, KV!Longest(prompts))))

Decodes(i) == Works(i) /\ seen[i] # <<>> /\ Len(seen[i]) < MaxLen

Decode(i) ==
    /\ Decodes(i)
    /\ \E t \in NextTokens : Ran(i, <<t>>, Forward(<<t>>, caches[i]))

\* The adapter's BatchDecode: one token each.  The generator batches the
\* sequences whose caches have one length.
BatchDecode ==
    /\ \A i \in Pair : Decodes(i)
    /\ caches[1][1].offset = caches[2][1].offset
    /\ \E t, u \in NextTokens :
         AllRan(<<<<t>>, <<u>>>>, KV!OfStep(F(<<t, u>>, 2, 1, KV!mergeCachesAlongBatch(caches)), caches))

Next == Load \/ BatchPrefill \/ BatchDecode \/ \E i \in Pair : Prefill(i) \/ Decode(i)

Spec == Init /\ [][Next]_vars

-----------------------------------------------------------------------------
(* Properties.                                                             *)

HasRun(i) == seen[i] # <<>>

\* A model that was built never fails on its tokens: what cannot run is
\* refused when it is loaded (BuildModel, and the forwards of all families).
RefusedAtLoad == \A i \in Pair : ~Failed(logits[i])

\* What a checkpoint lacks is found when it is loaded, and what it has too
\* much is in nobody's way (Sanitize and the builders).
LoadsWhatIsComplete == stage # "stored" => (stage = "serving" <=> case.missing = {})

\* All layers of a sequence that hold anything, the first one among them, hold
\* the same number of steps: its tokens and the padding in front of them,
\* whichever of them keep keys and whichever keep a state (KVTensorCache, and
\* the merging and splitting of caches).
Holds(c) == c.keys # Nil \/ c.conv # Nil
PadOf(c) == IF KV!Padded(c) THEN c.leftPad[1] ELSE 0

LayersInStep ==
    \A i \in Pair : HasRun(i) =>
        /\ Holds(caches[i][1])
        /\ \A l \in DOMAIN caches[i] : Holds(caches[i][l]) =>
             LET c == caches[i][l]
             IN /\ c.offset = Len(seen[i]) + PadOf(c)
                /\ c.leftPad = caches[i][1].leftPad
                /\ c.keys # Nil => Dim(c.keys, 0) = 1 /\ Dim(c.keys, 2) = c.offset /\ Dim(c.values, 2) = c.offset

\* The logits that a run gives a sequence are those of the model that is alone
\* with it and reads it at once, however it was padded, batched and decoded
\* (the adapter, the masks, the rotations and the state of the mixers).
RowsAlone ==
    [][\A i \in Pair : seen'[i] # seen[i] =>
         logits'[i] = Forward(seen'[i], KV!NewCache(Len(caches[i]))).logits]_vars

-----------------------------------------------------------------------------
(* What attention over a sequence computes, without caches, masks or heads:*)
(* after layer l the token at t was computed from itself and from all that *)
(* the tokens s in sight were computed from, at their distance t - s.      *)

Dense == {"llama", "qwen3", "glm4", "phi3", "ministral3", "gemma4_text"}

Sight(a, l) == IF case.family = "gemma4_text" /\ Ge!IsSliding(a, l) THEN a.window ELSE MaxLen

\* The layer that the keys of layer l come from: the last one of its kind that
\* has its own.
Source(a, l) ==
    LET own == 1..Ge!NumLayers(a) - a.shared
    IN IF case.family # "gemma4_text" \/ l \in own THEN l
       ELSE CHOOSE o \in own : /\ a.layerTypes[o] = a.layerTypes[l]
                               /\ \A p \in own : p > o => a.layerTypes[p] # a.layerTypes[l]

\* What the query at t is multiplied by.
QueryScale(a, t) == IF case.family = "ministral3" THEN Mi!ScaleAt(a, t - 1).a ELSE {}

RECURSIVE Computed(_, _, _, _)
Computed(a, tokens, l, t) ==
    IF l = 0 THEN {<<tokens[t]>>}
    ELSE Computed(a, tokens, l - 1, t) \cup QueryScale(a, t)
         \cup UNION {{Append(b, {t - s}) : b \in Computed(a, tokens, Source(a, l) - 1, s)} :
                     s \in {s \in 1..t : t - s < Sight(a, l)}}

\* The logits of a dense family are computed from the tokens of their own
\* sequence, each at its distance and no further away than the layer sees
\* (rotation, causal and sliding masks, shared keys).
SeesItsTokens ==
    case.family \in Dense =>
        \A i \in Pair : HasRun(i) =>
            Atoms({logits[i].el[n] : n \in DOMAIN logits[i].el})
              = Computed(model.args, seen[i], Len(caches[i]), Len(seen[i]))
=============================================================================
