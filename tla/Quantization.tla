----------------------------- MODULE Quantization -----------------------------
(***************************************************************************)
(* How many bits the universal quantization gives each tensor (quant/oq.go), *)
(* the estimate of what that amounts to, the keys under which a stored      *)
(* layer's bits are found again (quant/quantkeys.go), and the name of the   *)
(* result (quant/resolve_output_name.go).  The decisions look for marks in  *)
(* a tensor's name and path: those that they find are the tensor's data.    *)
(***************************************************************************)
EXTENDS Integers, Sequences, FiniteSets, FiniteSetsExt

CONSTANTS
    Tensors,    \* [name, path: [has, ends], layer, shape: [dims, rows, last]]
    Models,     \* the config.json of models, with what the planner adds to it
    Levels,     \* the oQ levels, in halves: 3.5 is 7
    GroupSize,  \* the group size of the caller
    Estimates,  \* [base, group, mode, overrides]: what the bits are estimated from
    Weights,    \* the tensors that it is asked of
    LayerNames, \* the names of layers, without the prefix
    StoredKeys,     \* the overrides per layer of stored models
    Pieces      \* the names of models: sequences of pieces with "-" between them

\* (A key of a config that is not there is not in the domain.)
IsConfig(m) ==
    /\ DOMAIN m = {"top", "text", "quantization", "nonQuantizable", "boost", "budget",
                   "sensitivity"}
    /\ m.top \in [DOMAIN m.top -> Nat] /\ m.text \in [DOMAIN m.text -> Nat]
    /\ m.sensitivity \in [DOMAIN m.sensitivity -> Nat]
    /\ \A t \in DOMAIN m.boost : "bits" \in DOMAIN m.boost[t] => m.boost[t]["bits"] \in Nat
\* The group sizes of MLX are 32, 64 and 128, and it has at most 8 bits.
IsEstimate(e) ==
    /\ e.base \in 0..8 /\ e.group \in Nat /\ e.group >= 32
    /\ \A t \in DOMAIN e.overrides :
          LET o == e.overrides[t] IN
          /\ "bits" \in DOMAIN o => o["bits"] \in 0..8
          /\ "group_size" \in DOMAIN o => o["group_size"] \in Nat /\ o["group_size"] >= 32
ASSUME QuantAssumption ==
    /\ Levels \subseteq {4, 6, 7, 8, 10, 12, 16} /\ Weights \subseteq Tensors
    /\ \A t \in Tensors : t.layer \in Int /\ t.shape \in [dims : Nat, rows : Nat, last : Nat]
    /\ IsFiniteSet(Weights) /\ \A e \in Estimates : IsEstimate(e)
    /\ \A m \in Models : IsConfig(m)
    /\ \A name \in Pieces : name # <<>> /\ name \in Seq({name[i] : i \in DOMAIN name})

VARIABLES
    model,      \* the config, and how the planner left it
    tensor,     \* the tensor that is asked about
    answers,    \* history: GetPredicateBits of the tensor, for the levels asked so far
    estimate,   \* EstimateEffectiveBPW in its loop: [of, todo, bits, params]
    keys,       \* a stored model's overrides: [bare, prefixed], each from names to bits
    outputName  \* the name of the model, quantized over and over

quantVars == <<model, tensor, answers, estimate, keys, outputName>>

Bears(marks, any)  == marks.has \cap any # {}
EndsIn(marks, any) == marks.ends \cap any # {}

Greater(a, b) == IF a < b THEN b ELSE a

-----------------------------------------------------------------------------
(* The config.                                                             *)

IsSet(dict, key) == key \in DOMAIN dict /\ dict[key] # 0
Lookup(dict, key, default) == IF key \in DOMAIN dict THEN dict[key] ELSE default

NumLayers(m) ==
    IF IsSet(m.top, "num_hidden_layers") THEN m.top["num_hidden_layers"]
    ELSE Lookup(m.text, "num_hidden_layers", 32)

NumExperts(m) ==
    IF IsSet(m.top, "num_local_experts") THEN m.top["num_local_experts"]
    ELSE IF IsSet(m.text, "num_local_experts") THEN m.text["num_local_experts"]
    ELSE IF IsSet(m.top, "num_experts") THEN m.top["num_experts"]
    ELSE Lookup(m.text, "num_experts", 0)

HiddenSize(m) ==
    IF IsSet(m.top, "hidden_size") THEN m.top["hidden_size"]
    ELSE Lookup(m.text, "hidden_size", 0)

IsMoE(m)  == NumExperts(m) > 0
IsHuge(m) == NumExperts(m) >= 512 /\ HiddenSize(m) >= 4096

\* A model that is quantized already is left alone, except for native FP8.
ValidateQuantizable(m) == m.quantization \in {"none", "fp8"}

MTPCounts == {"mtp_num_hidden_layers", "num_nextn_predict_layers"}
Zeroed(dict) == [key \in DOMAIN dict |-> IF key \in MTPCounts THEN 0 ELSE dict[key]]
NormalizeMTPInConfig(m) == [m EXCEPT !.top = Zeroed(@), !.text = Zeroed(@)]

-----------------------------------------------------------------------------
(* Which tensors.                                                          *)

IsVisionTensor(p) ==
    Bears(p, {"visual.", "vision_", "patch_embed", "pos_embed", "image_newline",
            "multi_modal_projector", "visual.merger", "image_norm", "temporal_embed"})
IsAudioTensor(p) == Bears(p, {"audio_tower"})

IsMoERouter(p) ==
    \/ EndsIn(p, {"mlp.gate", ".router", ".router.layer"})
    \/ ~Bears(p, {"gate_proj"}) /\ (EndsIn(p, {".gate"}) \/ Bears(p, {".gate."}))

IsMTPTensor(n) == Bears(n, {".mtp."}) \/ n.starts = "mtp."
ShouldSkipTensor(n, preserve) == IsMTPTensor(n) /\ ~preserve

IsMTPProtectedTensor(n) ==
    /\ IsMTPTensor(n)
    /\ \/ EndsIn(n, {"mtp.fc.weight", ".e_proj.weight", ".h_proj.weight",
                   ".hc_head_fn", ".hc_head_base", ".hc_head_scale"})
       \/ Bears(n, {".mtp.fc.weight", ".hc_head."})

ShouldQuantizeTensor(n, shape) ==
    /\ shape.dims >= 2
    /\ ~Bears(n, {"layernorm", "rmsnorm", "norm.weight", "norm.bias", "ln_", "layer_norm"})
    /\ ~EndsIn(n, {".bias"})

-----------------------------------------------------------------------------
(* Which layers: those at both ends, or those that the planner measured.   *)

PositionSensitivityMap(layers) ==
    [i \in 0..layers - 1 |->
        IF i < layers \div 8 \/ i >= (7 * layers) \div 8 THEN 5
        ELSE IF i < layers \div 4 \/ i >= (3 * layers) \div 4 THEN 2 ELSE 1]

\* The score that a quarter of the layers reach: of the scores in descending order,
\* the one at place len/4 - 1.
Reach(map, score)  == {i \in DOMAIN map : map[i] >= score}
Exceed(map, score) == {i \in DOMAIN map : map[i] > score}
Quarter(map) == Greater(Cardinality(DOMAIN map) \div 4 - 1, 0)
Threshold(map) ==
    CHOOSE s \in {map[i] : i \in DOMAIN map} :
        Cardinality(Exceed(map, s)) <= Quarter(map) /\ Quarter(map) < Cardinality(Reach(map, s))

AtTheEnds(m, layer) == layer < NumLayers(m) \div 8 \/ layer >= (7 * NumLayers(m)) \div 8

IsSensitive(m, layer) ==
    /\ layer >= 0
    /\ IF DOMAIN m.sensitivity = {} THEN AtTheEnds(m, layer)
       ELSE Lookup(m.sensitivity, layer, 0) >= Threshold(m.sensitivity)

-----------------------------------------------------------------------------
(* UniversalQuantPredicate: the first rule that a tensor meets.            *)

KeepFP16   == [kind |-> "keep"]
UseDefault == [kind |-> "default"]
Bits(n)    == [kind |-> "bits", bits |-> n]
FromMap(e)   == [kind |-> "entry", entry |-> e]
Pinned     == FromMap([bits |-> 8, group_size |-> 64, mode |-> "affine"])

Either(sensitive, n, otherwise) == IF sensitive THEN Bits(n) ELSE otherwise

IsExpertPart(p) == Bears(p, {"switch_mlp", "experts"}) /\ ~Bears(p, {"shared_expert"})

\* The projections, by what a mistake in them costs.
ProjectionRule(p, m, level, sensitive) ==
    IF Bears(p, {"v_proj", "v_a_proj", "v_b_proj"}) THEN Either(sensitive, 6, UseDefault)
    ELSE IF Bears(p, {"down_proj", "w2", "mlp.fc2", "wo"})
    THEN IF IsMoE(m) /\ IsExpertPart(p) THEN Either(level = 7, 4, UseDefault)
         ELSE Either(sensitive, 6, Bits(5))
    ELSE IF sensitive /\ Bears(p, {"q_proj", "k_proj", "qkv_proj", "in_proj_qkv", "attn_qkv"})
    THEN Bits(5)
    ELSE IF Bears(p, {"in_proj_z", "in_proj_a", "in_proj_b", "delta_net", "mixer.in_proj",
                    "mixer.out_proj", "x_proj", "dt_proj"}) THEN Bits(5)
    ELSE UseDefault

\* The protection of every level is full.
ProtectionRule(p, m, level, sensitive) ==
    IF Bears(p, {"ssm_output", "ssm_out", "lora.2"}) THEN Bits(8)
    ELSE IF Bears(p, {"lm_head", "output.weight", "classifier"}) THEN Bits(6)
    ELSE IF {"cross_attn", "o_proj"} \subseteq p.has THEN Bits(6)
    ELSE IF Bears(p, {"kv_a_proj_with_mqa", "kv_b_proj", "q_a_proj", "q_b_proj"}) THEN Bits(6)
    ELSE IF Bears(p, {"o_proj"}) /\ ~Bears(p, {"shared_expert"}) /\ ~IsMoE(m) THEN Bits(5)
    ELSE IF Bears(p, {"shared_expert"}) /\ ~EndsIn(p, {"shared_expert_gate"}) THEN Bits(8)
    ELSE IF IsHuge(m) /\ Bears(p, {"gate_proj"}) /\ ~Bears(p, {"shared_expert"}) THEN Bits(4)
    ELSE IF IsHuge(m) /\ Bears(p, {"down_proj"}) /\ ~Bears(p, {"shared_expert"}) THEN Bits(3)
    ELSE ProjectionRule(p, m, level, sensitive)

BudgetRule(p) == IF Bears(p, {"ssm_output", "ssm_out", "lora.2"}) THEN Bits(8) ELSE UseDefault

\* What stays as it is, whatever was planned.
IsKept(t, m) == t \in m.nonQuantizable \/ IsMoERouter(t.path)
IsKeptToo(p) ==
    \/ IsVisionTensor(p) \/ IsAudioTensor(p)
    \/ Bears(p, {"ssm_alpha", "ssm_beta", "a_log", "time_decay", "time_faaaa"})
    \/ EndsIn(p, {".D", "dt_bias"})

IsSharedGate(p) == Bears(p, {"shared_expert_gate"}) /\ ~Bears(p, {"gate_proj"})

UniversalQuantPredicate(t, m, level) ==
    LET p == t.path IN
    IF IsKept(t, m) THEN KeepFP16
    ELSE IF IsSharedGate(p) THEN Pinned
    ELSE IF IsKeptToo(p) THEN KeepFP16
    ELSE IF {"conv1d", "linear_attn"} \subseteq p.has THEN Bits(8)
    ELSE IF Bears(p, {"linear_attn.out_proj"}) THEN Bits(5)
    ELSE IF t \in DOMAIN m.boost THEN FromMap(m.boost[t])
    ELSE IF m.budget THEN BudgetRule(p)
    ELSE ProtectionRule(p, m, level, IsSensitive(m, t.layer))

BaseBits(level) == level \div 2
GroupSizeOf(m) == IF NumExperts(m) >= 150 THEN 128 ELSE 64

NotQuantized == [quantized |-> FALSE, bits |-> 0, group |-> 0, mode |-> ""]
Quantized(bits, group, mode) ==
    [quantized |-> TRUE, bits |-> bits, group |-> group, mode |-> mode]

BitsOf_Exact(rule, level) ==
    IF rule.kind = "bits" THEN rule.bits
    ELSE IF rule.kind = "entry" THEN Lookup(rule.entry, "bits", BaseBits(level))
    ELSE BaseBits(level)
BitsOf(rule, level) ==
    IF rule.kind = "bits" THEN Greater(rule.bits, BaseBits(level))
    ELSE IF rule.kind = "entry" THEN Lookup(rule.entry, "bits", BaseBits(level))
    ELSE BaseBits(level)

GetPredicateBits(t, m, level) ==
    LET rule == UniversalQuantPredicate(t, m, level) IN
    IF IsMTPProtectedTensor(t.name) \/ rule.kind = "keep" THEN NotQuantized
    ELSE Quantized(BitsOf(rule, level),
                   IF rule.kind = "bits" THEN GroupSizeOf(m)
                   ELSE IF rule.kind = "entry" THEN Lookup(rule.entry, "group_size", GroupSize)
                   ELSE GroupSize,
                   IF rule.kind = "entry" THEN Lookup(rule.entry, "mode", "affine") ELSE "affine")

-----------------------------------------------------------------------------
(* The estimates.                                                          *)

Elements(shape) == shape.rows * shape.last

BytesPerGroup(mode) == IF mode = "mxfp4" THEN 1 ELSE IF mode = "mxfp8" THEN 2 ELSE 4

TensorQuantizedBytes(shape, bits, group, mode) ==
    IF shape.dims < 2 \/ shape.last % group # 0 THEN 2 * Elements(shape)
    ELSE (Elements(shape) * bits + 7) \div 8
           + (Elements(shape) \div Greater(shape.last, 1)) * (shape.last \div group)
               * BytesPerGroup(mode)

\* The weights that are estimated, and the bytes of one in the estimate e.
Estimated == {t \in Weights : /\ ShouldQuantizeTensor(t.name, t.shape)
                              /\ ~ShouldSkipTensor(t.name, FALSE)}

EstimatedBytes(e, t) ==
    IF t \in DOMAIN e.overrides
    THEN LET o == e.overrides[t] IN
         TensorQuantizedBytes(t.shape, Lookup(o, "bits", e.base), Lookup(o, "group_size", e.group),
                              Lookup(o, "mode", "affine"))
    ELSE TensorQuantizedBytes(t.shape, e.base, e.group, e.mode)

-----------------------------------------------------------------------------
(* The names.                                                              *)

\* ExpandPerLayerQuantKeys, of one block: a name gets what its other form has, unless
\* it has something.
WithAliases(own, other) ==
    [name \in DOMAIN own \cup DOMAIN other |->
        IF name \in DOMAIN own THEN own[name] ELSE other[name]]
ExpandPerLayerQuantKeys(k) ==
    [bare |-> WithAliases(k.bare, k.prefixed), prefixed |-> WithAliases(k.prefixed, k.bare)]

Tags == {"oQ", "bits", "fp", "bf", "mtp"}

\* What is left of a name when the tags at its end are taken off, one by one.
BaseName_OneTag(name) ==
    IF Len(name) > 1 /\ name[Len(name)] \in Tags THEN SubSeq(name, 1, Len(name) - 1) ELSE name
BaseName(name) == SubSeq(name, 1, Max({1} \cup {n \in DOMAIN name : name[n] \notin Tags}))

ResolveOutputName(name, float16, mtp) ==
    BaseName(name) \o <<"oQ">> \o (IF float16 THEN <<"fp">> ELSE <<>>)
                   \o (IF mtp THEN <<"mtp">> ELSE <<>>)

-----------------------------------------------------------------------------
QuantInit ==
    /\ model \in {m \in Models : ValidateQuantizable(m)}
    /\ tensor \in Tensors /\ answers = << >>
    /\ estimate \in [of : Estimates, todo : {Estimated}, bits : {0}, params : {0}]
    /\ keys \in StoredKeys /\ outputName \in Pieces

\* GetPredicateBits is asked for a tensor, at any level and in any order.
Ask(level) ==
    /\ level \notin DOMAIN answers
    /\ answers' = [l \in DOMAIN answers \cup {level} |->
                     IF l = level THEN GetPredicateBits(tensor, model, level) ELSE answers[l]]
    /\ UNCHANGED <<model, tensor, estimate, keys, outputName>>

\* The planner, which is not here yet, stashes the map of the positions.
StashMap ==
    /\ DOMAIN model.sensitivity = {}
    /\ model' = [model EXCEPT !.sensitivity = PositionSensitivityMap(NumLayers(model))]
    /\ UNCHANGED <<tensor, answers, estimate, keys, outputName>>

StripMTP ==
    /\ model' = NormalizeMTPInConfig(model)
    /\ UNCHANGED <<tensor, answers, estimate, keys, outputName>>

\* The loop of EstimateEffectiveBPW, over a map: in any order.
EstimateNext(t) ==
    /\ t \in estimate.todo
    /\ estimate' = [estimate EXCEPT !.todo = @ \ {t}, !.params = @ + Elements(t.shape),
                                    !.bits = @ + 8 * EstimatedBytes(estimate.of, t)]
    /\ UNCHANGED <<model, tensor, answers, keys, outputName>>

LoadKeys ==
    /\ keys' = ExpandPerLayerQuantKeys(keys)
    /\ UNCHANGED <<model, tensor, answers, estimate, outputName>>

Requantize(float16, mtp) ==
    /\ outputName' = ResolveOutputName(outputName, float16, mtp)
    /\ UNCHANGED <<model, tensor, answers, estimate, keys>>

QuantNext ==
    \/ \E level \in Levels : Ask(level)
    \/ StashMap
    \/ StripMTP
    \/ \E t \in Weights : EstimateNext(t)
    \/ LoadKeys
    \/ \E float16, mtp \in BOOLEAN : Requantize(float16, mtp)

QuantSpec == QuantInit /\ [][QuantNext]_quantVars

-----------------------------------------------------------------------------
\* What a higher level gives a tensor is never less than what a lower one gives, a
\* tensor is kept at every level or at none (of the layers that the model has), and it
\* gets what its level starts from at least, unless the planner's boost map says
\* otherwise.
LevelsOrdered ==
    \A l, h \in DOMAIN answers :
        /\ l <= h /\ tensor.layer < NumLayers(model) =>
              /\ answers[l].quantized = answers[h].quantized
              /\ answers[l].bits <= answers[h].bits
        /\ answers[l].quantized /\ tensor \notin DOMAIN model.boost
             => answers[l].bits >= BaseBits(l)

\* Nothing that was planned, neither the boost map nor the budget, touches what must
\* keep its precision: the routers, the encoders and the heart of the MTP head.
DelicateKept ==
    \A l \in DOMAIN answers :
        \/ IsMoERouter(tensor.path) \/ IsMTPProtectedTensor(tensor.name)
        \/ IsKeptToo(tensor.path) /\ ~IsSharedGate(tensor.path)
        => ~answers[l].quantized

\* The planner's map of the positions says what the positions say, and a config that
\* hides its MTP head says what it said before: no answer changes, for the layers
\* that the model has.
AnswersStay ==
    tensor.layer < NumLayers(model) =>
        \A l \in DOMAIN answers : answers[l] = GetPredicateBits(tensor, model, l)

\* The estimate is between the bits that the tensors done so far were given and the 16
\* of those that are kept, whichever they are.
GivenBits(e, t) ==
    IF t \in DOMAIN e.overrides THEN Lookup(e.overrides[t], "bits", e.base) ELSE e.base
GivenTo(e, weights) == MapThenSumSet(LAMBDA t : Elements(t.shape) * GivenBits(e, t), weights)
EstimateBounded ==
    /\ estimate.bits <= 16 * estimate.params
    /\ estimate.bits >= GivenTo(estimate.of, Estimated \ estimate.todo)

\* Once the keys are expanded a layer is found under both of its names if it was found
\* under one, and what was stored under a name stays.
KeysFound ==
    [][keys' # keys =>
        \A name \in LayerNames :
            /\ name \in DOMAIN keys.bare \cup DOMAIN keys.prefixed
                 => name \in DOMAIN keys'.bare \cap DOMAIN keys'.prefixed
            /\ name \in DOMAIN keys.bare => keys'.bare[name] = keys.bare[name]
            /\ name \in DOMAIN keys.prefixed => keys'.prefixed[name] = keys.prefixed[name]
      ]_quantVars

\* However often a model is quantized, its name is the model's with one set of tags.
NameKept ==
    [][/\ BaseName(outputName') = BaseName(outputName)
       /\ outputName' # outputName => Len(outputName') <= Len(BaseName(outputName)) + 3
      ]_quantVars

\* The plan is sound: for one tensor, its levels are ordered, what is delicate is kept,
\* and no answer changes; and the estimate of what it amounts to stays in its bounds.
BitsSound == LevelsOrdered /\ DelicateKept /\ AnswersStay /\ EstimateBounded

\* Names lead to what they led to, however often a model goes through the planner.
NamesKept == KeysFound /\ NameKept
=============================================================================
