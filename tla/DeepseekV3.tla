------------------------------- MODULE DeepseekV3 ------------------------------
(***************************************************************************)
(* The DeepSeek V3 family (compute/models/deepseekv3.go and                *)
(* deepseekv3_forward.go): latent attention, whose cache holds one         *)
(* compressed vector and one rotated band for each token, routed experts   *)
(* after the first layers, and the rewriting of a checkpoint at load.      *)
(***************************************************************************)
EXTENDS Decoder, TLC

Parse(c) ==
    [hidden |-> c.hidden, inter |-> c.inter, moeInter |-> c.moeInter, layers |-> c.layers,
     heads |-> c.heads, vocab |-> c.vocab,
     experts |-> Given(c.experts, 0), shared |-> Given(c.shared, 0), perTok |-> Given(c.perTok, 1),
     groups |-> Given(c.groups, 1), topGroups |-> Given(c.topGroups, 1),
     freq |-> Given(c.freq, 1), firstDense |-> Given(c.firstDense, 0),
     kvLora |-> Given(c.kvLora, 512), rope |-> Given(c.rope, 64),
     vHead |-> Given(c.vHead, 128), nope |-> Given(c.nope, 128),
     \* absent: 1536; null, which is 0 here: the plain projection
     qLora |-> Given(c.qLora, 1536),
     attnBias |-> Given(c.attnBias, FALSE), method |-> Given(c.method, "noaux_tc"),
     scaling |-> Given(c.scaling, ""), quant |-> FALSE]   \* its matrices are read as they are

Accepts(c) ==
    LET a == Parse(c)
    IN /\ a.hidden > 0 /\ a.vocab > 0 /\ a.layers > 0 /\ a.heads > 0
       /\ a.nope > 0 /\ a.rope > 0 /\ a.vHead > 0 /\ a.kvLora > 0
       /\ a.method = "noaux_tc"
       /\ a.experts > 0 => /\ a.groups > 0 /\ a.experts % a.groups = 0 /\ a.topGroups <= a.groups
                           /\ a.perTok \in 1..a.experts

QHeadDim(a) == a.nope + a.rope
HasQLora(a) == a.qLora > 0
KVAOut(a)   == a.kvLora + a.rope
IsMoELayer(a, l) == a.experts > 0 /\ l > a.firstDense /\ (l - 1) % a.freq = 0

Norms   == {"input_layernorm", "post_attention_layernorm"}
Gated   == {"gate_proj", "up_proj", "down_proj"}
In(block, projs) == {block \o "." \o p : p \in projs}
Corrections(l) == <<l, "mlp.gate", "e_score_correction_bias">>

\* attnWeightNames and mlpWeightNames.
AttnModules(a) ==
    (IF HasQLora(a) THEN {"self_attn.q_a_proj", "self_attn.q_a_layernorm", "self_attn.q_b_proj"}
     ELSE {"self_attn.q_proj"})
    \cup In("self_attn", {"kv_a_proj_with_mqa", "kv_a_layernorm", "embed_q", "unembed_out", "o_proj"})
MLPModules(a, l) ==
    IF ~IsMoELayer(a, l) THEN In("mlp", Gated)
    ELSE {"mlp.gate"} \cup In("mlp.switch_mlp", Gated)
         \cup (IF a.shared > 0 THEN In("mlp.shared_experts", Gated) ELSE {})
BiasModules(a) ==
    IF ~a.attnBias THEN {}
    ELSE {"self_attn.kv_a_proj_with_mqa", "self_attn.o_proj"} \cup (IF HasQLora(a) THEN {"self_attn.q_a_proj"} ELSE {})

WeightNames(a) ==
    Weights(0, {"model.embed_tokens", "model.norm", "lm_head"})
    \cup UNION {Weights(l, Norms \cup AttnModules(a) \cup MLPModules(a, l)) \cup Biases(l, BiasModules(a))
                \cup (IF IsMoELayer(a, l) THEN {Corrections(l)} ELSE {}) : l \in 1..a.layers}

\* Sanitize takes out the layer behind the last one, and rotary buffers.
Drops(a, name) == name[1] = a.layers + 1 \/ name[2] = "self_attn.rotary_emb.inv_freq"

Sanitize(a, w) == [name \in {n \in DOMAIN w : ~Drops(a, n)} |-> w[name]]

-----------------------------------------------------------------------------
(* The rewriting of the checkpoint; without a part of it there is none.    *)

Refused == <<>>

\* remapInt4: a packed weight with its scale becomes weight, scales, biases.
OfKind(n, kind) == <<n[1], n[2], kind>>
Packs(w)   == {n \in DOMAIN w : n[3] = "weight_shape"}
Made4(w)   == {OfKind(n, kind) : n \in Packs(w), kind \in {"weight", "scales", "biases"}}
Untouched(w) == {n \in DOMAIN w : n[3] \notin {"weight_shape", "weight_packed", "weight_scale"}}

Remapped(w, made) ==
    [n \in Untouched(w) \cup made |->
        IF n \in made THEN w[OfKind(n, IF n[3] = "weight" THEN "weight_packed" ELSE "weight_scale")] ELSE w[n]]

remapInt4(w) ==
    IF \E n \in Packs(w) : {OfKind(n, "weight_packed"), OfKind(n, "weight_scale")} \ DOMAIN w # {} THEN Refused
    ELSE Remapped(w, Made4(w))

Kinds == {"weight", "scales", "biases"}
Expert(e, proj) == "mlp.experts." \o ToString(e) \o "." \o proj

\* (One expert less.)
Stackable_Less(a) == 0..a.experts - 2

\* The experts that are joined.
Stackable(a) == 0..a.experts - 1

\* stackExperts: the experts' matrices, where there is a first one, become one
\* array: from <<layer, proj, kind>> of each expert to that of the switch.
Stack(s)     == <<s[1], "mlp.switch_mlp." \o s[2], s[3]>>
Part(s, e)   == <<s[1], Expert(e, s[2]), s[3]>>
Stacks(a, w) == {s \in (1..a.layers) \X Gated \X Kinds : Part(s, 0) \in DOMAIN w}
Parts(a, stacks) == {Part(s, e) : s \in stacks, e \in Stackable(a)}

Stacked(a, w, stacks, parts) ==
    IF ~(parts \subseteq DOMAIN w) THEN Refused
    ELSE [n \in (DOMAIN w \ parts) \cup {Stack(s) : s \in stacks} |->
            IF \E s \in stacks : n = Stack(s)
            THEN Zeros(<<Cardinality(Stackable(a))>> \o w[Part(CHOOSE s \in stacks : n = Stack(s), 0)].shape) ELSE w[n]]

StackedOf(a, w, stacks) == Stacked(a, w, stacks, Parts(a, stacks))

stackExperts(a, w) == IF a.experts = 0 \/ w = Refused THEN w ELSE StackedOf(a, w, Stacks(a, w))

\* absorbKVB: kv_b_proj [heads * (nope + value), latent] becomes, for each
\* head, one matrix that lifts keys and one that lifts values.
KVB(l, kind) == <<l, "self_attn.kv_b_proj", kind>>
Lifts == {"self_attn.embed_q", "self_attn.unembed_out"}

Plain(w, l) == IF KVB(l, "scales") \in DOMAIN w THEN Unpacked(w[KVB(l, "weight")].shape) ELSE w[KVB(l, "weight")].shape

Band(a, s, module) ==
    IF module = "self_attn.embed_q" THEN <<a.heads, s[2], a.nope>> ELSE <<a.heads, a.vHead, s[2]>>

Lifted(a, w, n) ==
    IF n[3] # "weight" THEN Zeros(<<1>>)
    ELSE IF KVB(n[1], "scales") \in DOMAIN w
         THEN [shape |-> [Band(a, Plain(w, n[1]), n[2]) EXCEPT ![3] = Packed(@)], el |-> <<>>]
         ELSE Zeros(Band(a, Plain(w, n[1]), n[2]))

Absorbed(a, w, fused, packed, made) ==
    IF \/ \E l \in packed : KVB(l, "biases") \notin DOMAIN w
       \/ \E l \in fused : Plain(w, l)[1] # a.heads * (a.nope + a.vHead) THEN Refused
    ELSE [n \in {m \in DOMAIN w : ~(m[2] = "self_attn.kv_b_proj" /\ m[1] \in fused /\ (m[3] = "weight" \/ m[1] \in packed))}
                \cup made |-> IF n \in made THEN Lifted(a, w, n) ELSE w[n]]

AbsorbedOf(a, w, fused, packed) ==
    Absorbed(a, w, fused, packed,
             {<<l, m, kind>> : l \in fused, m \in Lifts, kind \in {"weight"}} \cup {<<l, m, kind>> : l \in packed, m \in Lifts, kind \in Kinds})

Fuses(a, w) == {l \in 1..a.layers : KVB(l, "weight") \in DOMAIN w}

absorbKVB(a, w) ==
    IF w = Refused THEN Refused ELSE AbsorbedOf(a, w, Fuses(a, w), {l \in Fuses(a, w) : KVB(l, "scales") \in DOMAIN w})

Patched(a, w) == absorbKVB(a, stackExperts(a, remapInt4(w)))

RopeKinds == {"", "default", "linear", "yarn", "deepseek_yarn", "telechat3-yarn"}

\* What NewDeepseekV3Model asks of the rewritten checkpoint: everything but
\* the biases of the attention.
Asked(a, p) == p # Refused /\ {n \in WeightNames(a) : n[3] # "bias"} \subseteq DOMAIN p /\ a.scaling \in RopeKinds

Builds(a, w) == Asked(a, Patched(a, w))

-----------------------------------------------------------------------------
(* The forward, on the rewritten checkpoint; its matrices are dense.       *)

DenseOf(m, l, module, x) == Linear(x, m.weights[Name(l, module)])

LinearBias(m, l, module, x) ==
    PlusBias(DenseOf(m, l, module, x), IF m.args.attnBias THEN Named(m.weights, <<l, module, "bias">>) ELSE Nil)

\* The scores of the rotary bands with the mask: what is added to the scores
\* of the latents.
Far(b, offset, row, t, j) ==
    IF b.pad # <<>> THEN Masked(b.pad[row + 1], offset + t, j) ELSE b.L > 1 /\ j > offset + t

WithMask(pe, offset, b) ==
    IF Failed(pe) THEN Bad
    ELSE Array(pe.shape, LAMBDA ix : [a |-> At(pe, ix).a, p |-> At(pe, ix).p,
                                      m |-> IF Far(b, offset, ix[1], ix[3], ix[4]) THEN 1 ELSE 0])

PEScores(qpe, kpe, offset, b) == WithMask(MatMul(qpe, Transpose(kpe, <<0, 1, 3, 2>>)), offset, b)

\* One matrix for each head, [heads, out, in].
multiLinear(m, l, module, x, transposed) ==
    MatMul(x, IF transposed THEN Transpose(m.weights[Name(l, module)], <<0, 2, 1>>) ELSE m.weights[Name(l, module)])

\* One token goes through the latents, several through keys and values that
\* are lifted from them.
Attend(m, l, qn, latent, pe, one) ==
    IF one THEN multiLinear(m, l, "self_attn.unembed_out",
                            SDPA(multiLinear(m, l, "self_attn.embed_q", qn, TRUE), latent, latent, "", pe), TRUE)
    ELSE SDPA(qn, multiLinear(m, l, "self_attn.embed_q", latent, FALSE),
              multiLinear(m, l, "self_attn.unembed_out", latent, TRUE), "", pe)

\* The queries: through a low rank, or not.
QueriesOf(m, l, x) ==
    IF ~HasQLora(m.args) THEN DenseOf(m, l, "self_attn.q_proj", x)
    ELSE DenseOf(m, l, "self_attn.q_b_proj", NormOf(m, l, "self_attn.q_a_layernorm", LinearBias(m, l, "self_attn.q_a_proj", x)))

\* Latent attention: the cache takes the latents as keys and the rotary band
\* as values.
ropeBand(a, x, cache, b) == Rotated(x, a.rope, cache, b.perRow)

OfGrown(m, l, qs, cache, grown, b) ==
    [cache |-> grown,
     out |-> LinearBias(m, l, "self_attn.o_proj",
                Unheaded(Attend(m, l, qs[1], grown.keys,
                                PEScores(ropeBand(m.args, qs[2], cache, b), grown.values, cache.offset, b), b.L = 1),
                         b.batch, b.L, m.args.heads * m.args.vHead))]

Latents(m, l, x, b) ==
    Reshape(NormOf(m, l, "self_attn.kv_a_layernorm", x), <<b.batch, 1, b.L, m.args.kvLora>>)

OfParts(m, l, qs, cs, cache, b) ==
    OfGrown(m, l, qs, cache,
            Update(cache, Latents(m, l, cs[1], b), ropeBand(m.args, Heads(cs[2], b.batch, b.L, 1, m.args.rope), cache, b)), b)

Attn(m, l, x, cache, b) ==
    OfParts(m, l, SplitSections(Heads(QueriesOf(m, l, x), b.batch, b.L, m.args.heads, QHeadDim(m.args)), <<m.args.nope>>, -1),
            SplitSections(LinearBias(m, l, "self_attn.kv_a_proj_with_mqa", x), <<m.args.kvLora>>, -1), cache, b)

\* The MLP, dense or routed.
deepseekMLP(m, l, block, x) ==
    DenseOf(m, l, block \o ".down_proj", SwiGLU(DenseOf(m, l, block \o ".gate_proj", x), DenseOf(m, l, block \o ".up_proj", x)))

\* The device's routing takes two experts of each group, and as many groups
\* out as there are too many: out of range, the partition fails.
Routes(a) == a.groups = 1 \/ (a.experts \div a.groups >= 2 /\ a.topGroups >= 0)

SwitchOf(m, l, proj) == [w |-> m.weights[Name(l, "mlp.switch_mlp." \o proj)], quantized |-> FALSE]

Chosen(m, l, x, gates, inds, b) ==
    Weighted(switchGLUCore(x, SwitchOf(m, l, "gate_proj"), SwitchOf(m, l, "up_proj"), SwitchOf(m, l, "down_proj"), inds, FALSE),
             Scores(gates, inds), b.batch, b.L, m.args.perTok)

Routed(m, l, x, gates, b) == Chosen(m, l, x, gates, IF Routes(m.args) THEN Selection(gates, m.args.perTok) ELSE Bad, b)

Gates(m, l, x) == Binary(DenseOf(m, l, "mlp.gate", x), m.weights[Corrections(l)])

deepseekMoE(m, l, x, b) ==
    IF m.args.shared > 0 THEN Binary(Routed(m, l, x, Gates(m, l, x), b), deepseekMLP(m, l, "mlp.shared_experts", x))
    ELSE Routed(m, l, x, Gates(m, l, x), b)

MLP(m, l, x, b) == IF IsMoELayer(m.args, l) THEN deepseekMoE(m, l, x, b) ELSE deepseekMLP(m, l, "mlp", x)

Fed(m, l, st, b) == [st EXCEPT !.h = Binary(@, MLP(m, l, NormOf(m, l, "post_attention_layernorm", @), b))]

Layer(m, l, st, b) ==
    Fed(m, l, Residual(st, l, Attn(m, l, NormOf(m, l, "input_layernorm", st.h), st.caches[l], b)), b)

RECURSIVE Layers(_, _, _, _)
Layers(m, l, start, b) == IF l = 0 THEN start ELSE Layer(m, l, Layers(m, l - 1, start, b), b)

Run(m, tokens, b, caches) == Logits(m, Layers(m, m.args.layers, Start(m, tokens, b, caches), b), "lm_head")

forwardBL(m, tokens, batch, L, caches) ==
    IF Len(caches) # m.args.layers THEN Failure(caches) ELSE Run(m, tokens, Block(batch, L, caches), caches)

\* The arrays of a checkpoint as it is stored.
Dims(a) ==
    ("self_attn.q_a_proj" :> <<a.qLora, a.hidden>>) @@ ("self_attn.q_a_layernorm" :> <<a.qLora>>)
    @@ ("self_attn.q_b_proj" :> <<a.heads * QHeadDim(a), a.qLora>>) @@ ("self_attn.q_proj" :> <<a.heads * QHeadDim(a), a.hidden>>)
    @@ ("self_attn.kv_a_proj_with_mqa" :> <<KVAOut(a), a.hidden>>) @@ ("self_attn.kv_a_layernorm" :> <<a.kvLora>>)
    @@ ("self_attn.kv_b_proj" :> <<a.heads * (a.nope + a.vHead), a.kvLora>>)
    @@ ("self_attn.embed_q" :> <<a.heads, a.kvLora, a.nope>>) @@ ("self_attn.unembed_out" :> <<a.heads, a.vHead, a.kvLora>>)
    @@ ("self_attn.o_proj" :> <<a.hidden, a.heads * a.vHead>>) @@ ("mlp.gate" :> <<a.experts, a.hidden>>)
    @@ [m \in In("mlp", {"gate_proj", "up_proj"}) |-> <<a.inter, a.hidden>>] @@ ("mlp.down_proj" :> <<a.hidden, a.inter>>)
    @@ [m \in {Expert(e, p) : e \in 0..a.experts - 1, p \in {"gate_proj", "up_proj"}}
              \cup In("mlp.shared_experts", {"gate_proj", "up_proj"}) |-> <<a.moeInter, a.hidden>>]
    @@ [m \in {Expert(e, "down_proj") : e \in 0..a.experts - 1} \cup {"mlp.shared_experts.down_proj"} |-> <<a.hidden, a.moeInter>>]
    @@ [m \in In("mlp.switch_mlp", {"gate_proj", "up_proj"}) |-> <<a.experts, a.moeInter, a.hidden>>]
    @@ ("mlp.switch_mlp.down_proj" :> <<a.experts, a.hidden, a.moeInter>>)
    @@ [m \in {"model.embed_tokens", "lm_head"} |-> <<a.vocab, a.hidden>>] @@ [m \in Norms \cup {"model.norm"} |-> <<a.hidden>>]

\* The names of a raw checkpoint: fused keys and values, experts one by one.
RawNames(a) ==
    {n \in WeightNames(a) : n[2] \notin {"self_attn.embed_q", "self_attn.unembed_out"} \cup In("mlp.switch_mlp", Gated)}
    \cup {KVB(l, "weight") : l \in 1..a.layers}
    \cup UNION {Weights(l, {Expert(e, p) : e \in 0..a.experts - 1, p \in Gated}) : l \in {k \in 1..a.layers : IsMoELayer(a, k)}}

ShapeOf(a, name) == IF name[3] = "e_score_correction_bias" THEN <<a.experts>> ELSE ShapeIn(Dims(a), name)
=============================================================================
