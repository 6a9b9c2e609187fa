------------------------------- MODULE Qwen3Next -------------------------------
(***************************************************************************)
(* The Qwen3-Next family (compute/models/qwen3next.go and                  *)
(* qwen3next_forward.go): most layers are gated delta nets, which keep a   *)
(* convolution window and a state instead of keys and values; every        *)
(* interval-th layer is attention with a gate; the MLP is dense or routed. *)
(***************************************************************************)
EXTENDS Decoder, TLC

Parse(c) ==
    [hidden |-> c.hidden, layers |-> c.layers, inter |-> c.inter, heads |-> c.heads, kvHeads |-> c.kvHeads,
     headDim |-> c.headDim, vocab |-> c.vocab,
     vHeads |-> c.vHeads, kHeads |-> c.kHeads, kDim |-> c.kDim, vDim |-> c.vDim, kernel |-> c.kernel,
     experts |-> c.experts, perTok |-> c.perTok, step |-> c.step, mlpOnly |-> c.mlpOnly,
     moeInter |-> c.moeInter, sharedInter |-> c.sharedInter,
     partial |-> Given(c.partial, <<1, 1>>), interval |-> Given(c.interval, 4),
     normTopk |-> Given(c.normTopk, FALSE), tied |-> Given(c.tied, FALSE), attnBias |-> Given(c.attnBias, FALSE),
     scaling |-> c.scaling, quant |-> c.quant]

Accepts(c) ==
    LET a == Parse(c)
    IN /\ a.hidden > 0 /\ a.vocab > 0 /\ a.layers > 0 /\ a.heads > 0 /\ a.headDim > 0 /\ a.interval > 0
       /\ a.kHeads > 0 /\ a.vHeads > 0 /\ a.vHeads % a.kHeads = 0 /\ a.kDim > 0 /\ a.vDim > 0 /\ a.kernel > 0
       /\ a.experts > 0 => a.step > 0 /\ a.perTok <= a.experts

IsLinear(a, l)   == l % a.interval # 0
IsMoELayer(a, l) == a.experts > 0 /\ l - 1 \notin a.mlpOnly /\ l % a.step = 0
KeyDim(a)   == a.kDim * a.kHeads
ValueDim(a) == a.vDim * a.vHeads
ConvDim(a)  == 2 * KeyDim(a) + ValueDim(a)
VPerK(a)    == a.vHeads \div a.kHeads
QKVZSplits(a) == <<a.kDim, 2 * a.kDim, 2 * a.kDim + VPerK(a) * a.vDim>>
BASplits(a)   == <<VPerK(a)>>
InProjQKVZOut(a) == 2 * KeyDim(a) + 2 * ValueDim(a)
InProjBAOut(a)   == 2 * a.vHeads
QProjOut(a) == 2 * a.heads * a.headDim
RopeDims(a) == (a.headDim * a.partial[1]) \div a.partial[2]

Norms == {"input_layernorm", "post_attention_layernorm"}
Gated == {"gate_proj", "up_proj", "down_proj"}
In(block, projs) == {block \o "." \o p : p \in projs}
Scalars(l) == {<<l, "linear_attn.A_log", "scalar">>, <<l, "linear_attn.dt_bias", "scalar">>}
AttnProjs  == In("self_attn", {"q_proj", "k_proj", "v_proj", "o_proj"})

\* The modules of a layer that may be packed, and those that may not.
MixerLinears(a, l) ==
    IF IsLinear(a, l) THEN In("linear_attn", {"in_proj_ba", "in_proj_qkvz", "out_proj"}) ELSE AttnProjs
MixerNorms(a, l) ==
    IF IsLinear(a, l) THEN In("linear_attn", {"conv1d", "norm"}) ELSE In("self_attn", {"q_norm", "k_norm"})
MLPLinears(a, l) ==
    IF ~IsMoELayer(a, l) THEN In("mlp", Gated)
    ELSE {"mlp.gate", "mlp.shared_expert_gate"} \cup In("mlp.shared_expert", Gated) \cup In("mlp.switch_mlp", Gated)
HasBias(a, l) == a.attnBias /\ ~IsLinear(a, l)

WeightNames(a) ==
    Weights(0, {"model.embed_tokens", "model.norm"} \cup (IF a.tied THEN {} ELSE {"lm_head"}))
    \cup UNION {Weights(l, Norms \cup MixerLinears(a, l) \cup MixerNorms(a, l) \cup MLPLinears(a, l))
                \cup (IF IsLinear(a, l) THEN Scalars(l) ELSE {})
                \cup (IF HasBias(a, l) THEN Biases(l, AttnProjs) ELSE {}) : l \in 1..a.layers}

\* Sanitize leaves the checkpoint as it is.
Sanitize(a, w) == w

\* What NewQwen3NextModel asks for; the biases are not asked for.
Builds(a, w) ==
    /\ a.scaling = {}
    /\ Loads(w, 0, "model.embed_tokens", a.quant) /\ Name(0, "model.norm") \in DOMAIN w
    /\ \A l \in 1..a.layers :
         /\ Weights(l, Norms \cup MixerNorms(a, l)) \subseteq DOMAIN w
         /\ IsLinear(a, l) => Scalars(l) \subseteq DOMAIN w
         /\ \A m \in MixerLinears(a, l) \cup MLPLinears(a, l) : Loads(w, l, m, a.quant)
    /\ a.tied \/ Loads(w, 0, "lm_head", a.quant)

-----------------------------------------------------------------------------
(* The mixers.                                                             *)

Proj(m, l, module, x) ==
    PlusBias(ProjOf(m, l, module, x),
             IF m.args.attnBias /\ module \in AttnProjs THEN Named(m.weights, <<l, module, "bias">>) ELSE Nil)

\* Attention: queries and their gates in one projection.
HeadShape(a, b, n) == <<b.batch, b.L, n, a.headDim>>

NormedHeads(m, l, norm, x) == Transpose(NormOf(m, l, norm, x), <<0, 2, 1, 3>>)

KeyHeads(m, l, x, b) ==
    NormedHeads(m, l, "self_attn.k_norm", Reshape(Proj(m, l, "self_attn.k_proj", x), HeadShape(m.args, b, m.args.kvHeads)))

ValueHeads(m, l, x, b) == Heads(Proj(m, l, "self_attn.v_proj", x), b.batch, b.L, m.args.kvHeads, m.args.headDim)

Opened(m, l, att, gate, b) ==
    [cache |-> att.cache,
     out |-> Proj(m, l, "self_attn.o_proj", Binary(att.out, Reshape(gate, <<b.batch, b.L, m.args.heads * m.args.headDim>>)))]

OfQueries(m, l, parts, x, cache, b) ==
    Opened(m, l, SelfAttention(NormedHeads(m, l, "self_attn.q_norm", parts[1]), KeyHeads(m, l, x, b), ValueHeads(m, l, x, b),
                               RopeDims(m.args), cache, b, m.args.heads * m.args.headDim), parts[2], b)

qwen3NextAttention(m, l, x, cache, b) ==
    OfQueries(m, l, SplitSections(Reshape(Proj(m, l, "self_attn.q_proj", x), <<b.batch, b.L, m.args.heads, 2 * m.args.headDim>>),
                                  <<m.args.headDim>>, -1), x, cache, b)

\* (The state goes through the padding.)
Live_Always(pad, L, row, t) == TRUE

\* ssmLeftPadMask: what is a token, and not padding, of a padded block.
Live(pad, L, row, t) == pad = <<>> \/ L = 1 \/ t >= pad[row + 1]

\* One filter for each channel, over the window that ends at each token; the
\* taps leave their marks.
RECURSIVE Taps(_, _, _, _)
Taps(x, n, kernel, L) ==
    IF n = 1 THEN Tagged(Slice(x, 1, 0, L), {300 + kernel - 1})
    ELSE Binary(Taps(x, n - 1, kernel, L), Tagged(Slice(x, 1, n - 1, n - 1 + L), {300 + kernel - n}))

depthwiseConv1d(x, weight, channels, kernel, L) ==
    IF Failed(x) \/ weight.shape # <<channels, kernel, 1>> THEN Bad ELSE Taps(x, kernel, kernel, L)

\* The window that goes into the next call.
NextWindow(input, kernel, L) == Slice(input, 1, L, L + kernel - 1)

\* One step of the recurrence: the state [batch, heads, dv, dk] decays, and
\* takes the token in; the query reads what came out.
Lane(x, t, shape) == Reshape(Take(x, <<t>>, 1), shape)

Read(state, x) == SumAxis(Binary(state, x), 3)

Wrote(a, state, k, v, beta, b) ==
    Binary(state, Binary(k, Reshape(Binary(Binary(v, Read(state, k)), beta), <<b.batch, a.vHeads, a.vDim, 1>>)))

KeyLane(a, x, t, b) == Lane(x, t, <<b.batch, a.vHeads, 1, a.kDim>>)

Stepped(a, state, s, t, b) ==
    Wrote(a, Binary(Tagged(state, {400}), Lane(s.g, t, <<b.batch, a.vHeads, 1, 1>>)), KeyLane(a, s.k, t, b),
          Lane(s.v, t, <<b.batch, a.vHeads, a.vDim>>), Lane(s.beta, t, <<b.batch, a.vHeads, 1>>), b)

\* A row keeps its state at its padding, though the query reads the other.
Restored(next, before, b, t) == Merged(next, before.state, LAMBDA ix : Live(b.pad, b.L, ix[1], t))

After(a, next, before, s, t, b) ==
    [state |-> Restored(next, before, b, t),
     ys |-> Append(before.ys, Reshape(Read(next, KeyLane(a, s.q, t, b)), <<b.batch, 1, a.vHeads, a.vDim>>))]

\* The state after the first n tokens of a block of streams s, and the outputs.
NextOf(a, before, s, t, b) == After(a, Stepped(a, before.state, s, t, b), before, s, t, b)

RECURSIVE Scanned(_, _, _, _, _)
Scanned(a, start, s, n, b) ==
    IF n = 0 THEN [state |-> start, ys |-> <<>>] ELSE NextOf(a, Scanned(a, start, s, n - 1, b), s, n - 1, b)

\* The streams: queries, keys and values after the convolution, the decay and
\* the strength of writing.
KeyStream(a, x, b) == Repeat(RMSNorm(Reshape(x, <<b.batch, b.L, a.kHeads, a.kDim>>), Nil), VPerK(a), 2)

computeG(m, l, alpha) ==
    Binary(Binary(alpha, m.weights[<<l, "linear_attn.dt_bias", "scalar">>]), m.weights[<<l, "linear_attn.A_log", "scalar">>])

Streams(m, l, conv, ba, b) ==
    [q |-> KeyStream(m.args, conv[1], b), k |-> KeyStream(m.args, conv[2], b),
     v |-> Reshape(conv[3], <<b.batch, b.L, m.args.vHeads, m.args.vDim>>),
     g |-> computeG(m, l, Reshape(ba[2], <<b.batch, b.L, m.args.vHeads>>)),
     beta |-> Reshape(ba[1], <<b.batch, b.L, m.args.vHeads>>)]

\* What the cache holds, or nothing yet.
Held(x, shape) == IF x = Nil THEN Zeros(shape) ELSE x
StateOf(a, cache, b)  == Held(cache.ssm, <<b.batch, a.vHeads, a.vDim, a.kDim>>)
WindowOf(a, cache, b) == Held(cache.conv, <<b.batch, a.kernel - 1, ConvDim(a)>>)

Ended(m, l, end, z, input, cache, b) ==
    [cache |-> SetState(cache, NextWindow(input, m.args.kernel, b.L), end.state, b.L),
     out |-> Proj(m, l, "linear_attn.out_proj",
                  Reshape(Binary(Reshape(z, <<b.batch, b.L, m.args.vHeads, m.args.vDim>>),
                                 NormOf(m, l, "linear_attn.norm", Concatenate(end.ys, 1))), <<b.batch, b.L, ValueDim(m.args)>>))]

Convolved(m, l, input, b) ==
    SplitSections(depthwiseConv1d(input, m.weights[Name(l, "linear_attn.conv1d")], ConvDim(m.args), m.args.kernel, b.L),
                  <<KeyDim(m.args), 2 * KeyDim(m.args)>>, -1)

OfInput(m, l, input, z, ba, cache, b) ==
    Ended(m, l, Scanned(m.args, StateOf(m.args, cache, b), Streams(m, l, Convolved(m, l, input, b), ba, b), b.L, b),
          z, input, cache, b)

\* The bands of queries, keys and values side by side, without the padding.
Bands(a, qkvz, b) ==
    Concatenate(<<Reshape(qkvz[1], <<b.batch, b.L, KeyDim(a)>>), Reshape(qkvz[2], <<b.batch, b.L, KeyDim(a)>>),
                  Reshape(qkvz[3], <<b.batch, b.L, ValueDim(a)>>)>>, 2)

LiveOnly(x, b) == Merged(x, Zeros(x.shape), LAMBDA ix : Live(b.pad, b.L, ix[1], ix[2]))

OfBands(m, l, qkvz, ba, cache, b) ==
    OfInput(m, l, Concat2(WindowOf(m.args, cache, b), LiveOnly(Bands(m.args, qkvz, b), b), 1), qkvz[4], ba, cache, b)

GroupOf(a) == 2 * a.kDim + 2 * VPerK(a) * a.vDim

gatedDeltaNet(m, l, x, cache, b) ==
    OfBands(m, l, SplitSections(Reshape(Proj(m, l, "linear_attn.in_proj_qkvz", x), <<b.batch, b.L, m.args.kHeads, GroupOf(m.args)>>),
                                QKVZSplits(m.args), -1),
            SplitSections(Reshape(Proj(m, l, "linear_attn.in_proj_ba", x), <<b.batch, b.L, m.args.kHeads, 2 * VPerK(m.args)>>),
                          BASplits(m.args), -1), cache, b)

-----------------------------------------------------------------------------
(* The MLP and the forward.                                                *)

qswiglu(m, l, block, x) ==
    ProjOf(m, l, block \o ".down_proj", SwiGLU(ProjOf(m, l, block \o ".gate_proj", x), ProjOf(m, l, block \o ".up_proj", x)))

SwitchOf(m, l, proj) == QOf(m, l, "mlp.switch_mlp." \o proj)

Routed(m, l, x, gates, inds, b) ==
    Weighted(switchGLUFor(x, SwitchOf(m, l, "gate_proj"), SwitchOf(m, l, "up_proj"), SwitchOf(m, l, "down_proj"), inds),
             Scores(gates, inds), b.batch, b.L, m.args.perTok)

OfGates(m, l, x, gates, b) == Routed(m, l, x, gates, Selection(gates, m.args.perTok), b)

qwen3NextMoE(m, l, x, b) ==
    Binary(OfGates(m, l, x, ProjOf(m, l, "mlp.gate", x), b),
           Binary(ProjOf(m, l, "mlp.shared_expert_gate", x), qswiglu(m, l, "mlp.shared_expert", x)))

MLP(m, l, x, b) == IF IsMoELayer(m.args, l) THEN qwen3NextMoE(m, l, x, b) ELSE qswiglu(m, l, "mlp", x)

Mixer(m, l, x, cache, b) ==
    IF IsLinear(m.args, l) THEN gatedDeltaNet(m, l, x, cache, b) ELSE qwen3NextAttention(m, l, x, cache, b)

Fed(m, l, st, b) == [st EXCEPT !.h = Binary(@, MLP(m, l, NormOf(m, l, "post_attention_layernorm", @), b))]

Layer(m, l, st, b) ==
    Fed(m, l, Residual(st, l, Mixer(m, l, NormOf(m, l, "input_layernorm", st.h), st.caches[l], b)), b)

RECURSIVE Layers(_, _, _, _)
Layers(m, l, start, b) == IF l = 0 THEN start ELSE Layer(m, l, Layers(m, l - 1, start, b), b)

Run(m, tokens, b, caches) == Logits(m, Layers(m, m.args.layers, Start(m, tokens, b, caches), b), HeadName(m.args))

forwardBL(m, tokens, batch, L, caches) ==
    IF Len(caches) # m.args.layers THEN Failure(caches) ELSE Run(m, tokens, Block(batch, L, caches), caches)

\* The arrays of a checkpoint whose experts are stacked.
Dims(a) ==
    ("self_attn.q_proj" :> <<QProjOut(a), a.hidden>>) @@ ("self_attn.o_proj" :> <<a.hidden, a.heads * a.headDim>>)
    @@ [m \in In("self_attn", {"k_proj", "v_proj"}) |-> <<a.kvHeads * a.headDim, a.hidden>>]
    @@ [m \in In("self_attn", {"q_norm", "k_norm"}) |-> <<a.headDim>>]
    @@ ("linear_attn.in_proj_qkvz" :> <<InProjQKVZOut(a), a.hidden>>) @@ ("linear_attn.in_proj_ba" :> <<InProjBAOut(a), a.hidden>>)
    @@ ("linear_attn.out_proj" :> <<a.hidden, ValueDim(a)>>) @@ ("linear_attn.conv1d" :> <<ConvDim(a), a.kernel, 1>>)
    @@ ("linear_attn.norm" :> <<a.vDim>>) @@ [m \in In("linear_attn", {"A_log", "dt_bias"}) |-> <<a.vHeads>>]
    @@ ("mlp.gate" :> <<a.experts, a.hidden>>) @@ ("mlp.shared_expert_gate" :> <<1, a.hidden>>)
    @@ [m \in In("mlp", {"gate_proj", "up_proj"}) |-> <<a.inter, a.hidden>>] @@ ("mlp.down_proj" :> <<a.hidden, a.inter>>)
    @@ [m \in In("mlp.shared_expert", {"gate_proj", "up_proj"}) |-> <<a.sharedInter, a.hidden>>]
    @@ ("mlp.shared_expert.down_proj" :> <<a.hidden, a.sharedInter>>)
    @@ [m \in In("mlp.switch_mlp", {"gate_proj", "up_proj"}) |-> <<a.experts, a.moeInter, a.hidden>>]
    @@ ("mlp.switch_mlp.down_proj" :> <<a.experts, a.hidden, a.moeInter>>)
    @@ [m \in {"model.embed_tokens", "lm_head"} |-> <<a.vocab, a.hidden>>] @@ [m \in Norms \cup {"model.norm"} |-> <<a.hidden>>]

Linears(a) == {"model.embed_tokens", "lm_head"} \cup UNION {MixerLinears(a, l) \cup MLPLinears(a, l) : l \in 1..a.layers}
=============================================================================
