--------------------------------- MODULE Glm4 ----------------------------------
(***************************************************************************)
(* The dense GLM-4 family (compute/models/glm4.go): a norm after attention *)
(* and after the MLP, a fused gate-and-up projection, and a rotation of    *)
(* the first features of each head only.  partial_rotary_factor is a pair  *)
(* <<numerator, denominator>>.                                             *)
(***************************************************************************)
EXTENDS Decoder, TLC

Parse(c) ==
    [hidden |-> c.hidden, layers |-> c.layers, inter |-> c.inter, heads |-> c.heads, vocab |-> c.vocab,
     headDim |-> IF Given(c.headDim, 0) > 0 THEN Given(c.headDim, 0) ELSE c.hidden \div c.heads,
     kvHeads |-> c.kvHeads, rotary |-> c.rotary, bias |-> c.bias, quant |-> c.quant]

Accepts(c) ==
    /\ c.heads > 0
    /\ LET a == Parse(c)
       IN /\ a.hidden > 0 /\ a.headDim > 0 /\ a.vocab > 0 /\ a.layers > 0
          /\ a.kvHeads > 0 /\ a.heads % a.kvHeads = 0
          /\ a.rotary[1] > 0 /\ a.rotary[1] <= a.rotary[2]

QProjOut(a)  == a.heads * a.headDim
KVProjOut(a) == a.kvHeads * a.headDim
RopeDims(a)  == (a.headDim * a.rotary[1]) \div a.rotary[2]

BiasedProjs == {"self_attn.q_proj", "self_attn.k_proj", "self_attn.v_proj"}
Projs == BiasedProjs \cup {"self_attn.o_proj", "mlp.gate_up_proj", "mlp.down_proj"}
Norms == {"input_layernorm", "post_attention_layernorm", "post_self_attn_layernorm", "post_mlp_layernorm"}

WeightNames(a) ==
    Weights(0, {"model.embed_tokens", "model.norm", "lm_head"})
    \cup UNION {Weights(l, Norms \cup Projs) \cup (IF a.bias THEN Biases(l, BiasedProjs) ELSE {})
                : l \in 1..a.layers}

Sanitize(a, w) == w

\* What NewGlm4Model asks for.
Builds(a, w) ==
    /\ Loads(w, 0, "model.embed_tokens", a.quant) /\ Name(0, "model.norm") \in DOMAIN w
    /\ Loads(w, 0, "lm_head", a.quant)
    /\ \A l \in 1..a.layers :
         /\ Weights(l, Norms) \subseteq DOMAIN w
         /\ \A p \in Projs : Loads(w, l, p, a.quant)
         /\ a.bias => Biases(l, BiasedProjs) \subseteq DOMAIN w

\* The gate and up halves of one projection.
glmMLP(m, l, x) == ProjOf(m, l, "mlp.down_proj", FusedSwiGLU(ProjOf(m, l, "mlp.gate_up_proj", x)))

Biased(m, l, module, x) == PlusBias(ProjOf(m, l, module, x), IF m.args.bias THEN m.weights[<<l, module, "bias">>] ELSE Nil)

OfHeads(m, l, module, x, b, n) == Heads(Biased(m, l, module, x), b.batch, b.L, n, m.args.headDim)

Attn(m, l, x, cache, b) ==
    SelfAttention(OfHeads(m, l, "self_attn.q_proj", x, b, m.args.heads), OfHeads(m, l, "self_attn.k_proj", x, b, m.args.kvHeads),
                  OfHeads(m, l, "self_attn.v_proj", x, b, m.args.kvHeads), RopeDims(m.args), cache, b, QProjOut(m.args))

Out(m, l, att) ==
    [cache |-> att.cache, out |-> NormOf(m, l, "post_self_attn_layernorm", ProjOf(m, l, "self_attn.o_proj", att.out))]

Fed(m, l, st) ==
    [st EXCEPT !.h = Binary(@, NormOf(m, l, "post_mlp_layernorm", glmMLP(m, l, NormOf(m, l, "post_attention_layernorm", @))))]

Layer(m, l, st, b) ==
    Fed(m, l, Residual(st, l, Out(m, l, Attn(m, l, NormOf(m, l, "input_layernorm", st.h), st.caches[l], b))))

RECURSIVE Layers(_, _, _, _)
Layers(m, l, start, b) == IF l = 0 THEN start ELSE Layer(m, l, Layers(m, l - 1, start, b), b)

Run(m, tokens, b, caches) == Logits(m, Layers(m, m.args.layers, Start(m, tokens, b, caches), b), "lm_head")

forwardBL(m, tokens, batch, L, caches) ==
    IF Len(caches) # m.args.layers THEN Failure(caches) ELSE Run(m, tokens, Block(batch, L, caches), caches)

\* The checkpoint's arrays.
Dims(a) ==
    ("self_attn.q_proj" :> <<QProjOut(a), a.hidden>>) @@ ("self_attn.k_proj" :> <<KVProjOut(a), a.hidden>>)
    @@ ("self_attn.v_proj" :> <<KVProjOut(a), a.hidden>>) @@ ("self_attn.o_proj" :> <<a.hidden, QProjOut(a)>>)
    @@ ("mlp.gate_up_proj" :> <<2 * a.inter, a.hidden>>) @@ ("mlp.down_proj" :> <<a.hidden, a.inter>>)
    @@ [m \in {"model.embed_tokens", "lm_head"} |-> <<a.vocab, a.hidden>>]
    @@ [m \in Norms \cup {"model.norm"} |-> <<a.hidden>>]

Linears == Projs \cup {"model.embed_tokens", "lm_head"}
=============================================================================
