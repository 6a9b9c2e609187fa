--------------------------------- MODULE Llama ---------------------------------
(***************************************************************************)
(* The Llama 3 family (compute/models/llama.go): config, weight names,     *)
(* assembly and forward.                                                   *)
(***************************************************************************)
EXTENDS Decoder, TLC

\* ParseLlamaArgs: head_dim, the kv heads and the tie have defaults.
Parse(c) ==
    [hidden |-> c.hidden, layers |-> c.layers, inter |-> c.inter, heads |-> c.heads, vocab |-> c.vocab,
     headDim  |-> Given(c.headDim, c.hidden \div c.heads),
     kvHeads  |-> Given(c.kvHeads, c.heads),
     attnBias |-> c.attnBias, mlpBias |-> c.mlpBias,
     tied     |-> Given(c.tied, TRUE),
     quant    |-> c.quant]

Accepts(c) ==
    /\ c.heads > 0
    /\ LET a == Parse(c)
       IN a.hidden > 0 /\ a.layers > 0 /\ a.headDim > 0 /\ a.vocab > 0 /\ a.heads % a.kvHeads = 0

QProjOut(a)  == a.heads * a.headDim
KVProjOut(a) == a.kvHeads * a.headDim

AttnProjs == {"self_attn.q_proj", "self_attn.k_proj", "self_attn.v_proj", "self_attn.o_proj"}
MLPProjs  == {"mlp.gate_proj", "mlp.up_proj", "mlp.down_proj"}
Norms     == {"input_layernorm", "post_attention_layernorm"}

WeightNames(a) ==
    Weights(0, {"model.embed_tokens", "model.norm"} \cup (IF a.tied THEN {} ELSE {"lm_head"}))
    \cup UNION {Weights(l, Norms \cup AttnProjs \cup MLPProjs)
                \cup (IF a.attnBias THEN Biases(l, AttnProjs) ELSE {})
                \cup (IF a.mlpBias THEN Biases(l, MLPProjs) ELSE {}) : l \in 1..a.layers}

\* Sanitize takes out the rotary buffers, and the head of a tied checkpoint.
Drops(a, name) ==
    \/ name[2] = "self_attn.rotary_emb.inv_freq"
    \/ a.tied /\ name = Name(0, "lm_head")

Sanitize(a, w) == [name \in {n \in DOMAIN w : ~Drops(a, n)} |-> w[name]]

\* What NewLlamaModel asks for; without it the model is not built.
Builds(a, w) ==
    /\ Loads(w, 0, "model.embed_tokens", a.quant) /\ Name(0, "model.norm") \in DOMAIN w
    /\ a.tied \/ Loads(w, 0, "lm_head", a.quant)
    /\ \A l \in 1..a.layers :
         /\ Weights(l, Norms) \subseteq DOMAIN w
         /\ \A p \in AttnProjs \cup MLPProjs : Loads(w, l, p, a.quant)
         /\ a.attnBias => Biases(l, AttnProjs) \subseteq DOMAIN w
         /\ a.mlpBias => Biases(l, MLPProjs) \subseteq DOMAIN w

\* x through a projection of layer l, with its bias if the config has it.
HasBias(a, module) == IF module \in MLPProjs THEN a.mlpBias ELSE a.attnBias

Proj(m, l, module, x) ==
    PlusBias(ProjOf(m, l, module, x), IF HasBias(m.args, module) THEN m.weights[<<l, module, "bias">>] ELSE Nil)

OfHeads(m, l, module, x, b, n) == Heads(Proj(m, l, module, x), b.batch, b.L, n, m.args.headDim)

Attn(m, l, x, cache, b) ==
    SelfAttention(OfHeads(m, l, "self_attn.q_proj", x, b, m.args.heads), OfHeads(m, l, "self_attn.k_proj", x, b, m.args.kvHeads),
                  OfHeads(m, l, "self_attn.v_proj", x, b, m.args.kvHeads), m.args.headDim, cache, b, QProjOut(m.args))

Out(m, l, att) == [cache |-> att.cache, out |-> Proj(m, l, "self_attn.o_proj", att.out)]

MLP(m, l, x) == Proj(m, l, "mlp.down_proj", SwiGLU(Proj(m, l, "mlp.gate_proj", x), Proj(m, l, "mlp.up_proj", x)))

Fed(m, l, st) == [st EXCEPT !.h = Binary(@, MLP(m, l, NormOf(m, l, "post_attention_layernorm", @)))]

Layer(m, l, st, b) ==
    Fed(m, l, Residual(st, l, Out(m, l, Attn(m, l, NormOf(m, l, "input_layernorm", st.h), st.caches[l], b))))

RECURSIVE Layers(_, _, _, _)
Layers(m, l, start, b) == IF l = 0 THEN start ELSE Layer(m, l, Layers(m, l - 1, start, b), b)

Run(m, tokens, b, caches) == Logits(m, Layers(m, m.args.layers, Start(m, tokens, b, caches), b), HeadName(m.args))

forwardBL(m, tokens, batch, L, caches) ==
    IF Len(caches) # m.args.layers THEN Failure(caches) ELSE Run(m, tokens, Block(batch, L, caches), caches)

\* The checkpoint's arrays.
Dims(a) ==
    ("self_attn.q_proj" :> <<QProjOut(a), a.hidden>>) @@ ("self_attn.k_proj" :> <<KVProjOut(a), a.hidden>>)
    @@ ("self_attn.v_proj" :> <<KVProjOut(a), a.hidden>>) @@ ("self_attn.o_proj" :> <<a.hidden, QProjOut(a)>>)
    @@ ("mlp.gate_proj" :> <<a.inter, a.hidden>>) @@ ("mlp.up_proj" :> <<a.inter, a.hidden>>)
    @@ ("mlp.down_proj" :> <<a.hidden, a.inter>>) @@ [m \in {"model.embed_tokens", "lm_head"} |-> <<a.vocab, a.hidden>>]
    @@ [m \in Norms \cup {"model.norm"} |-> <<a.hidden>>]

Linears == AttnProjs \cup MLPProjs \cup {"model.embed_tokens", "lm_head"}
=============================================================================
