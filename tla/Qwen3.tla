--------------------------------- MODULE Qwen3 ---------------------------------
(***************************************************************************)
(* The dense Qwen3 family (compute/models/qwen3.go, qwen3_forward.go): as  *)
(* Llama, with a norm on each head's queries and keys and without biases.  *)
(* A head_dim or a number of kv heads that is zero is taken as absent.     *)
(***************************************************************************)
EXTENDS Decoder, TLC

Parse(c) ==
    [hidden |-> c.hidden, layers |-> c.layers, inter |-> c.inter, heads |-> c.heads, vocab |-> c.vocab,
     headDim |-> IF c.headDim = 0 THEN c.hidden \div c.heads ELSE c.headDim,
     kvHeads |-> IF c.kvHeads = 0 THEN c.heads ELSE c.kvHeads,
     tied |-> c.tied, quant |-> c.quant]

Accepts(c) ==
    /\ c.heads > 0
    /\ LET a == Parse(c)
       IN a.hidden > 0 /\ a.layers > 0 /\ a.headDim > 0 /\ a.vocab > 0 /\ a.heads % a.kvHeads = 0

QProjOut(a)  == a.heads * a.headDim
KVProjOut(a) == a.kvHeads * a.headDim

Projs == {"self_attn.q_proj", "self_attn.k_proj", "self_attn.v_proj", "self_attn.o_proj",
          "mlp.gate_proj", "mlp.up_proj", "mlp.down_proj"}
HeadNorms == {"self_attn.q_norm", "self_attn.k_norm"}
Norms     == {"input_layernorm", "post_attention_layernorm"} \cup HeadNorms

WeightNames(a) ==
    Weights(0, {"model.embed_tokens", "model.norm"} \cup (IF a.tied THEN {} ELSE {"lm_head"}))
    \cup UNION {Weights(l, Norms \cup Projs) : l \in 1..a.layers}

\* Sanitize takes out the head of a tied checkpoint.
Sanitize(a, w) ==
    [name \in DOMAIN w \ (IF a.tied THEN {Name(0, "lm_head")} ELSE {}) |-> w[name]]

\* What NewQwen3Model asks for.
Builds(a, w) ==
    /\ Loads(w, 0, "model.embed_tokens", a.quant) /\ Name(0, "model.norm") \in DOMAIN w
    /\ a.tied \/ Loads(w, 0, "lm_head", a.quant)
    /\ \A l \in 1..a.layers :
         Weights(l, Norms) \subseteq DOMAIN w /\ \A p \in Projs : Loads(w, l, p, a.quant)

\* Queries and keys are normed, head by head.
NormedHeads(m, l, proj, norm, x, b, n) ==
    Transpose(NormOf(m, l, norm, Reshape(ProjOf(m, l, proj, x), <<b.batch, b.L, n, m.args.headDim>>)), <<0, 2, 1, 3>>)

Attn(m, l, x, cache, b) ==
    SelfAttention(NormedHeads(m, l, "self_attn.q_proj", "self_attn.q_norm", x, b, m.args.heads),
                  NormedHeads(m, l, "self_attn.k_proj", "self_attn.k_norm", x, b, m.args.kvHeads),
                  HeadsOf(m, l, "self_attn.v_proj", x, b, m.args.kvHeads), m.args.headDim, cache, b, QProjOut(m.args))

Out(m, l, att) == [cache |-> att.cache, out |-> ProjOf(m, l, "self_attn.o_proj", att.out)]

Fed(m, l, st) == [st EXCEPT !.h = Binary(@, GatedMLP(m, l, NormOf(m, l, "post_attention_layernorm", @)))]

Layer(m, l, st, b) ==
    Fed(m, l, Residual(st, l, Out(m, l, Attn(m, l, NormOf(m, l, "input_layernorm", st.h), st.caches[l], b))))

RECURSIVE Layers(_, _, _, _)
Layers(m, l, start, b) == IF l = 0 THEN start ELSE Layer(m, l, Layers(m, l - 1, start, b), b)

Run(m, tokens, b, caches) == Logits(m, Layers(m, m.args.layers, Start(m, tokens, b, caches), b), HeadName(m.args))

forwardBL(m, tokens, batch, L, caches) ==
    IF Len(caches) # m.args.layers THEN Failure(caches) ELSE Run(m, tokens, Block(batch, L, caches), caches)

\* The checkpoint's arrays.
Dims(a) ==
    ("self_attn.q_proj" :> <<QProjOut(a), a.hidden>>) @@ ("self_attn.k_proj" :> <<KVProjOut(a), a.hidden>>)
    @@ ("self_attn.v_proj" :> <<KVProjOut(a), a.hidden>>) @@ ("self_attn.o_proj" :> <<a.hidden, QProjOut(a)>>)
    @@ ("mlp.gate_proj" :> <<a.inter, a.hidden>>) @@ ("mlp.up_proj" :> <<a.inter, a.hidden>>)
    @@ ("mlp.down_proj" :> <<a.hidden, a.inter>>) @@ [m \in {"model.embed_tokens", "lm_head"} |-> <<a.vocab, a.hidden>>]
    @@ [m \in HeadNorms |-> <<a.headDim>>] @@ [m \in (Norms \ HeadNorms) \cup {"model.norm"} |-> <<a.hidden>>]

Linears == Projs \cup {"model.embed_tokens", "lm_head"}
=============================================================================
