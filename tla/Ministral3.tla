------------------------------ MODULE Ministral3 -------------------------------
(***************************************************************************)
(* The Ministral 3 family (compute/models/ministral3.go): as Llama without *)
(* biases, with queries that are multiplied by a number that depends on    *)
(* their position.  Its depth is the length of layer_types; a layer's kind *)
(* (full or sliding) changes nothing in the forward, and the adapter gives *)
(* every layer a growing cache.  originalMax is 0 if the config has none.  *)
(***************************************************************************)
EXTENDS Decoder, TLC

Parse(c) ==
    [hidden |-> c.hidden, layers |-> c.layers, inter |-> c.inter, heads |-> c.heads, vocab |-> c.vocab,
     headDim |-> Given(c.headDim, c.hidden \div c.heads), kvHeads |-> Given(c.kvHeads, c.heads),
     tied |-> Given(c.tied, TRUE), window |-> c.window,
     layerTypes |-> Given(c.layerTypes, [l \in 1..c.layers |-> "full_attention"]),
     originalMax |-> c.originalMax, quant |-> c.quant]

Accepts(c) ==
    /\ c.heads > 0 /\ c.hasTheta
    /\ LET a == Parse(c)
       IN /\ a.hidden > 0 /\ a.headDim > 0 /\ a.vocab > 0 /\ a.layerTypes # <<>> /\ a.heads % a.kvHeads = 0
          /\ \A l \in DOMAIN a.layerTypes :
               \/ a.layerTypes[l] = "full_attention"
               \/ a.layerTypes[l] = "sliding_attention" /\ a.window > 0

NumLayers(a) == Len(a.layerTypes)
QProjOut(a)  == a.heads * a.headDim
KVProjOut(a) == a.kvHeads * a.headDim

Projs == {"self_attn.q_proj", "self_attn.k_proj", "self_attn.v_proj", "self_attn.o_proj",
          "mlp.gate_proj", "mlp.up_proj", "mlp.down_proj"}
Norms == {"input_layernorm", "post_attention_layernorm"}

WeightNames(a) ==
    Weights(0, {"model.embed_tokens", "model.norm"} \cup (IF a.tied THEN {} ELSE {"lm_head"}))
    \cup UNION {Weights(l, Norms \cup Projs) : l \in 1..NumLayers(a)}

\* Sanitize: no rotary buffers, no fp8 scales, no head for a tied model.
Drops(a, name) ==
    \/ name[2] = "self_attn.rotary_emb.inv_freq" \/ name[3] = "activation_scale"
    \/ a.tied /\ name = Name(0, "lm_head")

Sanitize(a, w) == [name \in {n \in DOMAIN w : ~Drops(a, n)} |-> w[name]]

\* What NewMinistral3Model asks for.
Builds(a, w) ==
    /\ Loads(w, 0, "model.embed_tokens", a.quant) /\ Name(0, "model.norm") \in DOMAIN w
    /\ a.tied \/ Loads(w, 0, "lm_head", a.quant)
    /\ \A l \in 1..NumLayers(a) :
         Weights(l, Norms) \subseteq DOMAIN w /\ \A p \in Projs : Loads(w, l, p, a.quant)

\* The scale of the query at a position: one for each run of originalMax
\* positions; before position 0 it is the logarithm of zero or less.
ScaleAt(a, pos) ==
    [p |-> {}, a |-> IF a.originalMax <= 0 THEN {}
                     ELSE IF pos < 0 THEN {NaN} ELSE {<<1000 + pos \div a.originalMax>>}]

AttnScale(a, L, offset) == Array(<<1, 1, L, 1>>, LAMBDA ix : ScaleAt(a, offset + ix[3]))

AttnScaleBatch(a, L, offsets) ==
    Array(<<Len(offsets), 1, L, 1>>, LAMBDA ix : ScaleAt(a, offsets[ix[1] + 1] + ix[3]))

Scale(a, cache, b) ==
    IF b.perRow = <<>> THEN AttnScale(a, b.L, cache.offset) ELSE AttnScaleBatch(a, b.L, b.perRow)

Turned(m, l, module, x, cache, b, n) == Rotated(HeadsOf(m, l, module, x, b, n), m.args.headDim, cache, b.perRow)

Attn(m, l, x, cache, b) ==
    Attention(Binary(Turned(m, l, "self_attn.q_proj", x, cache, b, m.args.heads), Scale(m.args, cache, b)),
              Turned(m, l, "self_attn.k_proj", x, cache, b, m.args.kvHeads),
              HeadsOf(m, l, "self_attn.v_proj", x, b, m.args.kvHeads), cache, b, QProjOut(m.args))

Out(m, l, att) == [cache |-> att.cache, out |-> ProjOf(m, l, "self_attn.o_proj", att.out)]

Fed(m, l, st) == [st EXCEPT !.h = Binary(@, GatedMLP(m, l, NormOf(m, l, "post_attention_layernorm", @)))]

Layer(m, l, st, b) ==
    Fed(m, l, Residual(st, l, Out(m, l, Attn(m, l, NormOf(m, l, "input_layernorm", st.h), st.caches[l], b))))

RECURSIVE Layers(_, _, _, _)
Layers(m, l, start, b) == IF l = 0 THEN start ELSE Layer(m, l, Layers(m, l - 1, start, b), b)

Run(m, tokens, b, caches) == Logits(m, Layers(m, NumLayers(m.args), Start(m, tokens, b, caches), b), HeadName(m.args))

forwardBL(m, tokens, batch, L, caches) ==
    IF Len(caches) # NumLayers(m.args) THEN Failure(caches) ELSE Run(m, tokens, Block(batch, L, caches), caches)

\* The checkpoint's arrays.
Dims(a) ==
    ("self_attn.q_proj" :> <<QProjOut(a), a.hidden>>) @@ ("self_attn.k_proj" :> <<KVProjOut(a), a.hidden>>)
    @@ ("self_attn.v_proj" :> <<KVProjOut(a), a.hidden>>) @@ ("self_attn.o_proj" :> <<a.hidden, QProjOut(a)>>)
    @@ ("mlp.gate_proj" :> <<a.inter, a.hidden>>) @@ ("mlp.up_proj" :> <<a.inter, a.hidden>>)
    @@ ("mlp.down_proj" :> <<a.hidden, a.inter>>) @@ [m \in {"model.embed_tokens", "lm_head"} |-> <<a.vocab, a.hidden>>]
    @@ [m \in Norms \cup {"model.norm"} |-> <<a.hidden>>]

Linears == Projs \cup {"model.embed_tokens", "lm_head"}
=============================================================================
