------------------------------ MODULE Gemma4Text -------------------------------
(***************************************************************************)
(* The Gemma 4 text family (compute/models/gemma4_text.go and              *)
(* gemma4_text_forward.go): sliding and full attention layers with head    *)
(* dimensions of their own, layers at the end that read the keys and       *)
(* values of an earlier layer of the same kind, layers whose values are    *)
(* their keys, and an input of its own for each layer.  Factors, GELU and  *)
(* the soft cap change numbers only and are left out.                      *)
(***************************************************************************)
EXTENDS Decoder, TLC

Full    == "full_attention"
Sliding == "sliding_attention"

\* gemma4DefaultLayerTypes: pattern - 1 sliding layers, then a full one.
DefaultLayerTypes(pattern, depth) ==
    LET n == IF pattern < 1 THEN 1 ELSE pattern
    IN [l \in 1..depth |-> IF (l - 1) % n = n - 1 THEN Full ELSE Sliding]

Parse(c) ==
    [hidden |-> c.hidden, inter |-> c.inter, heads |-> c.heads, vocab |-> c.vocab,
     headDim |-> Given(c.headDim, 256), globalHeadDim |-> Given(c.globalHeadDim, 512),
     kvHeads |-> Given(c.kvHeads, 1), globalKVHeads |-> Given(c.globalKVHeads, 0),
     shared |-> c.shared, perLayer |-> Given(c.perLayer, 256), window |-> c.window,
     kEqV |-> c.kEqV, moe |-> c.moe, tied |-> Given(c.tied, TRUE),
     layerTypes |-> Given(c.layerTypes, DefaultLayerTypes(c.pattern, c.layers)),
     partial |-> [kind \in {Full, Sliding} |-> IF kind = Full THEN <<1, 4>> ELSE <<1, 1>>],
     quant |-> c.quant]

Accepts(c) ==
    /\ c.heads > 0
    /\ LET a == Parse(c)
       IN /\ a.hidden > 0 /\ a.headDim > 0 /\ a.vocab > 0 /\ a.layerTypes # <<>>
          /\ a.shared >= 0 /\ a.shared <= Len(a.layerTypes)
          /\ \A l \in DOMAIN a.layerTypes : a.layerTypes[l] \in {Full, Sliding}
                                             /\ (a.layerTypes[l] = Sliding => a.window > 0)

NumLayers(a)     == Len(a.layerTypes)
FirstKVShared(a) == NumLayers(a) - a.shared
HasKV(a, l)      == l <= FirstKVShared(a)
IsSliding(a, l)  == a.layerTypes[l] = Sliding
UseKEqV(a, l)    == a.kEqV /\ ~IsSliding(a, l)
HasPerLayerInputs(a) == a.perLayer > 0

\* The owning layers of the kind of layer l.
Owners(a, l) == {o \in 1..FirstKVShared(a) : a.layerTypes[o] = a.layerTypes[l]}

\* PreviousKVs: the last layer of the kind that owns keys and values; the
\* first layer if there is none, as a Go map answers zero.
PreviousKV(a, l) ==
    IF HasKV(a, l) THEN l
    ELSE IF Owners(a, l) = {} THEN 1 ELSE CHOOSE o \in Owners(a, l) : \A p \in Owners(a, l) : p <= o

PerLayerHeadDim(a, l) ==
    IF ~IsSliding(a, l) /\ a.globalHeadDim > 0 THEN a.globalHeadDim ELSE a.headDim
PerLayerNumKVHeads(a, l) ==
    IF UseKEqV(a, l) /\ a.globalKVHeads > 0 THEN a.globalKVHeads ELSE a.kvHeads

BlockNorms == {"input_layernorm", "post_attention_layernorm", "pre_feedforward_layernorm", "post_feedforward_layernorm"}
MLPProjs   == {"mlp.gate_proj", "mlp.up_proj", "mlp.down_proj"}
InputPath  == {"per_layer_input_gate", "per_layer_projection", "post_per_layer_input_norm"}
TopInputs  == {"model.embed_tokens_per_layer", "model.per_layer_model_projection", "model.per_layer_projection_norm"}

Scalar(l) == <<l, "layer_scalar", "scalar">>

\* The modules that layer l has of its own.
LayerModules(a, l) ==
    BlockNorms \cup MLPProjs \cup {"self_attn.o_proj", "self_attn.q_norm", "self_attn.q_proj"}
    \cup (IF HasKV(a, l) THEN {"self_attn.k_norm", "self_attn.k_proj"} ELSE {})
    \cup (IF HasKV(a, l) /\ ~UseKEqV(a, l) THEN {"self_attn.v_proj"} ELSE {})
    \cup (IF HasPerLayerInputs(a) THEN InputPath ELSE {})

WeightNames(a) ==
    Weights(0, {"model.embed_tokens", "model.norm"} \cup (IF a.tied THEN {} ELSE {"lm_head"})
               \cup (IF HasPerLayerInputs(a) THEN TopInputs ELSE {}))
    \cup UNION {Weights(l, LayerModules(a, l)) \cup {Scalar(l)} : l \in 1..NumLayers(a)}

\* Sanitize: no rotary buffers, no quantization ranges, no head if tied.
Drops(a, name) ==
    \/ name[2] = "self_attn.rotary_emb.inv_freq"
    \/ name[3] \in {"input_max", "input_min", "output_max", "output_min"}
    \/ a.tied /\ name = Name(0, "lm_head")

Sanitize(a, w) == [name \in {n \in DOMAIN w : ~Drops(a, n)} |-> w[name]]

Linears == {"model.embed_tokens", "lm_head", "model.embed_tokens_per_layer", "model.per_layer_model_projection",
            "self_attn.q_proj", "self_attn.k_proj", "self_attn.v_proj", "self_attn.o_proj",
            "per_layer_input_gate", "per_layer_projection"} \cup MLPProjs

Asks(w, l, modules, quant) ==
    \A m \in modules : IF m \in Linears THEN Loads(w, l, m, quant) ELSE Name(l, m) \in DOMAIN w

\* What NewGemma4TextModel asks for; experts and a model without a layer that
\* owns keys are refused.
Builds(a, w) ==
    /\ ~a.moe /\ FirstKVShared(a) > 0
    /\ Asks(w, 0, {"model.embed_tokens", "model.norm"}, a.quant)
    /\ HasPerLayerInputs(a) => Asks(w, 0, TopInputs, a.quant)
    /\ \A l \in 1..NumLayers(a) :
         /\ Asks(w, l, BlockNorms \cup MLPProjs \cup {"self_attn.q_norm", "self_attn.q_proj", "self_attn.o_proj"}, a.quant)
         /\ Scalar(l) \in DOMAIN w
         /\ HasKV(a, l) => Asks(w, l, {"self_attn.k_proj", "self_attn.k_norm"}, a.quant)
         /\ HasKV(a, l) /\ ~UseKEqV(a, l) => Asks(w, l, {"self_attn.v_proj"}, a.quant)
         /\ HasPerLayerInputs(a) => Asks(w, l, InputPath, a.quant)
    /\ a.tied \/ Loads(w, 0, "lm_head", a.quant)

\* proportionalFreqs: the pairs <<k, k + half>> that turn at all.
TurnedPairs(headDim, part) == Min2(headDim \div 2, ((headDim * part[1]) \div part[2] + 1) \div 2)

Proportional(x, pairs, half, offset) ==
    Array(x.shape, LAMBDA ix : IF ix[4] % half < pairs THEN [At(x, ix) EXCEPT !.p = {offset + ix[3]}] ELSE At(x, ix))

ropeLayer(a, l, x, hd, offset) ==
    IF IsSliding(a, l) THEN RoPE(x, hd, offset)
    ELSE IF Failed(x) THEN Bad ELSE Proportional(x, TurnedPairs(hd, a.partial[Full]), hd \div 2, offset)

RECURSIVE RopeRows(_, _, _, _, _)
RopeRows(a, l, rows, hd, offsets) ==
    IF rows = <<>> THEN <<>>
    ELSE Append(RopeRows(a, l, Front(rows), hd, Front(offsets)), ropeLayer(a, l, Last(rows), hd, Last(offsets)))

Turned(a, l, x, hd, offset, perRow) ==
    IF Len(perRow) < 2 THEN ropeLayer(a, l, x, hd, IF perRow = <<>> THEN offset ELSE perRow[1])
    ELSE Concatenate(RopeRows(a, l, Split(x, Len(perRow), 0), hd, perRow), 0)

\* (A key may be as far away as the window is wide.)
Outside_Off(window, pad, p, j) == j > p \/ p - j > window \/ j < pad

\* What a query at p does not see: the future, what is behind the window, and
\* the padding.
Outside(window, pad, p, j) == j > p \/ p - j >= window \/ j < pad

slidingWindowMask(leftPad, L, offset, window) ==
    Array(<<Len(leftPad), 1, L, offset + L>>,
          LAMBDA ix : [Kept EXCEPT !.m = IF Outside(window, leftPad[ix[1] + 1], offset + ix[3], ix[4]) THEN 2 ELSE 0])

SlideMask(a, cache, L) ==
    slidingWindowMask(IF Padded(cache) THEN cache.leftPad ELSE <<0>>, L, cache.offset, a.window)

\* The inputs of all layers: [batch, L, layers, perLayer].
InputShape(a, b) == <<b.batch, b.L, NumLayers(a), a.perLayer>>

PerLayerInputs(m, h, tokens, b) ==
    Binary(NormOf(m, 0, "model.per_layer_projection_norm",
                  Reshape(ProjOf(m, 0, "model.per_layer_model_projection", h), InputShape(m.args, b))),
           Reshape(qembed(QOf(m, 0, "model.embed_tokens_per_layer"), tokens), InputShape(m.args, b)))

InputsOf(m, h, tokens, b) == IF HasPerLayerInputs(m.args) THEN PerLayerInputs(m, h, tokens, b) ELSE Nil

\* A run's block, and what its layers share besides: the sliding mask and the
\* inputs of the layers.
Run4(m, b, caches, inputs) == [block |-> b, slide |-> SlideMask(m.args, caches[1], b.L), inputs |-> inputs]

\* A projection as heads of the layer's width, normed.
HeadsWide(m, l, module, x, b, n) == Reshape(ProjOf(m, l, module, x), <<b.batch, b.L, n, PerLayerHeadDim(m.args, l)>>)
ToFront(y) == Transpose(y, <<0, 2, 1, 3>>)

TurnedHeads(m, l, y, offset, b) == Turned(m.args, l, ToFront(y), PerLayerHeadDim(m.args, l), offset, b.perRow)

\* The keys and values of layer l, its cache, and the offset of its queries.
OwnKV(grown, offset) == [keys |-> grown.keys, values |-> grown.values, offset |-> offset, cache |-> grown]

KeysOf(m, l, x, cache, b) ==
    TurnedHeads(m, l, NormOf(m, l, "self_attn.k_norm", HeadsWide(m, l, "self_attn.k_proj", x, b, PerLayerNumKVHeads(m.args, l))),
                cache.offset, b)

ValueProj(a, l) == IF UseKEqV(a, l) THEN "self_attn.k_proj" ELSE "self_attn.v_proj"

ValuesOf(m, l, x, b) == ToFront(RMSNorm(HeadsWide(m, l, ValueProj(m.args, l), x, b, PerLayerNumKVHeads(m.args, l)), Nil))

KVOf(m, l, x, st, b) ==
    IF HasKV(m.args, l) THEN OwnKV(Update(st.caches[l], KeysOf(m, l, x, st.caches[l], b), ValuesOf(m, l, x, b)), st.caches[l].offset)
    ELSE [st.kv[PreviousKV(m.args, l)] EXCEPT !.cache = st.caches[l]]

\* What the queries find in the keys and values of the layer.
Found(a, l, q, kv, r) ==
    IF IsSliding(a, l) THEN SDPA(q, kv.keys, kv.values, "", r.slide)
    ELSE SDPA(q, kv.keys, kv.values, r.block.attn.mode, r.block.attn.mask)

QueriesOf(m, l, x, offset, b) ==
    TurnedHeads(m, l, NormOf(m, l, "self_attn.q_norm", HeadsWide(m, l, "self_attn.q_proj", x, b, m.args.heads)), offset, b)

Attn(m, l, x, kv, r) ==
    ProjOf(m, l, "self_attn.o_proj",
           Unheaded(Found(m.args, l, QueriesOf(m, l, x, kv.offset, r.block), kv, r), r.block.batch, r.block.L,
                    m.args.heads * PerLayerHeadDim(m.args, l)))

\* The MLP between its norms, and the layer's own input.
Fed(m, l, h) ==
    Binary(h, NormOf(m, l, "post_feedforward_layernorm", GatedMLP(m, l, NormOf(m, l, "pre_feedforward_layernorm", h))))

OwnInput(m, l, r) == Reshape(Take(r.inputs, <<l - 1>>, 2), <<r.block.batch, r.block.L, m.args.perLayer>>)

WithInput(m, l, h, r) ==
    IF ~HasPerLayerInputs(m.args) THEN h
    ELSE Binary(h, NormOf(m, l, "post_per_layer_input_norm",
                          ProjOf(m, l, "per_layer_projection",
                                 Binary(ProjOf(m, l, "per_layer_input_gate", h), OwnInput(m, l, r)))))

Ended(m, l, st, kv, h, r) ==
    [h |-> Binary(WithInput(m, l, h, r), m.weights[Scalar(l)]), caches |-> [st.caches EXCEPT ![l] = kv.cache],
     kv |-> Append(st.kv, kv)]

Mixed2(m, l, st, x, kv, r) ==
    Ended(m, l, st, kv, Fed(m, l, Binary(st.h, NormOf(m, l, "post_attention_layernorm", Attn(m, l, x, kv, r)))), r)

Normed(m, l, st, x, r) == Mixed2(m, l, st, x, KVOf(m, l, x, st, r.block), r)

Layer(m, l, st, r) == Normed(m, l, st, NormOf(m, l, "input_layernorm", st.h), r)

RECURSIVE Layers(_, _, _, _)
Layers(m, l, start, r) == IF l = 0 THEN start ELSE Layer(m, l, Layers(m, l - 1, start, r), r)

Embedded(m, start, tokens, b) ==
    Layers(m, NumLayers(m.args), [h |-> start.h, caches |-> start.caches, kv |-> <<>>],
           Run4(m, b, start.caches, InputsOf(m, start.h, tokens, b)))

Run(m, tokens, b, caches) == Logits(m, Embedded(m, Start(m, tokens, b, caches), tokens, b), HeadName(m.args))

forwardBL(m, tokens, batch, L, caches) ==
    IF Len(caches) # NumLayers(m.args) THEN Failure(caches) ELSE Run(m, tokens, Block(batch, L, caches), caches)

\* The checkpoint's arrays, of layer l.
Dims(a, l) ==
    LET hd == PerLayerHeadDim(a, l)  nkv == PerLayerNumKVHeads(a, l)
    IN ("self_attn.q_proj" :> <<a.heads * hd, a.hidden>>) @@ ("self_attn.o_proj" :> <<a.hidden, a.heads * hd>>)
       @@ [m \in {"self_attn.k_proj", "self_attn.v_proj"} |-> <<nkv * hd, a.hidden>>]
       @@ [m \in {"self_attn.q_norm", "self_attn.k_norm"} |-> <<hd>>]
       @@ ("mlp.gate_proj" :> <<a.inter, a.hidden>>) @@ ("mlp.up_proj" :> <<a.inter, a.hidden>>)
       @@ ("mlp.down_proj" :> <<a.hidden, a.inter>>) @@ ("layer_scalar" :> <<1>>)
       @@ ("per_layer_input_gate" :> <<a.perLayer, a.hidden>>) @@ ("per_layer_projection" :> <<a.hidden, a.perLayer>>)
       @@ [m \in BlockNorms \cup {"post_per_layer_input_norm", "model.norm"} |-> <<a.hidden>>]
       @@ [m \in {"model.embed_tokens", "lm_head"} |-> <<a.vocab, a.hidden>>]
       @@ ("model.embed_tokens_per_layer" :> <<a.vocab, NumLayers(a) * a.perLayer>>)
       @@ ("model.per_layer_model_projection" :> <<NumLayers(a) * a.perLayer, a.hidden>>)
       @@ ("model.per_layer_projection_norm" :> <<a.perLayer>>)
=============================================================================
