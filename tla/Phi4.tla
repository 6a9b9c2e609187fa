--------------------------------- MODULE Phi4 ----------------------------------
(***************************************************************************)
(* The phi3 family of Phi-4 (compute/models/phi4.go): queries, keys and    *)
(* values in one projection, gate and up in another, a partial rotation,   *)
(* and a rope_scaling block that may be refused, dropped, linear, or of    *)
(* the kind (longrope, su) whose forward is not there yet.  A linear       *)
(* scaling divides all positions by the same number and is left out.       *)
(***************************************************************************)
EXTENDS Decoder, TLC

\* resolveRopeScaling, on a block with the keys it has and its type.
RopeScaling(c) ==
    IF c.scaling = {} THEN "none"
    ELSE LET s == CHOOSE s \in c.scaling : TRUE
         IN IF ~{"long_factor", "type"} \subseteq s.keys THEN "refused"
            ELSE IF s.type \in {"longrope", "su"} THEN "su"
            ELSE IF s.type = "linear" THEN "linear" ELSE "none"

Parse(c) ==
    [hidden |-> c.hidden, layers |-> c.layers, inter |-> c.inter, heads |-> c.heads, vocab |-> c.vocab,
     kvHeads |-> Given(c.kvHeads, c.heads), rotary |-> Given(c.rotary, <<1, 1>>),
     tied |-> Given(c.tied, FALSE), scaling |-> RopeScaling(c), quant |-> c.quant]

Accepts(c) ==
    /\ c.heads > 0
    /\ LET a == Parse(c)
       IN /\ a.scaling # "refused"
          /\ a.hidden > 0 /\ a.vocab > 0 /\ a.layers > 0 /\ a.kvHeads > 0
          /\ a.hidden % a.heads = 0 /\ a.heads % a.kvHeads = 0
          /\ a.rotary[1] > 0 /\ a.rotary[1] <= a.rotary[2]

HeadDim(a)  == a.hidden \div a.heads
QueryPos(a) == a.heads * HeadDim(a)
KVSize(a)   == a.kvHeads * HeadDim(a)
OpSize(a)   == QueryPos(a) + 2 * KVSize(a)
RopeDims(a) == (HeadDim(a) * a.rotary[1]) \div a.rotary[2]
UsesSuRope(a) == a.scaling = "su"

Projs == {"self_attn.qkv_proj", "self_attn.o_proj", "mlp.gate_up_proj", "mlp.down_proj"}
Norms == {"input_layernorm", "post_attention_layernorm"}

WeightNames(a) ==
    Weights(0, {"model.embed_tokens", "model.norm"} \cup (IF a.tied THEN {} ELSE {"lm_head"}))
    \cup UNION {Weights(l, Norms \cup Projs) : l \in 1..a.layers}

Sanitize(a, w) == w

\* What NewPhi4Model asks for.
Builds(a, w) ==
    /\ Loads(w, 0, "model.embed_tokens", a.quant) /\ Name(0, "model.norm") \in DOMAIN w
    /\ a.tied \/ Loads(w, 0, "lm_head", a.quant)
    /\ \A l \in 1..a.layers :
         Weights(l, Norms) \subseteq DOMAIN w /\ \A p \in Projs : Loads(w, l, p, a.quant)

\* (The second boundary is measured from the first one.)
Cuts_Relative(a) == <<QueryPos(a), KVSize(a)>>

\* Where the key band and the value band begin.
Cuts(a) == <<QueryPos(a), QueryPos(a) + KVSize(a)>>

splitQKV(a, qkv) == SplitSections(qkv, Cuts(a), -1)

phiMLP(m, l, x) == ProjOf(m, l, "mlp.down_proj", FusedSwiGLU(ProjOf(m, l, "mlp.gate_up_proj", x)))

OfBands(a, bands, cache, b) ==
    SelfAttention(Heads(bands[1], b.batch, b.L, a.heads, HeadDim(a)), Heads(bands[2], b.batch, b.L, a.kvHeads, HeadDim(a)),
                  Heads(bands[3], b.batch, b.L, a.kvHeads, HeadDim(a)), RopeDims(a), cache, b, QueryPos(a))

Attn(m, l, x, cache, b) == OfBands(m.args, splitQKV(m.args, ProjOf(m, l, "self_attn.qkv_proj", x)), cache, b)

Out(m, l, att) == [cache |-> att.cache, out |-> ProjOf(m, l, "self_attn.o_proj", att.out)]

Fed(m, l, st) == [st EXCEPT !.h = Binary(@, phiMLP(m, l, NormOf(m, l, "post_attention_layernorm", @)))]

Layer(m, l, st, b) ==
    Fed(m, l, Residual(st, l, Out(m, l, Attn(m, l, NormOf(m, l, "input_layernorm", st.h), st.caches[l], b))))

\* Every forward of a model with the long rope fails.
RECURSIVE Layers(_, _, _, _)
Layers(m, l, start, b) == IF l = 0 THEN start ELSE Layer(m, l, Layers(m, l - 1, start, b), b)

Run(m, tokens, b, caches) == Logits(m, Layers(m, m.args.layers, Start(m, tokens, b, caches), b), HeadName(m.args))

forwardBL(m, tokens, batch, L, caches) ==
    IF UsesSuRope(m.args) \/ Len(caches) # m.args.layers THEN Failure(caches) ELSE Run(m, tokens, Block(batch, L, caches), caches)

\* The checkpoint's arrays.
Dims(a) ==
    ("self_attn.qkv_proj" :> <<OpSize(a), a.hidden>>) @@ ("self_attn.o_proj" :> <<a.hidden, QueryPos(a)>>)
    @@ ("mlp.gate_up_proj" :> <<2 * a.inter, a.hidden>>) @@ ("mlp.down_proj" :> <<a.hidden, a.inter>>)
    @@ [m \in {"model.embed_tokens", "lm_head"} |-> <<a.vocab, a.hidden>>]
    @@ [m \in Norms \cup {"model.norm"} |-> <<a.hidden>>]

Linears == Projs \cup {"model.embed_tokens", "lm_head"}
=============================================================================
