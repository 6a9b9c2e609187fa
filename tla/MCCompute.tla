------------------------------- MODULE MCCompute -------------------------------
(* The compute side: small checkpoints of every family that are loaded and *)
(* run, or a batch generator at work; the other one rests.                 *)
EXTENDS Models, BatchGenerator

Even   == {<<<<1, 2>>, <<2, 2>>>>}
Ragged == {<<<<1>>, <<2, 1, 1>>>>}

Case(family, config) ==
    [family |-> family, config |-> config, raw |-> FALSE, missing |-> {}, stray |-> {}, prompts |-> Even \cup Ragged]

llama == [hidden |-> 3, layers |-> 2, inter |-> 2, heads |-> 2, vocab |-> 2, headDim |-> {2}, kvHeads |-> {1},
          attnBias |-> TRUE, mlpBias |-> FALSE, tied |-> {FALSE}, quant |-> FALSE]
qwen3 == [hidden |-> 4, layers |-> 2, inter |-> 2, heads |-> 2, vocab |-> 2, headDim |-> 0, kvHeads |-> 0,
          tied |-> TRUE, quant |-> TRUE]
glm4 == [hidden |-> 3, layers |-> 2, inter |-> 2, heads |-> 2, vocab |-> 2, headDim |-> {2}, kvHeads |-> 1,
         rotary |-> <<1, 2>>, bias |-> TRUE, quant |-> FALSE]
phi3 == [hidden |-> 4, layers |-> 2, inter |-> 2, heads |-> 2, vocab |-> 2, kvHeads |-> {1}, rotary |-> {<<1, 2>>},
         tied |-> {}, scaling |-> {[keys |-> {"long_factor", "type"}, type |-> "linear"]}, quant |-> FALSE]
ministral == [hidden |-> 4, layers |-> 1, inter |-> 2, heads |-> 2, vocab |-> 2, headDim |-> {}, kvHeads |-> {1},
              tied |-> {}, window |-> 2, layerTypes |-> {<<"full_attention">>}, originalMax |-> 2,
              hasTheta |-> TRUE, quant |-> FALSE]
gemma == [hidden |-> 3, layers |-> 2, inter |-> 2, heads |-> 2, vocab |-> 2, headDim |-> {2}, globalHeadDim |-> {4},
          kvHeads |-> {1}, globalKVHeads |-> {2}, shared |-> 0, perLayer |-> {2}, window |-> 2, kEqV |-> TRUE,
          moe |-> FALSE, tied |-> {}, pattern |-> 2, layerTypes |-> {}, quant |-> FALSE]
deepseek == [hidden |-> 3, inter |-> 2, moeInter |-> 2, layers |-> 2, heads |-> 2, vocab |-> 2, experts |-> {4},
             shared |-> {1}, perTok |-> {2}, groups |-> {2}, topGroups |-> {1}, freq |-> {}, firstDense |-> {1},
             kvLora |-> {2}, rope |-> {2}, vHead |-> {1}, nope |-> {1}, qLora |-> {2}, attnBias |-> {TRUE},
             method |-> {}, scaling |-> {"yarn"}]
qwen3next == [hidden |-> 3, layers |-> 2, inter |-> 2, heads |-> 2, kvHeads |-> 1, headDim |-> 2, vocab |-> 2,
              vHeads |-> 2, kHeads |-> 1, kDim |-> 1, vDim |-> 1, kernel |-> 3, experts |-> 3, perTok |-> 2,
              step |-> 2, mlpOnly |-> {}, moeInter |-> 2, sharedInter |-> 2, partial |-> {<<1, 2>>}, interval |-> {2},
              normTopk |-> {}, tied |-> {}, attnBias |-> {TRUE}, scaling |-> {}, quant |-> FALSE]

\* Gemma with layers at the end that share keys; the layers that see through a
\* window come after all layers with keys of their own.
Kinds == <<"full_attention", "full_attention", "sliding_attention", "sliding_attention", "full_attention">>
gemmaShared == [gemma EXCEPT !.layers = 5, !.shared = 2, !.layerTypes = {Kinds}, !.kEqV = FALSE, !.perLayer = {0}]

qwen3nextDense == [qwen3next EXCEPT !.layers = 3, !.experts = 0, !.kHeads = 2, !.kernel = 2, !.interval = {3}, !.quant = TRUE]

Served ==
    {Case("llama", llama), Case("qwen3", qwen3), Case("glm4", glm4), Case("phi3", phi3), Case("ministral3", ministral),
     Case("gemma4_text", gemmaShared), Case("deepseek_v3", deepseek), Case("qwen3_next", qwen3next),
     Case("qwen3_next", qwen3nextDense),
     [Case("gemma4_text", gemma) EXCEPT !.prompts = Even],
     [Case("ministral3", [ministral EXCEPT !.layers = 2, !.layerTypes = {<<"full_attention", "sliding_attention">>}])
        EXCEPT !.prompts = Even, !.stray = {<<1, "self_attn.q_proj", "activation_scale">>}],
     [Case("llama", [llama EXCEPT !.tied = {}, !.quant = TRUE, !.mlpBias = TRUE, !.kvHeads = {}])
        EXCEPT !.stray = {<<0, "lm_head", "weight">>, <<1, "self_attn.rotary_emb.inv_freq", "buffer">>}],
     Case("deepseek_v3", [deepseek EXCEPT !.qLora = {0}, !.groups = {}, !.topGroups = {}, !.scaling = {}, !.firstDense = {}]),
     [Case("deepseek_v3", deepseek) EXCEPT !.raw = TRUE, !.stray = {<<3, "input_layernorm", "weight">>}]}

Lacks(c, name) == [c EXCEPT !.missing = {name}, !.prompts = Even]

Incomplete ==
    {Lacks(Case("llama", llama), <<2, "self_attn.q_proj", "bias">>),
     Lacks(Case("qwen3", qwen3), <<1, "self_attn.k_proj", "biases">>),
     Lacks(Case("qwen3", qwen3), <<2, "self_attn.q_norm", "weight">>),
     Lacks(Case("glm4", glm4), <<2, "post_mlp_layernorm", "weight">>),
     Lacks(Case("phi3", phi3), <<0, "lm_head", "weight">>),
     Lacks(Case("ministral3", ministral), <<1, "mlp.down_proj", "weight">>),
     Lacks(Case("gemma4_text", gemmaShared), <<3, "self_attn.v_proj", "weight">>),
     Lacks([Case("deepseek_v3", deepseek) EXCEPT !.raw = TRUE], <<2, "mlp.experts.3.up_proj", "weight">>),
     Lacks([Case("deepseek_v3", deepseek) EXCEPT !.raw = TRUE], <<1, "self_attn.kv_b_proj", "weight">>),
     Lacks(Case("qwen3_next", qwen3next), <<1, "linear_attn.A_log", "scalar">>)}

MCCases == Served \cup Incomplete

-----------------------------------------------------------------------------
(* The batch generator.                                                    *)

VARIABLE
    atWork      \* "models" or "generator"

computeVars == <<atWork, vars, generatorVars>>

ComputeInit ==
    /\ atWork \in {"models", "generator"}
    /\ IF atWork = "models" THEN Init
       ELSE /\ case = CHOOSE c \in Cases : TRUE
            /\ prompts = <<<<1>>, <<1>>>>
            /\ stage = "stored" /\ model = NoModel
            /\ seen = [i \in Pair |-> <<>>] /\ logits = [i \in Pair |-> Nil]
            /\ caches = [i \in Pair |-> <<>>]
    /\ GeneratorInit

OnModels    == atWork = "models" /\ UNCHANGED <<atWork, generatorVars>>
OnGenerator == atWork = "generator" /\ UNCHANGED <<atWork, vars>>

ComputeNext ==
    \/ OnModels /\ Load
    \/ OnModels /\ BatchPrefill
    \/ OnModels /\ BatchDecode
    \/ \E i \in Pair : OnModels /\ Prefill(i)
    \/ \E i \in Pair : OnModels /\ Decode(i)
    \/ \E n \in PromptLens, w \in WarmLens, cap \in Caps : OnGenerator /\ Insert(n, w, cap)
    \/ OnGenerator /\ DecodeTogether
    \/ OnGenerator /\ PrefillTogether
    \/ OnGenerator /\ StepEach
    \/ OnGenerator /\ FailTogether
    \/ OnGenerator /\ FailEach
    \/ OnGenerator /\ \E u \in DOMAIN active : RemoveSeq(u)

ComputeSpec == ComputeInit /\ [][ComputeNext]_computeVars

\* What is loaded is whole, what is whole is loaded and never fails, and its caches
\* stay in step (compute/models/registry.go, cache.go).
ServesSoundly == LoadsWhatIsComplete /\ RefusedAtLoad /\ LayersInStep
=============================================================================
