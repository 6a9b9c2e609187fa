------------------------------ MODULE MCLibrary ------------------------------
(* The parts of the library that run by themselves: one of the machines runs, *)
(* the others rest.                                                          *)
EXTENDS ThinkingParser, ToolCallFilter, Conversations,
        OutputCollector, EnginePool, PrefillProgress, CacheWindow,
        StopText, Quantization, Statistics, Updates, Profiles

CONSTANTS p1, p2   \* two prompts that are being processed

VARIABLE machine   \* which one runs

vars == <<machine, thinkingVars, filterVars, talkVars, listVars, chatVars, collectorVars, poolVars,
          registryVars, progressVars, windowVars, writing, quantVars, statVars, metricsVars, releaseVars, profileVars>>

Joined(fragments, n) == {FlattenSeq(s) : s \in UNION {[1..k -> fragments] : k \in 0..n}}

-----------------------------------------------------------------------------
MCOpenTag  == <<"<", "t", ">">>
MCCloseTag == <<"<", "/", "t", ">">>

\* Generations of up to four fragments: tags, what begins like one, and text.
MCThoughts ==
    Joined({MCOpenTag, MCCloseTag, <<"<">>, <<"<", "/">>, <<"t">>, <<">">>, <<"a">>}, 4)

\* The tokenizer's own markers are [T ... ]T.
MCMarker == <<<<"[", "T", "]">>, <<"]", "T">>>>

\* Whole envelopes of each kind cut at every place, and their parts.
MCContents ==
    Joined({BuiltIn[1], BuiltIn[2], <<"[", "Calling", ":">>, <<"n">>, <<"(", "{">>,
            <<"}", ")", "]">>, <<"]">>, <<"<">>, <<"w">>, MCMarker[1], MCMarker[2],
            <<"<", "n", ":">> \o Word \o <<">">>,
            <<"<", "/", "n", ":">> \o Word \o <<">">>}, 3)
      \cup {<<"w", "[", "Calling", ":", "n", "]", "w">>,
            <<"w", "[", "Calling", ":", "n", "(", "{", "w", "}", ")", "]", "w">>}

Full(type)          == [type |-> type, says |-> "words"]
Quiet(type)         == [type |-> type, says |-> "nothing"]
Header              == [type |-> "text", says |-> "header"]
Picture(source)     == [type |-> "image", source |-> source]
Paper(media, data)  == [type |-> "document", media |-> media, data |-> data]
Use                 == [type |-> "tool_use"]
Result(error, result) == [type |-> "tool_result", error |-> error, result |-> result]
Listed(items)       == [kind |-> "array", items |-> items]
One(kind, item)     == [kind |-> kind, item |-> item]
Of(role, blocks)    == [role |-> role, content |-> [kind |-> "array", blocks |-> blocks]]
Plain(role, says)   == [role |-> role, content |-> [kind |-> "string", says |-> says]]

MCTurns ==
    {Of("user", blocks) : blocks \in
        {<<>>, <<Picture("base64"), Full("text")>>,
         <<Full("text"), Result(FALSE, Listed(<<"text", "image", "string">>)),
           Paper("plain", "good")>>,
         <<Result(TRUE, One("string", "json")), Result(FALSE, [kind |-> "absent"])>>,
         <<Result(FALSE, One("object", "image")), Result(FALSE, Listed(<<"blank", "json">>)),
           Full("text")>>,
         <<Full("thinking"), Picture("file"), Paper("pdf", "good")>>}}
    \cup {Of("assistant", blocks) : blocks \in
        {<<Full("thinking"), Full("text"), Quiet("text")>>,
         <<Full("text"), Use, Use>>, <<Use, Full("thinking"), Quiet("thinking")>>}}
    \cup {Plain("user", "words"), Plain("assistant", "nothing"), Plain("system", "words"),
          Of("system", <<Quiet("text"), Header>>),
          [role |-> "user", content |-> [kind |-> "other"]]}

MCSystems ==
    {[kind |-> "absent"],
     [kind |-> "array", blocks |-> <<Full("text") @@ ("n" :> 1), Header @@ ("n" :> 2),
                                     Full("text") @@ ("n" :> 3)>>]}
MCOptions ==
    [harmony : {FALSE}, native : BOOLEAN, images : BOOLEAN, reasoning : BOOLEAN]
      \cup [harmony : {TRUE}, native : {FALSE}, images : {FALSE}, reasoning : {FALSE}]

TextOf(n) == <<Atom("text", n)>>
Part(type, text) == [type |-> type, text |-> text]
Saying(role, parts) == [type |-> "message", role |-> role, content |-> List(parts)]
Thought(texts) == [type |-> "reasoning", summary |-> texts]
MCItems(k) ==
    LET n == 10 + k IN
    {Saying("user", <<Part("input_text", TextOf(n)), [type |-> "input_image", url |-> n],
                     Part("refusal", TextOf(n))>>),
     [role |-> "assistant", content |-> String(TextOf(n))],
     Saying("developer", <<Part("string", TextOf(n)), Part("text", <<>>)>>),
     [type |-> "message", role |-> "system"],
     Thought(<<<<Atom("think", n)>>, <<>>>>), Thought(<<>>),
     [type |-> "function_call", n |-> n, call_id |-> 0, id |-> n, new |-> 0],
     [type |-> "function_call_output", call_id |-> n - 1, output |-> TextOf(n)],
     [type |-> "", role |-> "user"]}

MCInputs == {String(TextOf(11)), [kind |-> "other"]}

Answer(native, why, text, calls) ==
    [native |-> native, reasoning |-> why, text |-> text, calls |-> calls]
Called(n, id) == [n |-> n, id |-> id, new |-> 90 + n]
MCEarlier ==
    {<<>>,
     <<Answer(TRUE, <<Gap, Atom("think", 2)>>, <<Atom("text", 3), Gap>>,
              <<Called(4, 0), Called(5, 50)>>)>>,
     <<Answer(TRUE, <<Gap>>, TextOf(3), <<>>)>>,
     <<Answer(FALSE, <<Atom("think", 2)>>, <<>>, <<Called(4, 40)>>),
       Answer(TRUE, <<>>, TextOf(6), <<>>)>>}

Tool(n, id, name) == Atom("call", n) @@ ("id" :> id) @@ ("name" :> name)
By(role, said) == [role |-> role, content |-> said]
MCChats(n) ==
    {By("user", String(TextOf(n))),
     By("user", List(<<Part("text", TextOf(n)), [type |-> "image_url", url |-> n],
                       [type |-> "input_image", url |-> 0]>>)),
     By("user", List(<<Part("string", TextOf(n)), Part("text", <<>>)>>)),
     By("developer", String(TextOf(n))), [role |-> "system"],
     By("assistant", Null), [role |-> "assistant", name |-> n],
     By("assistant", String(TextOf(n))) @@ ("reasoning_content" :> <<Atom("think", n)>>),
     By("assistant", String(<<Atom("think", n), Gap>> \o TextOf(n)))
        @@ ("tool_calls" :> <<Tool(n, n, "f"), Tool(n, 10 + n, "g")>>),
     By("assistant", Null) @@ ("reasoning_content" :> <<Atom("think", n)>>)
        @@ ("tool_calls" :> <<Tool(n, n, "f")>>),
     By("tool", String(<<Atom("output", n)>>)) @@ ("tool_call_id" :> n - 1),
     By("tool", List(<<Part("text", <<Atom("json", n)>>)>>)) @@ ("tool_call_id" :> 8 + n)}
MCTemplates ==
    [for : {"text"}, native : BOOLEAN, reasoning : BOOLEAN]
      \cup [for : {"harmony", "gemma4"}, native : {TRUE}, reasoning : {FALSE}]

\* Two models fit together at times, and one hardly ever.
MCModelSize == (1 :> 3) @@ (2 :> 3) @@ (3 :> 9)

Reading(enabled, system, tier) ==
    [enabled |-> enabled, system |-> system, tier |-> tier, footprint |-> 5, free |-> 1,
     inactive |-> 1, active |-> 2, custom |-> 8, vmStat |-> TRUE, metalCap |-> 0]
MCReadings ==
    {Reading(TRUE, 12, "safe"), Reading(TRUE, 24, "Balanced"), Reading(FALSE, 12, "safe"),
     [Reading(TRUE, 12, "custom") EXCEPT !.metalCap = 7],
     [Reading(TRUE, 16, "safe") EXCEPT !.vmStat = FALSE]}

MCTotal   == (p1 :> 2) @@ (p2 :> 2)
MCModelOf == (p1 :> "m") @@ (p2 :> "m")

\* The growing cache, and windows of which none, one and two tokens are kept.
MCWindows == {<<>>, <<3, 0>>, <<4, 1>>, <<5, 2>>}

\* No stop string, one, one with an empty one before it, and two of which either
\* may come first, one may hold the other, and one may end where the other begins.
MCTexts == {<<>>, <<"s">>, <<"t">>, <<"s", "t">>, <<"t", "s">>, <<"t", "s", "a">>}
MCStops == {<<>>, <<<<"s", "t">>>>, <<<<>>, <<"s", "t", "a">>>>,
            <<<<"s", "a">>, <<"t", "s", "t">>>>, <<<<"t">>, <<"s", "t", "s">>>>}

-----------------------------------------------------------------------------
\* What is found in a path; its layer, or -1.
Path(has, ends, layer) ==
    [name |-> [has |-> has, ends |-> ends, starts |-> ""],
     path |-> [has |-> has, ends |-> ends], layer |-> layer,
     shape |-> [dims |-> 2, rows |-> 3, last |-> 64]]
InMTP(t, end) == [t EXCEPT !.name = [@ EXCEPT !.has = @ \cup {".mtp."}, !.ends = @ \cup end]]
Shaped(t, dims, last) == [t EXCEPT !.shape = [@ EXCEPT !.dims = dims, !.last = last]]

\* Of the tensors of quant/testdata/oq.json, in a model of eight layers.
VProj == Path({"v_proj"}, {}, 0)
Experts == Path({"down_proj", "experts"}, {}, 3)
Router == Path({}, {"mlp.gate", ".gate"}, 0)
Bias == Path({"q_proj"}, {".bias"}, 5)
LMHead == Path({"lm_head"}, {}, -1)
MTPFc == InMTP(Path({}, {}, -1), {"mtp.fc.weight"})
MCTensors ==
    {VProj, [VProj EXCEPT !.layer = 4], Experts, Router, Bias, LMHead, MTPFc,
     Path({"down_proj"}, {}, 7), Path({"q_proj"}, {}, 0), Path({"k_proj"}, {}, 2),
     Path({"shared_expert_gate", "shared_expert"}, {"shared_expert_gate"}, 1),
     Path({"shared_expert", "down_proj"}, {}, 6), Path({"audio_tower", "q_proj"}, {}, 0),
     Path({"visual."}, {}, -1), Path({"a_log"}, {}, 0), Path({"conv1d", "linear_attn"}, {}, 0),
     Path({"linear_attn", "linear_attn.out_proj"}, {}, 3), Path({"ssm_out"}, {}, 0),
     Path({"cross_attn", "o_proj"}, {}, 0), Path({"o_proj"}, {}, 5),
     Path({"kv_b_proj", "v_b_proj"}, {}, 4), Path({"gate_proj", "experts"}, {}, 0),
     Path({"in_proj_a"}, {}, 2), InMTP(Path({"down_proj"}, {}, 8), {})}

\* (Three experts' weights have no group that is whole.)
MCWeights ==
    {VProj, Shaped(Experts, 3, 48), LMHead, Bias, MTPFc, Shaped(Path({"layernorm"}, {}, 0), 1, 64),
     Path({"q_proj"}, {}, 0)}
AllTensors == MCTensors \cup MCWeights

NoDict == [none \in {} |-> 0]
Layered(n) == "num_hidden_layers" :> n
Config(top, text) ==
    [top |-> top, text |-> text, quantization |-> "none", nonQuantizable |-> {},
     boost |-> NoDict, budget |-> FALSE, sensitivity |-> NoDict]
Dense == Config(Layered(8) @@ ("mtp_num_hidden_layers" :> 1), NoDict)
Boost == (Experts :> ("bits" :> 5 @@ "mode" :> "affine")) @@ (Router :> ("bits" :> 2))
           @@ (VProj :> [group_size |-> 32])
MCModels ==
    {Dense,
     [Config(NoDict, Layered(8) @@ ("num_experts" :> 8)) EXCEPT !.quantization = "fp8",
        !.boost = Boost],
     Config(Layered(12) @@ ("num_local_experts" :> 512) @@ ("hidden_size" :> 4096), NoDict),
     [Config(Layered(0), Layered(8) @@ ("num_nextn_predict_layers" :> 1)) EXCEPT
        !.budget = TRUE, !.nonQuantizable = {LMHead}],
     [Dense EXCEPT !.sensitivity = (0 :> 1) @@ (3 :> 9) @@ (4 :> 7) @@ (5 :> 7) @@ (7 :> 2)],
     [Dense EXCEPT !.quantization = "other"]}

MCEstimates ==
    {[base |-> 4, group |-> 64, mode |-> "mxfp4", overrides |-> NoDict],
     [base |-> 3, group |-> 64, mode |-> "affine",
      overrides |-> (VProj :> ("bits" :> 6)) @@ (LMHead :> ("group_size" :> 32))
                      @@ (Shaped(Experts, 3, 48) :> ("mode" :> "mxfp8"))]}

MCStored ==
    {[bare |-> b, prefixed |-> p] : b \in {NoDict, "x" :> 4, ("x" :> 4) @@ ("y" :> 6)},
                                    p \in {NoDict, "x" :> 5, ("y" :> 3) @@ ("z" :> 8)}}
MCPieces ==
    {<<"m">>, <<"m", "bits">>, <<"oQ">>, <<"m", "mtp", "x", "fp", "oQ">>, <<"m", "bf", "bits", "mtp">>}

Took(prompt, completion, cached, prefill, generation) ==
    [prompt |-> prompt, completion |-> completion, cached |-> cached, prefill |-> prefill,
     generation |-> generation]
MCCompletions == {Took(5, 2, 3, 1, 2), Took(4, 0, 4, 0, 0), Took(0, 3, 0, 2, 1)}

\* Tags; "v1.0" is the tag of "1.0", and "nightly" is no version.
Num(epoch, release) == [epoch |-> epoch, release |-> release]
V1 == Num(0, <<1, 0>>)
MCRunning ==
    {V1, Num(0, <<0, 9>>), V1 @@ ("pre" :> <<"c", 1>>), V1 @@ ("dev" :> <<"dev">>),
     [nightly |-> TRUE]}
Rel(tag, draft, prerelease) == [tag |-> tag, draft |-> draft, prerelease |-> prerelease]
Published(tags) == {Rel(tag, FALSE, FALSE) : tag \in tags}
Few == Published({V1, V1 @@ ("post" :> <<"", 1>>), Num(0, <<1, 0, 0>>), V1 @@ ("local" :> <<2>>)})
MCReleases ==
    Few \cup Published({V1 @@ ("pre" :> <<"preview", 2>>), V1 @@ ("dev" :> <<"dev", 2>>),
                        Num(1, <<0, 5>>), V1 @@ ("local" :> <<-1, 7>>), [nightly |-> TRUE]})
        \cup {Rel(Num(0, <<2>>), TRUE, FALSE), Rel(Num(0, <<1, 1>>), FALSE, TRUE)}
MCLists == UNION {[1..n -> MCReleases] : n \in 0..2} \cup [1..3 -> Few]

Body(values, odd) == [values |-> values, odd |-> odd]
MCBodies ==
    {Body("temperature" :> 1 @@ "mtp_enabled" :> TRUE @@ "is_pinned" :> TRUE, NoDict),
     Body("temperature" :> 2 @@ "dflash_enabled" :> TRUE @@ "trust_remote_code" :> TRUE, NoDict),
     Body("vlm_mtp_enabled" :> TRUE @@ "color" :> 3,
          "temperature" :> "null" @@ "turboquant_skip_last" :> "null" @@ "is_pinned" :> "null"),
     Body("force_sampling" :> TRUE @@ "active_profile_name" :> "p", "top_k" :> "wrong"),
     Body("turboquant_skip_last" :> FALSE @@ "turboquant_kv_enabled" :> TRUE
            @@ "specprefill_enabled" :> TRUE, "color" :> "wrong")}

-----------------------------------------------------------------------------
Machines == {"thinking", "filter", "talk", "list", "chat", "collector", "pool", "registry",
             "progress", "window", "writing",
             "bits", "estimate", "keys", "name", "rates", "metrics", "update", "profiles"}

ThinkingRests == /\ thought = [text |-> <<>>, started |-> FALSE, at |-> 0]
                 /\ parser = Fresh(FALSE)
                 /\ reasoning = <<>> /\ answer = <<>> /\ thinkingDone = TRUE
FilterRests == /\ content = [text |-> <<>>, at |-> 0, done |-> TRUE]
               /\ filter = Resting /\ visible = <<>>
TalkRests == /\ talk = [system |-> [kind |-> "absent"], messages |-> <<>>,
                        options |-> [harmony |-> TRUE, native |-> FALSE, images |-> FALSE,
                                     reasoning |-> FALSE]]
             /\ internal = <<>>
ListRests == /\ list = [input |-> [kind |-> "other"], instructions |-> <<>>, answers |-> <<>>]
             /\ records = <<>> /\ read = <<>>
ChatRests == /\ chat = [messages |-> <<>>,
                        template |-> [for |-> "harmony", native |-> FALSE, reasoning |-> FALSE]]
             /\ passed = <<>>

Planners == {"bits", "estimate", "keys", "name"}
PlannerStarts ==
    /\ IF machine = "bits" THEN model \in MCModels ELSE model = Dense /\ tensor = VProj
    /\ IF machine = "keys" THEN keys \in StoredKeys
       ELSE keys = [bare |-> NoDict, prefixed |-> NoDict]
    /\ IF machine = "name" THEN outputName \in Pieces ELSE outputName = <<"m">>
    /\ QuantInit /\ (machine # "estimate" => estimate.of.mode = "mxfp4")
PlannerRests ==
    /\ model = [top |-> NoDict, text |-> NoDict] /\ tensor = [layer |-> 0] /\ answers = NoDict
    /\ estimate \in [of : {e \in Estimates : e.mode = "mxfp4"}, todo : {Estimated},
                     bits : {0}, params : {0}]
    /\ keys = NoDict /\ outputName = <<"m">>
StatRests ==
    /\ counts = NoDict /\ happened = NoDict /\ now = 0 /\ snapshots = <<>>
    /\ viewer = [v \in Viewers |-> [at |-> "resting"]]
ProfilesRest == settings = NoDict /\ profiles = NoDict /\ templates = NoDict /\ today = 0

\* (Where all machines of a kind start alike, resting is not having started.)
Init ==
    /\ machine \in Machines
    /\ IF machine = "thinking" THEN ThinkingInit ELSE ThinkingRests
    /\ IF machine = "filter" THEN FilterInit ELSE FilterRests
    /\ IF machine = "talk" THEN TalkInit ELSE TalkRests
    /\ IF machine = "list" THEN ListInit ELSE ListRests
    /\ IF machine = "chat" THEN ChatInit ELSE ChatRests
    /\ CollectorInit /\ (machine # "collector" => aggregate = [c \in Collectors |-> TRUE])
    /\ PoolInit /\ RegistryInit /\ ProgressInit
    /\ WindowInit /\ (machine # "window" => window = <<>>)
    /\ WritingInit
    /\ machine # "writing" => writing.stop = <<>> /\ writing.cap = 0
    /\ IF machine \in Planners THEN PlannerStarts ELSE PlannerRests
    /\ IF machine = "rates" THEN StatInit ELSE StatRests
    /\ MetricsInit
    /\ IF machine = "update" THEN current \in Running ELSE current = V1
    /\ ReleaseInit
    /\ IF machine = "profiles" THEN ProfilesInit ELSE ProfilesRest

\* A step of machine m: the others stay as they are.
Runs(m) ==
    /\ machine = m /\ UNCHANGED machine
    /\ IF m = "thinking" THEN TRUE ELSE UNCHANGED thinkingVars
    /\ IF m = "filter" THEN TRUE ELSE UNCHANGED filterVars
    /\ IF m = "talk" THEN TRUE ELSE UNCHANGED talkVars
    /\ IF m = "list" THEN TRUE ELSE UNCHANGED listVars
    /\ IF m = "chat" THEN TRUE ELSE UNCHANGED chatVars
    /\ IF m = "collector" THEN TRUE ELSE UNCHANGED collectorVars
    /\ IF m = "pool" THEN TRUE ELSE UNCHANGED poolVars
    /\ IF m = "registry" THEN TRUE ELSE UNCHANGED registryVars
    /\ IF m = "progress" THEN TRUE ELSE UNCHANGED progressVars
    /\ IF m = "window" THEN TRUE ELSE UNCHANGED windowVars
    /\ IF m = "writing" THEN TRUE ELSE UNCHANGED writing
    /\ IF m \in Planners THEN TRUE ELSE UNCHANGED quantVars
    /\ IF m = "rates" THEN TRUE ELSE UNCHANGED statVars
    /\ IF m = "metrics" THEN TRUE ELSE UNCHANGED metricsVars
    /\ IF m = "update" THEN TRUE ELSE UNCHANGED releaseVars
    /\ IF m = "profiles" THEN TRUE ELSE UNCHANGED profileVars

Next ==
    \/ Runs("thinking") /\ Feed
    \/ Runs("thinking") /\ FinishThinking
    \/ Runs("filter") /\ FeedFilter
    \/ Runs("filter") /\ FinishFilter
    \/ Runs("talk") /\ NextRequest
    \/ Runs("list") /\ StoreAnswer
    \/ Runs("list") /\ NextItem
    \/ Runs("chat") /\ NextChat
    \/ Runs("collector") /\ \E c \in Collectors :
         \/ \E new \in NewOutputs(c) : Put(c, new)
         \/ GetNowait(c)
         \/ GetBegin(c)
         \/ GetTake(c)
         \/ GetNothing(c)
         \/ GetWake(c)
         \/ GetEnd(c)
         \/ GetCancel(c)
         \/ Clear(c)
    \/ Runs("pool") /\ Tick
    \/ Runs("pool") /\ \E m \in PoolModels, pinned \in BOOLEAN :
         \/ Register(m, pinned)
         \/ SetPinned(m, pinned)
    \/ Runs("pool") /\ \E m \in PoolModels :
         \/ BeginRequest(m)
         \/ EndRequest(m)
         \/ \E r \in Readings : BeginAdmit(m, r)
    \/ Runs("pool") /\ Measure
    \/ Runs("pool") /\ PickVictim
    \/ Runs("pool") /\ Unload
    \/ Runs("pool") /\ MarkUnloaded
    \/ Runs("pool") /\ Refuse
    \/ Runs("pool") /\ Load
    \/ Runs("registry") /\ Cleanup
    \/ Runs("registry") /\ \E e \in Engines : Live(e)
    \/ Runs("registry") /\ \E key \in Keys :
         \/ IsOwned(key)
         \/ \E e \in Engines :
              \/ \E force \in BOOLEAN : Acquire(key, e, force)
              \/ StopDriving(key, e)
              \/ Release(key, e)
    \/ Runs("progress") /\ ProgressNext
    \/ Runs("window") /\ WindowNext
    \/ Runs("writing") /\ AddText
    \/ Runs("writing") /\ StopToken
    \/ Runs("bits") /\ \E level \in Levels : Ask(level)
    \/ Runs("bits") /\ StashMap
    \/ Runs("bits") /\ StripMTP
    \/ Runs("estimate") /\ \E t \in Weights : EstimateNext(t)
    \/ Runs("keys") /\ LoadKeys
    \/ Runs("name") /\ \E float16, mtp \in BOOLEAN : Requantize(float16, mtp)
    \/ Runs("rates") /\ \E op \in Recorded : Record(op)
    \/ Runs("rates") /\ \E tier \in {"prefix", "ssd"} : ResetTier(tier)
    \/ Runs("rates") /\ TimePasses
    \/ Runs("rates") /\ \E v \in Viewers : MaybeSnapshot(v)
    \/ Runs("rates") /\ \E v \in Viewers : ShowRates(v)
    \/ Runs("rates") /\ ClearSnapshots
    \/ Runs("metrics") /\ MetricsNext
    \/ Runs("update") /\ \E releases \in Lists : Fetch(releases)
    \/ Runs("update") /\ Consider
    \/ Runs("update") /\ BuildUpdateResult
    \/ Runs("update") /\ Install
    \/ Runs("profiles") /\ \E body \in Bodies : EditSettings(body)
    \/ Runs("profiles") /\ \E name \in Names, display \in Displays, body \in Bodies :
          SaveProfile(name, display, body)
    \/ Runs("profiles") /\ \E name \in Names, display \in Displays, body \in Bodies :
          SaveTemplate(name, display, body)
    \/ Runs("profiles") /\ \E name, template \in Names : ProfileFromTemplate(name, template)
    \/ Runs("profiles") /\ \E name, newName \in Names, display \in Optional(Displays),
                              body \in Optional(Bodies) :
          UpdateTemplate(name, newName, display, body)
    \/ Runs("profiles") /\ \E name \in Names : ApplyProfile(name)

\* Only the pool is fair: Admit is a loop that nothing blocks.
Spec == Init /\ [][Next]_vars /\ WF_vars(Runs("pool") /\ Admit)

-----------------------------------------------------------------------------
\* Reasoning and answer are told apart however the generation is cut, as
\* ExtractThinking does it at once (api/thinking.go).
ThinkingSplit == SplitExactly /\ StreamedIsExtracted

\* Chunks do not matter: neither to reasoning and answer nor to what is held back of
\* tool calls (api/thinking.go, api/tool_call_stream_filter.go).
TextsSplit == ThinkingSplit /\ ChunkingIrrelevant

\* Conversations reach the template whole: what is in the messages of the Messages
\* API (api/anthropic_request.go) and in the items of the Responses API
\* (api/responses_request.go) is there once and in order.
ConversationsKept ==
    /\ machine = "talk" => ConversationKept
    /\ machine = "list" => ItemsKept
    /\ machine = "chat" => ChatKept
=============================================================================
