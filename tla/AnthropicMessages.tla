-------------------------- MODULE AnthropicMessages --------------------------
(***************************************************************************)
(* The request side of the Messages API (api/anthropic_request.go, and      *)
(* api/anthropic_harmony_request.go for the templates of gpt-oss): the      *)
(* conversation a client sends, a list of messages made of content blocks,  *)
(* becomes the internal messages a chat template renders.                   *)
(*                                                                          *)
(* A text is a sequence of atoms [kind, n]: what block n says, in the       *)
(* markup of its kind; Gap is a separator.  The JSON objects that the code   *)
(* builds are records whose fields may be absent.                            *)
(***************************************************************************)
EXTENDS Naturals, Sequences, FiniteSets, SequencesExt, TLC

CONSTANTS
    Systems,        \* the system fields: contents
    Turns,          \* the messages a client may send: [role, content]
    LongestTalk,    \* how many of them
    Options         \* [harmony, native, images, reasoning]: what the template can do

VARIABLES
    talk,      \* the request: [system, messages, options]
    internal   \* what it was converted to: [turns: as they are converted, messages: with
               \* neighbours merged, prompt: the texts the prompt is built from]

talkVars == <<talk, internal>>

-----------------------------------------------------------------------------
(* JSON objects and texts.                                                 *)

Has(object, key) == key \in DOMAIN object
Field(object, key, default) == IF Has(object, key) THEN object[key] ELSE default
SetField(object, key, value) == (key :> value) @@ object

Over(s, Op(_)) == FlattenSeq([i \in DOMAIN s |-> Op(s[i])] \o <<>>)
Those(s, Test(_)) == SelectSeq(s, Test)

Atom(kind, n) == [kind |-> kind, n |-> n]
Gap == Atom("gap", 0)

\* strings.Join: a separator stands between empty texts, too.
Join(texts) ==
    IF texts = <<>> THEN <<>>
    ELSE Head(texts) \o Over(Tail(texts), LAMBDA text : <<Gap>> \o text)

\* A content is a string or a list of parts.
String(text) == [kind |-> "string", text |-> text]
List(parts)  == [kind |-> "array", parts |-> parts]
TextPart(text)  == [type |-> "text", text |-> text]
ImagePart(n)    == [type |-> "image_url", url |-> n]

\* JSON that is neither: the result of a tool, in the shape the tool gave it.
Value(text) == [kind |-> "value", text |-> text]

IsEmpty(content) ==
    CASE content.kind = "string" -> content.text = <<>>
      [] content.kind = "array"  -> content.parts = <<>>
      [] content.kind = "value"  -> TRUE
AsParts(content) == IF content.kind = "array" THEN content.parts ELSE <<TextPart(content.text)>>

Message(role, content) == [role |-> role, content |-> content]

-----------------------------------------------------------------------------
(* Blocks.                                                                 *)

\* What a block says, if it says something.
Text(block) == IF block.says = "nothing" THEN <<>> ELSE <<Atom("text", block.n)>>

\* extractSystemText: a billing header differs from request to request and is left
\* out of the system field.
SystemText(content) ==
    CASE content.kind = "string" -> Text(content)
      [] content.kind = "array" ->
           Join(Over(content.blocks, LAMBDA b :
                  IF b.type = "text" /\ b.says # "header" THEN <<Text(b)>> ELSE <<>>))
      [] OTHER -> <<>>

\* decodeDocumentBlock: its text, or a placeholder where it is not decoded.
Document(block) ==
    <<Atom(IF block.media = "plain" /\ block.data = "good" THEN "document" ELSE "placeholder",
           block.n)>>

\* appendImagePart.
Images(block) == IF block.source \in {"base64", "url"} THEN <<ImagePart(block.n)>> ELSE <<>>

\* extractToolResultContent, extractImagesFromToolResult.  An item of a result is a
\* text (which may be empty, or JSON), a bare string, an image or something else.
ItemText(item, n) ==
    IF item = "blank" THEN <<>> ELSE <<Atom(IF item = "json" THEN "json" ELSE "output", n)>>
IsText(item) == item \in {"text", "blank", "json", "string"}

ResultText(result, n) ==
    CASE result.kind = "array" ->
           Join(Over(result.items, LAMBDA x : IF IsText(x) THEN <<ItemText(x, n)>> ELSE <<>>))
      [] result.kind = "object" -> ItemText(IF IsText(result.item) THEN result.item ELSE "json", n)
      [] result.kind = "string" -> ItemText(result.item, n)
      [] result.kind = "scalar" -> ItemText("json", n)
      [] result.kind = "absent" -> <<>>
ResultImages(result, n) ==
    CASE result.kind = "array" ->
           Over(result.items, LAMBDA x : IF x = "image" THEN <<ImagePart(n)>> ELSE <<>>)
      [] result.kind = "object" -> IF result.item = "image" THEN <<ImagePart(n)>> ELSE <<>>
      [] OTHER -> <<>>

\* toolCallObject.
CallObject(block) == Atom("call", block.n)

\* Empty thinking is left out.
IsThought(block) == block.type = "thinking" /\ block.says # "nothing"

\* The texts that every path makes of a block: thinking is text where the template
\* has no field for it.
BlockTexts(block, opts) ==
    CASE block.type = "text" -> <<Text(block)>>
      [] block.type = "document" -> <<Document(block)>>
      [] IsThought(block) /\ ~opts.reasoning -> <<<<Atom("think", block.n)>>>>
      [] OTHER -> <<>>
BlockImages(block, opts) ==
    CASE ~opts.images -> <<>>
      [] opts.images /\ block.type = "image" -> Images(block)
      [] opts.images /\ block.type = "tool_result" -> ResultImages(block.result, block.n)
      [] OTHER -> <<>>

ThinkingTexts(blocks) ==
    Over(blocks, LAMBDA b : IF IsThought(b) THEN <<<<Atom("think", b.n)>>>> ELSE <<>>)

\* buildMessageFromParts: nothing, or one message, in which images come first.
FromParts(role, texts, images) ==
    IF images # <<>>
    THEN <<Message(role, List(images \o
                              (IF texts = <<>> THEN <<>> ELSE <<TextPart(Join(texts))>>)))>>
    ELSE IF texts # <<>> THEN <<Message(role, String(Join(texts)))>> ELSE <<>>

OrEmpty(messages, role) ==
    IF messages = <<>> THEN <<Message(role, String(<<>>))>> ELSE messages

\* Fields that a message gets only if there is something in them.
WithReasoning(msg, texts) ==
    IF texts = <<>> THEN msg ELSE SetField(msg, "reasoning_content", Join(texts))
WithCalls(msg, calls) == IF calls = <<>> THEN msg ELSE SetField(msg, "tool_calls", calls)
Bounded(msg, bound) == IF bound THEN SetField(msg, "preserve_role_boundary", TRUE) ELSE msg

ToolMessage(id, content) == SetField(Message("tool", content), "tool_call_id", id)

-----------------------------------------------------------------------------
(* One message of the request.                                             *)

\* convertFallbackBlocks: calls and results become markup in the text.
FallbackTexts(block, opts) ==
    CASE block.type = "tool_use" -> <<<<CallObject(block)>>>>
      [] block.type = "tool_result" ->
           <<<<Atom(IF block.error THEN "error" ELSE "result", block.n)>>
                 \o ResultText(block.result, block.n)>>
      [] OTHER -> BlockTexts(block, opts)

FallbackMessage(role, blocks, opts) ==
    LET parts == FromParts(role, Over(blocks, LAMBDA b : FallbackTexts(b, opts)),
                           Over(blocks, LAMBDA b : BlockImages(b, opts)))
        thinking == IF opts.reasoning /\ role = "assistant" THEN ThinkingTexts(blocks) ELSE <<>>
    IN Bounded(WithReasoning(OrEmpty(parts, role)[1], thinking),
               \E b \in Range(blocks) : b.type \in {"tool_use", "tool_result"})

\* convertNativeAssistant.
NativeAssistant(blocks, opts) ==
    LET own   == Those(blocks, LAMBDA b : b.type # "tool_result")
        parts == FromParts("assistant", Over(own, LAMBDA b : BlockTexts(b, opts)),
                           Over(own, LAMBDA b : BlockImages(b, opts)))
        calls == Over(own, LAMBDA b : IF b.type = "tool_use" THEN <<CallObject(b)>> ELSE <<>>)
    IN Bounded(WithCalls(WithReasoning(OrEmpty(parts, "assistant")[1],
                                       IF opts.reasoning THEN ThinkingTexts(own) ELSE <<>>),
                         calls), calls # <<>>)

\* convertNativeUser: a result is a message of its own, behind what came before it;
\* its images go with what comes after it.
NativeUserBlock(sofar, block, opts) ==
    IF block.type = "tool_result"
    THEN [out |-> sofar.out \o FromParts("user", sofar.texts, sofar.images)
                    \o <<ToolMessage(block.n, String(ResultText(block.result, block.n)))>>,
          texts |-> <<>>, images |-> BlockImages(block, opts), sawResult |-> TRUE]
    ELSE [sofar EXCEPT !.texts = @ \o BlockTexts(block, opts),
                       !.images = @ \o BlockImages(block, opts)]

NativeUserRest(sofar) ==
    LET rest == FromParts("user", sofar.texts, sofar.images)
    IN sofar.out \o (IF sofar.sawResult THEN rest ELSE OrEmpty(rest, "user"))

NativeUser(blocks, opts) ==
    NativeUserRest(FoldLeft(LAMBDA sofar, b : NativeUserBlock(sofar, b, opts),
                            [out |-> <<>>, texts |-> <<>>, images |-> <<>>, sawResult |-> FALSE],
                            blocks))

\* harmonyToolResultContent: what is JSON is passed on as JSON.
IsJSON(text) ==
    LET atoms == Those(text, LAMBDA a : a # Gap) IN Len(atoms) = 1 /\ atoms[1].kind = "json"
HarmonyResult(result, n) ==
    LET text == ResultText(result, n) IN
    CASE result.kind = "absent" -> String(<<>>)
      [] result.kind \in {"string", "array"} -> IF IsJSON(text) THEN Value(text) ELSE String(text)
      [] OTHER -> Value(<<Atom("json", n)>>)

\* ConvertAnthropicToInternalHarmony, the blocks of one message: no images, no
\* thinking; the results of a user follow its texts.
HarmonyMessages(role, blocks) ==
    LET opts == [reasoning |-> TRUE]
        texts == Over(blocks, LAMBDA b : BlockTexts(b, opts))
        calls == Over(blocks, LAMBDA b : IF b.type = "tool_use" THEN <<CallObject(b)>> ELSE <<>>)
        results == Over(blocks, LAMBDA b : IF b.type = "tool_result"
                          THEN <<ToolMessage(b.n, HarmonyResult(b.result, b.n))>> ELSE <<>>)
        said == Message(role, String(Join(texts)))
    IN CASE role = "assistant" -> <<WithCalls(said, calls)>>
         [] role = "user" -> (IF texts = <<>> THEN <<>> ELSE <<said>>) \o results
         [] OTHER -> <<said>>

-----------------------------------------------------------------------------
(* mergeConsecutiveRoles: neighbours of one role become one message, which     *)
(* has the fields of the first.                                              *)

Mergeable_Bound(prev, msg) ==
    /\ prev.role = msg.role /\ msg.role \in {"user", "assistant"}
    /\ ~Has(prev, "preserve_role_boundary")
Mergeable(prev, msg) ==
    /\ prev.role = msg.role /\ msg.role \in {"user", "assistant"}
    /\ ~Has(prev, "preserve_role_boundary") /\ ~Has(msg, "preserve_role_boundary")

MergedContents(prev, next) ==
    IF IsEmpty(next) THEN prev
    ELSE IF IsEmpty(prev) THEN next
    ELSE IF prev.kind = "array" \/ next.kind = "array" THEN List(AsParts(prev) \o AsParts(next))
    ELSE String(Join(<<prev.text, next.text>>))

MergeRoles(messages) ==
    FoldLeft(LAMBDA merged, msg :
                IF merged # <<>> /\ Mergeable(Last(merged), msg)
                THEN Append(Front(merged),
                            SetField(Last(merged), "content",
                                     MergedContents(Last(merged).content, msg.content)))
                ELSE Append(merged, msg),
             <<>>, messages)

\* normalizeInMessagesSystem: the texts of system messages, empty ones left out,
\* join the system field.
InlineTexts(content) ==
    Those(CASE content.kind = "string" -> <<Text(content)>>
            [] content.kind = "array" ->
                 Over(content.blocks, LAMBDA b : IF b.type = "text" THEN <<Text(b)>> ELSE <<>>)
            [] OTHER -> <<>>,
          LAMBDA text : text # <<>>)

SystemOf(t) ==
    LET inline == Over(Those(t.messages, LAMBDA msg : msg.role = "system"),
                       LAMBDA msg : InlineTexts(msg.content))
    IN Join(Those(<<SystemText(t.system), Join(inline)>>, LAMBDA text : text # <<>>))

\* stringifyUnknownContent gives some text.
ConvertMessage(msg, opts) ==
    CASE msg.content.kind = "string" -> <<Message(msg.role, String(Text(msg.content)))>>
      [] msg.content.kind = "other" ->
           <<Message(msg.role, String(<<Atom("text", msg.content.n)>>))>>
      [] msg.content.kind = "array" ->
           LET blocks == msg.content.blocks IN
           IF opts.harmony THEN HarmonyMessages(msg.role, blocks)
           ELSE IF opts.native /\ msg.role = "assistant" THEN <<NativeAssistant(blocks, opts)>>
           ELSE IF opts.native /\ msg.role = "user" THEN NativeUser(blocks, opts)
           ELSE <<FallbackMessage(msg.role, blocks, opts)>>

Leading(system) == IF system = <<>> THEN <<>> ELSE <<Message("system", String(system))>>

\* convertAnthropicToInternal, ConvertAnthropicToInternalHarmony, but for the merging.
Unmerged(t) ==
    Leading(SystemOf(t))
        \o Over(Those(t.messages, LAMBDA msg : msg.role # "system"),
                LAMBDA msg : ConvertMessage(msg, t.options))

\* flattenInternal (api/engine_bridge.go): what the prompt is built from.
FlatText(content) ==
    CASE content.kind = "string" -> content.text
      [] content.kind = "array" ->
           Over(content.parts, LAMBDA part : IF part.type = "text" THEN part.text ELSE <<>>)
      [] content.kind = "value" -> <<>>
Flattened(messages) ==
    Over(messages, LAMBDA msg :
        <<[role |-> msg.role, content |-> FlatText(Field(msg, "content", String(<<>>))),
           reasoning |-> Field(msg, "reasoning_content", <<>>),
           toolCallID |-> Field(msg, "tool_call_id", 0)]>>)

-----------------------------------------------------------------------------
(* The conversation.                                                       *)

\* Messages are numbered, and so are their blocks.
Numbered(turn, m) ==
    LET content == turn.content IN
    [turn EXCEPT !.content =
        IF content.kind = "array"
        THEN [content EXCEPT !.blocks = [b \in DOMAIN @ |-> @[b] @@ ("n" :> 10 * m + b)] \o <<>>]
        ELSE content @@ ("n" :> 10 * m)]

Rendered(turns, messages) ==
    [turns |-> turns, messages |-> messages, prompt |-> Flattened(messages)]
AsOne(turns) == Rendered(turns, MergeRoles(turns))
ConvertTalk(t) == AsOne(Unmerged(t))

\* A client sends its conversation with every request.
TalkInit ==
    \E system \in Systems, options \in Options :
        LET request == [system |-> system, messages |-> <<>>, options |-> options]
        IN talk = request /\ internal = ConvertTalk(request)

\* The request with the next turn arrives and is converted.
NextRequest ==
    /\ Len(talk.messages) < LongestTalk
    /\ \E turn \in Turns :
         LET request == [talk EXCEPT !.messages = Append(@, Numbered(turn, Len(@) + 1))]
         IN talk' = request /\ internal' = ConvertTalk(request)

TalkSpec == TalkInit /\ [][NextRequest]_talkVars

-----------------------------------------------------------------------------
(* What the conversation says, and what the template is told.             *)

BlocksOf(msg) ==
    CASE msg.content.kind = "array" ->
           Over(msg.content.blocks, LAMBDA b : <<b @@ ("by" :> msg.role)>>)
      [] msg.content.kind = "string" ->
           <<[type |-> "text", n |-> msg.content.n, by |-> msg.role, says |-> msg.content.says]>>
      [] OTHER -> <<[type |-> "text", n |-> msg.content.n, by |-> msg.role, says |-> "words"]>>

PartAtoms(parts) == Over(parts, LAMBDA part :
    IF part.type = "text" THEN part.text ELSE <<Atom("image", part.url)>>)
ContentAtoms(content) ==
    IF content.kind = "array" THEN PartAtoms(content.parts) ELSE content.text

\* Gaps apart; a result is marked in the text, or is a message of its own.
Said(block, opts) ==
    CASE block.type = "thinking" ->
           IF IsThought(block) /\ ~opts.harmony /\ (opts.reasoning => block.by = "assistant")
           THEN <<Atom("think", block.n)>> ELSE <<>>
      [] block.type = "image" -> PartAtoms(Images(block))
      [] block.type = "tool_use" -> <<CallObject(block)>>
      [] block.type = "tool_result" ->
           <<Atom(IF ~opts.native /\ ~opts.harmony /\ block.error THEN "error" ELSE "result",
                  block.n)>>
               \o (IF opts.harmony THEN HarmonyResult(block.result, block.n).text
                   ELSE ResultText(block.result, block.n))
               \o PartAtoms(ResultImages(block.result, block.n))
      [] OTHER -> Join(BlockTexts(block, opts))

AllSaid(t) ==
    Over(Those(t.messages, LAMBDA msg : msg.role # "system"),
         LAMBDA msg : Over(BlocksOf(msg), LAMBDA b : Said(b, t.options)))

Told(msg) ==
    Field(msg, "reasoning_content", <<>>)
        \o (IF Has(msg, "tool_call_id") THEN <<Atom("result", msg.tool_call_id)>> ELSE <<>>)
        \o ContentAtoms(msg.content) \o Field(msg, "tool_calls", <<>>)

Only(kinds, atoms) == Those(atoms, LAMBDA a : a.kind \in kinds)
Prose   == {"text", "document", "placeholder"}
Results == {"result", "error", "output", "json"}
Words   == Prose \cup Results \cup {"call", "think"}

\* What is told in one order: a template that has fields of their own for them gets
\* calls and reasoning aside of the text, Harmony the results of a turn after its
\* text, and images come aside of it anyway.
Streams(opts) ==
    LET apart == {{"image"}} \cup (IF opts.harmony \/ opts.native THEN {{"call"}} ELSE {})
                   \cup (IF opts.reasoning THEN {{"think"}} ELSE {})
                   \cup (IF opts.harmony THEN {Results} ELSE {})
    IN apart \cup {Words \ UNION apart}

\* Images are not promised where they are not wanted, nor is what merged turns have in
\* fields of their own, which is lost with the second turn.
Promised(kinds, opts, merges) ==
    /\ kinds = {"image"} => opts.images /\ ~opts.harmony
    /\ kinds = {"think"} => ~merges
    /\ kinds = {"call"} => ~(opts.harmony /\ merges)

\* What the system field and the system messages say, billing headers apart.
SystemSaid(t) ==
    LET field == IF t.system.kind = "array"
                 THEN Those(t.system.blocks, LAMBDA b : b.says # "header")
                 ELSE IF t.system.kind = "string" THEN <<t.system>> ELSE <<>>
        inline == Over(Those(t.messages, LAMBDA msg : msg.role = "system"), 
                       LAMBDA msg : IF msg.content.kind = "other" THEN <<>> ELSE BlocksOf(msg))
    IN Over(field \o inline, Text)

SystemTurns(messages) == Those(messages, LAMBDA msg : msg.role = "system")
OtherTurns(messages)  == Those(messages, LAMBDA msg : msg.role # "system")

\* There is no system message, or the only one comes first.
SystemLeads(messages) ==
    \A i \in DOMAIN messages : messages[i].role = "system" => i = 1

Apart(msg) == Only({"call", "result", "error"}, Told(msg)) # <<>>

\* Whatever the template can do, it is told everything the conversation says and in
\* its order: one system message that leads, and after it texts, calls, results and
\* images none of which is lost or doubled by grouping, flushing or merging.  A call
\* or a result stays in the turn it was in: nothing of another turn is merged into
\* its message (but Harmony merges the turns of an assistant).  The prompt is built
\* from the same texts.
ConversationKept ==
    LET opts     == talk.options
        messages == internal.messages
        turns    == OtherTurns(messages)
        merges   == Len(messages) < Len(internal.turns)
        said     == AllSaid(talk)
    IN /\ Over(SystemTurns(messages), LAMBDA msg : Only(Words, msg.content.text)) = SystemSaid(talk)
       /\ SystemLeads(messages)
       /\ \A i \in 2..Len(messages) : ~Mergeable(messages[i - 1], messages[i])
       /\ \A msg \in Range(turns) : Apart(msg) /\ ~opts.harmony =>
            \A a, b \in Range(Only(Words, Told(msg))) : a.n \div 10 = b.n \div 10
       /\ \A kinds \in Streams(opts) : Promised(kinds, opts, merges) =>
            Only(kinds, Over(turns, Told)) = Only(kinds, said)
       /\ ~opts.harmony =>
            Only(Words, Over(OtherTurns(internal.prompt), LAMBDA msg : msg.content))
              = Only(Words, Over(turns, LAMBDA msg : ContentAtoms(msg.content)))
=============================================================================
