---------------------------- MODULE Conversations -----------------------------
(***************************************************************************)
(* Conversations of the other two APIs; JSON objects and texts are those   *)
(* of AnthropicMessages, and an id is a number, 0 the empty one.           *)
(*                                                                         *)
(* The request side of the Responses API (api/responses_request.go), and   *)
(* the way back (buildResponseObject of api/responses_convert.go,          *)
(* api/responses_store.go, api/responses_record.go): a conversation is a   *)
(* list of items, some of which belong to one turn of the assistant; the   *)
(* items of an answer are stored and become messages again when the        *)
(* conversation goes on.                                                   *)
(*                                                                         *)
(* Chat messages in the shape of the OpenAI API become those of a chat     *)
(* template, in three ways: for a template that knows strings only         *)
(* (api/text_content_extract.go), for Gemma 4 (api/gemma4_messages.go) and *)
(* for Harmony (api/harmony_messages.go).  What they share is in           *)
(* api/content_extract.go and api/reasoning_reconstruct.go.                *)
(***************************************************************************)
EXTENDS AnthropicMessages

CONSTANTS
    Items(_),     \* the items a client may send as the n-th
    Inputs,       \* what it may send instead of a list: [kind, text]
    LongestList,  \* how many items
    Earlier       \* the conversations so far: sequences of answers

VARIABLES
    list,     \* the request: [input, instructions, answers: the answers so far]
    records,  \* what is stored of the answers
    read      \* what the request was converted to: [before, messages, prompt]

listVars == <<list, records, read>>

-----------------------------------------------------------------------------
(* Calls and reasoning wait for the turn they belong to.                   *)

\* A conversion under way: the messages, of which the first `start` are not touched,
\* the system texts, and what waits.
Conversion(messages, system) ==
    [messages |-> messages, start |-> Len(messages), system |-> system,
     calls |-> <<>>, reasoning |-> <<>>]

Reasoned(msg, reasoning) ==
    IF reasoning = <<>> THEN msg ELSE SetField(msg, "reasoning_content", reasoning)

\* Does the last message take the calls?
TakesCalls(conv) ==
    /\ Len(conv.messages) > conv.start
    /\ Last(conv.messages).role = "assistant" /\ ~Has(Last(conv.messages), "tool_calls")

\* flushPendingToolCalls.
FlushCalls(conv) ==
    LET called(msg) == Reasoned(SetField(msg, "tool_calls", conv.calls), conv.reasoning)
    IN IF conv.calls = <<>> THEN conv
       ELSE [conv EXCEPT !.calls = <<>>, !.reasoning = <<>>,
                !.messages = IF TakesCalls(conv)
                             THEN Append(Front(@), called(Last(@)))
                             ELSE Append(@, called([role |-> "assistant"]))]

AddMessage(conv, msg) == [conv EXCEPT !.messages = Append(@, msg)]
\* A message that takes the reasoning that waits.
AddReasoned(conv, msg) ==
    [AddMessage(conv, Reasoned(msg, conv.reasoning)) EXCEPT !.reasoning = <<>>]

\* consolidateSystemMessages: an empty system message stays where it is.
Consolidated(messages) ==
    LET parts == Over(Those(messages, LAMBDA m : m.role = "system"), LAMBDA m :
                    IF m.content.kind = "string" /\ m.content.text # <<>>
                    THEN <<m.content.text>> ELSE <<>>)
    IN IF parts = <<>> THEN messages
       ELSE <<Message("system", String(Join(parts)))>>
              \o Those(messages, LAMBDA m : m.role # "system")

-----------------------------------------------------------------------------
(* ConvertResponsesInputToMessages.                                        *)

\* effectiveItemType: an item without a type but with a role is a message.
ItemType(item) ==
    IF Has(item, "type") THEN item.type ELSE IF Has(item, "role") THEN "message" ELSE ""

RoleOf(item) ==
    LET role == Field(item, "role", "")
    IN IF role = "" THEN "user" ELSE IF role = "developer" THEN "system" ELSE role

\* convertResponsesContent, contentOrEmpty: one text, if there is no image among the
\* parts.  (A bare string is a part of type "string".)
IsTextPart(part) == part.type \in {"input_text", "text", "output_text", "string"}
ConvertContent(item) ==
    LET content == Field(item, "content", [kind |-> "absent"])
        parts == Those(content.parts, LAMBDA p : IsTextPart(p) \/ p.type = "input_image")
        images == Those(parts, LAMBDA p : p.type = "input_image")
    IN CASE content.kind = "string" -> content
         [] content.kind = "array" /\ images = <<>> ->
              String(Join(Over(parts, LAMBDA p : <<p.text>>)))
         [] content.kind = "array" /\ images # <<>> ->
              List(Over(parts, LAMBDA p :
                     <<IF p.type = "input_image" THEN p ELSE TextPart(p.text)>>))
         [] OTHER -> String(<<>>)

InputMessage(flushed, item) ==
    LET role == RoleOf(item)
        content == ConvertContent(item)
        said == IF content.kind = "string" THEN content.text ELSE <<>>
    IN CASE role = "system"    -> [flushed EXCEPT !.system = Append(@, said)]
         [] role = "assistant" -> AddReasoned(flushed, Message(role, content))
         [] OTHER              -> AddMessage(flushed, Message(role, content))

\* The texts of a summary that are not empty; is there any summary?
Summary(item) == Join(Those(item.summary, LAMBDA text : text # <<>>))
HasSummary(item) == Has(item, "summary") /\ item.summary # <<>>

\* The first id that is not empty, or a new one.
CallID(item, fallback) ==
    IF item.call_id # 0 THEN item.call_id
    ELSE IF fallback /\ item.id # 0 THEN item.id ELSE item.new
Call(item, fallback) == Atom("call", item.n) @@ ("id" :> CallID(item, fallback))

InputItem(conv, item) ==
    LET type == ItemType(item) IN
    CASE type = "message" -> InputMessage(FlushCalls(conv), item)
      [] type = "reasoning" /\ HasSummary(item) -> [conv EXCEPT !.reasoning = Summary(item)]
      [] type = "function_call" -> [conv EXCEPT !.calls = Append(@, Call(item, TRUE))]
      [] type = "function_call_output" ->
           AddMessage(FlushCalls(conv), ToolMessage(item.call_id, String(item.output)))
      [] OTHER -> conv

\* finish: the system texts come first.
Finished(conv) ==
    Consolidated((IF conv.system = <<>> THEN <<>>
                  ELSE <<Message("system", String(Join(conv.system)))>>) \o conv.messages)
ConvertInput(input, instructions, previous) ==
    LET begun == Conversion(previous, IF instructions = <<>> THEN <<>> ELSE <<instructions>>)
    IN Finished(CASE input.kind = "string" -> AddMessage(begun, Message("user", input))
                  [] input.kind = "array" -> FlushCalls(FoldLeft(InputItem, begun, input.items))
                  [] OTHER -> begun)

-----------------------------------------------------------------------------
(* The answer: its items, and the messages they become.                    *)

\* strings.TrimSpace.
TrimSpace(text) ==
    LET words == {i \in DOMAIN text : text[i] # Gap}
    IN IF words = {} THEN <<>> ELSE SubSeq(text, Min(words), Max(words))

ReasoningItem(text) == [type |-> "reasoning", summary |-> IF text = <<>> THEN <<>> ELSE <<text>>]
MessageItem(text) ==
    [type |-> "message", role |-> "assistant",
     content |-> List(<<[type |-> "output_text", text |-> text]>>)]
\* (An item has an id of its own; its call has an id, or gets one.)
CallItem(call) ==
    [type |-> "function_call", n |-> call.n, id |-> 100 + call.n, new |-> 0,
     call_id |-> IF call.id = 0 THEN call.new ELSE call.id]

\* buildResponseObject: reasoning if there is any and it is wanted, one message,
\* the calls.
OutputOf(answer) ==
    LET reasoning == TrimSpace(answer.reasoning) IN
    (IF answer.native /\ reasoning # <<>> THEN <<ReasoningItem(reasoning)>> ELSE <<>>)
        \o <<MessageItem(TrimSpace(answer.text))>>
        \o Over(answer.calls, LAMBDA call : <<CallItem(call)>>)

OutputText(item) ==
    LET content == Field(item, "content", [kind |-> "absent"])
    IN IF content.kind # "array" THEN <<>>
       ELSE Join(Over(content.parts, LAMBDA p :
                    IF p.type = "output_text" THEN <<p.text>> ELSE <<>>))

OutputItem(conv, item) ==
    LET role == Field(item, "role", "") IN
    CASE item.type = "reasoning" ->
           [conv EXCEPT !.reasoning = IF Has(item, "summary") THEN Summary(item) ELSE <<>>]
      [] item.type = "message" -> 
           AddReasoned(FlushCalls(conv), Message(IF role = "" THEN "assistant" ELSE role,
                                                 String(OutputText(item))))
      [] item.type = "function_call" ->
           [conv EXCEPT !.calls = Append(@, Call(item, FALSE))]
      [] OTHER -> conv

\* NormalizeResponseOutputToMessages.
Normalized(output) ==
    Consolidated(FlushCalls(FoldLeft(OutputItem, Conversion(<<>>, <<>>), output)).messages)

-----------------------------------------------------------------------------
(* What is stored.                                                         *)

\* ConvertStoredResponseToMessages.
ConvertStored(data) ==
    IF Has(data, "output_messages") THEN data.output_messages
    ELSE Normalized(Field(data, "output", <<>>))

\* BuildResponseStoreRecord.
BuildRecord(public, input, output) ==
    [response_id |-> Field(public, "id", 0),
     previous_response_id |-> Field(public, "previous_response_id", 0),
     input_messages |-> input, output_messages |-> output, public_response |-> public,
     created_at |-> Field(public, "created_at", 0)]

\* NormalizeResponseRecord: a saved record gets what it lacks, the rest is as it was.
\* (Of two functions that @@ joins, the first one counts.)
NormalizeRecord(id, data) ==
    LET saved  == Has(data, "public_response")
        public == IF saved THEN data.public_response ELSE data @@ [id |-> id]
        defaults ==
          [response_id |-> id,
           previous_response_id |-> Field(public, "previous_response_id", 0),
           input_messages |-> <<>>,
           output_messages |-> Normalized(Field(public, "output", <<>>)),
           public_response |-> public, created_at |-> Field(public, "created_at", 0)]
    IN IF saved THEN data @@ defaults ELSE defaults

-----------------------------------------------------------------------------
\* The response to the n-th turn, and what is stored of it.
Public(answer, n) ==
    [id |-> n, previous_response_id |-> n - 1, created_at |-> 7, output |-> OutputOf(answer)]
Stored(answer, n) ==
    BuildRecord(Public(answer, n), <<Message("user", String(<<Atom("text", n)>>))>>,
                Normalized(OutputOf(answer)))

\* The messages of the earlier turns, as they are read back.
Before(stored) ==
    FlattenSeq([n \in DOMAIN stored |-> ConvertStored(NormalizeRecord(n, stored[n]))] \o <<>>)

ReadBack(before, messages) ==
    [before |-> before, messages |-> messages, prompt |-> Flattened(messages)]
ReadAfter(before, l) == ReadBack(before, ConvertInput(l.input, l.instructions, before))
ReadList(l, stored) == ReadAfter(Before(stored), l)

ListInit ==
    \E instructions \in {<<>>, <<Atom("text", 1)>>},
       input \in Inputs \cup {[kind |-> "array", items |-> <<>>]} :
        LET request == [input |-> input, instructions |-> instructions, answers |-> <<>>]
        IN /\ list = request /\ records = <<>>
           /\ read = ReadList(request, <<>>)

\* A request that goes on with an earlier response: the answer was stored.
StoreAnswer ==
    /\ list.input.kind = "array" => list.input.items = <<>>
    /\ \E answers \in Earlier :
         LET n == Len(list.answers) + 1 IN
         /\ Len(answers) >= n /\ SubSeq(answers, 1, n - 1) = list.answers
         /\ list' = [list EXCEPT !.answers = Append(@, answers[n])]
         /\ records' = Append(records, Stored(answers[n], n))
         /\ read' = ReadList(list', records')

\* The request with the next item arrives and is converted.
NextItem ==
    /\ list.input.kind = "array" /\ Len(list.input.items) < LongestList
    /\ \E item \in Items(Len(list.input.items) + 1) :
         list' = [list EXCEPT !.input.items = Append(@, item)]
    /\ read' = ReadList(list', records)
    /\ UNCHANGED records

ListSpec == ListInit /\ [][StoreAnswer \/ NextItem]_listVars

-----------------------------------------------------------------------------
Gapless(text) == Those(text, LAMBDA a : a # Gap)
InContent(msg) == IF Has(msg, "content") THEN ContentAtoms(msg.content) ELSE <<>>
Spoken(msg) == Gapless(InContent(msg)) \o Field(msg, "tool_calls", <<>>)

\* What an item adds to the conversation, apart from reasoning and system texts.
ItemAtoms(item) ==
    LET content == Field(item, "content", [kind |-> "absent"])
    IN CASE content.kind = "string" -> content.text
         [] content.kind = "array" ->
              Over(content.parts, LAMBDA p :
                CASE p.type = "input_image" -> <<Atom("image", p.url)>>
                  [] IsTextPart(p) -> p.text
                  [] OTHER -> <<>>)
         [] OTHER -> <<>>
IsMessage(item, role) == ItemType(item) = "message" /\ RoleOf(item) = role
Adds(item) ==
    CASE ItemType(item) = "message" ->
           IF RoleOf(item) = "system" THEN <<>> ELSE Gapless(ItemAtoms(item))
      [] ItemType(item) = "function_call" -> <<Call(item, TRUE)>>
      [] ItemType(item) = "function_call_output" -> item.output
      [] OTHER -> <<>>

\* Every reasoning item follows what is not the assistant's and precedes what is.
IsReasoning(item) == ItemType(item) = "reasoning"
ReasonsInPlace(items) ==
    \A i \in DOMAIN items : IsReasoning(items[i]) =>
        /\ \/ i = 1
           \/ ItemType(items[i - 1]) = "function_call_output"
           \/ IsMessage(items[i - 1], "user")
        /\ i < Len(items)
        /\ ItemType(items[i + 1]) = "function_call" \/ IsMessage(items[i + 1], "assistant")

\* A stored answer comes back as the one turn it was, from the record of its response,
\* from one that lost some of its fields, from the bare response, and when a client
\* sends its items again.
AnswerTurn(a) ==
    LET turn   == Message("assistant", String(TrimSpace(a.text)))
        called == IF a.calls = <<>> THEN turn
                  ELSE SetField(turn, "tool_calls",
                                Over(a.calls, LAMBDA c :
                                    <<Atom("call", c.n) @@ ("id" :> CallItem(c).call_id)>>))
    IN Reasoned(called, IF a.native THEN TrimSpace(a.reasoning) ELSE <<>>)
ComesBack(n, record, whole) ==
    LET unasked == [record EXCEPT !.input_messages = <<>>]
    IN /\ record.output_messages = <<whole>>
       /\ \A kept \in SUBSET DOMAIN record : "public_response" \in kept =>
            NormalizeRecord(n, [key \in kept |-> record[key]])
              = IF "input_messages" \in kept THEN record ELSE unasked
       /\ NormalizeRecord(n, record.public_response) = unasked
       /\ ConvertStored(record.public_response) = <<whole>>
       /\ ConvertInput([kind |-> "array", items |-> record.public_response.output], <<>>, <<>>)
            = <<whole>>

\* Every item is in the conversation once, in order, after the messages of the
\* earlier turns, which are not changed (calls do not move into an earlier
\* answer); a system message is the only one and leads (with the texts of all of
\* them that have no image); and reasoning stays with the turn it led to.  The
\* earlier answers come back as they were, and the prompt has the same texts.
ItemsKept ==
    LET items    == IF list.input.kind = "array" THEN list.input.items ELSE <<>>
        system   == list.instructions \o Over(items, LAMBDA item :
                      IF IsMessage(item, "system") /\ ConvertContent(item).kind = "string"
                      THEN Gapless(ItemAtoms(item)) ELSE <<>>)
        thoughts(m) == Gapless(Field(m, "reasoning_content", <<>>))
        before   == read.before
        turns    == OtherTurns(read.messages)
        new      == SubSeq(turns, Len(before) + 1, Len(turns))
    IN /\ items = <<>> => \A n \in DOMAIN list.answers :   \* which items do not change
            ComesBack(n, records[n], AnswerTurn(list.answers[n]))
       /\ IsPrefix(before, turns)
       /\ Over(new, Spoken) = IF list.input.kind = "string" THEN list.input.text
                              ELSE Over(items, Adds)
       /\ Over(SystemTurns(read.messages), Spoken) = system
       /\ SystemLeads(read.messages)
       /\ \A m \in Range(turns) : Has(m, "tool_calls") => m.role = "assistant"
       /\ ReasonsInPlace(items) =>
            /\ Over(new, thoughts)
                 = Over(items, LAMBDA x : IF IsReasoning(x) THEN Gapless(Summary(x)) ELSE <<>>)
            /\ \A m \in Range(new) : thoughts(m) # <<>> =>
                 m.role = "assistant"
                   /\ \E a \in Range(Spoken(m)) : thoughts(m)[1].n + 1 = a.n
       /\ Over(OtherTurns(read.prompt), LAMBDA m : Gapless(m.content))
            = Over(turns, LAMBDA m : Those(Gapless(InContent(m)), LAMBDA a : a.kind # "image"))

-----------------------------------------------------------------------------
(* Chat messages.                                                          *)

CONSTANTS
    Chats(_),      \* the messages a client may send as the n-th
    LongestChat,   \* how many of them
    Templates      \* [for, native, reasoning]: what the template can do

VARIABLES
    chat,      \* the request: [messages, template]
    passed     \* what the template is passed: [turns: as prepared, messages: merged]

chatVars == <<chat, passed>>

-----------------------------------------------------------------------------
(* Contents.                                                               *)

Null == [kind |-> "null"]

\* pythonTruthy.  (JSON that is neither a string nor a list, and not false, is a
\* value.)
Truthy(content) ==
    \/ content.kind = "value"
    \/ content.kind \in {"string", "array"} /\ ~IsEmpty(content)
OrBlank(content) == IF Truthy(content) THEN content ELSE String(<<>>)

\* ExtractTextFromContentList: the text parts and the bare strings.
PartTexts(parts) ==
    Over(parts, LAMBDA p : IF p.type \in {"text", "string"} THEN <<p.text>> ELSE <<>>)
ListText(content) == String(Join(PartTexts(content.parts)))
Flat(content) == IF content.kind = "array" THEN ListText(content) ELSE content

\* pythonStrValue, harmonyContentString: a text of whatever it is.
AsText(content) ==
    CASE content.kind = "null"  -> String(<<>>)
      [] content.kind = "array" -> ListText(content)
      [] OTHER -> String(content.text)

\* ExtractMultimodalContentList: the images in one shape; one without a source is
\* dropped.
ImagePartOf(p) ==
    CASE p.type \in {"image_url", "input_image"} -> IF p.url = 0 THEN <<>> ELSE <<ImagePart(p.url)>>
      [] p.type = "image" -> IF p.source = "base64" THEN <<ImagePart(p.url)>> ELSE <<>>
      [] OTHER -> <<>>
Multimodal(parts) ==
    Over(parts, LAMBDA p : IF p.type \in {"text", "input_text"} THEN <<TextPart(p.text)>>
                           ELSE ImagePartOf(p))

\* TryParseJSON: a text that is JSON is passed on as JSON, and any other is trimmed.
Parsed(content) ==
    LET text == TrimSpace(content.text) IN
    CASE content.kind = "string" /\ IsJSON(text)  -> Value(text)
      [] content.kind = "string" /\ ~IsJSON(text) -> String(text)
      [] OTHER -> content

\* applyReasoningReconstruction: the content, and the reasoning that goes aside of it.
Reconstructed(role, content, reasoning, native) ==
    LET text == CASE content.kind = "string" -> content.text
                  [] content.kind = "array"  -> ListText(content).text
                  [] OTHER -> <<>>
    IN CASE role # "assistant" \/ reasoning = <<>> -> [content |-> content, aside |-> <<>>]
         [] role = "assistant" /\ reasoning # <<>> /\ native ->
              [content |-> String(text), aside |-> reasoning]
         [] role = "assistant" /\ reasoning # <<>> /\ ~native ->
              [content |-> String(reasoning \o <<Gap>> \o text), aside |-> <<>>]

CopyField(from, key, to) == IF Has(from, key) THEN SetField(to, key, from[key]) ELSE to
CallsOf(msg) == Field(msg, "tool_calls", <<>>)

\* "developer" is "system"; no role is "user", but for the strings-only template.
Renamed(role) == IF role = "developer" THEN "system" ELSE role
RoleOr(msg, default) ==
    LET role == Field(msg, "role", "") IN IF role = "" THEN default ELSE Renamed(role)

\* DropVoidAssistantMessages.
IsVoid(msg) ==
    /\ msg.role = "assistant" /\ ~Truthy(msg.content)
    /\ \A key \in {"tool_calls", "tool_responses", "reasoning_content"} :
         Field(msg, key, <<>>) = <<>>
Unmixed(processed) == Those(Consolidated(processed), LAMBDA msg : ~IsVoid(msg))

-----------------------------------------------------------------------------
(* ExtractTextContent.                                                     *)

\* The result of a tool.
TextResult(msg, content, native) ==
    LET id == Field(msg, "tool_call_id", 0)
        result == OrBlank(Flat(content))
    IN IF native THEN ToolMessage(id, result)
       ELSE Bounded(Message("user", String(<<Atom("result", id)>> \o AsText(result).text)), TRUE)

\* A turn of the assistant that calls tools, and one that does not.
TextCalls(msg, rebuilt, native) ==
    LET said   == OrBlank(Flat(rebuilt.content))
        text   == AsText(said).text
        marked == IF text = <<>> THEN CallsOf(msg) ELSE text \o <<Gap>> \o CallsOf(msg)
        turn   == CopyField(msg, "partial", CopyField(msg, "name",
                    Reasoned(Message("assistant", said), rebuilt.aside)))
    IN Bounded(IF native THEN SetField(turn, "tool_calls", CallsOf(msg))
               ELSE SetField(turn, "content", String(marked)), TRUE)

TextTurn(msg, role, rebuilt) ==
    Reasoned(CopyField(msg, "partial", CopyField(msg, "name",
               Message(role, AsText(rebuilt.content)))), rebuilt.aside)

TextMessage(msg, template) ==
    LET role == Renamed(Field(msg, "role", ""))
        rebuilt == Reconstructed(role, Field(msg, "content", Null),
                                 Field(msg, "reasoning_content", <<>>), template.reasoning)
    IN CASE role = "tool" -> TextResult(msg, rebuilt.content, template.native)
         [] role = "assistant" /\ CallsOf(msg) # <<>> -> TextCalls(msg, rebuilt, template.native)
         [] OTHER -> TextTurn(msg, role, rebuilt)

-----------------------------------------------------------------------------
(* ExtractHarmonyMessages.                                                 *)

HarmonyMessage(msg) ==
    LET role == RoleOr(msg, "user")
        content == Field(msg, "content", Null)
        said == Message(role, AsText(content))
    IN CASE role = "tool" ->
              ToolMessage(Field(msg, "tool_call_id", 0), Parsed(OrBlank(Flat(content))))
         [] role = "assistant" -> Bounded(WithCalls(said, CallsOf(msg)), CallsOf(msg) # <<>>)
         [] OTHER -> said

-----------------------------------------------------------------------------
(* ExtractGemma4Messages.                                                  *)

\* StripLeadingThoughts.
StripThoughts(text) ==
    LET said  == {i \in DOMAIN text : text[i] # Gap /\ text[i].kind # "think"}
        start == IF said = {} THEN Len(text) + 1 ELSE Min(said)
    IN IF \E i \in 1..(start - 1) : text[i].kind = "think"
       THEN SubSeq(text, start, Len(text)) ELSE text

\* gemma4Content.
GemmaContent(msg) == Flat(Field(msg, "content", String(<<>>)))

\* An answer to a call goes by the name of its function, if the turn before made the
\* call: the last one with this id counts.
NameIn(calls, id) ==
    LET named == Those(calls, LAMBDA c : c.id = id /\ id # 0)
        name  == IF named = <<>> THEN "" ELSE Last(named).name
    IN IF name # "" THEN [function |-> name]
       ELSE IF id # 0 THEN [id |-> id] ELSE [function |-> "unknown"]
Response(msg, calls) ==
    [name |-> NameIn(calls, Field(msg, "tool_call_id", 0)),
     response |-> Parsed(GemmaContent(msg))]

GemmaAssistant(msg) ==
    LET content == GemmaContent(msg)
        own == IF content.kind = "string" THEN String(StripThoughts(content.text)) ELSE content
    IN Bounded(WithCalls(Message("assistant", OrBlank(own)), CallsOf(msg)), CallsOf(msg) # <<>>)

\* Images are kept; a list without any is text.
GemmaTurn(msg, role) ==
    LET content == Field(msg, "content", String(<<>>))
        parts == IF content.kind = "array" THEN Multimodal(content.parts) ELSE <<>>
    IN Message(role,
         IF \E p \in Range(parts) : p.type = "image_url" THEN List(parts)
         ELSE IF content.kind = "null" THEN String(<<>>) ELSE Flat(content))

\* The results that directly follow a turn of the assistant are folded into it; any
\* other one is a turn of its own.
GemmaStep(sofar, msg) ==
    LET role   == RoleOr(msg, "user")
        add(m) == Append(sofar.out, m)
        answer == Response(msg, sofar.calls)
        folded == SetField(Last(sofar.out), "tool_responses",
                           Append(Field(Last(sofar.out), "tool_responses", <<>>), answer))
        orphan == Bounded(SetField(Message("assistant", String(<<>>)), "tool_responses",
                                   <<Response(msg, <<>>)>>), TRUE)
    IN CASE role = "tool" /\ sofar.folding -> [sofar EXCEPT !.out = Append(Front(@), folded)]
         [] role = "tool" /\ ~sofar.folding -> [sofar EXCEPT !.out = add(orphan)]
         [] role = "assistant" ->
              [out |-> add(GemmaAssistant(msg)), folding |-> TRUE, calls |-> CallsOf(msg)]
         [] OTHER -> [out |-> add(GemmaTurn(msg, role)), folding |-> FALSE, calls |-> <<>>]

GemmaMessages(messages) ==
    FoldLeft(GemmaStep, [out |-> <<>>, folding |-> FALSE, calls |-> <<>>], messages).out

-----------------------------------------------------------------------------
\* The three functions, up to what they all end with: MergeRoles of what Unmixed leaves.
Prepared(c) ==
    CASE c.template.for = "text" -> Over(c.messages, LAMBDA m : <<TextMessage(m, c.template)>>)
      [] c.template.for = "harmony" -> Over(c.messages, LAMBDA m : <<HarmonyMessage(m)>>)
      [] c.template.for = "gemma4" -> GemmaMessages(c.messages)

PassedOn(turns) == [turns |-> turns, messages |-> MergeRoles(turns)]
ConvertChat(c) == PassedOn(Unmixed(Prepared(c)))

ChatInit ==
    \E template \in Templates :
        LET request == [messages |-> <<>>, template |-> template]
        IN chat = request /\ passed = ConvertChat(request)

\* The request with the next message arrives and is converted.
NextChat ==
    /\ Len(chat.messages) < LongestChat
    /\ \E msg \in Chats(Len(chat.messages) + 1) :
         LET request == [chat EXCEPT !.messages = Append(@, msg)]
         IN chat' = request /\ passed' = ConvertChat(request)

ChatSpec == ChatInit /\ [][NextChat]_chatVars

-----------------------------------------------------------------------------
(* What the messages say, and what the template is told.                   *)

IsRole(msg, role) == RoleOr(msg, "user") = role

Heard(msg, template) ==
    LET content == Field(msg, "content", Null)
    IN (IF IsRole(msg, "assistant") /\ template.for = "text"
        THEN Field(msg, "reasoning_content", <<>>) ELSE <<>>)
       \o (IF IsRole(msg, "tool") THEN <<Atom("result", Field(msg, "tool_call_id", 0))>> ELSE <<>>)
       \o (CASE content.kind = "null"  -> <<>>
             [] content.kind = "array" ->
                  Over(content.parts, LAMBDA p : IF p.type \in {"text", "string"} THEN p.text
                         ELSE PartAtoms(ImagePartOf(p)))
             [] OTHER -> content.text)
       \o CallsOf(msg)

ToldChat(msg) ==
    Told(msg) \o Over(Field(msg, "tool_responses", <<>>), LAMBDA r : ContentAtoms(r.response))

\* A template is told the kinds of atoms it is for.  (Gemma takes a result by the
\* name of its function; it and Harmony drop the reasoning of earlier turns.  A turn
\* that is merged into the one before it loses what it has aside of its text.)
KindsFor(template, merges) ==
    CASE template.for = "text" ->
           Words \ (IF merges /\ template.reasoning THEN {"think"} ELSE {})
      [] template.for = "harmony" -> Words \ {"think"}
      [] template.for = "gemma4" ->
           (Prose \cup {"call", "image"}) \cup (IF merges THEN {} ELSE {"output", "json"})

\* The calls that the result at j may answer: those of the turn that it and other
\* results directly follow.
CallsBefore(messages, j) ==
    LET others == {i \in 1..(j - 1) : ~IsRole(messages[i], "tool")}
    IN IF others = {} \/ ~IsRole(messages[Max(others)], "assistant") THEN <<>>
       ELSE CallsOf(messages[Max(others)])
Answered(messages, j) ==
    Those(CallsBefore(messages, j), LAMBDA c : c.id = Field(messages[j], "tool_call_id", 0))

\* Every template is told what the messages say, in order and once: one system
\* message that leads, no turn of the assistant that is void, no two neighbours that
\* should be one, and calls and results apart from the turns around them.  For
\* Gemma, every result is in the turn that made its call, under the name of the
\* function.
ChatKept ==
    LET template == chat.template
        systems  == Those(chat.messages, LAMBDA m : IsRole(m, "system"))
        others   == Those(chat.messages, LAMBDA m : ~IsRole(m, "system"))
        results  == {j \in DOMAIN chat.messages : IsRole(chat.messages[j], "tool")}
        Same(told, heard, kinds) ==
          Only(kinds, Over(told, ToldChat)) = Only(kinds, Over(heard, LAMBDA m : Heard(m, template)))
        Folded(turns, calls, said) ==
          calls # <<>> /\ said.kind = "string" =>
            \E m \in Range(turns) : \E r \in Range(Field(m, "tool_responses", <<>>)) :
               /\ r = [name |-> [function |-> Last(calls).name], response |-> Parsed(said)]
               /\ Last(calls) \in Range(CallsOf(m))
        messages == passed.messages
        turns    == OtherTurns(messages)
        kinds    == KindsFor(template, Len(messages) < Len(passed.turns))
    IN /\ Same(turns, others, kinds)
       /\ Same(SystemTurns(messages), systems, kinds)
       /\ Over(SystemTurns(messages), ToldChat) # <<>> => SystemLeads(messages)
       /\ \A m \in Range(messages) : ~IsVoid(m)
       /\ \A i \in 2..Len(messages) : ~Mergeable(messages[i - 1], messages[i])
       /\ \A m \in Range(turns) : Only({"call", "result"}, Told(m)) # <<>> =>
            \A a, b \in Range(Only(Words \ {"result"}, Told(m))) : a.n = b.n
       /\ template.for = "gemma4" => \A j \in results :
            Folded(turns, Answered(chat.messages, j), GemmaContent(chat.messages[j]))
===============================================================================
