------------------------------ MODULE HttpServer ------------------------------
(***************************************************************************)
(* The HTTP server over the engine: requests pass the middleware and the   *)
(* checks of their endpoint, the generating endpoints submit to the engine *)
(* and turn the increments they receive into events or a body, clients     *)
(* leave, the engine fails, and the server shuts down (server/server.go).  *)
(* The engine keeps the promise of RequestStream, which EngineCore is      *)
(* shown to implement: a handler takes what was generated in batches, in   *)
(* order, and is told of the end with or after the last of it.             *)
(*                                                                         *)
(* First what is decided before anything runs: the middleware              *)
(* (server/middleware.go), the checks of each endpoint in their order      *)
(* (routes), and the sampling cascade.  A request is a record of what these *)
(* look at; a check it does not meet is a member of its "faults".          *)
(*                                                                         *)
(* Then the events the generating endpoints write: one small language per  *)
(* API (api/streaming.go, api/anthropic_stream.go, api/responses_stream.go *)
(* and the ResponsesStreamWriter of api/engine_bridge.go), and the body of *)
(* an answer that is not streamed.  An event keeps its type, its sequence  *)
(* number, its text, its reason and its usage.                             *)
(***************************************************************************)
EXTENDS Integers, Sequences, FiniteSets, SequencesExt

CONSTANTS
    AuthOn,      \* are API keys configured?
    Defaults,    \* the engine's base sampling parameters
    Fallback,    \* the hard-coded ones
    White        \* the pieces of a text that are white space

Generating == {"chat", "completions", "messages", "responses"}
Validated  == {"embeddings", "rerank", "transcribe", "speech", "audio"}
Listing    == {"health", "status", "models", "mcp_tools", "mcp_servers"}
Endpoints  == Generating \cup Validated \cup Listing
                  \cup {"count_tokens", "mcp_execute"}

\* The checks of each endpoint, in order, and the status of failing one.
ChatChecks ==
    <<<<"body", 400>>, <<"messages", 422>>, <<"prompt", 500>>>>
MessagesChecks ==
    <<<<"body", 400>>, <<"messages", 422>>, <<"prompt", 500>>>>
CountTokensChecks ==
    <<<<"body", 400>>, <<"messages", 422>>, <<"prompt", 500>>>>
CompletionsChecks ==
    <<<<"body", 400>>, <<"prompt_text", 422>>>>
ResponsesChecks ==
    <<<<"body", 400>>, <<"input", 422>>, <<"prompt", 500>>>>
EmbeddingsChecks ==
    <<<<"body", 400>>, <<"model", 422>>, <<"encoding", 422>>, <<"one_input", 422>>,
      <<"items", 422>>, <<"input_type", 422>>, <<"inputs", 400>>, <<"backend", 501>>>>
RerankChecks ==
    <<<<"body", 400>>, <<"documents", 400>>, <<"query", 400>>, <<"backend", 501>>>>
UploadChecks ==
    <<<<"form", 422>>, <<"file", 422>>, <<"size", 413>>, <<"model", 422>>,
      <<"backend", 501>>>>
SpeechChecks ==
    <<<<"body", 400>>, <<"input", 400>>, <<"stream_format", 400>>, <<"interval", 400>>,
      <<"ref_text", 400>>, <<"ref_size", 413>>, <<"ref_base64", 400>>,
      <<"backend", 501>>>>
ExecuteChecks ==
    <<<<"manager", 503>>, <<"body", 400>>>>

Refusals(endpoint) ==
    CASE endpoint = "chat"         -> ChatChecks
      [] endpoint = "messages"     -> MessagesChecks
      [] endpoint = "count_tokens" -> CountTokensChecks
      [] endpoint = "completions"  -> CompletionsChecks
      [] endpoint = "responses"    -> ResponsesChecks
      [] endpoint = "embeddings"   -> EmbeddingsChecks
      [] endpoint = "rerank"       -> RerankChecks
      [] endpoint \in {"transcribe", "audio"} -> UploadChecks
      [] endpoint = "speech"       -> SpeechChecks
      [] endpoint = "mcp_execute"  -> ExecuteChecks
      [] OTHER -> <<>>

\* Faults every request to such an endpoint has: the engines they need are
\* not there yet.
Inherent(endpoint) == IF endpoint \in Validated THEN {"backend"} ELSE {}

\* Faults a request can have.  ("prompt" is an error of BuildPrompt, which the
\* one engine there is never returns.)
Faults(endpoint) ==
    {Refusals(endpoint)[i][1] : i \in DOMAIN Refusals(endpoint)}
        \ ({"prompt"} \cup Inherent(endpoint))

\* The first check the request fails; <<>> when it fails none.
FirstRefusal(req) ==
    LET failed == SelectSeq(Refusals(req.endpoint),
                            LAMBDA check : check[1] \in req.faults \cup Inherent(req.endpoint))
    IN IF failed = <<>> THEN <<>> ELSE Head(failed)

-----------------------------------------------------------------------------
(* Middleware: request log, panic recovery, CORS, authentication, routes.  *)

Authorised(req) ==
    ~AuthOn \/ req.endpoint \in {"health", "status"} \/ req.key = "right"

\* What the middleware and the checks make of a request: 0 to run the handler,
\* a status to answer with.  A preflight never gets past CORS.
Gate(req) ==
    IF req.preflight THEN 204
    ELSE IF ~Authorised(req) THEN 401
    ELSE IF FirstRefusal(req) # <<>> THEN FirstRefusal(req)[2]
    ELSE 0

-----------------------------------------------------------------------------
(* resolveSampling: request, then engine defaults, then the fallback.  Of  *)
(* the parameters only the length of the generation matters here.          *)

\* The limits on the length an endpoint reads.
Limits(endpoint) ==
    CASE endpoint = "chat"      -> {"max_tokens", "max_completion"}
      [] endpoint = "responses" -> {"max_completion"}
      [] OTHER                  -> {"max_tokens"}

\* No engine defaults are configured.
NoDefaults ==
    Defaults.temperature = 0 /\ Defaults.top_p = 0 /\ Defaults.repetition = 0

BaseSampling == IF NoDefaults THEN Fallback ELSE Defaults

\* Is the parameter set in the request, be it to zero?
Given(req, name) == name \in Limits(req.endpoint) \cap DOMAIN req.params

\* The most tokens the request may generate.
MaxTokensOf(req) ==
    LET asked == IF Given(req, "max_completion") THEN req.params["max_completion"]
                 ELSE IF Given(req, "max_tokens") THEN req.params["max_tokens"]
                 ELSE BaseSampling.max_tokens
    IN IF asked <= 0 THEN Fallback.max_tokens ELSE asked

-----------------------------------------------------------------------------
(* Events.                                                                 *)

NoUsage == [prompt |-> 0, completion |-> 0, cached |-> 0, total |-> 0]

\* makeUsage, buildStreamUsage.
Usage(prompt, completion, cached) ==
    [prompt |-> prompt, completion |-> completion, cached |-> cached,
     total |-> prompt + completion]

Event(type) == [type |-> type, number |-> 0, text |-> <<>>, why |-> "",
                usage |-> NoUsage]
TextEvent(type, text) == [Event(type) EXCEPT !.text = text]
EndEvent(type, why, usage) == [Event(type) EXCEPT !.why = why, !.usage = usage]

\* A text without the white space around it.
TrimSpace(s) ==
    LET solid == {i \in DOMAIN s : s[i] \notin White} IN
    IF solid = {} THEN <<>>
    ELSE SubSeq(s, CHOOSE i \in solid : \A j \in solid : i <= j,
                   CHOOSE i \in solid : \A j \in solid : i >= j)

-----------------------------------------------------------------------------
(* Chat and text completions: chunks ended by [DONE].                      *)

ChatRole == <<Event("role")>>
Delta(text) == <<TextEvent("delta", text)>>
FinishAndDone(why, usage) == <<EndEvent("finish", why, usage), Event("done")>>

-----------------------------------------------------------------------------
(* Messages.                                                               *)

\* The finish reason in Anthropic's words.
StopReason(why, called) ==
    IF called \/ why = "tool_calls" THEN "tool_use"
    ELSE IF why = "length" THEN "max_tokens"
    ELSE IF why = "" THEN "" ELSE "end_turn"

MessageOpening == <<Event("message_start"), Event("content_block_start")>>
BlockDelta(text) == <<TextEvent("content_block_delta", text)>>

MessageClosing(why, usage) ==
    <<Event("content_block_stop"),
      EndEvent("message_delta", StopReason(why, FALSE), [usage EXCEPT !.cached = 0]),
      Event("message_stop")>>

MessageError == <<Event("error")>>

-----------------------------------------------------------------------------
(* Responses: every event carries the next sequence number.                *)

\* Events numbered from the writer's counter on.
Numbered(seq, events) ==
    [i \in 1..Len(events) |-> [events[i] EXCEPT !.number = seq + i]]

ResponseStart(seq) ==
    Numbered(seq, <<Event("created"), Event("in_progress"), Event("item_added"),
                    Event("part_added")>>)

ResponseDelta(seq, text) == Numbered(seq, <<TextEvent("text_delta", text)>>)

\* (The parts are closed in the order they were opened.)
ResponseFinish_OuterFirst(seq, text, usage) ==
    Numbered(seq, <<TextEvent("text_done", text), TextEvent("item_done", text),
                    TextEvent("part_done", text),
                    [TextEvent("completed", text) EXCEPT !.usage = usage]>>)

ResponseFinish(seq, text, usage) ==
    Numbered(seq, <<TextEvent("text_done", text), TextEvent("part_done", text),
                    TextEvent("item_done", text),
                    [TextEvent("completed", text) EXCEPT !.usage = usage]>>)

ResponseFailed(seq) == Numbered(seq, <<Event("failed")>>)

-----------------------------------------------------------------------------
(* By endpoint.                                                            *)

Opening(endpoint) ==
    CASE endpoint = "chat"        -> ChatRole
      [] endpoint = "completions" -> <<>>
      [] endpoint = "messages"    -> MessageOpening
      [] endpoint = "responses"   -> ResponseStart(0)

TextDelta(endpoint, seq, text) ==
    CASE endpoint \in {"chat", "completions"} -> Delta(text)
      [] endpoint = "messages"  -> BlockDelta(text)
      [] endpoint = "responses" -> ResponseDelta(seq, text)

\* What is written when the engine reports an error.
Failing(endpoint, seq) ==
    CASE endpoint \in {"chat", "completions"} -> FinishAndDone("error", NoUsage)
      [] endpoint = "messages"  -> MessageError
      [] endpoint = "responses" -> ResponseFailed(seq)

Closing(endpoint, seq, text, why, usage) ==
    CASE endpoint \in {"chat", "completions"} -> FinishAndDone(why, usage)
      [] endpoint = "messages"  -> MessageClosing(why, usage)
      [] endpoint = "responses" -> ResponseFinish(seq, text, usage)

\* The body of an answer that is not streamed.
BodyEvent(text, why, usage) == <<[EndEvent("body", why, usage) EXCEPT !.text = text]>>

MessageBody(text, why, usage) ==
    BodyEvent(IF TrimSpace(text) = <<>> THEN <<>> ELSE text,
              StopReason(why, FALSE), [usage EXCEPT !.cached = 0])

ResponseBody(text, usage) == BodyEvent(TrimSpace(text), "", usage)

Body(endpoint, text, why, usage) ==
    CASE endpoint = "messages"  -> MessageBody(text, why, usage)
      [] endpoint = "responses" -> ResponseBody(text, usage)
      [] OTHER                  -> BodyEvent(text, why, usage)

ErrorBody == <<Event("error_body")>>

-----------------------------------------------------------------------------
(* The server.                                                             *)

CONSTANTS
    Calls,          \* HTTP requests being served
    Requests,       \* what they may ask
    Pieces,         \* what text is made of
    GenBound,       \* no generation is longer than this
    MaxConcurrent   \* the engine's admission limit; 0 for none

\* A request is for one of the routes; one to generate for says whether its
\* answer is streamed, and its tokens are counted.
ASSUME HttpAssumption ==
    \A req \in Requests :
        /\ req.endpoint \in Endpoints
        /\ req.endpoint \in Generating =>
             req.streamed \in BOOLEAN /\ req.prompt \in Nat /\ req.cached \in Nat

VARIABLES
    server,     \* "up", "draining" in Shutdown, "stopped"
    engine,     \* "running", "stopped"
    cancelled,  \* is the context of both cancelled?
    ask,        \* ask[c]: the request of c
    phase,      \* phase[c]: "new", "open" once submitted, "returned"
    gone,       \* gone[c]: has the client of c left?
    made,       \* made[c]: the generated text
    ended,      \* ended[c]: why the generation ended ("" while it has not)
    heard,      \* heard[c]: what the handler received: [text, why, usage]
    seq,        \* seq[c]: the sequence number of its event writer
    out,        \* out[c]: what it has written
    aborted     \* aborted[c]: has it called Abort?

serverVars == <<server, engine, cancelled>>
callVars == <<ask, phase, gone, made, ended, heard, seq, out, aborted>>
httpVars == <<serverVars, callVars>>

Nobody == [endpoint |-> "none"]
Deaf   == [text |-> <<>>, why |-> "", usage |-> NoUsage]

\* The handler's finishReason is "stop" until it is told otherwise.
Reason(c) == IF heard[c].why = "" THEN "stop" ELSE heard[c].why

\* Requests that hold one of the engine's slots.  (The slot of an aborted one
\* is never given back, see HangUpFreesSlot of EngineCore.)
InFlight == {c \in Calls : phase[c] # "new" /\ ask[c].endpoint \in Generating
                              /\ Gate(ask[c]) = 0 /\ out[c] # ErrorBody
                              /\ ended[c] = ""}

-----------------------------------------------------------------------------
HttpInit ==
    /\ server = "up" /\ engine = "running" /\ cancelled = FALSE
    /\ ask = [c \in Calls |-> Nobody] /\ phase = [c \in Calls |-> "new"]
    /\ gone = [c \in Calls |-> FALSE]
    /\ made = [c \in Calls |-> <<>>] /\ ended = [c \in Calls |-> ""]
    /\ heard = [c \in Calls |-> Deaf] /\ seq = [c \in Calls |-> 0]
    /\ out = [c \in Calls |-> <<>>] /\ aborted = [c \in Calls |-> FALSE]

\* The handler of c writes events, and goes on or returns.
Write(c, events) == out' = [out EXCEPT ![c] = @ \o events]
Return(c, events) ==
    /\ Write(c, events)
    /\ phase' = [phase EXCEPT ![c] = "returned"]

\* A request nothing is generated for: refused, or answered at once.
AnswerAtOnce(c) ==
    /\ server = "up" /\ phase[c] = "new"
    /\ \E req \in Requests :
         /\ Gate(req) # 0 \/ req.endpoint \notin Generating
         /\ ask' = [ask EXCEPT ![c] = req]
         /\ Return(c, IF Gate(req) # 0 THEN ErrorBody ELSE <<Event("body")>>)
    /\ UNCHANGED <<serverVars, gone, made, ended, heard, seq, aborted>>

\* The engine does not admit it: Submit fails and submitError answers.
NotAdmitted(c) ==
    /\ server = "up" /\ phase[c] = "new"
    /\ \/ engine = "stopped"
       \/ MaxConcurrent > 0 /\ Cardinality(InFlight) >= MaxConcurrent
    /\ \E req \in Requests :
         /\ Gate(req) = 0 /\ req.endpoint \in Generating
         /\ ask' = [ask EXCEPT ![c] = req]
    /\ Return(c, ErrorBody)
    /\ UNCHANGED <<serverVars, gone, made, ended, heard, seq, aborted>>

\* It does; a streamed answer is opened.
Begin(c) ==
    /\ server = "up" /\ phase[c] = "new"
    /\ engine = "running"
    /\ MaxConcurrent > 0 => Cardinality(InFlight) < MaxConcurrent
    /\ \E req \in Requests :
         /\ Gate(req) = 0 /\ req.endpoint \in Generating
         /\ ask' = [ask EXCEPT ![c] = req]
         /\ LET opening == IF req.streamed THEN Opening(req.endpoint) ELSE <<>> IN
              /\ Write(c, opening)
              /\ seq' = [seq EXCEPT ![c] = Len(opening)]
    /\ phase' = [phase EXCEPT ![c] = "open"]
    /\ UNCHANGED <<serverVars, gone, made, ended, heard, aborted>>

-----------------------------------------------------------------------------
(* The engine.                                                             *)

Runs(c) == engine = "running" /\ phase[c] = "open" /\ ended[c] = ""

\* The next piece, the end of the generation when its budget is used up.
Generate(c) ==
    /\ Runs(c)
    /\ \E piece \in Pieces :
         LET text == Append(made[c], piece)
             full == Len(text) >= MaxTokensOf(ask[c])
         IN /\ Len(text) <= GenBound
            /\ made' = [made EXCEPT ![c] = text]
            /\ \E why \in IF full THEN {"length"} ELSE {"", "stop"} :
                 ended' = [ended EXCEPT ![c] = why]
    /\ UNCHANGED <<serverVars, ask, phase, gone, heard, seq, out, aborted>>

\* It ends without a piece of its own, or fails.
EndOfText(c) ==
    /\ Runs(c)
    /\ \E why \in {"stop", "error"} : ended' = [ended EXCEPT ![c] = why]
    /\ UNCHANGED <<serverVars, ask, phase, gone, made, heard, seq, out, aborted>>

-----------------------------------------------------------------------------
(* The handlers.                                                           *)

\* (Shutdown leaves the channels open.)
Drained_AtEnd(c) == heard[c].why # ""

\* The channel of c is closed and drained: behind its end, or by the engine's
\* shutdown, which drops what is on its way.
Drained(c) == heard[c].why # "" \/ engine = "stopped"

\* What is told of the usage at the end.
UsageAt(c) == Usage(ask[c].prompt, Len(made[c]), ask[c].cached)

\* (The text that comes with the end is not written.)
NewText_NotLast(c, n) ==
    IF ended[c] # "" /\ Len(heard[c].text) + n = Len(made[c]) THEN <<>>
    ELSE SubSeq(made[c], Len(heard[c].text) + 1, Len(heard[c].text) + n)

\* The text of an increment: the next n pieces.
NewText(c, n) == SubSeq(made[c], Len(heard[c].text) + 1, Len(heard[c].text) + n)

Hear(c, n, told) ==
    heard' = [heard EXCEPT ![c] =
        [text  |-> SubSeq(made[c], 1, Len(@.text) + n),
         why   |-> IF told THEN ended[c] ELSE @.why,
         usage |-> IF told THEN UsageAt(c) ELSE @.usage]]

\* An increment: its text goes out as one event of a streamed answer.
Receive(c) ==
    /\ phase[c] = "open" /\ heard[c].why = ""
    /\ \E n \in 0..(Len(made[c]) - Len(heard[c].text)) :
         LET last == ended[c] \in {"stop", "length"}
                        /\ Len(heard[c].text) + n = Len(made[c]) IN
         \E told \in {FALSE, last} :
            /\ n > 0 \/ told
            /\ Hear(c, n, told)
            /\ IF ask[c].streamed /\ NewText(c, n) # <<>>
               THEN /\ Write(c, TextDelta(ask[c].endpoint, seq[c], NewText(c, n)))
                    /\ seq' = [seq EXCEPT ![c] = @ + 1]
               ELSE UNCHANGED <<out, seq>>
    /\ UNCHANGED <<serverVars, ask, phase, gone, made, ended, aborted>>

\* An increment with an error: whatever text came with it is not written.
ReceiveError(c) ==
    /\ phase[c] = "open" /\ heard[c].why = ""
    /\ ended[c] = "error"
    /\ Return(c, IF ask[c].streamed THEN Failing(ask[c].endpoint, seq[c])
                                    ELSE ErrorBody)
    /\ aborted' = [aborted EXCEPT ![c] = ~ask[c].streamed]
    /\ UNCHANGED <<serverVars, ask, gone, made, ended, heard, seq>>

\* What the endpoint says of the usage at the end of a stream.
StreamUsage(c) ==
    CASE ask[c].endpoint = "chat" /\ ~ask[c].usage -> NoUsage
      [] ask[c].endpoint = "completions" -> NoUsage
      [] OTHER -> heard[c].usage

\* The text of an aggregated answer is that of the final increment.
FinalText(c) == IF heard[c].why = "" THEN <<>> ELSE heard[c].text

\* Nothing more comes: the handler closes the stream or writes
\* the body.  An aggregating handler whose client has left aborts instead.
Conclude(c) ==
    /\ phase[c] = "open"
    /\ Drained(c)
    /\ LET endpoint == ask[c].endpoint
           leave == ~ask[c].streamed /\ gone[c]
       IN /\ Return(c,
               IF ask[c].streamed
               THEN Closing(endpoint, seq[c], heard[c].text, Reason(c), StreamUsage(c))
               ELSE IF leave THEN <<>>
               ELSE Body(endpoint, FinalText(c), Reason(c), heard[c].usage))
          /\ aborted' = [aborted EXCEPT ![c] = leave]
    /\ UNCHANGED <<serverVars, ask, gone, made, ended, heard, seq>>

\* A streaming handler sees that its client has left.
HangUp(c) ==
    /\ phase[c] = "open" /\ ask[c].streamed /\ gone[c]
    /\ Return(c, <<>>)
    /\ aborted' = [aborted EXCEPT ![c] = TRUE]
    /\ UNCHANGED <<serverVars, ask, gone, made, ended, heard, seq>>

-----------------------------------------------------------------------------
(* The world and the server.                                               *)

ClientLeaves(c) ==
    /\ phase[c] = "open" /\ ~gone[c]
    /\ gone' = [gone EXCEPT ![c] = TRUE]
    /\ UNCHANGED <<serverVars, ask, phase, made, ended, heard, seq, out, aborted>>

Cancel ==
    /\ ~cancelled /\ cancelled' = TRUE
    /\ UNCHANGED <<server, engine, callVars>>

\* The engine's loop sees the cancelled context and closes every channel.
EngineStops ==
    /\ cancelled /\ engine = "running"
    /\ engine' = "stopped"
    /\ UNCHANGED <<server, cancelled, callVars>>

\* Run sees it too: no new requests from here on.
Shutdown ==
    /\ cancelled /\ server = "up"
    /\ server' = "draining"
    /\ UNCHANGED <<engine, cancelled, callVars>>

\* http.Server.Shutdown returns when the handlers have, or at its deadline;
\* Engine.Stop waits for the loop.
Stopped ==
    /\ server = "draining" /\ engine = "stopped"
    /\ server' = "stopped"
    /\ UNCHANGED <<engine, cancelled, callVars>>

HttpNext ==
    \/ Cancel \/ EngineStops \/ Shutdown \/ Stopped
    \/ \E c \in Calls :
         \/ AnswerAtOnce(c) \/ NotAdmitted(c) \/ Begin(c)
         \/ Generate(c) \/ EndOfText(c)
         \/ Receive(c) \/ ReceiveError(c) \/ Conclude(c) \/ HangUp(c)
         \/ ClientLeaves(c)

HttpSpec == HttpInit /\ [][HttpNext]_httpVars

\* The engine's loop and the handlers' goroutines run; nobody has to leave,
\* and nobody has to shut the server down.
HttpFairness ==
    /\ WF_httpVars(EngineStops) /\ WF_httpVars(Shutdown) /\ WF_httpVars(Stopped)
    /\ \A c \in Calls :
         /\ WF_httpVars(Generate(c) \/ EndOfText(c))
         /\ WF_httpVars(Receive(c) \/ ReceiveError(c) \/ Conclude(c) \/ HangUp(c))

FairHttpSpec == HttpSpec /\ HttpFairness

-----------------------------------------------------------------------------
(* The languages of the streams.                                           *)

\* A state of a stream, what may be written there, and the state after it.
Grammar(endpoint) ==
    CASE endpoint = "chat" ->
           {<<"start", "role", "text">>, <<"text", "delta", "text">>,
            <<"text", "finish", "last">>, <<"last", "done", "end">>}
      [] endpoint = "completions" ->
           {<<"start", "delta", "start">>, <<"start", "finish", "last">>,
            <<"last", "done", "end">>}
      [] endpoint = "messages" ->
           {<<"start", "message_start", "message">>,
            <<"message", "content_block_start", "block">>,
            <<"block", "content_block_delta", "block">>,
            <<"block", "content_block_stop", "blocks">>,
            <<"blocks", "message_delta", "last">>,
            <<"last", "message_stop", "end">>,
            <<"message", "error", "end">>, <<"block", "error", "end">>}
      [] endpoint = "responses" ->
           {<<"start", "created", "created">>, <<"created", "in_progress", "response">>,
            <<"response", "item_added", "item">>, <<"item", "part_added", "part">>,
            <<"part", "text_delta", "part">>, <<"part", "text_done", "text">>,
            <<"text", "part_done", "parts">>, <<"parts", "item_done", "items">>,
            <<"items", "completed", "end">>, <<"part", "failed", "end">>}

\* The state that an event of a type leads to; "none" when the language has no such
\* sequence.
Moved(endpoint, at, type) ==
    LET to == {rule[3] : rule \in {g \in Grammar(endpoint) : g[1] = at /\ g[2] = type}}
    IN IF to = {} THEN "none" ELSE CHOOSE next \in to : TRUE

\* The state that events lead to.
Stage(endpoint, events) ==
    LET at[i \in 0..Len(events)] ==
          IF i = 0 THEN "start" ELSE Moved(endpoint, at[i - 1], events[i].type)
    IN at[Len(events)]

Deltas == {"delta", "content_block_delta", "text_delta"}

\* All that a client was shown.
ShownOf(e) == IF e.type \in Deltas \cup {"body"} THEN e.text ELSE <<>>
ShownBy(events) == FlattenSeq([i \in DOMAIN events |-> ShownOf(events[i])] \o <<>>)

Streams(c) == phase[c] # "new" /\ ask[c].endpoint \in Generating
                 /\ ask[c].streamed /\ out[c] # ErrorBody

WellFormed(c) ==
    /\ Streams(c) =>
         /\ Stage(ask[c].endpoint, out[c]) # "none"
         /\ ask[c].endpoint = "responses" =>
              \A i \in DOMAIN out[c] :
                /\ out[c][i].number = i
                /\ out[c][i].type \in {"text_done", "part_done", "item_done", "completed"}
                     => out[c][i].text = ShownBy(out[c])
    /\ phase[c] = "returned" =>
         \/ gone[c] /\ aborted[c]
         \/ IF Streams(c) THEN Stage(ask[c].endpoint, out[c]) = "end"
            ELSE Len(out[c]) = 1

\* Every stream is a sentence of its API's language: opened and closed in
\* order, and ended once.  The events of a Responses stream are numbered without
\* gaps and repeat at the end the text that was streamed.  Whatever is not
\* streamed is one body, and nothing at all, or half a stream, is left only to a
\* client that is gone, with the engine told to abort.
AnswersWellFormed == \A c \in Calls : WellFormed(c)

-----------------------------------------------------------------------------
(* What the client makes of it.                                            *)

InOurWords(why) ==
    CASE why = "end_turn" -> "stop" [] why = "max_tokens" -> "length"
      [] why = "" -> "unsaid" [] OTHER -> why

\* The reason a stream or a body gives.
ReasonIn(events) ==
    LET said == {i \in DOMAIN events : events[i].type \in {"finish", "message_delta", "body"}}
    IN IF said = {} THEN "unsaid" ELSE InOurWords(events[Max(said)].why)

\* What events of an endpoint tell of a generation that ended as why says.
Verdict(endpoint, events, why) ==
    LET last == IF events = <<>> THEN "nothing" ELSE Last(events).type
        said == ReasonIn(events)
        kind == IF endpoint = "none" THEN "none"
                ELSE IF endpoint \notin Generating THEN "direct"
                ELSE CASE last = "error_body" -> IF why = "error" THEN "failed" ELSE "direct"
                       [] last \in {"error", "failed"} -> "failed"
                       [] last = "done" -> IF said = "error" THEN "failed" ELSE "completed"
                       [] last \in {"message_stop", "completed", "body"} -> "completed"
                       [] OTHER -> "none"
    IN [kind |-> kind, why |-> IF kind = "completed" THEN said ELSE ""]

VerdictOf(c) == Verdict(ask[c].endpoint, out[c], ended[c])

\* What it has been told of the end, and shown.
Told(c) == IF ended[c] = "" /\ VerdictOf(c).kind = "direct" THEN "direct" ELSE ended[c]
Seen(c) == IF ask[c].endpoint \in Generating THEN ShownBy(out[c]) ELSE <<>>

\* Whatever the format, the client gets what HttpAnswer promises.
Answer == INSTANCE HttpAnswer WITH
    Blank    <- White,
    stopping <- engine = "stopped",
    ended    <- [c \in Calls |-> Told(c)],
    shown    <- [c \in Calls |-> Seen(c)],
    verdict  <- [c \in Calls |-> VerdictOf(c)]
ImplementsAnswer == Answer!AnswerSpec

\* Every handler returns, also when the engine fails, when its client leaves
\* and when the server stops.
HandlersReturn == \A c \in Calls : phase[c] = "open" ~> phase[c] = "returned"
===============================================================================
