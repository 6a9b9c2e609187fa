--------------------------- MODULE HttpServer_proofs ---------------------------
(***************************************************************************)
(* Proofs about HttpServer: every answer is a sentence of its API's        *)
(* language, and keeps the promise of HttpAnswer.                          *)
(***************************************************************************)
EXTENDS HttpServer, Induction, TLAPS

-----------------------------------------------------------------------------
(* The languages.                                                          *)

\* Where a language has one continuation, it is taken.
LEMMA MovedAlong ==
    ASSUME NEW endpoint, NEW at, NEW type, NEW next,
           <<at, type, next>> \in Grammar(endpoint),
           \A g \in Grammar(endpoint) : g[1] = at /\ g[2] = type => g[3] = next
    PROVE  Moved(endpoint, at, type) = next
  <1>. DEFINE to == {rule[3] : rule \in {g \in Grammar(endpoint) : g[1] = at /\ g[2] = type}}
  <1>1. to = {next}
    <2>1. next \in to
      <3>. DEFINE r == <<at, type, next>>
      <3>1. r \in Grammar(endpoint) /\ r[1] = at /\ r[2] = type /\ r[3] = next  OBVIOUS
      <3>. HIDE DEF r
      <3>. QED  BY <3>1
    <2>2. \A n \in to : n = next  OBVIOUS
    <2>. QED  BY <2>1, <2>2
  <1>2. Moved(endpoint, at, type) = IF to = {} THEN "none" ELSE CHOOSE n \in to : TRUE
    BY DEF Moved
  <1>. HIDE DEF to
  <1>. QED  BY <1>1, <1>2

LEMMA ChatGrammar ==
    /\ Moved("chat", "start", "role") = "text"
    /\ Moved("chat", "text", "delta") = "text"
    /\ Moved("chat", "text", "finish") = "last"
    /\ Moved("chat", "last", "done") = "end"
  <1>. DEFINE G == Grammar("chat")
  <1>0. G = {<<"start", "role", "text">>, <<"text", "delta", "text">>,
             <<"text", "finish", "last">>, <<"last", "done", "end">>}
    BY DEF Grammar
  <1>. HIDE DEF G
  <1>1. Moved("chat", "start", "role") = "text"
    <2>1. <<"start", "role", "text">> \in G  BY <1>0
    <2>2. \A g \in G : g[1] = "start" /\ g[2] = "role" => g[3] = "text"  BY <1>0
    <2>. QED  BY <2>1, <2>2, MovedAlong DEF G
  <1>2. Moved("chat", "text", "delta") = "text"
    <2>1. <<"text", "delta", "text">> \in G  BY <1>0
    <2>2. \A g \in G : g[1] = "text" /\ g[2] = "delta" => g[3] = "text"  BY <1>0
    <2>. QED  BY <2>1, <2>2, MovedAlong DEF G
  <1>3. Moved("chat", "text", "finish") = "last"
    <2>1. <<"text", "finish", "last">> \in G  BY <1>0
    <2>2. \A g \in G : g[1] = "text" /\ g[2] = "finish" => g[3] = "last"  BY <1>0
    <2>. QED  BY <2>1, <2>2, MovedAlong DEF G
  <1>4. Moved("chat", "last", "done") = "end"
    <2>1. <<"last", "done", "end">> \in G  BY <1>0
    <2>2. \A g \in G : g[1] = "last" /\ g[2] = "done" => g[3] = "end"  BY <1>0
    <2>. QED  BY <2>1, <2>2, MovedAlong DEF G
  <1>. QED  BY <1>1, <1>2, <1>3, <1>4

LEMMA CompletionsGrammar ==
    /\ Moved("completions", "start", "delta") = "start"
    /\ Moved("completions", "start", "finish") = "last"
    /\ Moved("completions", "last", "done") = "end"
  <1>. DEFINE G == Grammar("completions")
  <1>0. G = {<<"start", "delta", "start">>, <<"start", "finish", "last">>,
             <<"last", "done", "end">>}
    BY DEF Grammar
  <1>. HIDE DEF G
  <1>1. Moved("completions", "start", "delta") = "start"
    <2>1. <<"start", "delta", "start">> \in G  BY <1>0
    <2>2. \A g \in G : g[1] = "start" /\ g[2] = "delta" => g[3] = "start"  BY <1>0
    <2>. QED  BY <2>1, <2>2, MovedAlong DEF G
  <1>2. Moved("completions", "start", "finish") = "last"
    <2>1. <<"start", "finish", "last">> \in G  BY <1>0
    <2>2. \A g \in G : g[1] = "start" /\ g[2] = "finish" => g[3] = "last"  BY <1>0
    <2>. QED  BY <2>1, <2>2, MovedAlong DEF G
  <1>3. Moved("completions", "last", "done") = "end"
    <2>1. <<"last", "done", "end">> \in G  BY <1>0
    <2>2. \A g \in G : g[1] = "last" /\ g[2] = "done" => g[3] = "end"  BY <1>0
    <2>. QED  BY <2>1, <2>2, MovedAlong DEF G
  <1>. QED  BY <1>1, <1>2, <1>3

LEMMA MessagesGrammar ==
    /\ Moved("messages", "start", "message_start") = "message"
    /\ Moved("messages", "message", "content_block_start") = "block"
    /\ Moved("messages", "block", "content_block_delta") = "block"
    /\ Moved("messages", "block", "content_block_stop") = "blocks"
    /\ Moved("messages", "blocks", "message_delta") = "last"
    /\ Moved("messages", "last", "message_stop") = "end"
    /\ Moved("messages", "block", "error") = "end"
  <1>. DEFINE G == Grammar("messages")
  <1>0. G = {<<"start", "message_start", "message">>,
             <<"message", "content_block_start", "block">>,
             <<"block", "content_block_delta", "block">>,
             <<"block", "content_block_stop", "blocks">>,
             <<"blocks", "message_delta", "last">>,
             <<"last", "message_stop", "end">>, <<"message", "error", "end">>,
             <<"block", "error", "end">>}
    BY DEF Grammar
  <1>. HIDE DEF G
  <1>1. Moved("messages", "start", "message_start") = "message"
    <2>1. <<"start", "message_start", "message">> \in G  BY <1>0
    <2>2. \A g \in G : g[1] = "start" /\ g[2] = "message_start" => g[3] = "message"  BY <1>0
    <2>. QED  BY <2>1, <2>2, MovedAlong DEF G
  <1>2. Moved("messages", "message", "content_block_start") = "block"
    <2>1. <<"message", "content_block_start", "block">> \in G  BY <1>0
    <2>2. \A g \in G : g[1] = "message" /\ g[2] = "content_block_start" => g[3] = "block"  BY <1>0
    <2>. QED  BY <2>1, <2>2, MovedAlong DEF G
  <1>3. Moved("messages", "block", "content_block_delta") = "block"
    <2>1. <<"block", "content_block_delta", "block">> \in G  BY <1>0
    <2>2. \A g \in G : g[1] = "block" /\ g[2] = "content_block_delta" => g[3] = "block"  BY <1>0
    <2>. QED  BY <2>1, <2>2, MovedAlong DEF G
  <1>4. Moved("messages", "block", "content_block_stop") = "blocks"
    <2>1. <<"block", "content_block_stop", "blocks">> \in G  BY <1>0
    <2>2. \A g \in G : g[1] = "block" /\ g[2] = "content_block_stop" => g[3] = "blocks"  BY <1>0
    <2>. QED  BY <2>1, <2>2, MovedAlong DEF G
  <1>5. Moved("messages", "blocks", "message_delta") = "last"
    <2>1. <<"blocks", "message_delta", "last">> \in G  BY <1>0
    <2>2. \A g \in G : g[1] = "blocks" /\ g[2] = "message_delta" => g[3] = "last"  BY <1>0
    <2>. QED  BY <2>1, <2>2, MovedAlong DEF G
  <1>6. Moved("messages", "last", "message_stop") = "end"
    <2>1. <<"last", "message_stop", "end">> \in G  BY <1>0
    <2>2. \A g \in G : g[1] = "last" /\ g[2] = "message_stop" => g[3] = "end"  BY <1>0
    <2>. QED  BY <2>1, <2>2, MovedAlong DEF G
  <1>7. Moved("messages", "block", "error") = "end"
    <2>1. <<"block", "error", "end">> \in G  BY <1>0
    <2>2. \A g \in G : g[1] = "block" /\ g[2] = "error" => g[3] = "end"  BY <1>0
    <2>. QED  BY <2>1, <2>2, MovedAlong DEF G
  <1>. QED  BY <1>1, <1>2, <1>3, <1>4, <1>5, <1>6, <1>7

LEMMA ResponsesGrammar ==
    /\ Moved("responses", "start", "created") = "created"
    /\ Moved("responses", "created", "in_progress") = "response"
    /\ Moved("responses", "response", "item_added") = "item"
    /\ Moved("responses", "item", "part_added") = "part"
    /\ Moved("responses", "part", "text_delta") = "part"
    /\ Moved("responses", "part", "text_done") = "text"
    /\ Moved("responses", "text", "part_done") = "parts"
    /\ Moved("responses", "parts", "item_done") = "items"
    /\ Moved("responses", "items", "completed") = "end"
    /\ Moved("responses", "part", "failed") = "end"
  <1>. DEFINE G == Grammar("responses")
  <1>0. G = {<<"start", "created", "created">>,
             <<"created", "in_progress", "response">>,
             <<"response", "item_added", "item">>,
             <<"item", "part_added", "part">>,
             <<"part", "text_delta", "part">>,
             <<"part", "text_done", "text">>,
             <<"text", "part_done", "parts">>,
             <<"parts", "item_done", "items">>,
             <<"items", "completed", "end">>, <<"part", "failed", "end">>}
    BY DEF Grammar
  <1>. HIDE DEF G
  <1>1. Moved("responses", "start", "created") = "created"
    <2>1. <<"start", "created", "created">> \in G  BY <1>0
    <2>2. \A g \in G : g[1] = "start" /\ g[2] = "created" => g[3] = "created"  BY <1>0
    <2>. QED  BY <2>1, <2>2, MovedAlong DEF G
  <1>2. Moved("responses", "created", "in_progress") = "response"
    <2>1. <<"created", "in_progress", "response">> \in G  BY <1>0
    <2>2. \A g \in G : g[1] = "created" /\ g[2] = "in_progress" => g[3] = "response"  BY <1>0
    <2>. QED  BY <2>1, <2>2, MovedAlong DEF G
  <1>3. Moved("responses", "response", "item_added") = "item"
    <2>1. <<"response", "item_added", "item">> \in G  BY <1>0
    <2>2. \A g \in G : g[1] = "response" /\ g[2] = "item_added" => g[3] = "item"  BY <1>0
    <2>. QED  BY <2>1, <2>2, MovedAlong DEF G
  <1>4. Moved("responses", "item", "part_added") = "part"
    <2>1. <<"item", "part_added", "part">> \in G  BY <1>0
    <2>2. \A g \in G : g[1] = "item" /\ g[2] = "part_added" => g[3] = "part"  BY <1>0
    <2>. QED  BY <2>1, <2>2, MovedAlong DEF G
  <1>5. Moved("responses", "part", "text_delta") = "part"
    <2>1. <<"part", "text_delta", "part">> \in G  BY <1>0
    <2>2. \A g \in G : g[1] = "part" /\ g[2] = "text_delta" => g[3] = "part"  BY <1>0
    <2>. QED  BY <2>1, <2>2, MovedAlong DEF G
  <1>6. Moved("responses", "part", "text_done") = "text"
    <2>1. <<"part", "text_done", "text">> \in G  BY <1>0
    <2>2. \A g \in G : g[1] = "part" /\ g[2] = "text_done" => g[3] = "text"  BY <1>0
    <2>. QED  BY <2>1, <2>2, MovedAlong DEF G
  <1>7. Moved("responses", "text", "part_done") = "parts"
    <2>1. <<"text", "part_done", "parts">> \in G  BY <1>0
    <2>2. \A g \in G : g[1] = "text" /\ g[2] = "part_done" => g[3] = "parts"  BY <1>0
    <2>. QED  BY <2>1, <2>2, MovedAlong DEF G
  <1>8. Moved("responses", "parts", "item_done") = "items"
    <2>1. <<"parts", "item_done", "items">> \in G  BY <1>0
    <2>2. \A g \in G : g[1] = "parts" /\ g[2] = "item_done" => g[3] = "items"  BY <1>0
    <2>. QED  BY <2>1, <2>2, MovedAlong DEF G
  <1>9. Moved("responses", "items", "completed") = "end"
    <2>1. <<"items", "completed", "end">> \in G  BY <1>0
    <2>2. \A g \in G : g[1] = "items" /\ g[2] = "completed" => g[3] = "end"  BY <1>0
    <2>. QED  BY <2>1, <2>2, MovedAlong DEF G
  <1>10. Moved("responses", "part", "failed") = "end"
    <2>1. <<"part", "failed", "end">> \in G  BY <1>0
    <2>2. \A g \in G : g[1] = "part" /\ g[2] = "failed" => g[3] = "end"  BY <1>0
    <2>. QED  BY <2>1, <2>2, MovedAlong DEF G
  <1>. QED  BY <1>1, <1>2, <1>3, <1>4, <1>5, <1>6, <1>7, <1>8, <1>9, <1>10


-----------------------------------------------------------------------------
(* Sequences of events, one event at a time.                               *)

Usages == [prompt : Nat, completion : Nat, cached : Nat, total : Nat]
Beginnings == {"role", "message_start", "content_block_start", "created",
               "in_progress", "item_added", "part_added"}
Closers == {"text_done", "part_done", "item_done", "completed"}
Types == Beginnings \cup Deltas \cup Closers
           \cup {"finish", "done", "content_block_stop", "message_delta", "message_stop",
                 "error", "failed", "body", "error_body"}
Words == {"", "stop", "length", "error", "end_turn", "max_tokens"}

Events == [type : Types, number : Nat, text : Seq(Pieces), why : Words, usage : Usages]

\* The recursion in Stage has a solution.
LEMMA StagesExist ==
    ASSUME NEW endpoint, NEW events, NEW n \in Nat
    PROVE  \E f : f = [i \in 0..n |-> IF i = 0 THEN "start"
                                      ELSE Moved(endpoint, f[i - 1], events[i].type)]
  <1>. DEFINE Is(f, k) == f = [i \in 0..k |-> IF i = 0 THEN "start"
                                      ELSE Moved(endpoint, f[i - 1], events[i].type)]
              S == {k \in Nat : \E f : Is(f, k)}
  <1>1. 0 \in S
    <2>. DEFINE g == [i \in 0..0 |-> "start"]
    <2>1. g = [i \in 0..0 |-> IF i = 0 THEN "start"
                              ELSE Moved(endpoint, g[i - 1], events[i].type)]
      OBVIOUS
    <2>2. Is(g, 0)  BY <2>1
    <2>. HIDE DEF g, Is
    <2>. QED  BY <2>2
  <1>2. ASSUME NEW k \in 0..n - 1, k \in S PROVE k + 1 \in S
    <2>1. PICK f : Is(f, k)  BY <1>2
    <2>. DEFINE g == [i \in 0..k + 1 |-> IF i = k + 1
                                         THEN Moved(endpoint, f[k], events[k + 1].type)
                                         ELSE f[i]]
                h == [i \in 0..k + 1 |-> IF i = 0 THEN "start"
                                         ELSE Moved(endpoint, g[i - 1], events[i].type)]
    <2>2. \A i \in 0..k + 1 : g[i] = h[i]
      <3>1. \A i \in 0..k : f[i] = IF i = 0 THEN "start"
                                   ELSE Moved(endpoint, f[i - 1], events[i].type)
        BY <2>1
      <3>2. \A i \in 0..k + 1 : i # 0 => g[i - 1] = f[i - 1]  OBVIOUS
      <3>3. \A i \in 0..k + 1 : i # 0 => h[i] = Moved(endpoint, f[i - 1], events[i].type)
        BY <3>2
      <3>4. h[0] = "start" /\ g[0] = "start"
        <4>1. f[0] = "start"  BY <3>1
        <4>2. 0 \in 0..k + 1 /\ 0 # k + 1  OBVIOUS
        <4>. QED  BY <4>1, <4>2
      <3>5. g[k + 1] = h[k + 1]
        <4>1. k + 1 \in 0..k + 1 /\ k + 1 # 0 /\ (k + 1) - 1 = k  OBVIOUS
        <4>. QED  BY <3>3, <4>1
      <3>6. ASSUME NEW i \in 0..k + 1, i # 0, i # k + 1 PROVE g[i] = h[i]
        <4>1. i \in 0..k  BY <3>6
        <4>2. g[i] = f[i]  BY <3>6
        <4>. QED  BY <3>1, <3>3, <3>6, <4>1, <4>2
      <3>. QED  BY <3>4, <3>5, <3>6
    <2>3. g = h
      <3>1. g = [i \in 0..k + 1 |-> g[i]] /\ h = [i \in 0..k + 1 |-> h[i]]  OBVIOUS
      <3>. HIDE DEF g, h
      <3>. QED  BY <2>2, <3>1
    <2>4. Is(g, k + 1)  BY <2>3
    <2>. HIDE DEF g, Is
    <2>. QED  BY <2>4
  <1>. HIDE DEF S
  <1>3. n \in 0..n /\ \A i \in 0..n - 1 : i \in S => i + 1 \in S  BY <1>2
  <1>4. n \in S  BY <1>1, <1>3, Induct
  <1>. QED  BY <1>4 DEF S

\* f gives the states that the first n events lead to.
Walk(f, endpoint, events, n) ==
    f = [i \in 0..n |-> IF i = 0 THEN "start"
                        ELSE Moved(endpoint, f[i - 1], events[i].type)]

LEMMA WalkSteps ==
    ASSUME NEW f, NEW endpoint, NEW events, NEW n \in Nat, Walk(f, endpoint, events, n)
    PROVE  /\ f[0] = "start"
           /\ \A i \in 0..n - 1 : f[i + 1] = Moved(endpoint, f[i], events[i + 1].type)
  <1>1. \A i \in 0..n : f[i] = IF i = 0 THEN "start"
                                ELSE Moved(endpoint, f[i - 1], events[i].type)
    BY DEF Walk
  <1>2. ASSUME NEW i \in 0..n - 1 
        PROVE  f[i + 1] = Moved(endpoint, f[i], events[i + 1].type)
    <2>1. i + 1 \in 0..n /\ i + 1 # 0 /\ (i + 1) - 1 = i  OBVIOUS
    <2>. QED  BY <1>1, <2>1
  <1>. QED  BY <1>1, <1>2

LEMMA StageIs ==
    ASSUME NEW endpoint, NEW events, NEW n \in Nat, Len(events) = n
    PROVE  \E f : Walk(f, endpoint, events, n) /\ Stage(endpoint, events) = f[n]
  <1>. DEFINE f == CHOOSE f : f = [i \in 0..n |-> IF i = 0 THEN "start"
                                         ELSE Moved(endpoint, f[i - 1], events[i].type)]
  <1>1. f = [i \in 0..n |-> IF i = 0 THEN "start"
                            ELSE Moved(endpoint, f[i - 1], events[i].type)]
    BY StagesExist
  <1>2. Stage(endpoint, events) = f[n]  BY DEF Stage
  <1>. HIDE DEF f
  <1>3. Walk(f, endpoint, events, n)  BY <1>1 DEF Walk
  <1>. QED  BY <1>2, <1>3

LEMMA StageOfNone == \A endpoint : Stage(endpoint, <<>>) = "start"
  <1>. SUFFICES ASSUME NEW endpoint PROVE Stage(endpoint, <<>>) = "start"
    OBVIOUS
  <1>1. Len(<<>>) = 0  OBVIOUS
  <1>. DEFINE none == <<>>
  <1>2. Len(none) = 0  OBVIOUS
  <1>. HIDE DEF none
  <1>3. PICK f : Walk(f, endpoint, none, 0) /\ Stage(endpoint, none) = f[0]
    BY <1>2, StageIs
  <1>4. f[0] = "start"  BY <1>3, WalkSteps
  <1>. QED  BY <1>3, <1>4 DEF none

LEMMA StageOfAppend ==
    ASSUME NEW endpoint, NEW events \in Seq(Events), NEW e \in Events
    PROVE  Stage(endpoint, Append(events, e)) =
             Moved(endpoint, Stage(endpoint, events), e.type)
  <1>. DEFINE n == Len(events)
              s == Append(events, e)
  <1>1. n \in Nat /\ n + 1 \in Nat /\ Len(s) = n + 1
    OBVIOUS
  <1>2. (\A i \in 1..n : s[i] = events[i]) /\ s[n + 1] = e
    OBVIOUS
  <1>. HIDE DEF n, s
  <1>3. PICK f : Walk(f, endpoint, events, n) /\ Stage(endpoint, events) = f[n]
    BY <1>1, StageIs DEF n
  <1>4. PICK g : Walk(g, endpoint, s, n + 1) /\ Stage(endpoint, s) = g[n + 1]
    BY <1>1, StageIs
  <1>. DEFINE S == {i \in Nat : g[i] = f[i]}
  <1>5. 0 \in S  BY <1>1, <1>3, <1>4, WalkSteps
  <1>6. ASSUME NEW i \in 0..n - 1, i \in S PROVE i + 1 \in S
    <2>0. /\ i + 1 \in 1..n /\ i \in 0..(n + 1) - 1 /\ i + 1 \in Nat
      BY <1>1
    <2>1. f[i + 1] = Moved(endpoint, f[i], events[i + 1].type)
      BY <1>1, <1>3, WalkSteps
    <2>2. g[i + 1] = Moved(endpoint, g[i], s[i + 1].type)
      BY <1>1, <1>4, <2>0, WalkSteps
    <2>. QED  BY <1>2, <1>6, <2>0, <2>1, <2>2
  <1>. HIDE DEF S
  <1>7. n \in S
    <2>1. n \in 0..n /\ \A i \in 0..n - 1 : i \in S => i + 1 \in S  BY <1>1, <1>6
    <2>. QED  BY <1>1, <1>5, <2>1, Induct
  <1>8. g[n + 1] = Moved(endpoint, g[n], s[n + 1].type)
    <2>0. n \in 0..(n + 1) - 1  BY <1>1
    <2>. QED  BY <1>1, <1>4, <2>0, WalkSteps
  <1>. QED  BY <1>2, <1>3, <1>4, <1>7, <1>8 DEF S, s

LEMMA ShownOfType ==
    ASSUME NEW e \in Events
    PROVE  ShownOf(e) \in Seq(Pieces)
  BY DEF ShownOf, Events

\* What the members of a sequence of events show.
LEMMA ShownParts ==
    ASSUME NEW events \in Seq(Events)
    PROVE  /\ [i \in DOMAIN events |-> ShownOf(events[i])] \in Seq(Seq(Pieces))
           /\ ShownBy(events) = FlattenSeq([i \in DOMAIN events |-> ShownOf(events[i])])
           /\ ShownBy(events) \in Seq(Pieces)
  <1>. DEFINE p == [i \in DOMAIN events |-> ShownOf(events[i])]
  <1>1. p \in Seq(Seq(Pieces))
    <2>1. \A i \in 1..Len(events) : ShownOf(events[i]) \in Seq(Pieces)
      BY ShownOfType
    <2>2. DOMAIN events = 1..Len(events) /\ Len(events) \in Nat  OBVIOUS
    <2>. QED  BY <2>1, <2>2
  <1>2. ShownBy(events) = FlattenSeq(p \o <<>>)  BY DEF ShownBy
  <1>. HIDE DEF p
  <1>3. p \o <<>> = p  BY <1>1, ConcatEmptySeq
  <1>4. FlattenSeq(p) \in Seq(Pieces)  BY <1>1, FlattenType
  <1>. QED  BY <1>1, <1>2, <1>3, <1>4 DEF p

LEMMA ShownOfNone == ShownBy(<<>>) = <<>>
  <1>. DEFINE none == <<>>
  <1>1. none \in Seq(Events)  OBVIOUS
  <1>2. [i \in DOMAIN none |-> ShownOf(none[i])] = <<>>
    <2>1. DOMAIN none = {}  OBVIOUS
    <2>2. DOMAIN [i \in DOMAIN none |-> ShownOf(none[i])] = {}  BY <2>1
    <2>. DEFINE q == [i \in DOMAIN none |-> ShownOf(none[i])]
    <2>3. q \in Seq(Seq(Pieces))  BY <1>1, ShownParts
    <2>. HIDE DEF q, none
    <2>4. Len(q) = 0  BY <2>2, <2>3 DEF q
    <2>5. q = <<>>  BY <2>3, <2>4, EmptySeq
    <2>. QED  BY <2>5 DEF q
  <1>. HIDE DEF none
  <1>3. ShownBy(none) = FlattenSeq(<<>>)  BY <1>1, <1>2, ShownParts
  <1>. QED  BY <1>3, FlattenNone DEF none

LEMMA FlattenOne ==
    ASSUME NEW S, NEW t \in Seq(S)
    PROVE  FlattenSeq(<<t>>) = t
  <1>. DEFINE p == <<t>>
  <1>1. p \in Seq(Seq(S)) /\ Len(p) = 1 /\ p[1] = t  OBVIOUS
  <1>. HIDE DEF p
  <1>2. PICK f : /\ f = [i \in 1..1 |-> IF i = 1 THEN p[i] ELSE f[i - 1] \o p[i]]
                 /\ FlattenSeq(p) = f[1]
    <2>1. 1 \in Nat \ {0}  OBVIOUS
    <2>. QED  BY <1>1, <2>1, FlattenIs
  <1>3. f[1] = p[1]  BY <1>2
  <1>. QED  BY <1>1, <1>2, <1>3 DEF p

LEMMA ShownOfAppend ==
    ASSUME NEW events \in Seq(Events), NEW e \in Events
    PROVE  ShownBy(Append(events, e)) = ShownBy(events) \o ShownOf(e)
  <1>. DEFINE s == Append(events, e)
              p == [i \in DOMAIN events |-> ShownOf(events[i])]
              q == [i \in DOMAIN s |-> ShownOf(s[i])]
              t == ShownOf(e)
  <1>1. s \in Seq(Events) /\ Len(s) = Len(events) + 1 /\ s[Len(events) + 1] = e
        /\ (\A i \in 1..Len(events) : s[i] = events[i]) /\ Len(events) \in Nat
    OBVIOUS
  <1>2. /\ p \in Seq(Seq(Pieces)) /\ ShownBy(events) = FlattenSeq(p)
        /\ ShownBy(events) \in Seq(Pieces)
    BY ShownParts
  <1>3. q \in Seq(Seq(Pieces)) /\ ShownBy(s) = FlattenSeq(q)
    <2>. HIDE DEF s
    <2>. QED  BY <1>1, ShownParts
  <1>4. t \in Seq(Pieces)  BY ShownOfType
  <1>5. /\ DOMAIN p = 1..Len(events) /\ DOMAIN q = 1..Len(events) + 1
        /\ \A i \in 1..Len(events) : q[i] = p[i]
        /\ q[Len(events) + 1] = t
    <2>. HIDE DEF s, t
    <2>1. DOMAIN s = 1..Len(events) + 1 /\ DOMAIN events = 1..Len(events)
      BY <1>1
    <2>2. \A i \in 1..Len(events) : q[i] = p[i]
      BY <1>1, <2>1
    <2>3. q[Len(events) + 1] = ShownOf(s[Len(events) + 1])
      <3>1. Len(events) + 1 \in 1..Len(events) + 1  BY <1>1
      <3>. QED  BY <2>1, <3>1
    <2>. QED  BY <1>1, <2>1, <2>2, <2>3 DEF t
  <1>. DEFINE n == Len(events)
  <1>6. n \in Nat  OBVIOUS
  <1>. HIDE DEF p, q, t, n, s
  <1>7. q = p \o <<t>>
    <2>1. Len(p) = n /\ Len(q) = n + 1
      BY <1>2, <1>3, <1>5, <1>6 DEF n
    <2>2. \A i \in 1..n : q[i] = p[i]  BY <1>5 DEF n
    <2>3. q[n + 1] = t  BY <1>5 DEF n
    <2>4. ASSUME NEW a \in Seq(Seq(Pieces)), NEW b \in Seq(Seq(Pieces)), NEW u \in Seq(Pieces),
                 NEW k \in Nat, Len(a) = k, Len(b) = k + 1, \A i \in 1..k : b[i] = a[i],
                 b[k + 1] = u
          PROVE  b = a \o <<u>>
      <3>1. a \o <<u>> \in Seq(Seq(Pieces)) /\ Len(a \o <<u>>) = k + 1
        BY <2>4
      <3>2. \A i \in 1..k + 1 : b[i] = (a \o <<u>>)[i]
        BY <2>4
      <3>. DEFINE d == a \o <<u>>
      <3>. HIDE DEF d
      <3>3. b = [i \in 1..k + 1 |-> b[i]] /\ d = [i \in 1..k + 1 |-> d[i]]
        BY <2>4, <3>1 DEF d
      <3>. QED  BY <3>2, <3>3 DEF d
    <2>. QED  BY <1>2, <1>3, <1>4, <1>6, <2>1, <2>2, <2>3, <2>4
  <1>8. <<t>> \in Seq(Seq(Pieces))  BY <1>4
  <1>9. FlattenSeq(q) = FlattenSeq(p) \o FlattenSeq(<<t>>)
    BY <1>2, <1>7, <1>8, FlattenConcat
  <1>10. FlattenSeq(<<t>>) = t  BY <1>4, FlattenOne
  <1>. QED  BY <1>2, <1>3, <1>9, <1>10 DEF s, t

-----------------------------------------------------------------------------
(* The events.                                                             *)

LEMMA EventFields ==
    ASSUME NEW type
    PROVE  /\ Event(type).type = type /\ Event(type).number = 0
           /\ Event(type).text = <<>> /\ Event(type).why = ""
           /\ type \in Types => Event(type) \in Events
  <1>1. NoUsage \in Usages  BY DEF NoUsage, Usages
  <1>2. <<>> \in Seq(Pieces)  OBVIOUS
  <1>3. /\ Event(type).type = type /\ Event(type).number = 0
        /\ Event(type).text = <<>> /\ Event(type).why = ""
    BY DEF Event
  <1>4. ASSUME type \in Types PROVE Event(type) \in Events
    <2>. DEFINE none == <<>>
                unsaid == ""
    <2>1. none \in Seq(Pieces)  BY <1>2
    <2>3. unsaid \in Words  BY DEF Words
    <2>4. type \in Types  BY <1>4
    <2>2. Event(type) = [type |-> type, number |-> 0, text |-> none, why |-> unsaid,
                         usage |-> NoUsage]
      BY DEF Event
    <2>. HIDE DEF none
    <2>5. [type |-> type, number |-> 0, text |-> none, why |-> unsaid, usage |-> NoUsage] \in Events
      BY <1>1, <2>1, <2>3, <2>4 DEF Events
    <2>. QED  BY <2>2, <2>5
  <1>. QED  BY <1>3, <1>4

LEMMA TextEventFields ==
    ASSUME NEW type \in Types, NEW text \in Seq(Pieces)
    PROVE  LET e == TextEvent(type, text) IN
             /\ e \in Events
             /\ e.type = type /\ e.number = 0 /\ e.text = text /\ e.why = ""
  <1>1. Event(type) \in Events /\ Event(type).type = type /\ Event(type).number = 0
        /\ Event(type).why = ""
    BY EventFields
  <1>. QED  BY <1>1 DEF TextEvent, Events

LEMMA EndEventFields ==
    ASSUME NEW type \in Types, NEW why \in Words, NEW usage \in Usages
    PROVE  LET e == EndEvent(type, why, usage) IN
             /\ e \in Events
             /\ e.type = type /\ e.number = 0 /\ e.text = <<>> /\ e.why = why
  <1>1. Event(type) \in Events /\ Event(type).type = type /\ Event(type).number = 0
        /\ Event(type).text = <<>>
    BY EventFields
  <1>. QED  BY <1>1 DEF EndEvent, Events

LEMMA NumberedFields ==
    ASSUME NEW e \in Events, NEW k \in Nat
    PROVE  LET n == [e EXCEPT !.number = k] IN
             /\ n \in Events /\ n.number = k
             /\ n.type = e.type /\ n.text = e.text /\ n.why = e.why
  BY DEF Events

LEMMA NumberedOne ==
    ASSUME NEW k \in Nat, NEW a \in Events
    PROVE  Numbered(k, <<a>>) = <<[a EXCEPT !.number = k + 1]>>
  BY DEF Numbered

LEMMA NumberedFour ==
    ASSUME NEW k \in Nat, NEW a \in Events, NEW b \in Events, NEW c \in Events, NEW d \in Events
    PROVE  Numbered(k, <<a, b, c, d>>) =
             <<[a EXCEPT !.number = k + 1], [b EXCEPT !.number = k + 2],
               [c EXCEPT !.number = k + 3], [d EXCEPT !.number = k + 4]>>
  BY DEF Numbered

LEMMA OneByOne ==
    ASSUME NEW s \in Seq(Events), NEW a \in Events, NEW b \in Events,
           NEW c \in Events, NEW d \in Events
    PROVE  /\ s \o <<a>> = Append(s, a)
           /\ s \o <<a, b>> = Append(Append(s, a), b)
           /\ s \o <<a, b, c>> = Append(Append(Append(s, a), b), c)
           /\ s \o <<a, b, c, d>> = Append(Append(Append(Append(s, a), b), c), d)
  <1>1. s \o <<a>> = Append(s, a)  OBVIOUS
  <1>2. s \o <<a, b>> = Append(Append(s, a), b)  OBVIOUS
  <1>3. s \o <<a, b, c>> = Append(Append(Append(s, a), b), c)  OBVIOUS
  <1>4. s \o <<a, b, c, d>> = Append(Append(Append(Append(s, a), b), c), d)  OBVIOUS
  <1>. QED  BY <1>1, <1>2, <1>3, <1>4

LEMMA InAppend ==
    ASSUME NEW s \in Seq(Events), NEW e \in Events
    PROVE  /\ Append(s, e) \in Seq(Events) /\ Append(s, e) # <<>>
           /\ Len(s) \in Nat /\ Len(Append(s, e)) = Len(s) + 1
           /\ DOMAIN s = 1..Len(s) /\ DOMAIN Append(s, e) = 1..Len(s) + 1
           /\ \A i \in 1..Len(s) : Append(s, e)[i] = s[i]
           /\ Append(s, e)[Len(s) + 1] = e
           /\ Last(Append(s, e)) = e
  BY DEF Last

\* Where the events of a stream have led and what they show; those of a Responses
\* stream are numbered, and quote the whole text when they close a part.
Reads(endpoint, events, at, text) ==
    /\ events \in Seq(Events)
    /\ Stage(endpoint, events) = at
    /\ ShownBy(events) = text
    /\ endpoint = "responses" =>
         \A i \in DOMAIN events :
            events[i].number = i /\ (events[i].type \in Closers => events[i].text = text)

\* An event that shows nothing.
LEMMA ReadsOn ==
    ASSUME NEW endpoint, NEW s, NEW at, NEW text, Reads(endpoint, s, at, text),
           NEW e \in Events, e.type \notin Deltas \cup {"body"},
           endpoint = "responses" =>
             /\ e.number = Len(s) + 1
             /\ e.type \in Closers => e.text = text
    PROVE  Reads(endpoint, Append(s, e), Moved(endpoint, at, e.type), text)
  <1>1. s \in Seq(Events) /\ Stage(endpoint, s) = at /\ ShownBy(s) = text  BY DEF Reads
  <1>. DEFINE t == Append(s, e)
  <1>2. Stage(endpoint, t) = Moved(endpoint, at, e.type)  BY <1>1, StageOfAppend
  <1>3. ShownBy(t) = text
    <2>1. ShownBy(t) = ShownBy(s) \o ShownOf(e)  BY <1>1, ShownOfAppend
    <2>2. ShownOf(e) = <<>>  BY DEF ShownOf
    <2>3. ShownBy(s) \in Seq(Pieces)  BY <1>1, ShownParts
    <2>. QED  BY <1>1, <2>1, <2>2, <2>3, ConcatEmptySeq
  <1>4. /\ t \in Seq(Events) /\ Len(s) \in Nat /\ DOMAIN s = 1..Len(s)
        /\ DOMAIN t = 1..Len(s) + 1
        /\ (\A i \in 1..Len(s) : t[i] = s[i]) /\ t[Len(s) + 1] = e
    BY <1>1, InAppend
  <1>. HIDE DEF t
  <1>5. ASSUME endpoint = "responses", NEW i \in DOMAIN t
        PROVE  t[i].number = i /\ (t[i].type \in Closers => t[i].text = text)
    <2>1. CASE i = Len(s) + 1  BY <1>4, <1>5, <2>1
    <2>2. CASE i # Len(s) + 1
      <3>1. i \in DOMAIN s /\ t[i] = s[i]  BY <1>4, <2>2
      <3>. QED  BY <1>5, <3>1 DEF Reads
    <2>. QED  BY <2>1, <2>2
  <1>6. Reads(endpoint, t, Moved(endpoint, at, e.type), text)
    BY <1>2, <1>3, <1>4, <1>5 DEF Reads
  <1>. QED  BY <1>6 DEF t

LEMMA ReadsNothing == \A endpoint : Reads(endpoint, <<>>, "start", <<>>)
  <1>1. ShownBy(<<>>) = <<>>  BY ShownOfNone
  <1>2. \A endpoint : Stage(endpoint, <<>>) = "start"  BY StageOfNone
  <1>3. DOMAIN <<>> = {} /\ <<>> \in Seq(Events)  OBVIOUS
  <1>. QED  BY <1>1, <1>2, <1>3 DEF Reads

\* The reason is the last one given.
Reasons == {"finish", "message_delta", "body"}

LEMMA ReasonOfAppend ==
    ASSUME NEW s \in Seq(Events), NEW e \in Events
    PROVE  ReasonIn(Append(s, e)) =
             IF e.type \in Reasons THEN InOurWords(e.why) ELSE ReasonIn(s)
  <1>. DEFINE t == Append(s, e)
              n == Len(s)
              S == {i \in DOMAIN s : s[i].type \in Reasons}
              T == {i \in DOMAIN t : t[i].type \in Reasons}
  <1>1. /\ n \in Nat /\ DOMAIN s = 1..n /\ DOMAIN t = 1..n + 1
        /\ (\A i \in 1..n : t[i] = s[i]) /\ t[n + 1] = e
    BY InAppend
  <1>2. /\ ReasonIn(s) = IF S = {} THEN "unsaid" ELSE InOurWords(s[Max(S)].why)
        /\ ReasonIn(t) = IF T = {} THEN "unsaid" ELSE InOurWords(t[Max(T)].why)
    BY DEF ReasonIn, Reasons
  <1>. HIDE DEF t, n
  <1>3. S \subseteq 1..n /\ T \subseteq 1..n + 1 /\ S \subseteq Nat /\ T \subseteq Nat
    BY <1>1
  <1>4. CASE e.type \in Reasons
    <2>1. n + 1 \in T  BY <1>1, <1>4
    <2>2. n + 1 \in Nat /\ T # {} /\ \A m \in T : m <= n + 1  BY <1>1, <1>3, <2>1
    <2>. HIDE DEF S, T
    <2>3. Max(T) \in T /\ \A m \in T : m <= Max(T)  BY <1>3, <2>2, MaxIsGreatest
    <2>4. Max(T) = n + 1
      <3>. DEFINE x == Max(T)
      <3>1. x \in Nat /\ n + 1 <= x /\ x <= n + 1  BY <1>3, <2>1, <2>2, <2>3
      <3>. HIDE DEF x
      <3>2. x = n + 1  BY <1>1, <3>1
      <3>. QED  BY <3>2 DEF x
    <2>. QED  BY <1>1, <1>2, <1>4, <2>2, <2>4 DEF t
  <1>5. CASE e.type \notin Reasons
    <2>1. T = S  BY <1>1, <1>5
    <2>. HIDE DEF S, T
    <2>2. CASE S = {}  BY <1>2, <1>5, <2>1, <2>2 DEF t
    <2>3. CASE S # {}
      <3>1. \A m \in S : m <= n  BY <1>1, <1>3
      <3>2. Max(S) \in S  BY <1>1, <1>3, <2>3, <3>1, MaxIsGreatest
      <3>3. t[Max(S)] = s[Max(S)]  BY <1>1, <1>3, <3>2
      <3>. QED  BY <1>2, <1>5, <2>1, <2>3, <3>3 DEF t
    <2>. QED  BY <2>2, <2>3
  <1>. QED  BY <1>4, <1>5

LEMMA ReasonOfNone ==
    ASSUME NEW s \in Seq(Events), \A i \in DOMAIN s : s[i].type \notin Reasons
    PROVE  ReasonIn(s) = "unsaid"
  <1>1. {i \in DOMAIN s : s[i].type \in {"finish", "message_delta", "body"}} = {}
    BY DEF Reasons
  <1>. QED  BY <1>1 DEF ReasonIn

-----------------------------------------------------------------------------
(* The verdict.                                                            *)

LEMMA VerdictIs ==
    ASSUME NEW endpoint \in Generating, NEW s \in Seq(Events), NEW e \in Events, NEW why
    PROVE  LET t == Append(s, e) IN
      /\ e.type \in {"message_stop", "completed", "body"} =>
           Verdict(endpoint, t, why) = [kind |-> "completed", why |-> ReasonIn(t)]
      /\ e.type = "done" /\ ReasonIn(t) # "error" =>
           Verdict(endpoint, t, why) = [kind |-> "completed", why |-> ReasonIn(t)]
      /\ e.type = "done" /\ ReasonIn(t) = "error" =>
           Verdict(endpoint, t, why) = [kind |-> "failed", why |-> ""]
      /\ e.type \in {"error", "failed"} =>
           Verdict(endpoint, t, why) = [kind |-> "failed", why |-> ""]
      /\ e.type # "error_body" => t # ErrorBody
  <1>. DEFINE t == Append(s, e)
  <1>1. t # <<>> /\ Last(t) = e /\ t[Len(s) + 1] = e /\ Len(t) = Len(s) + 1 /\ Len(s) \in Nat
    BY InAppend
  <1>2. endpoint # "none"  BY DEF Generating
  <1>. HIDE DEF t
  <1>3. e.type # "error_body" => t # ErrorBody
    <2>. SUFFICES ASSUME t = ErrorBody PROVE e.type = "error_body"
      OBVIOUS
    <2>1. Len(ErrorBody) = 1 /\ ErrorBody[1] = Event("error_body")  BY DEF ErrorBody
    <2>2. Len(s) + 1 = 1  BY <1>1, <2>1
    <2>3. e = Event("error_body")  BY <1>1, <2>1, <2>2
    <2>. QED  BY <2>3, EventFields
  <1>4. e.type \in {"message_stop", "completed", "body"} =>
           Verdict(endpoint, t, why) = [kind |-> "completed", why |-> ReasonIn(t)]
    BY <1>1, <1>2 DEF Verdict
  <1>5. e.type = "done" /\ ReasonIn(t) # "error" =>
           Verdict(endpoint, t, why) = [kind |-> "completed", why |-> ReasonIn(t)]
    BY <1>1, <1>2 DEF Verdict
  <1>6. e.type = "done" /\ ReasonIn(t) = "error" =>
           Verdict(endpoint, t, why) = [kind |-> "failed", why |-> ""]
    BY <1>1, <1>2 DEF Verdict
  <1>7. e.type \in {"error", "failed"} =>
           Verdict(endpoint, t, why) = [kind |-> "failed", why |-> ""]
    BY <1>1, <1>2 DEF Verdict
  <1>. QED  BY <1>3, <1>4, <1>5, <1>6, <1>7 DEF t

\* What an error body, and no answer at all, tell.
LEMMA VerdictOfError ==
    ASSUME NEW endpoint \in Endpoints, NEW why
    PROVE  Verdict(endpoint, ErrorBody, why) =
             [kind |-> IF endpoint \in Generating /\ why = "error" THEN "failed" ELSE "direct",
              why |-> ""]
  <1>1. ErrorBody # <<>> /\ Last(ErrorBody) = Event("error_body")
    BY DEF ErrorBody, Last
  <1>2. Event("error_body").type = "error_body"  BY EventFields
  <1>3. endpoint # "none"  BY DEF Endpoints, Generating, Validated, Listing
  <1>4. CASE endpoint \notin Generating
    BY <1>1, <1>2, <1>3, <1>4 DEF Verdict
  <1>5. CASE endpoint \in Generating
    BY <1>1, <1>2, <1>3, <1>5 DEF Verdict
  <1>. QED  BY <1>4, <1>5

LEMMA ErrorBodyFields ==
    /\ ErrorBody \in Seq(Events) /\ Len(ErrorBody) = 1 /\ <<>> \o ErrorBody = ErrorBody
    /\ ShownBy(ErrorBody) = <<>>
  <1>. DEFINE e == Event("error_body")
  <1>1. e \in Events /\ e.type = "error_body" /\ e.text = <<>>
    <2>1. "error_body" \in Types  BY DEF Types
    <2>. QED  BY <2>1, EventFields
  <1>. HIDE DEF e
  <1>2. ErrorBody = <<e>>  BY DEF ErrorBody, e
  <1>3. <<>> \in Seq(Events) /\ <<e>> = Append(<<>>, e) /\ <<e>> \in Seq(Events) /\ Len(<<e>>) = 1
    BY <1>1
  <1>4. ShownBy(Append(<<>>, e)) = ShownBy(<<>>) \o ShownOf(e)
    BY <1>1, <1>3, ShownOfAppend
  <1>5. ShownOf(e) = <<>>  BY <1>1 DEF ShownOf, Deltas
  <1>6. ShownBy(<<e>>) = <<>>  BY <1>3, <1>4, <1>5, ShownOfNone
  <1>7. <<>> \o <<e>> = <<e>>  BY <1>1
  <1>. QED  BY <1>2, <1>3, <1>6, <1>7

-----------------------------------------------------------------------------
(* A stream that is being written.                                         *)

Quiet(events) == \A i \in DOMAIN events : events[i].type \in Beginnings \cup Deltas

\* The state of the language in which text is written.
Writing(endpoint) ==
    CASE endpoint = "chat"        -> "text"
      [] endpoint = "completions" -> "start"
      [] endpoint = "messages"    -> "block"
      [] endpoint = "responses"   -> "part"

Underway(endpoint, events, text, n) ==
    /\ Reads(endpoint, events, Writing(endpoint), text)
    /\ Quiet(events)
    /\ n \in Nat
    /\ endpoint = "responses" => n = Len(events)

LEMMA QuietOn ==
    ASSUME NEW s \in Seq(Events), NEW e \in Events, Quiet(s),
           e.type \in Beginnings \cup Deltas
    PROVE  Quiet(Append(s, e))
  <1>. DEFINE t == Append(s, e)
  <1>1. /\ Len(s) \in Nat /\ DOMAIN s = 1..Len(s) /\ DOMAIN t = 1..Len(s) + 1
        /\ (\A i \in 1..Len(s) : t[i] = s[i]) /\ t[Len(s) + 1] = e
    BY InAppend
  <1>. HIDE DEF t
  <1>2. ASSUME NEW i \in DOMAIN t PROVE t[i].type \in Beginnings \cup Deltas
    <2>1. CASE i = Len(s) + 1  BY <1>1, <2>1
    <2>2. CASE i # Len(s) + 1
      <3>1. i \in DOMAIN s /\ t[i] = s[i]  BY <1>1, <2>2
      <3>. QED  BY <3>1 DEF Quiet
    <2>. QED  BY <2>1, <2>2
  <1>3. Quiet(t)  BY <1>2 DEF Quiet
  <1>. QED  BY <1>3 DEF t

\* It gives no reason, and no verdict yet.
LEMMA UnderwayIsOpen ==
    ASSUME NEW endpoint \in Generating, NEW s, NEW text, NEW n, NEW why,
           Underway(endpoint, s, text, n)
    PROVE  /\ ReasonIn(s) = "unsaid" /\ s # ErrorBody
           /\ Verdict(endpoint, s, why) = [kind |-> "none", why |-> ""]
  <1>1. s \in Seq(Events) /\ Quiet(s)  BY DEF Underway, Reads
  <1>2. ReasonIn(s) = "unsaid"
    <2>1. \A i \in DOMAIN s : s[i].type \notin Reasons
      BY <1>1 DEF Quiet, Beginnings, Deltas, Reasons
    <2>. QED  BY <1>1, <2>1, ReasonOfNone
  <1>3. s # ErrorBody
    <2>. DEFINE e == Event("error_body")
    <2>1. e.type = "error_body"  BY EventFields
    <2>. HIDE DEF e
    <2>2. ErrorBody = <<e>>  BY DEF ErrorBody, e
    <2>3. <<e>>[1] = e /\ 1 \in DOMAIN <<e>>  OBVIOUS
    <2>4. e.type \notin Beginnings \cup Deltas  BY <2>1 DEF Beginnings, Deltas
    <2>. QED  BY <1>1, <2>2, <2>3, <2>4 DEF Quiet
  <1>4. s # <<>> => Last(s).type \in Beginnings \cup Deltas
    <2>1. s # <<>> => Len(s) \in DOMAIN s  BY <1>1
    <2>. QED  BY <1>1, <2>1 DEF Quiet, Last
  <1>5. endpoint # "none"  BY DEF Generating
  <1>6. s # <<>> => Last(s).type \notin {"error_body", "error", "failed", "done", "message_stop",
                                        "completed", "body"}
    BY <1>4 DEF Beginnings, Deltas
  <1>7. Verdict(endpoint, s, why) = [kind |-> "none", why |-> ""]
    BY <1>5, <1>6 DEF Verdict
  <1>. QED  BY <1>2, <1>3, <1>7

\* Text goes on.
LEMMA DeltaUnderway ==
    ASSUME NEW endpoint \in Generating, NEW s, NEW text, NEW n,
           Underway(endpoint, s, text, n), NEW more \in Seq(Pieces)
    PROVE  Underway(endpoint, s \o TextDelta(endpoint, n, more), text \o more, n + 1)
  <1>. DEFINE type == CASE endpoint \in {"chat", "completions"} -> "delta"
                        [] endpoint = "messages" -> "content_block_delta"
                        [] endpoint = "responses" -> "text_delta"
              plain == TextEvent(type, more)
              e == IF endpoint = "responses" THEN [plain EXCEPT !.number = n + 1] ELSE plain
              t == Append(s, e)
  <1>1. /\ s \in Seq(Events) /\ Stage(endpoint, s) = Writing(endpoint) /\ ShownBy(s) = text
        /\ Quiet(s) /\ n \in Nat /\ n + 1 \in Nat
    BY DEF Underway, Reads
  <1>2. type \in Deltas /\ type \in Types
    <2>1. endpoint \in {"chat", "completions", "messages", "responses"}  BY DEF Generating
    <2>2. type \in {"delta", "content_block_delta", "text_delta"}  BY <2>1
    <2>. HIDE DEF type
    <2>. QED  BY <2>2 DEF Deltas, Types
  <1>3. Moved(endpoint, Writing(endpoint), type) = Writing(endpoint)
    BY ChatGrammar, CompletionsGrammar, MessagesGrammar, ResponsesGrammar
    DEF Generating, Writing
  <1>. HIDE DEF type
  <1>4. /\ plain \in Events /\ plain.type = type /\ plain.number = 0 /\ plain.text = more
    BY <1>2, TextEventFields
  <1>5. TextDelta(endpoint, n, more) = <<e>>
    <2>1. CASE endpoint = "responses"
      <3>1. TextDelta(endpoint, n, more) = Numbered(n, <<plain>>)
        BY <2>1 DEF TextDelta, ResponseDelta, type
      <3>. HIDE DEF plain
      <3>2. Numbered(n, <<plain>>) = <<[plain EXCEPT !.number = n + 1]>>
        BY <1>1, <1>4, NumberedOne
      <3>. QED  BY <2>1, <3>1, <3>2
    <2>2. CASE endpoint # "responses"
      BY <2>2 DEF TextDelta, Delta, BlockDelta, type, Generating
    <2>. QED  BY <2>1, <2>2
  <1>. HIDE DEF plain
  <1>6. /\ e \in Events /\ e.type = type /\ e.text = more
        /\ endpoint = "responses" => e.number = n + 1
    BY <1>1, <1>4, NumberedFields
  <1>. HIDE DEF e
  <1>7. s \o TextDelta(endpoint, n, more) = t
    BY <1>1, <1>5, <1>6, OneByOne
  <1>8. Stage(endpoint, t) = Writing(endpoint)
    BY <1>1, <1>3, <1>6, StageOfAppend
  <1>9. ShownBy(t) = text \o more
    BY <1>1, <1>2, <1>6, ShownOfAppend DEF ShownOf
  <1>10. Quiet(t)  BY <1>1, <1>2, <1>6, QuietOn
  <1>11. /\ t \in Seq(Events) /\ Len(s) \in Nat /\ DOMAIN s = 1..Len(s)
         /\ DOMAIN t = 1..Len(s) + 1 /\ Len(t) = Len(s) + 1
         /\ (\A i \in 1..Len(s) : t[i] = s[i]) /\ t[Len(s) + 1] = e
    BY <1>1, <1>6, InAppend
  <1>. HIDE DEF t
  <1>12. ASSUME endpoint = "responses", NEW i \in DOMAIN t
         PROVE  t[i].number = i /\ t[i].type \notin Closers
    <2>1. t[i].type \notin Closers
      BY <1>10, <1>12 DEF Quiet, Beginnings, Deltas, Closers
    <2>2. n = Len(s)  BY <1>12 DEF Underway
    <2>3. CASE i = Len(s) + 1  BY <1>6, <1>11, <1>12, <2>1, <2>2, <2>3
    <2>4. CASE i # Len(s) + 1
      <3>1. i \in DOMAIN s /\ t[i] = s[i]  BY <1>11, <2>4
      <3>. QED  BY <1>12, <2>1, <3>1 DEF Underway, Reads
    <2>. QED  BY <2>3, <2>4
  <1>13. endpoint = "responses" => n + 1 = Len(t)  BY <1>1, <1>11 DEF Underway
  <1>14. Reads(endpoint, t, Writing(endpoint), text \o more)
    BY <1>8, <1>9, <1>11, <1>12 DEF Reads
  <1>. QED  BY <1>1, <1>7, <1>10, <1>13, <1>14 DEF Underway

\* A stream is opened.
LEMMA ChatOpens == Underway("chat", <<>> \o Opening("chat"), <<>>, Len(Opening("chat")))
  <1>. DEFINE e == Event("role")
  <1>1. e \in Events /\ e.type = "role"  BY EventFields DEF Types, Beginnings
  <1>. HIDE DEF e
  <1>2. Opening("chat") = <<e>>  BY DEF Opening, ChatRole, e
  <1>3. <<>> \in Seq(Events) /\ <<>> \o <<e>> = Append(<<>>, e) /\ Len(<<e>>) = 1
    BY <1>1
  <1>4. Reads("chat", Append(<<>>, e), Moved("chat", "start", "role"), <<>>)
    BY <1>1, ReadsNothing, ReadsOn DEF Deltas
  <1>5. Quiet(<<>>)  BY DEF Quiet
  <1>6. Quiet(Append(<<>>, e))  BY <1>1, <1>3, <1>5, QuietOn DEF Beginnings
  <1>. QED  BY <1>2, <1>3, <1>4, <1>6, ChatGrammar DEF Underway, Writing

LEMMA CompletionsOpen ==
    Underway("completions", <<>> \o Opening("completions"), <<>>, Len(Opening("completions")))
  <1>1. Opening("completions") = <<>> /\ <<>> \o <<>> = <<>> /\ Len(<<>>) = 0
    BY DEF Opening
  <1>2. Quiet(<<>>)  BY DEF Quiet
  <1>. QED  BY <1>1, <1>2, ReadsNothing DEF Underway, Writing

LEMMA MessagesOpen ==
    Underway("messages", <<>> \o Opening("messages"), <<>>, Len(Opening("messages")))
  <1>. DEFINE a == Event("message_start")
              b == Event("content_block_start")
  <1>1. /\ a \in Events /\ a.type = "message_start"
        /\ b \in Events /\ b.type = "content_block_start"
    BY EventFields DEF Types, Beginnings
  <1>. HIDE DEF a, b
  <1>2. Opening("messages") = <<a, b>>  BY DEF Opening, MessageOpening, a, b
  <1>. DEFINE s == Append(<<>>, a)
              t == Append(s, b)
  <1>3. <<>> \in Seq(Events) /\ <<>> \o <<a, b>> = t /\ Len(<<a, b>>) = 2 /\ s \in Seq(Events)
    BY <1>1
  <1>4. Reads("messages", s, Moved("messages", "start", "message_start"), <<>>)
    BY <1>1, ReadsNothing, ReadsOn DEF Deltas
  <1>5. Reads("messages", s, "message", <<>>)  BY <1>4, MessagesGrammar
  <1>6. Quiet(<<>>)  BY DEF Quiet
  <1>7. Quiet(s)  BY <1>1, <1>3, <1>6, QuietOn DEF Beginnings
  <1>. HIDE DEF s
  <1>8. Reads("messages", t, Moved("messages", "message", "content_block_start"), <<>>)
    BY <1>1, <1>5, ReadsOn DEF Deltas
  <1>9. Quiet(t)  BY <1>1, <1>3, <1>7, QuietOn DEF Beginnings
  <1>. HIDE DEF t
  <1>. QED  BY <1>2, <1>3, <1>8, <1>9, MessagesGrammar DEF Underway, Writing

LEMMA ResponsesOpen ==
    Underway("responses", <<>> \o Opening("responses"), <<>>, Len(Opening("responses")))
  <1>. DEFINE z == 0
              u == Event("created")
              v == Event("in_progress")
              w == Event("item_added")
              x == Event("part_added")
              a == [u EXCEPT !.number = z + 1]
              b == [v EXCEPT !.number = z + 2]
              c == [w EXCEPT !.number = z + 3]
              d == [x EXCEPT !.number = z + 4]
  <1>1. /\ u \in Events /\ u.type = "created"
        /\ v \in Events /\ v.type = "in_progress"
        /\ w \in Events /\ w.type = "item_added"
        /\ x \in Events /\ x.type = "part_added"
    BY EventFields DEF Types, Beginnings
  <1>0. /\ z \in Nat /\ z + 1 = 1 /\ z + 2 = 2 /\ z + 3 = 3 /\ z + 4 = 4
        /\ z + 1 \in Nat /\ z + 2 \in Nat /\ z + 3 \in Nat /\ z + 4 \in Nat
    OBVIOUS
  <1>15. Opening("responses") = Numbered(z, <<u, v, w, x>>)
    BY DEF Opening, ResponseStart
  <1>. HIDE DEF z, u, v, w, x
  <1>2. /\ a \in Events /\ a.type = "created" /\ a.number = 1
        /\ b \in Events /\ b.type = "in_progress" /\ b.number = 2
        /\ c \in Events /\ c.type = "item_added" /\ c.number = 3
        /\ d \in Events /\ d.type = "part_added" /\ d.number = 4
    <2>1. a \in Events /\ a.type = "created" /\ a.number = 1
      BY <1>0, <1>1, NumberedFields
    <2>2. b \in Events /\ b.type = "in_progress" /\ b.number = 2
      BY <1>0, <1>1, NumberedFields
    <2>3. c \in Events /\ c.type = "item_added" /\ c.number = 3
      BY <1>0, <1>1, NumberedFields
    <2>4. d \in Events /\ d.type = "part_added" /\ d.number = 4
      BY <1>0, <1>1, NumberedFields
    <2>. QED  BY <2>1, <2>2, <2>3, <2>4
  <1>3. Opening("responses") = <<a, b, c, d>>
    <2>1. Numbered(z, <<u, v, w, x>>) = <<a, b, c, d>>  BY <1>0, <1>1, NumberedFour
    <2>. QED  BY <1>15, <2>1
  <1>. HIDE DEF a, b, c, d
  <1>. DEFINE p == Append(<<>>, a)
              q == Append(p, b)
              r == Append(q, c)
              t == Append(r, d)
  <1>4. <<>> \in Seq(Events) /\ Len(<<a, b, c, d>>) = 4 /\ <<>> \o <<a, b, c, d>> = t
    BY <1>2, OneByOne
  <1>5. /\ p \in Seq(Events) /\ q \in Seq(Events) /\ r \in Seq(Events)
        /\ Len(<<>>) = 0 /\ Len(p) = 1 /\ Len(q) = 2 /\ Len(r) = 3 /\ Len(t) = 4
    BY <1>2
  <1>6. Quiet(<<>>)  BY DEF Quiet
  <1>7. Reads("responses", p, "created", <<>>)
    <2>. DEFINE none == <<>>
    <2>1. Reads("responses", none, "start", <<>>) /\ none \in Seq(Events) /\ Len(none) = 0
      BY <1>5, ReadsNothing
    <2>2. a.type \notin Deltas \cup {"body"} /\ a.type \notin Closers
      BY <1>2 DEF Deltas, Closers
    <2>3. a.number = Len(none) + 1  BY <1>2, <2>1
    <2>. HIDE DEF none, p
    <2>4. Reads("responses", Append(none, a), Moved("responses", "start", a.type), <<>>)
      BY <1>2, <2>1, <2>2, <2>3, ReadsOn
    <2>5. Moved("responses", "start", a.type) = "created"
      BY <1>2, ResponsesGrammar
    <2>. QED  BY <2>4, <2>5 DEF p, none
  <1>8. Quiet(p)  BY <1>2, <1>4, <1>6, QuietOn DEF Beginnings
  <1>. HIDE DEF p
  <1>9. Reads("responses", q, "response", <<>>)
    BY <1>2, <1>5, <1>7, ReadsOn, ResponsesGrammar DEF Deltas, Closers
  <1>10. Quiet(q)  BY <1>2, <1>5, <1>8, QuietOn DEF Beginnings
  <1>. HIDE DEF q
  <1>11. Reads("responses", r, "item", <<>>)
    BY <1>2, <1>5, <1>9, ReadsOn, ResponsesGrammar DEF Deltas, Closers
  <1>12. Quiet(r)  BY <1>2, <1>5, <1>10, QuietOn DEF Beginnings
  <1>. HIDE DEF r
  <1>13. Reads("responses", t, "part", <<>>)
    BY <1>2, <1>5, <1>11, ReadsOn, ResponsesGrammar DEF Deltas, Closers
  <1>14. Quiet(t)  BY <1>2, <1>5, <1>12, QuietOn DEF Beginnings
  <1>. HIDE DEF t
  <1>. QED  BY <1>3, <1>4, <1>5, <1>13, <1>14 DEF Underway, Writing

LEMMA StreamOpens ==
    ASSUME NEW endpoint \in Generating
    PROVE  Underway(endpoint, <<>> \o Opening(endpoint), <<>>, Len(Opening(endpoint)))
  BY ChatOpens, CompletionsOpen, MessagesOpen, ResponsesOpen DEF Generating

\* The end of a stream.
Over(endpoint, s, text) == Reads(endpoint, s, "end", text) /\ s # ErrorBody

LEMMA OverIs ==
    ASSUME NEW endpoint \in Generating, NEW s \in Seq(Events), NEW e \in Events,
           NEW text, Reads(endpoint, Append(s, e), "end", text), e.type # "error_body"
    PROVE  Over(endpoint, Append(s, e), text)
  <1>1. Append(s, e) # ErrorBody  BY VerdictIs
  <1>. QED  BY <1>1 DEF Over

LEMMA OurWords ==
    ASSUME NEW why \in {"stop", "length"}
    PROVE  /\ InOurWords(why) = why /\ InOurWords(StopReason(why, FALSE)) = why
           /\ StopReason(why, FALSE) \in Words /\ why \in Words
  <1>1. CASE why = "stop"  BY <1>1 DEF InOurWords, StopReason, Words
  <1>2. CASE why = "length"  BY <1>2 DEF InOurWords, StopReason, Words
  <1>. QED  BY <1>1, <1>2

\* [DONE] comes after the chunk with the reason.
LEMMA ChunksEnd ==
    ASSUME NEW endpoint \in {"chat", "completions"}, NEW s, NEW text, NEW n,
           Underway(endpoint, s, text, n),
           NEW why \in {"stop", "length", "error"}, NEW usage \in Usages
    PROVE  LET t == s \o FinishAndDone(why, usage) IN
             /\ Over(endpoint, t, text)
             /\ why = "error" =>
                  \A told : Verdict(endpoint, t, told) = [kind |-> "failed", why |-> ""]
             /\ why # "error" =>
                  \A told : Verdict(endpoint, t, told) = [kind |-> "completed", why |-> why]
  <1>. DEFINE a == EndEvent("finish", why, usage)
              b == Event("done")
              q == Append(s, a)
              t == Append(q, b)
  <1>0. endpoint \in Generating /\ endpoint # "responses"  BY DEF Generating
  <1>1. /\ a \in Events /\ a.type = "finish" /\ a.why = why
        /\ b \in Events /\ b.type = "done"
    <2>1. why \in Words /\ "finish" \in Types /\ "done" \in Types  BY DEF Words, Types
    <2>2. a \in Events /\ a.type = "finish" /\ a.why = why  BY <2>1, EndEventFields
    <2>3. b \in Events /\ b.type = "done"  BY <2>1, EventFields
    <2>. QED  BY <2>2, <2>3
  <1>2. FinishAndDone(why, usage) = <<a, b>>  BY DEF FinishAndDone
  <1>. HIDE DEF a, b
  <1>3. s \in Seq(Events) /\ Reads(endpoint, s, Writing(endpoint), text)
    BY DEF Underway, Reads
  <1>4. s \o <<a, b>> = t /\ q \in Seq(Events)  BY <1>1, <1>3, OneByOne
  <1>5. Reads(endpoint, q, "last", text)
    <2>1. Moved(endpoint, Writing(endpoint), "finish") = "last"
      BY ChatGrammar, CompletionsGrammar DEF Writing
    <2>2. "finish" \notin Deltas \cup {"body"}  BY DEF Deltas
    <2>. QED  BY <1>0, <1>1, <1>3, <2>1, <2>2, ReadsOn
  <1>6. ReasonIn(q) = InOurWords(why)
    BY <1>1, <1>3, ReasonOfAppend DEF Reasons
  <1>. HIDE DEF q
  <1>7. Reads(endpoint, t, "end", text)
    <2>1. Moved(endpoint, "last", "done") = "end"
      BY ChatGrammar, CompletionsGrammar
    <2>2. "done" \notin Deltas \cup {"body"}  BY DEF Deltas
    <2>. QED  BY <1>0, <1>1, <1>5, <2>1, <2>2, ReadsOn
  <1>8. ReasonIn(t) = InOurWords(why)
    <2>1. "done" \notin Reasons  BY DEF Reasons
    <2>. QED  BY <1>1, <1>4, <1>6, <2>1, ReasonOfAppend
  <1>9. InOurWords(why) = why  BY DEF InOurWords
  <1>10. Over(endpoint, t, text)
    BY <1>0, <1>1, <1>4, <1>7, OverIs
  <1>11. ASSUME NEW told
         PROVE  Verdict(endpoint, t, told) =
                  IF why = "error" THEN [kind |-> "failed", why |-> ""]
                  ELSE [kind |-> "completed", why |-> why]
    BY <1>0, <1>1, <1>4, <1>8, <1>9, VerdictIs
  <1>. HIDE DEF t
  <1>12. /\ why = "error" =>
              \A told : Verdict(endpoint, t, told) = [kind |-> "failed", why |-> ""]
         /\ why # "error" =>
              \A told : Verdict(endpoint, t, told) = [kind |-> "completed", why |-> why]
    BY <1>11
  <1>. QED  BY <1>2, <1>4, <1>10, <1>12

LEMMA MessageEnds ==
    ASSUME NEW s, NEW text, NEW n, Underway("messages", s, text, n),
           NEW why \in {"stop", "length"}, NEW usage \in Usages
    PROVE  LET t == s \o MessageClosing(why, usage) IN
             /\ Over("messages", t, text)
             /\ \A told : Verdict("messages", t, told) = [kind |-> "completed", why |-> why]
  <1>. DEFINE u == [usage EXCEPT !.cached = 0]
              a == Event("content_block_stop")
              b == EndEvent("message_delta", StopReason(why, FALSE), u)
              c == Event("message_stop")
              p == Append(s, a)
              q == Append(p, b)
              t == Append(q, c)
  <1>0. "messages" \in Generating  BY DEF Generating
  <1>1. u \in Usages  BY DEF Usages
  <1>2. MessageClosing(why, usage) = <<a, b, c>>  BY DEF MessageClosing
  <1>. HIDE DEF u
  <1>3. /\ a \in Events /\ a.type = "content_block_stop"
        /\ b \in Events /\ b.type = "message_delta" /\ b.why = StopReason(why, FALSE)
        /\ c \in Events /\ c.type = "message_stop"
    <2>1. /\ "content_block_stop" \in Types /\ "message_delta" \in Types
          /\ "message_stop" \in Types
      BY DEF Types
    <2>2. a \in Events /\ a.type = "content_block_stop"  BY <2>1, EventFields
    <2>3. c \in Events /\ c.type = "message_stop"  BY <2>1, EventFields
    <2>. DEFINE w == StopReason(why, FALSE)
    <2>4. w \in Words  BY OurWords
    <2>. HIDE DEF w
    <2>. DEFINE e == EndEvent("message_delta", w, u)
    <2>6. e \in Events /\ e.type = "message_delta" /\ e.why = w
      BY <1>1, <2>1, <2>4, EndEventFields
    <2>7. b = e  BY DEF w
    <2>. HIDE DEF e, b
    <2>5. b \in Events /\ b.type = "message_delta" /\ b.why = w
      BY <2>6, <2>7
    <2>. QED  BY <2>2, <2>3, <2>5 DEF w
  <1>. HIDE DEF a, b, c
  <1>4. s \in Seq(Events) /\ Reads("messages", s, "block", text)
    BY DEF Underway, Reads, Writing
  <1>5. s \o <<a, b, c>> = t /\ p \in Seq(Events) /\ q \in Seq(Events)
    BY <1>3, <1>4, OneByOne
  <1>6. /\ "content_block_stop" \notin Deltas \cup {"body"}
        /\ "message_delta" \notin Deltas \cup {"body"}
        /\ "message_stop" \notin Deltas \cup {"body"}
    BY DEF Deltas
  <1>7. Reads("messages", p, "blocks", text)
    BY <1>3, <1>4, <1>6, ReadsOn, MessagesGrammar
  <1>. HIDE DEF p
  <1>8. Reads("messages", q, "last", text)
    BY <1>3, <1>6, <1>7, ReadsOn, MessagesGrammar
  <1>9. ReasonIn(q) = why
    BY <1>3, <1>5, ReasonOfAppend, OurWords DEF Reasons
  <1>. HIDE DEF q
  <1>10. Reads("messages", t, "end", text)
    BY <1>3, <1>6, <1>8, ReadsOn, MessagesGrammar
  <1>11. ReasonIn(t) = why
    BY <1>3, <1>5, <1>9, ReasonOfAppend DEF Reasons
  <1>12. Over("messages", t, text)
    BY <1>0, <1>3, <1>5, <1>10, OverIs
  <1>13. ASSUME NEW told
         PROVE  Verdict("messages", t, told) = [kind |-> "completed", why |-> why]
    BY <1>0, <1>3, <1>5, <1>11, VerdictIs
  <1>. HIDE DEF t
  <1>. QED  BY <1>2, <1>5, <1>12, <1>13

LEMMA ResponseEnds ==
    ASSUME NEW s, NEW text \in Seq(Pieces), NEW n, Underway("responses", s, text, n),
           NEW usage \in Usages
    PROVE  LET t == s \o ResponseFinish(n, text, usage) IN
             /\ Over("responses", t, text)
             /\ \A told : Verdict("responses", t, told) =
                             [kind |-> "completed", why |-> "unsaid"]
  <1>. DEFINE u == TextEvent("text_done", text)
              v == TextEvent("part_done", text)
              w == TextEvent("item_done", text)
              x == TextEvent("completed", text)
              g == [x EXCEPT !.usage = usage]
              a == [u EXCEPT !.number = n + 1]
              b == [v EXCEPT !.number = n + 2]
              c == [w EXCEPT !.number = n + 3]
              d == [g EXCEPT !.number = n + 4]
  <1>0. "responses" \in Generating  BY DEF Generating
  <1>1. /\ s \in Seq(Events) /\ Reads("responses", s, "part", text)
        /\ n \in Nat /\ n = Len(s) /\ ReasonIn(s) = "unsaid"
    <2>1. ReasonIn(s) = "unsaid"  BY <1>0, UnderwayIsOpen
    <2>2. s \in Seq(Events)  BY DEF Underway, Reads
    <2>3. Reads("responses", s, "part", text) /\ n \in Nat /\ n = Len(s)
      BY DEF Underway, Writing
    <2>. QED  BY <2>1, <2>2, <2>3
  <1>2. /\ u \in Events /\ u.type = "text_done" /\ u.text = text
        /\ v \in Events /\ v.type = "part_done" /\ v.text = text
        /\ w \in Events /\ w.type = "item_done" /\ w.text = text
        /\ x \in Events /\ x.type = "completed" /\ x.text = text
    <2>1. /\ "text_done" \in Types /\ "part_done" \in Types
          /\ "item_done" \in Types /\ "completed" \in Types
      BY DEF Types, Closers
    <2>2. u \in Events /\ u.type = "text_done" /\ u.text = text  BY <2>1, TextEventFields
    <2>3. v \in Events /\ v.type = "part_done" /\ v.text = text  BY <2>1, TextEventFields
    <2>4. w \in Events /\ w.type = "item_done" /\ w.text = text  BY <2>1, TextEventFields
    <2>5. x \in Events /\ x.type = "completed" /\ x.text = text  BY <2>1, TextEventFields
    <2>. QED  BY <2>2, <2>3, <2>4, <2>5
  <1>3. ResponseFinish(n, text, usage) = Numbered(n, <<u, v, w, g>>)
    BY DEF ResponseFinish
  <1>. HIDE DEF u, v, w, x
  <1>4. g \in Events /\ g.type = "completed" /\ g.text = text
    BY <1>2 DEF Events
  <1>. HIDE DEF g
  <1>5. /\ a \in Events /\ a.type = "text_done" /\ a.number = n + 1 /\ a.text = text
        /\ b \in Events /\ b.type = "part_done" /\ b.number = n + 2 /\ b.text = text
        /\ c \in Events /\ c.type = "item_done" /\ c.number = n + 3 /\ c.text = text
        /\ d \in Events /\ d.type = "completed" /\ d.number = n + 4 /\ d.text = text
    <2>1. n + 1 \in Nat /\ n + 2 \in Nat /\ n + 3 \in Nat /\ n + 4 \in Nat  BY <1>1
    <2>2. a \in Events /\ a.type = "text_done" /\ a.number = n + 1 /\ a.text = text
      BY <1>2, <2>1, NumberedFields
    <2>3. b \in Events /\ b.type = "part_done" /\ b.number = n + 2 /\ b.text = text
      BY <1>2, <2>1, NumberedFields
    <2>4. c \in Events /\ c.type = "item_done" /\ c.number = n + 3 /\ c.text = text
      BY <1>2, <2>1, NumberedFields
    <2>5. d \in Events /\ d.type = "completed" /\ d.number = n + 4 /\ d.text = text
      BY <1>4, <2>1, NumberedFields
    <2>. QED  BY <2>2, <2>3, <2>4, <2>5
  <1>6. ResponseFinish(n, text, usage) = <<a, b, c, d>>
    <2>1. Numbered(n, <<u, v, w, g>>) = <<a, b, c, d>>
      <3>1. n \in Nat /\ u \in Events /\ v \in Events /\ w \in Events /\ g \in Events
        BY <1>1, <1>2, <1>4
      <3>. QED  BY <3>1, NumberedFour
    <2>. QED  BY <1>3, <2>1
  <1>. HIDE DEF a, b, c, d
  <1>. DEFINE p == Append(s, a)
              q == Append(p, b)
              r == Append(q, c)
              t == Append(r, d)
  <1>7. s \o <<a, b, c, d>> = t  BY <1>1, <1>5, OneByOne
  <1>8. /\ p \in Seq(Events) /\ q \in Seq(Events) /\ r \in Seq(Events)
        /\ Len(p) = n + 1 /\ Len(q) = n + 2 /\ Len(r) = n + 3
    BY <1>1, <1>5
  <1>9. /\ {"text_done", "part_done", "item_done", "completed"} \cap (Deltas \cup {"body"}) = {}
        /\ {"text_done", "part_done", "item_done", "completed"} \cap Reasons = {}
    BY DEF Deltas, Reasons
  <1>10. /\ n + 2 = (n + 1) + 1 /\ n + 3 = (n + 2) + 1 /\ n + 4 = (n + 3) + 1  BY <1>1
  <1>11. Reads("responses", p, "text", text) /\ ReasonIn(p) = "unsaid"
    BY <1>1, <1>5, <1>9, ReadsOn, ReasonOfAppend, ResponsesGrammar
  <1>. HIDE DEF p
  <1>12. Reads("responses", q, "parts", text) /\ ReasonIn(q) = "unsaid"
    BY <1>5, <1>8, <1>9, <1>10, <1>11, ReadsOn, ReasonOfAppend, ResponsesGrammar
  <1>. HIDE DEF q
  <1>13. Reads("responses", r, "items", text) /\ ReasonIn(r) = "unsaid"
    BY <1>5, <1>8, <1>9, <1>10, <1>12, ReadsOn, ReasonOfAppend, ResponsesGrammar
  <1>. HIDE DEF r
  <1>14. Reads("responses", t, "end", text) /\ ReasonIn(t) = "unsaid"
    <2>1. Reads("responses", t, "end", text)
      BY <1>5, <1>8, <1>9, <1>10, <1>13, ReadsOn, ResponsesGrammar
    <2>2. ReasonIn(t) = "unsaid"
      BY <1>5, <1>8, <1>9, <1>13, ReasonOfAppend
    <2>. QED  BY <2>1, <2>2
  <1>15. Over("responses", t, text)
    BY <1>0, <1>5, <1>8, <1>14, OverIs
  <1>16. ASSUME NEW told
         PROVE  Verdict("responses", t, told) = [kind |-> "completed", why |-> "unsaid"]
    BY <1>0, <1>5, <1>8, <1>14, VerdictIs
  <1>. HIDE DEF t
  <1>. QED  BY <1>6, <1>7, <1>15, <1>16

LEMMA StreamEnds ==
    ASSUME NEW endpoint \in Generating, NEW s, NEW text \in Seq(Pieces), NEW n,
           Underway(endpoint, s, text, n),
           NEW why \in {"stop", "length"}, NEW usage \in Usages
    PROVE  LET t == s \o Closing(endpoint, n, text, why, usage) IN
             /\ Over(endpoint, t, text)
             /\ \E said \in {why, "unsaid"} : \A told :
                  Verdict(endpoint, t, told) = [kind |-> "completed", why |-> said]
  <1>1. CASE endpoint \in {"chat", "completions"}
    <2>1. Closing(endpoint, n, text, why, usage) = FinishAndDone(why, usage)
      BY <1>1 DEF Closing
    <2>2. why \in {"stop", "length", "error"} /\ why # "error"  OBVIOUS
    <2>. DEFINE t == s \o FinishAndDone(why, usage)
    <2>3. Over(endpoint, t, text)  BY <1>1, <2>2, ChunksEnd
    <2>4. \A told : Verdict(endpoint, t, told) = [kind |-> "completed", why |-> why]
      BY <1>1, <2>2, ChunksEnd
    <2>. HIDE DEF t
    <2>. QED  BY <2>1, <2>3, <2>4 DEF t
  <1>2. CASE endpoint = "messages"
    <2>1. Closing(endpoint, n, text, why, usage) = MessageClosing(why, usage)
      BY <1>2 DEF Closing
    <2>. QED  BY <1>2, <2>1, MessageEnds
  <1>3. CASE endpoint = "responses"
    <2>1. Closing(endpoint, n, text, why, usage) = ResponseFinish(n, text, usage)
      BY <1>3 DEF Closing
    <2>. QED  BY <1>3, <2>1, ResponseEnds
  <1>. QED  BY <1>1, <1>2, <1>3 DEF Generating

\* The verdict on events, that the generation ended as why says.
Tells(endpoint, s, why) ==
    \E said \in {why, "unsaid"} : \A told :
        Verdict(endpoint, s, told) = [kind |-> "completed", why |-> said]

LEMMA StreamTells ==
    ASSUME NEW endpoint \in Generating, NEW s, NEW text \in Seq(Pieces), NEW n,
           Underway(endpoint, s, text, n),
           NEW why \in {"stop", "length"}, NEW usage \in Usages
    PROVE  Tells(endpoint, s \o Closing(endpoint, n, text, why, usage), why)
  BY StreamEnds DEF Tells

\* A stream whose engine failed.
LEMMA StreamFails ==
    ASSUME NEW endpoint \in Generating, NEW s, NEW text, NEW n, Underway(endpoint, s, text, n)
    PROVE  LET t == s \o Failing(endpoint, n) IN
             /\ Over(endpoint, t, text)
             /\ \A told : Verdict(endpoint, t, told) = [kind |-> "failed", why |-> ""]
  <1>1. CASE endpoint \in {"chat", "completions"}
    <2>1. Failing(endpoint, n) = FinishAndDone("error", NoUsage)
      BY <1>1 DEF Failing
    <2>2. NoUsage \in Usages  BY DEF NoUsage, Usages
    <2>. DEFINE t == s \o FinishAndDone("error", NoUsage)
    <2>3. Over(endpoint, t, text)  BY <1>1, <2>2, ChunksEnd
    <2>4. \A told : Verdict(endpoint, t, told) = [kind |-> "failed", why |-> ""]
      BY <1>1, <2>2, ChunksEnd
    <2>. HIDE DEF t
    <2>. QED  BY <2>1, <2>3, <2>4 DEF t
  <1>2. CASE endpoint \in {"messages", "responses"}
    <2>. DEFINE type == IF endpoint = "messages" THEN "error" ELSE "failed"
                plain == Event(type)
                e == IF endpoint = "responses" THEN [plain EXCEPT !.number = n + 1] ELSE plain
                t == Append(s, e)
    <2>1. /\ s \in Seq(Events) /\ Reads(endpoint, s, Writing(endpoint), text) /\ n \in Nat
          /\ n + 1 \in Nat
      BY DEF Underway, Reads
    <2>2. /\ type \in Types /\ type \notin Deltas \cup {"body"} /\ type \notin Closers
          /\ type \in {"error", "failed"} /\ type # "error_body"
      <3>1. type \in {"error", "failed"}  OBVIOUS
      <3>. HIDE DEF type
      <3>. QED  BY <3>1 DEF Types, Deltas, Closers
    <2>3. Moved(endpoint, Writing(endpoint), type) = "end"
      BY <1>2, MessagesGrammar, ResponsesGrammar DEF Writing
    <2>4. plain \in Events /\ plain.type = type
      <3>. HIDE DEF type
      <3>. QED  BY <2>2, EventFields
    <2>5. Failing(endpoint, n) = <<e>>
      <3>1. CASE endpoint = "responses"
        <4>1. Failing(endpoint, n) = Numbered(n, <<plain>>)
          BY <3>1 DEF Failing, ResponseFailed
        <4>. HIDE DEF plain
        <4>2. Numbered(n, <<plain>>) = <<[plain EXCEPT !.number = n + 1]>>
          BY <2>1, <2>4, NumberedOne
        <4>. QED  BY <3>1, <4>1, <4>2
      <3>2. CASE endpoint = "messages"
        BY <3>2 DEF Failing, MessageError
      <3>. QED  BY <1>2, <3>1, <3>2
    <2>. HIDE DEF type, plain
    <2>6. /\ e \in Events /\ e.type = type
          /\ endpoint = "responses" => e.number = n + 1
      BY <2>1, <2>4, NumberedFields
    <2>. HIDE DEF e
    <2>7. s \o <<e>> = t  BY <2>1, <2>6, OneByOne
    <2>8. Reads(endpoint, t, "end", text)
      <3>1. endpoint = "responses" => n = Len(s)  BY DEF Underway
      <3>2. Reads(endpoint, t, Moved(endpoint, Writing(endpoint), e.type), text)
        BY <2>1, <2>2, <2>6, <3>1, ReadsOn
      <3>. QED  BY <2>3, <2>6, <3>2
    <2>9. Over(endpoint, t, text)  BY <2>1, <2>2, <2>6, <2>8, OverIs
    <2>10. ASSUME NEW told
           PROVE  Verdict(endpoint, t, told) = [kind |-> "failed", why |-> ""]
      BY <2>1, <2>2, <2>6, VerdictIs
    <2>. HIDE DEF t
    <2>. QED  BY <2>5, <2>7, <2>9, <2>10
  <1>. QED  BY <1>1, <1>2 DEF Generating

-----------------------------------------------------------------------------
(* The body of an answer that is not streamed.                             *)

\* Trimming leaves a part of the text.
LEMMA TrimType ==
    ASSUME NEW text \in Seq(Pieces)
    PROVE  TrimSpace(text) \in Seq(Pieces) /\ TrimSpace(<<>>) = <<>>
  <1>. DEFINE solid == {i \in DOMAIN text : text[i] \notin White}
              first == CHOOSE i \in solid : \A j \in solid : i <= j
              last == CHOOSE i \in solid : \A j \in solid : i >= j
  <1>1. TrimSpace(text) = IF solid = {} THEN <<>> ELSE SubSeq(text, first, last)
    BY DEF TrimSpace
  <1>2. Len(text) \in Nat /\ DOMAIN text = 1..Len(text)  OBVIOUS
  <1>3. solid \subseteq Nat /\ \A i \in solid : i \in 1..Len(text)  BY <1>2
  <1>4. ASSUME solid # {} PROVE TrimSpace(text) \in Seq(Pieces)
    <2>. HIDE DEF solid
    <2>1. first \in solid
      <3>1. \E i \in solid : \A j \in solid : i <= j  BY <1>3, <1>4, LeastOf
      <3>. QED  BY <3>1
    <2>2. last \in solid
      <3>1. \A i \in solid : i <= Len(text)  BY <1>2, <1>3
      <3>2. Max(solid) \in solid /\ \A i \in solid : i <= Max(solid)
        BY <1>2, <1>3, <1>4, <3>1, MaxIsGreatest
      <3>3. \A i \in solid : Max(solid) >= i  BY <1>3, <3>2
      <3>. QED  BY <3>2, <3>3
    <2>. HIDE DEF first, last
    <2>3. first \in 1..Len(text) /\ last \in 1..Len(text)  BY <1>3, <2>1, <2>2
    <2>4. SubSeq(text, first, last) \in Seq(Pieces)  BY <1>2, <2>3
    <2>5. TrimSpace(text) = SubSeq(text, first, last)
      BY <1>1, <1>4 DEF solid, first, last
    <2>. QED  BY <2>4, <2>5
  <1>5. TrimSpace(<<>>) = <<>>
    <2>1. {i \in DOMAIN <<>> : <<>>[i] \notin White} = {}  OBVIOUS
    <2>. QED  BY <2>1 DEF TrimSpace
  <1>6. solid = {} => TrimSpace(text) \in Seq(Pieces)  BY <1>1
  <1>. QED  BY <1>4, <1>5, <1>6

LEMMA BodyIs ==
    ASSUME NEW endpoint \in Generating, NEW text \in Seq(Pieces),
           NEW why \in {"stop", "length"}, NEW usage \in Usages
    PROVE  \E b \in Events :
             /\ Body(endpoint, text, why, usage) = <<b>>
             /\ b.type = "body" /\ b.text \in {text, TrimSpace(text)}
             /\ InOurWords(b.why) \in {why, "unsaid"}
  <1>1. ASSUME NEW t \in Seq(Pieces), NEW w \in Words, NEW u \in Usages
        PROVE  LET b == [EndEvent("body", w, u) EXCEPT !.text = t] IN
                 /\ b \in Events /\ BodyEvent(t, w, u) = <<b>>
                 /\ b.type = "body" /\ b.text = t /\ b.why = w
    <2>. DEFINE e == EndEvent("body", w, u)
    <2>1. "body" \in Types  BY DEF Types
    <2>2. e \in Events /\ e.type = "body" /\ e.why = w  BY <2>1, EndEventFields
    <2>3. BodyEvent(t, w, u) = <<[e EXCEPT !.text = t]>>  BY DEF BodyEvent
    <2>. HIDE DEF e
    <2>4. /\ [e EXCEPT !.text = t] \in Events /\ [e EXCEPT !.text = t].type = "body"
          /\ [e EXCEPT !.text = t].text = t /\ [e EXCEPT !.text = t].why = w
      BY <2>2 DEF Events
    <2>. QED  BY <2>3, <2>4 DEF e
  <1>2. ASSUME NEW t \in Seq(Pieces), NEW w \in Words, NEW u \in Usages
        PROVE  \E b \in Events : /\ BodyEvent(t, w, u) = <<b>>
                                 /\ b.type = "body" /\ b.text = t /\ b.why = w
    <2>. DEFINE b == [EndEvent("body", w, u) EXCEPT !.text = t]
    <2>1. /\ b \in Events /\ BodyEvent(t, w, u) = <<b>>
          /\ b.type = "body" /\ b.text = t /\ b.why = w
      BY <1>1
    <2>. HIDE DEF b
    <2>. QED  BY <2>1
  <1>3. /\ TrimSpace(text) \in Seq(Pieces) /\ <<>> \in Seq(Pieces)
        /\ why \in Words /\ StopReason(why, FALSE) \in Words /\ "" \in Words
        /\ InOurWords(why) = why /\ InOurWords(StopReason(why, FALSE)) = why
        /\ InOurWords("") = "unsaid"
    <2>1. TrimSpace(text) \in Seq(Pieces) /\ <<>> \in Seq(Pieces)  BY TrimType
    <2>2. "" \in Words  BY DEF Words
    <2>3. InOurWords("") = "unsaid"  BY DEF InOurWords
    <2>. QED  BY <2>1, <2>2, <2>3, OurWords
  <1>4. CASE endpoint \in {"chat", "completions"}
    <2>1. Body(endpoint, text, why, usage) = BodyEvent(text, why, usage)  BY <1>4 DEF Body
    <2>2. \E b \in Events : /\ BodyEvent(text, why, usage) = <<b>>
                            /\ b.type = "body" /\ b.text = text /\ b.why = why
      <3>1. why \in Words  BY <1>3
      <3>. QED  BY <1>2, <3>1
    <2>. QED  BY <1>3, <2>1, <2>2
  <1>5. CASE endpoint = "messages"
    <2>. DEFINE t == IF TrimSpace(text) = <<>> THEN <<>> ELSE text
                w == StopReason(why, FALSE)
                u == [usage EXCEPT !.cached = 0]
    <2>1. Body(endpoint, text, why, usage) = BodyEvent(t, w, u)
      BY <1>5 DEF Body, MessageBody
    <2>2. t \in Seq(Pieces) /\ t \in {text, TrimSpace(text)} /\ w \in Words
          /\ InOurWords(w) = why
      BY <1>3
    <2>3. u \in Usages  BY DEF Usages
    <2>. HIDE DEF t, w, u
    <2>4. \E b \in Events : /\ BodyEvent(t, w, u) = <<b>>
                            /\ b.type = "body" /\ b.text = t /\ b.why = w
      BY <1>2, <2>2, <2>3
    <2>. QED  BY <2>1, <2>2, <2>4
  <1>6. CASE endpoint = "responses"
    <2>. DEFINE t == TrimSpace(text)
                w == ""
    <2>1. Body(endpoint, text, why, usage) = BodyEvent(t, w, usage)
      BY <1>6 DEF Body, ResponseBody
    <2>2. t \in Seq(Pieces) /\ t \in {text, TrimSpace(text)} /\ w \in Words
          /\ InOurWords(w) = "unsaid"
      BY <1>3
    <2>. HIDE DEF t, w
    <2>3. \E b \in Events : /\ BodyEvent(t, w, usage) = <<b>>
                            /\ b.type = "body" /\ b.text = t /\ b.why = w
      BY <1>2, <2>2
    <2>. QED  BY <2>1, <2>2, <2>3
  <1>. QED  BY <1>4, <1>5, <1>6 DEF Generating

LEMMA BodyStands ==
    ASSUME NEW endpoint \in Generating, NEW text \in Seq(Pieces),
           NEW why \in {"stop", "length"}, NEW usage \in Usages
    PROVE  LET t == <<>> \o Body(endpoint, text, why, usage) IN
             /\ t \in Seq(Events) /\ Len(t) = 1
             /\ ShownBy(t) \in {text, TrimSpace(text)}
             /\ \E said \in {why, "unsaid"} : \A told :
                  Verdict(endpoint, t, told) = [kind |-> "completed", why |-> said]
  <1>1. PICK b \in Events : /\ Body(endpoint, text, why, usage) = <<b>>
                            /\ b.type = "body" /\ b.text \in {text, TrimSpace(text)}
                            /\ InOurWords(b.why) \in {why, "unsaid"}
    BY BodyIs
  <1>. DEFINE t == Append(<<>>, b)
  <1>2. <<>> \in Seq(Events) /\ <<>> \o <<b>> = t /\ t \in Seq(Events) /\ Len(t) = 1
    OBVIOUS
  <1>3. ShownBy(t) = b.text
    <2>1. ShownBy(t) = ShownBy(<<>>) \o ShownOf(b)  BY <1>2, ShownOfAppend
    <2>2. ShownOf(b) = b.text  BY <1>1 DEF ShownOf
    <2>3. ShownOf(b) \in Seq(Pieces)  BY ShownOfType
    <2>. QED  BY <2>1, <2>2, <2>3, ShownOfNone, ConcatEmptySeq
  <1>4. ReasonIn(t) = InOurWords(b.why)
    BY <1>1, <1>2, ReasonOfAppend DEF Reasons
  <1>5. ASSUME NEW told
        PROVE  Verdict(endpoint, t, told) = [kind |-> "completed", why |-> InOurWords(b.why)]
    BY <1>1, <1>2, <1>4, VerdictIs
  <1>. HIDE DEF t
  <1>. QED  BY <1>1, <1>2, <1>3, <1>5

-----------------------------------------------------------------------------
(* The inductive invariant.                                                *)

Whys == {"", "stop", "length", "error"}
Hearings == [text : Seq(Pieces), why : {"", "stop", "length"}, usage : Usages]

TypeOK ==
    /\ ask \in [Calls -> Requests \cup {Nobody}]
    /\ phase \in [Calls -> {"new", "open", "returned"}]
    /\ gone \in [Calls -> BOOLEAN] /\ aborted \in [Calls -> BOOLEAN]
    /\ made \in [Calls -> Seq(Pieces)] /\ ended \in [Calls -> Whys]
    /\ heard \in [Calls -> Hearings]
    /\ seq \in [Calls -> Nat] /\ out \in [Calls -> Seq(Events)]

\* What a handler has received is the beginning of what was generated, and all
\* of it once it was told of the end.
Follows(c) ==
    /\ Len(heard[c].text) <= Len(made[c])
    /\ heard[c].text = SubSeq(made[c], 1, Len(heard[c].text))
    /\ heard[c].why # "" => heard[c].why = ended[c] /\ heard[c].text = made[c]

\* A stream that is being written shows what its handler received; any other
\* answer is not begun before it is complete.
Waits(c) ==
    /\ phase[c] = "new" /\ ask[c] = Nobody /\ out[c] = <<>>
    /\ made[c] = <<>> /\ ended[c] = "" /\ heard[c] = Deaf
Works(c) ==
    /\ phase[c] = "open" /\ ask[c].endpoint \in Generating
    /\ Follows(c)
    /\ ask[c].streamed => Underway(ask[c].endpoint, out[c], heard[c].text, seq[c])
    /\ ~ask[c].streamed => out[c] = <<>>
Stands(c) == phase[c] = "returned" /\ WellFormed(c)

CallInv(c) == Waits(c) \/ Works(c) \/ Stands(c)
CallsInv == \A c \in Calls : CallInv(c)

-----------------------------------------------------------------------------
(* Each action keeps it.                                                   *)

\* A step leaves the answer of c alone.
Same(c) ==
    /\ ask'[c] = ask[c] /\ phase'[c] = phase[c] /\ gone'[c] = gone[c]
    /\ made'[c] = made[c] /\ ended'[c] = ended[c] /\ heard'[c] = heard[c]
    /\ seq'[c] = seq[c] /\ out'[c] = out[c] /\ aborted'[c] = aborted[c]

Others(c) == \A d \in Calls \ {c} : Same(d)

\* A step of c alone keeps the invariant if it keeps that of c.
Kept(c) == TypeOK' /\ CallInv(c)' /\ Others(c)

LEMMA SameInv ==
    ASSUME NEW c \in Calls, Same(c), CallInv(c)
    PROVE  CallInv(c)'
  <1>1. Waits(c) => Waits(c)'  BY DEF Same, Waits
  <1>2. Works(c) => Works(c)'  BY DEF Same, Works, Follows
  <1>3. WellFormed(c) => WellFormed(c)'  BY DEF Same, WellFormed, Streams
  <1>4. Stands(c) => Stands(c)'  BY <1>3 DEF Same, Stands
  <1>. QED  BY <1>1, <1>2, <1>4 DEF CallInv

LEMMA KeptInv ==
    ASSUME NEW c \in Calls, CallsInv, Kept(c)
    PROVE  TypeOK' /\ CallsInv'
  <1>1. ASSUME NEW d \in Calls PROVE CallInv(d)'
    <2>1. CASE d = c  BY <2>1 DEF Kept
    <2>2. CASE d # c
      <3>1. Same(d) /\ CallInv(d)  BY <2>2 DEF Kept, Others, CallsInv
      <3>. QED  BY <3>1, SameInv
    <2>. QED  BY <2>1, <2>2
  <1>. QED  BY <1>1 DEF Kept, CallsInv

\* The types of one call.
LEMMA TypesOf ==
    ASSUME NEW c \in Calls, TypeOK
    PROVE  /\ ask[c] \in Requests \cup {Nobody} /\ phase[c] \in {"new", "open", "returned"}
           /\ gone[c] \in BOOLEAN /\ aborted[c] \in BOOLEAN
           /\ made[c] \in Seq(Pieces) /\ ended[c] \in Whys
           /\ heard[c].text \in Seq(Pieces) /\ heard[c].why \in {"", "stop", "length"}
           /\ heard[c].usage \in Usages
           /\ seq[c] \in Nat /\ out[c] \in Seq(Events)
  BY DEF TypeOK, Hearings

LEMMA WorkingType ==
    ASSUME NEW c \in Calls, TypeOK, ask[c].endpoint \in Generating
    PROVE  /\ ask[c] \in Requests /\ ask[c].streamed \in BOOLEAN
           /\ ask[c].prompt \in Nat /\ ask[c].cached \in Nat
  <1>1. Nobody.endpoint \notin Generating  BY DEF Nobody, Generating
  <1>2. ask[c] \in Requests  BY <1>1 DEF TypeOK
  <1>. QED  BY <1>2, HttpAssumption

\* An open stream is a beginning of a sentence.
LEMMA WorksWell ==
    ASSUME NEW c \in Calls, TypeOK, Works(c)
    PROVE  WellFormed(c)
  <1>1. phase[c] # "returned"  BY DEF Works
  <1>2. ASSUME Streams(c)
        PROVE  /\ Stage(ask[c].endpoint, out[c]) # "none"
               /\ ask[c].endpoint = "responses" =>
                    \A i \in DOMAIN out[c] :
                      /\ out[c][i].number = i
                      /\ out[c][i].type \in {"text_done", "part_done", "item_done", "completed"}
                           => out[c][i].text = ShownBy(out[c])
    <2>1. Underway(ask[c].endpoint, out[c], heard[c].text, seq[c])
      BY <1>2 DEF Works, Streams
    <2>2. Writing(ask[c].endpoint) # "none"  BY DEF Works, Generating, Writing
    <2>. QED  BY <2>1, <2>2 DEF Underway, Reads, Closers
  <1>. QED  BY <1>1, <1>2 DEF WellFormed

LEMMA InvWell == TypeOK /\ CallsInv => AnswersWellFormed
  <1>. SUFFICES ASSUME TypeOK, CallsInv, NEW c \in Calls PROVE WellFormed(c)
    BY DEF AnswersWellFormed
  <1>1. CASE Waits(c)  BY <1>1 DEF Waits, WellFormed, Streams
  <1>2. CASE Works(c)  BY <1>2, WorksWell
  <1>3. CASE Stands(c)  BY <1>3 DEF Stands
  <1>. QED  BY <1>1, <1>2, <1>3 DEF CallsInv, CallInv

\* A stream that is over is an answer.
LEMMA OverStands ==
    ASSUME NEW c \in Calls, NEW text,
           phase'[c] = "returned", ask'[c].endpoint \in Generating, ask'[c].streamed,
           Over(ask'[c].endpoint, out'[c], text)
    PROVE  Stands(c)'
  <1>1. Streams(c)'  BY DEF Streams, Over
  <1>2. /\ Stage(ask'[c].endpoint, out'[c]) = "end"
        /\ ask'[c].endpoint = "responses" =>
             \A i \in DOMAIN out'[c] :
               /\ out'[c][i].number = i
               /\ out'[c][i].type \in {"text_done", "part_done", "item_done", "completed"}
                    => out'[c][i].text = ShownBy(out'[c])
    BY DEF Over, Reads, Closers
  <1>. QED  BY <1>1, <1>2 DEF Stands, WellFormed

LEMMA AnswerAtOnceKeeps ==
    ASSUME NEW c \in Calls, TypeOK, CallInv(c), AnswerAtOnce(c)
    PROVE  Kept(c)
  <1>1. Waits(c)  BY DEF CallInv, AnswerAtOnce, Waits, Works, Stands
  <1>2. PICK req \in Requests :
          /\ Gate(req) # 0 \/ req.endpoint \notin Generating
          /\ ask' = [ask EXCEPT ![c] = req]
          /\ Return(c, IF Gate(req) # 0 THEN ErrorBody ELSE <<Event("body")>>)
    BY DEF AnswerAtOnce
  <1>. DEFINE e == IF Gate(req) # 0 THEN ErrorBody ELSE <<Event("body")>>
  <1>3. /\ e \in Seq(Events) /\ Len(e) = 1 /\ <<>> \o e = e
        /\ Gate(req) # 0 => e = ErrorBody
    <2>1. Event("body") \in Events  BY EventFields DEF Types
    <2>2. LET s == <<Event("body")>> IN s \in Seq(Events) /\ Len(s) = 1 /\ <<>> \o s = s
      BY <2>1
    <2>. QED  BY <2>2, ErrorBodyFields
  <1>. HIDE DEF e
  <1>4. /\ ask' = [ask EXCEPT ![c] = req]
        /\ phase' = [phase EXCEPT ![c] = "returned"]
        /\ out' = [out EXCEPT ![c] = e]
        /\ UNCHANGED <<gone, made, ended, heard, seq, aborted>>
    BY <1>1, <1>2, <1>3 DEF AnswerAtOnce, Return, Write, e, Waits
  <1>5. TypeOK'
    BY <1>3, <1>4 DEF TypeOK
  <1>6. ask'[c] = req /\ phase'[c] = "returned" /\ out'[c] = e
    BY <1>4 DEF TypeOK
  <1>7. ~ (Streams(c)')
    BY <1>2, <1>3, <1>6 DEF Streams
  <1>8. Stands(c)'
    BY <1>3, <1>6, <1>7 DEF Stands, WellFormed
  <1>9. Others(c)  BY <1>4 DEF Others, Same, TypeOK
  <1>. QED  BY <1>5, <1>8, <1>9 DEF Kept, CallInv

LEMMA NotAdmittedKeeps ==
    ASSUME NEW c \in Calls, TypeOK, CallInv(c), NotAdmitted(c)
    PROVE  Kept(c)
  <1>1. Waits(c)  BY DEF CallInv, NotAdmitted, Waits, Works, Stands
  <1>2. PICK req \in Requests : ask' = [ask EXCEPT ![c] = req]  BY DEF NotAdmitted
  <1>3. ErrorBody \in Seq(Events) /\ Len(ErrorBody) = 1 /\ <<>> \o ErrorBody = ErrorBody
    BY ErrorBodyFields
  <1>4. /\ phase' = [phase EXCEPT ![c] = "returned"]
        /\ out' = [out EXCEPT ![c] = ErrorBody]
        /\ UNCHANGED <<gone, made, ended, heard, seq, aborted>>
    BY <1>1, <1>3 DEF NotAdmitted, Return, Write, Waits
  <1>5. TypeOK'
    BY <1>2, <1>3, <1>4 DEF TypeOK
  <1>6. phase'[c] = "returned" /\ out'[c] = ErrorBody
    BY <1>4 DEF TypeOK
  <1>7. ~ (Streams(c)')  BY <1>6 DEF Streams
  <1>8. Stands(c)'
    BY <1>3, <1>6, <1>7 DEF Stands, WellFormed
  <1>9. Others(c)  BY <1>2, <1>4 DEF Others, Same, TypeOK
  <1>. QED  BY <1>5, <1>8, <1>9 DEF Kept, CallInv

LEMMA BeginKeeps ==
    ASSUME NEW c \in Calls, TypeOK, CallInv(c), Begin(c)
    PROVE  Kept(c)
  <1>1. Waits(c)  BY DEF CallInv, Begin, Waits, Works, Stands
  <1>2. PICK req \in Requests :
          /\ req.endpoint \in Generating
          /\ ask' = [ask EXCEPT ![c] = req]
          /\ Write(c, IF req.streamed THEN Opening(req.endpoint) ELSE <<>>)
          /\ seq' = [seq EXCEPT ![c] = Len(IF req.streamed THEN Opening(req.endpoint) ELSE <<>>)]
    BY DEF Begin
  <1>. DEFINE e == IF req.streamed THEN Opening(req.endpoint) ELSE <<>>
              w == <<>> \o e
              n == Len(e)
  <1>3. req.streamed \in BOOLEAN  BY <1>2, HttpAssumption
  <1>4. /\ w \in Seq(Events) /\ n \in Nat
        /\ req.streamed => Underway(req.endpoint, w, <<>>, n)
        /\ ~req.streamed => w = <<>>
    <2>1. CASE req.streamed
      <3>1. Underway(req.endpoint, w, <<>>, n)  BY <1>2, <2>1, StreamOpens
      <3>. HIDE DEF w, n
      <3>. QED  BY <2>1, <3>1 DEF Underway, Reads
    <2>2. CASE ~req.streamed
      <3>1. e = <<>>  BY <2>2
      <3>. HIDE DEF e
      <3>2. w = <<>> /\ n = 0  BY <3>1
      <3>. HIDE DEF w, n
      <3>3. <<>> \in Seq(Events)  OBVIOUS
      <3>. QED  BY <2>2, <3>2, <3>3
    <2>. QED  BY <1>3, <2>1, <2>2
  <1>5. out' = [out EXCEPT ![c] = w] /\ seq' = [seq EXCEPT ![c] = n]
    <2>1. out[c] = <<>>  BY <1>1 DEF Waits
    <2>2. out' = [out EXCEPT ![c] = @ \o e]  BY <1>2 DEF Write
    <2>. HIDE DEF e
    <2>3. out' = [out EXCEPT ![c] = <<>> \o e]  BY <2>1, <2>2
    <2>4. seq' = [seq EXCEPT ![c] = n]  BY <1>2 DEF e
    <2>. QED  BY <2>3, <2>4
  <1>. HIDE DEF w, n
  <1>6. /\ ask' = [ask EXCEPT ![c] = req]
        /\ phase' = [phase EXCEPT ![c] = "open"]
        /\ UNCHANGED <<gone, made, ended, heard, aborted>>
    BY <1>2 DEF Begin
  <1>7. TypeOK'
    BY <1>4, <1>5, <1>6 DEF TypeOK
  <1>8. /\ ask'[c] = req /\ phase'[c] = "open" /\ out'[c] = w /\ seq'[c] = n
        /\ heard'[c] = Deaf /\ made'[c] = <<>>
    BY <1>1, <1>5, <1>6 DEF TypeOK, Waits
  <1>9. heard'[c].text = <<>> /\ heard'[c].why = ""
    <2>1. Deaf.text = <<>>  BY DEF Deaf
    <2>2. Deaf.why = ""  BY DEF Deaf
    <2>. QED  BY <1>8, <2>1, <2>2
  <1>10. Follows(c)'
    <2>1. Len(<<>>) = 0 /\ SubSeq(<<>>, 1, 0) = <<>>  OBVIOUS
    <2>. DEFINE t == heard'[c].text
                m == made'[c]
    <2>2. t = <<>> /\ m = <<>>  BY <1>8, <1>9
    <2>. HIDE DEF t, m
    <2>3. Len(t) <= Len(m) /\ t = SubSeq(m, 1, Len(t))  BY <2>1, <2>2
    <2>. QED  BY <1>9, <2>3 DEF Follows, t, m
  <1>11. Works(c)'
    BY <1>2, <1>4, <1>8, <1>9, <1>10 DEF Works
  <1>12. Others(c)  BY <1>5, <1>6 DEF Others, Same, TypeOK
  <1>. QED  BY <1>7, <1>11, <1>12 DEF Kept, CallInv

\* The beginning of a text, and of what comes after it.
LEMMA PrefixJoins ==
    ASSUME NEW S, NEW m \in Seq(S), NEW k \in 0..Len(m), NEW n \in 0..Len(m) - k
    PROVE  /\ SubSeq(m, 1, k) \o SubSeq(m, k + 1, k + n) = SubSeq(m, 1, k + n)
           /\ SubSeq(m, k + 1, k + n) \in Seq(S) /\ Len(SubSeq(m, k + 1, k + n)) = n
           /\ SubSeq(m, 1, Len(m)) = m
           /\ SubSeq(m, 1, k + n) \in Seq(S) /\ Len(SubSeq(m, 1, k + n)) = k + n
  <1>1. SubSeq(m, 1, k + n) \in Seq(S) /\ Len(SubSeq(m, 1, k + n)) = k + n  OBVIOUS
  <1>2. SubSeq(m, k + 1, k + n) \in Seq(S) /\ Len(SubSeq(m, k + 1, k + n)) = n  OBVIOUS
  <1>3. SubSeq(m, 1, k) \o SubSeq(m, k + 1, k + n) = SubSeq(m, 1, k + n)  OBVIOUS
  <1>4. SubSeq(m, 1, Len(m)) = m  OBVIOUS
  <1>. QED  BY <1>1, <1>2, <1>3, <1>4

LEMMA PrefixGrows ==
    ASSUME NEW S, NEW m \in Seq(S), NEW k \in 0..Len(m), NEW x \in S
    PROVE  SubSeq(Append(m, x), 1, k) = SubSeq(m, 1, k)
  OBVIOUS

LEMMA Within ==
    \A k, l, q : k \in Nat /\ l \in Nat /\ q = l + 1 /\ k <= l
                   => k \in 0..l /\ k <= q /\ 0 \in 0..l - k
  OBVIOUS

LEMMA GenerateKeeps ==
    ASSUME NEW c \in Calls, TypeOK, CallInv(c), Generate(c)
    PROVE  Kept(c)
  <1>1. Works(c) /\ ended[c] = "" /\ phase[c] = "open"
    BY DEF CallInv, Generate, Runs, Waits, Works, Stands
  <1>2. PICK piece \in Pieces :
          /\ made' = [made EXCEPT ![c] = Append(made[c], piece)]
          /\ \E why \in {"", "stop", "length"} : ended' = [ended EXCEPT ![c] = why]
    BY DEF Generate
  <1>3. PICK why \in {"", "stop", "length"} : ended' = [ended EXCEPT ![c] = why]
    BY <1>2
  <1>4. UNCHANGED <<ask, phase, gone, heard, seq, out, aborted>>  BY DEF Generate
  <1>5. made[c] \in Seq(Pieces) /\ heard[c].text \in Seq(Pieces)  BY TypesOf
  <1>6. TypeOK'
    <2>. DEFINE m == made[c]
    <2>2. m \in Seq(Pieces)  BY <1>5
    <2>. HIDE DEF m
    <2>3. Append(m, piece) \in Seq(Pieces)  BY <2>2, AppendProperties
    <2>1. Append(made[c], piece) \in Seq(Pieces)  BY <2>3 DEF m
    <2>. QED  BY <1>2, <1>3, <1>4, <2>1 DEF TypeOK, Whys
  <1>7. made'[c] = Append(made[c], piece) /\ heard'[c] = heard[c]
    BY <1>2, <1>4 DEF TypeOK
  <1>8. heard[c].why = ""  BY <1>1 DEF Works, Follows
  <1>9. Follows(c)'
    <2>. DEFINE t == heard[c].text
                m == made[c]
    <2>1. m \in Seq(Pieces)  BY <1>5
    <2>5. Len(t) \in Nat  BY <1>5, LenProperties
    <2>6. t = SubSeq(m, 1, Len(t))  BY <1>1 DEF Works, Follows
    <2>8. Len(t) <= Len(m)  BY <1>1 DEF Works, Follows
    <2>. HIDE DEF t, m
    <2>7. Len(m) \in Nat /\ Len(Append(m, piece)) = Len(m) + 1
      BY <2>1, LenProperties, AppendProperties
    <2>2. Len(t) \in 0..Len(m) /\ Len(t) <= Len(Append(m, piece)) /\ 0 \in 0..Len(m) - Len(t)
      <3>. DEFINE k == Len(t)
                  l == Len(m)
                  q == Len(Append(m, piece))
      <3>1. k \in Nat /\ l \in Nat /\ q = l + 1 /\ k <= l  BY <2>5, <2>7, <2>8
      <3>. HIDE DEF k, l, q
      <3>2. k \in 0..l /\ k <= q /\ 0 \in 0..l - k  BY <3>1, Within
      <3>. QED  BY <3>2 DEF k, l, q
    <2>3. SubSeq(Append(m, piece), 1, Len(t)) = SubSeq(m, 1, Len(t))
      BY <2>1, <2>2, PrefixGrows
    <2>. QED  BY <1>7, <1>8, <2>2, <2>3, <2>6 DEF Follows, t, m
  <1>10. Works(c)'  BY <1>1, <1>4, <1>9 DEF Works
  <1>11. Others(c)  BY <1>2, <1>3, <1>4 DEF Others, Same, TypeOK
  <1>. QED  BY <1>6, <1>10, <1>11 DEF Kept, CallInv

LEMMA EndOfTextKeeps ==
    ASSUME NEW c \in Calls, TypeOK, CallInv(c), EndOfText(c)
    PROVE  Kept(c)
  <1>1. Works(c) /\ ended[c] = "" /\ phase[c] = "open"
    BY DEF CallInv, EndOfText, Runs, Waits, Works, Stands
  <1>2. PICK why \in {"stop", "error"} : ended' = [ended EXCEPT ![c] = why]
    BY DEF EndOfText
  <1>3. UNCHANGED <<ask, phase, gone, made, heard, seq, out, aborted>>  BY DEF EndOfText
  <1>4. TypeOK'  BY <1>2, <1>3 DEF TypeOK, Whys
  <1>5. heard[c].why = ""  BY <1>1 DEF Works, Follows
  <1>6. Follows(c)'  BY <1>1, <1>3, <1>5 DEF Works, Follows
  <1>7. Works(c)'  BY <1>1, <1>3, <1>6 DEF Works
  <1>8. Others(c)  BY <1>2, <1>3 DEF Others, Same, TypeOK
  <1>. QED  BY <1>4, <1>7, <1>8 DEF Kept, CallInv

\* What an increment adds to what was received.
Hears(c, n, told) ==
    /\ heard[c].why = ""
    /\ n \in 0..(Len(made[c]) - Len(heard[c].text)) /\ told \in BOOLEAN
    /\ told => /\ ended[c] \in {"stop", "length"}
               /\ Len(heard[c].text) + n = Len(made[c])
    /\ Hear(c, n, told) /\ UNCHANGED <<made, ended>>

LEMMA Hearing ==
    ASSUME NEW c \in Calls, TypeOK, Works(c), NEW n, NEW told, Hears(c, n, told)
    PROVE  /\ heard' \in [Calls -> Hearings]
           /\ heard'[c].text = heard[c].text \o NewText(c, n)
           /\ heard'[c].text = SubSeq(made[c], 1, Len(heard[c].text) + n)
           /\ NewText(c, n) \in Seq(Pieces) /\ Len(NewText(c, n)) = n
           /\ Follows(c)'
           /\ \A d \in Calls \ {c} : heard'[d] = heard[d]
  <1>. DEFINE t == heard[c].text
              m == made[c]
              k == Len(t)
              h == [text  |-> SubSeq(m, 1, k + n),
                    why   |-> IF told THEN ended[c] ELSE heard[c].why,
                    usage |-> IF told THEN UsageAt(c) ELSE heard[c].usage]
  <1>1. /\ m \in Seq(Pieces) /\ t \in Seq(Pieces) /\ heard[c].usage \in Usages
        /\ ask[c].prompt \in Nat /\ ask[c].cached \in Nat
    BY TypesOf, WorkingType DEF Works
  <1>2. k <= Len(m) /\ t = SubSeq(m, 1, k)  BY DEF Works, Follows
  <1>3. heard' = [heard EXCEPT ![c] = h]  BY DEF Hears, Hear
  <1>4. UsageAt(c) \in Usages
    <2>1. Len(m) \in Nat
      BY <1>1, LenProperties
    <2>. DEFINE l == Len(m)
                p == ask[c].prompt
                q == ask[c].cached
    <2>2. UsageAt(c) = [prompt |-> p, completion |-> l, cached |-> q, total |-> p + l]
      BY DEF UsageAt, Usage
    <2>3. p \in Nat /\ q \in Nat /\ l \in Nat /\ p + l \in Nat  BY <1>1, <2>1
    <2>. HIDE DEF l, p, q
    <2>. QED  BY <2>2, <2>3 DEF Usages
  <1>5. k \in 0..Len(m) /\ n \in 0..Len(m) - k /\ k + n \in 0..Len(m) /\ k \in Nat /\ n \in Nat
        /\ Len(m) \in Nat
    <2>. DEFINE l == Len(m)
    <2>1. k \in Nat /\ l \in Nat  BY <1>1, LenProperties
    <2>2. k <= l /\ n \in 0..l - k  BY <1>2 DEF Hears
    <2>. HIDE DEF k, l
    <2>3. /\ k \in 0..l /\ n \in 0..l - k /\ k + n \in 0..l /\ k \in Nat /\ n \in Nat
          /\ l \in Nat
      BY <2>1, <2>2
    <2>. QED  BY <2>3 DEF l
  <1>6. NewText(c, n) = SubSeq(m, k + 1, k + n)  BY DEF NewText
  <1>. DEFINE u == SubSeq(m, 1, k + n)
              v == SubSeq(m, k + 1, k + n)
  <1>7. /\ u \in Seq(Pieces) /\ Len(u) = k + n /\ v \in Seq(Pieces) /\ Len(v) = n
        /\ t \o v = u /\ SubSeq(m, 1, Len(m)) = m
    <2>. HIDE DEF t, m, k
    <2>1. m \in Seq(Pieces) /\ k \in 0..Len(m) /\ n \in 0..Len(m) - k  BY <1>1, <1>5
    <2>2. /\ SubSeq(m, 1, k) \o SubSeq(m, k + 1, k + n) = SubSeq(m, 1, k + n)
          /\ SubSeq(m, k + 1, k + n) \in Seq(Pieces) /\ Len(SubSeq(m, k + 1, k + n)) = n
          /\ SubSeq(m, 1, Len(m)) = m
          /\ SubSeq(m, 1, k + n) \in Seq(Pieces) /\ Len(SubSeq(m, 1, k + n)) = k + n
      BY <2>1, PrefixJoins
    <2>. QED  BY <1>2, <2>2
  <1>8. h \in Hearings
    <2>1. h.why \in {"", "stop", "length"}  BY DEF Hears
    <2>2. h.usage \in Usages  BY <1>1, <1>4
    <2>3. h.text \in Seq(Pieces)  BY <1>7
    <2>4. h = [text |-> h.text, why |-> h.why, usage |-> h.usage]  OBVIOUS
    <2>. HIDE DEF h
    <2>. QED  BY <2>1, <2>2, <2>3, <2>4 DEF Hearings
  <1>9. h.text = u /\ h.why = IF told THEN ended[c] ELSE ""  BY DEF Hears
  <1>. HIDE DEF h
  <1>10. heard' \in [Calls -> Hearings] /\ heard'[c] = h
         /\ \A d \in Calls \ {c} : heard'[d] = heard[d]
    BY <1>3, <1>8 DEF TypeOK
  <1>11. Follows(c)'
    <2>1. heard'[c].text = u /\ made'[c] = m /\ ended'[c] = ended[c]
      BY <1>9, <1>10 DEF Hears
    <2>2. k + n <= Len(m)
      <3>. DEFINE j == k + n
                  l == Len(m)
      <3>1. j \in 0..l  BY <1>5
      <3>2. l \in Nat  BY <1>5
      <3>. HIDE DEF j, l
      <3>3. j <= l  BY <3>1, <3>2
      <3>. QED  BY <3>3 DEF j, l
    <2>3. heard'[c].why # "" => heard'[c].why = ended[c] /\ k + n = Len(m)
      BY <1>9, <1>10 DEF Hears
    <2>. HIDE DEF m, k
    <2>4. Len(u) <= Len(m) /\ u = SubSeq(m, 1, Len(u))  BY <1>7, <2>2
    <2>5. heard'[c].why # "" => u = m  BY <1>7, <2>3
    <2>. QED  BY <2>1, <2>3, <2>4, <2>5 DEF Follows
  <1>. QED  BY <1>6, <1>7, <1>9, <1>10, <1>11

LEMMA ReceiveKeeps ==
    ASSUME NEW c \in Calls, TypeOK, CallInv(c), Receive(c)
    PROVE  Kept(c)
  <1>1. Works(c) /\ heard[c].why = "" /\ phase[c] = "open"
    BY DEF CallInv, Receive, Waits, Works, Stands
  <1>2. PICK n \in 0..(Len(made[c]) - Len(heard[c].text)), told \in BOOLEAN :
          /\ told => /\ ended[c] \in {"stop", "length"}
                     /\ Len(heard[c].text) + n = Len(made[c])
          /\ Hear(c, n, told)
          /\ IF ask[c].streamed /\ NewText(c, n) # <<>>
             THEN /\ Write(c, TextDelta(ask[c].endpoint, seq[c], NewText(c, n)))
                  /\ seq' = [seq EXCEPT ![c] = @ + 1]
             ELSE UNCHANGED <<out, seq>>
    BY DEF Receive
  <1>3. UNCHANGED <<ask, phase, gone, made, ended, aborted>>  BY DEF Receive
  <1>4. /\ heard' \in [Calls -> Hearings]
        /\ heard'[c].text = heard[c].text \o NewText(c, n)
        /\ NewText(c, n) \in Seq(Pieces) /\ Len(NewText(c, n)) = n
        /\ Follows(c)'
        /\ \A d \in Calls \ {c} : heard'[d] = heard[d]
    <2>1. Hears(c, n, told)  BY <1>1, <1>2, <1>3 DEF Hears
    <2>. QED  BY <1>1, <2>1, Hearing
  <1>5. /\ ask[c].endpoint \in Generating /\ ask[c].streamed \in BOOLEAN
        /\ heard[c].text \in Seq(Pieces) /\ seq[c] \in Nat /\ out[c] \in Seq(Events)
    BY <1>1, TypesOf, WorkingType DEF Works
  <1>6. CASE ask[c].streamed /\ NewText(c, n) # <<>>
    <2>. DEFINE w == out[c] \o TextDelta(ask[c].endpoint, seq[c], NewText(c, n))
    <2>1. out' = [out EXCEPT ![c] = w] /\ seq' = [seq EXCEPT ![c] = seq[c] + 1]
      BY <1>2, <1>6 DEF Write
    <2>2. Underway(ask[c].endpoint, out[c], heard[c].text, seq[c])
      BY <1>1, <1>6 DEF Works
    <2>3. Underway(ask[c].endpoint, w, heard[c].text \o NewText(c, n), seq[c] + 1)
      BY <1>4, <1>5, <2>2, DeltaUnderway
    <2>. HIDE DEF w
    <2>4. w \in Seq(Events) /\ seq[c] + 1 \in Nat  BY <2>3 DEF Underway, Reads
    <2>5. TypeOK'  BY <1>3, <1>4, <2>1, <2>4 DEF TypeOK
    <2>6. out'[c] = w /\ seq'[c] = seq[c] + 1  BY <2>1 DEF TypeOK
    <2>7. Works(c)'
      BY <1>1, <1>3, <1>4, <1>6, <2>3, <2>6 DEF Works
    <2>8. Others(c)  BY <1>3, <1>4, <2>1 DEF Others, Same, TypeOK
    <2>. QED  BY <2>5, <2>7, <2>8 DEF Kept, CallInv
  <1>7. CASE ~ (ask[c].streamed /\ NewText(c, n) # <<>>)
    <2>1. UNCHANGED <<out, seq>>  BY <1>2, <1>7
    <2>2. TypeOK'  BY <1>3, <1>4, <2>1 DEF TypeOK
    <2>3. ask[c].streamed => heard'[c].text = heard[c].text
      <3>1. ask[c].streamed => NewText(c, n) = <<>>  BY <1>7
      <3>2. heard[c].text \o <<>> = heard[c].text  BY <1>5, ConcatEmptySeq
      <3>. QED  BY <1>4, <3>1, <3>2
    <2>4. Works(c)'
      BY <1>1, <1>3, <1>4, <2>1, <2>3 DEF Works
    <2>5. Others(c)  BY <1>3, <1>4, <2>1 DEF Others, Same
    <2>. QED  BY <2>2, <2>4, <2>5 DEF Kept, CallInv
  <1>. QED  BY <1>6, <1>7

\* What a handler writes as it returns.
LEMMA Returning ==
    ASSUME NEW c \in Calls, TypeOK, phase[c] = "open", NEW e, Return(c, e),
           out[c] \o e \in Seq(Events), aborted' \in [Calls -> BOOLEAN],
           \A d \in Calls \ {c} : aborted'[d] = aborted[d],
           UNCHANGED <<ask, gone, made, ended, heard, seq>>
    PROVE  TypeOK' /\ Others(c) /\ phase'[c] = "returned" /\ out'[c] = out[c] \o e
  <1>. DEFINE w == out[c] \o e
  <1>1. out' = [out EXCEPT ![c] = w] /\ phase' = [phase EXCEPT ![c] = "returned"]
    BY DEF Return, Write
  <1>2. w \in Seq(Events)  OBVIOUS
  <1>. HIDE DEF w
  <1>3. TypeOK'  BY <1>1, <1>2 DEF TypeOK
  <1>4. Others(c)  BY <1>1 DEF Others, Same, TypeOK
  <1>5. phase'[c] = "returned" /\ out'[c] = w  BY <1>1 DEF TypeOK
  <1>. QED  BY <1>3, <1>4, <1>5 DEF w

\* What an error tells.
LEMMA ReceiveErrorEnds ==
    ASSUME NEW c \in Calls, TypeOK, CallInv(c), ReceiveError(c)
    PROVE  LET w == out[c] \o (IF ask[c].streamed THEN Failing(ask[c].endpoint, seq[c])
                                                 ELSE ErrorBody)
           IN  /\ w \in Seq(Events)
               /\ ShownBy(w) = ShownBy(out[c])
               /\ Verdict(ask[c].endpoint, w, "error") = [kind |-> "failed", why |-> ""]
               /\ ask[c].streamed => Over(ask[c].endpoint, w, heard[c].text)
               /\ ~ask[c].streamed => w = ErrorBody
  <1>. DEFINE endpoint == ask[c].endpoint
              e == IF ask[c].streamed THEN Failing(endpoint, seq[c]) ELSE ErrorBody
              w == out[c] \o e
  <1>1. Works(c)
    BY DEF CallInv, ReceiveError, Waits, Works, Stands
  <1>2. endpoint \in Generating /\ ask[c].streamed \in BOOLEAN
    BY <1>1, WorkingType DEF Works
  <1>3. CASE ask[c].streamed
    <2>1. Underway(endpoint, out[c], heard[c].text, seq[c])  BY <1>1, <1>3 DEF Works
    <2>2. w = out[c] \o Failing(endpoint, seq[c])  BY <1>3
    <2>. DEFINE v == out[c] \o Failing(endpoint, seq[c])
    <2>. HIDE DEF endpoint, e
    <2>3. Over(endpoint, v, heard[c].text)  BY <1>2, <2>1, StreamFails
    <2>4. \A told : Verdict(endpoint, v, told) = [kind |-> "failed", why |-> ""]
      BY <1>2, <2>1, StreamFails
    <2>. HIDE DEF v
    <2>5. v \in Seq(Events) /\ ShownBy(v) = ShownBy(out[c])
      BY <2>1, <2>3 DEF Over, Reads, Underway
    <2>6. w = v  BY <2>2 DEF v
    <2>. HIDE DEF w
    <2>. QED  BY <1>3, <2>3, <2>4, <2>5, <2>6 DEF w, e, endpoint
  <1>4. CASE ~ask[c].streamed
    <2>1. out[c] = <<>>  BY <1>1, <1>4 DEF Works
    <2>2. w = <<>> \o ErrorBody  BY <1>4, <2>1
    <2>3. w = ErrorBody  BY <2>2, ErrorBodyFields
    <2>4. endpoint \in Endpoints  BY <1>2 DEF Endpoints
    <2>5. Verdict(endpoint, ErrorBody, "error") = [kind |-> "failed", why |-> ""]
      BY <1>2, <2>4, VerdictOfError
    <2>6. ShownBy(ErrorBody) = ShownBy(out[c]) /\ ErrorBody \in Seq(Events)
      BY <2>1, ErrorBodyFields, ShownOfNone
    <2>. HIDE DEF w
    <2>. QED  BY <1>4, <2>3, <2>5, <2>6 DEF w
  <1>. QED  BY <1>2, <1>3, <1>4

LEMMA ReceiveErrorKeeps ==
    ASSUME NEW c \in Calls, TypeOK, CallInv(c), ReceiveError(c)
    PROVE  Kept(c)
  <1>. DEFINE e == IF ask[c].streamed THEN Failing(ask[c].endpoint, seq[c]) ELSE ErrorBody
              w == out[c] \o e
  <1>1. Works(c) /\ phase[c] = "open"
    BY DEF CallInv, ReceiveError, Waits, Works, Stands
  <1>2. ask[c].endpoint \in Generating /\ ask[c].streamed \in BOOLEAN
    BY <1>1, WorkingType DEF Works
  <1>3. /\ w \in Seq(Events)
        /\ ask[c].streamed => Over(ask[c].endpoint, w, heard[c].text)
        /\ ~ask[c].streamed => w = ErrorBody
    BY ReceiveErrorEnds
  <1>4. /\ Return(c, e)
        /\ aborted' = [aborted EXCEPT ![c] = ~ask[c].streamed]
        /\ UNCHANGED <<ask, gone, made, ended, heard, seq>>
    BY DEF ReceiveError
  <1>. HIDE DEF e
  <1>5. /\ aborted' \in [Calls -> BOOLEAN]
        /\ \A d \in Calls \ {c} : aborted'[d] = aborted[d]
    BY <1>2, <1>4 DEF TypeOK
  <1>6. TypeOK' /\ Others(c) /\ phase'[c] = "returned" /\ out'[c] = w
    BY <1>1, <1>3, <1>4, <1>5, Returning
  <1>. HIDE DEF w
  <1>7. CASE ask[c].streamed
    <2>1. Stands(c)'  BY <1>2, <1>3, <1>4, <1>6, <1>7, OverStands
    <2>. QED  BY <1>6, <2>1 DEF Kept, CallInv
  <1>8. CASE ~ask[c].streamed
    <2>1. out'[c] = ErrorBody /\ Len(ErrorBody) = 1  BY <1>3, <1>6, <1>8, ErrorBodyFields
    <2>2. ~ (Streams(c)')  BY <2>1 DEF Streams
    <2>3. Stands(c)'  BY <1>6, <2>1, <2>2 DEF Stands, WellFormed
    <2>. QED  BY <1>6, <2>3 DEF Kept, CallInv
  <1>. QED  BY <1>2, <1>7, <1>8

\* What the end of the increments tells.
LEMMA ConcludeEnds ==
    ASSUME NEW c \in Calls, TypeOK, CallInv(c), Conclude(c),
           ask[c].streamed \/ ~gone[c]
    PROVE  LET endpoint == ask[c].endpoint
               w == out[c] \o
                    (IF ask[c].streamed
                     THEN Closing(endpoint, seq[c], heard[c].text, Reason(c), StreamUsage(c))
                     ELSE Body(endpoint, FinalText(c), Reason(c), heard[c].usage))
           IN  /\ w \in Seq(Events)
               /\ ask[c].streamed => ShownBy(w) = ShownBy(out[c])
               /\ ~ask[c].streamed => ShownBy(w) \in {FinalText(c), TrimSpace(FinalText(c))}
               /\ \E said \in {Reason(c), "unsaid"} : \A told :
                    Verdict(endpoint, w, told) = [kind |-> "completed", why |-> said]
               /\ ask[c].streamed => Over(endpoint, w, heard[c].text)
               /\ ~ask[c].streamed => Len(w) = 1
  <1>. DEFINE endpoint == ask[c].endpoint
              text == heard[c].text
              usage == StreamUsage(c)
              why == Reason(c)
              f == FinalText(c)
              told == heard[c].usage
  <1>1. Works(c)
    BY DEF CallInv, Conclude, Waits, Works, Stands
  <1>2. endpoint \in Generating /\ ask[c].streamed \in BOOLEAN
    BY <1>1, WorkingType DEF Works
  <1>3. /\ text \in Seq(Pieces) /\ told \in Usages /\ why \in {"stop", "length"}
        /\ f \in Seq(Pieces)
    <2>1. text \in Seq(Pieces) /\ told \in Usages /\ heard[c].why \in {"", "stop", "length"}
      BY TypesOf
    <2>2. why \in {"stop", "length"}  BY <2>1 DEF Reason
    <2>3. f = <<>> \/ f = text  BY DEF FinalText
    <2>4. <<>> \in Seq(Pieces)  OBVIOUS
    <2>. QED  BY <2>1, <2>2, <2>3, <2>4
  <1>4. usage \in Usages
    <2>1. NoUsage \in Usages  BY DEF NoUsage, Usages
    <2>2. usage \in {NoUsage, told}  BY <1>2 DEF StreamUsage, Generating
    <2>. QED  BY <1>3, <2>1, <2>2
  <1>5. CASE ask[c].streamed
    <2>. DEFINE w == out[c] \o Closing(endpoint, seq[c], text, why, usage)
    <2>1. Underway(endpoint, out[c], text, seq[c])  BY <1>1, <1>5 DEF Works
    <2>. HIDE DEF endpoint, text, usage, why, f, told
    <2>2. Over(endpoint, w, text)  BY <1>2, <1>3, <1>4, <2>1, StreamEnds
    <2>3. \E said \in {why, "unsaid"} : \A t :
             Verdict(endpoint, w, t) = [kind |-> "completed", why |-> said]
      <3>. DEFINE s == out[c]
                  n == seq[c]
      <3>1. Underway(endpoint, s, text, n)  BY <2>1
      <3>. HIDE DEF s, n
      <3>2. Tells(endpoint, s \o Closing(endpoint, n, text, why, usage), why)
        BY <1>2, <1>3, <1>4, <3>1, StreamTells
      <3>. QED  BY <3>2 DEF s, n, Tells
    <2>. HIDE DEF w
    <2>4. w \in Seq(Events) /\ ShownBy(w) = ShownBy(out[c])
      BY <2>1, <2>2 DEF Over, Reads, Underway
    <2>. QED  BY <1>5, <2>2, <2>3, <2>4 DEF w, endpoint, text, usage, why, f, told
  <1>6. CASE ~ask[c].streamed
    <2>. DEFINE w == <<>> \o Body(endpoint, f, why, told)
    <2>1. out[c] = <<>>  BY <1>1, <1>6 DEF Works
    <2>. HIDE DEF endpoint, text, usage, why, f, told
    <2>2. /\ w \in Seq(Events) /\ Len(w) = 1 /\ ShownBy(w) \in {f, TrimSpace(f)}
      BY <1>2, <1>3, <1>4, BodyStands
    <2>3. \E said \in {why, "unsaid"} : \A t :
             Verdict(endpoint, w, t) = [kind |-> "completed", why |-> said]
      BY <1>2, <1>3, <1>4, BodyStands
    <2>4. w = out[c] \o Body(endpoint, f, why, told)  BY <2>1
    <2>. HIDE DEF w
    <2>. QED  BY <1>6, <2>2, <2>3, <2>4 DEF endpoint, text, usage, why, f, told
  <1>. QED  BY <1>2, <1>5, <1>6

LEMMA ConcludeKeeps ==
    ASSUME NEW c \in Calls, TypeOK, CallInv(c), Conclude(c)
    PROVE  Kept(c)
  <1>. DEFINE endpoint == ask[c].endpoint
              leave == ~ask[c].streamed /\ gone[c]
              e == IF ask[c].streamed
                   THEN Closing(endpoint, seq[c], heard[c].text, Reason(c), StreamUsage(c))
                   ELSE Body(endpoint, FinalText(c), Reason(c), heard[c].usage)
              w == out[c] \o e
  <1>1. Works(c) /\ phase[c] = "open"
    BY DEF CallInv, Conclude, Waits, Works, Stands
  <1>2. endpoint \in Generating /\ ask[c].streamed \in BOOLEAN /\ gone[c] \in BOOLEAN
    BY <1>1, WorkingType DEF Works, TypeOK
  <1>3. /\ aborted' = [aborted EXCEPT ![c] = leave]
        /\ UNCHANGED <<ask, gone, made, ended, heard, seq>>
    BY DEF Conclude
  <1>4. /\ aborted' \in [Calls -> BOOLEAN] /\ aborted'[c] = leave
        /\ \A d \in Calls \ {c} : aborted'[d] = aborted[d]
    BY <1>2, <1>3 DEF TypeOK
  <1>5. CASE leave
    <2>1. Return(c, <<>>)  BY <1>5 DEF Conclude
    <2>2. out[c] = <<>>  BY <1>1, <1>5 DEF Works
    <2>3. out[c] \o <<>> \in Seq(Events)
      <3>1. <<>> \o <<>> = <<>> /\ <<>> \in Seq(Events)  OBVIOUS
      <3>. QED  BY <2>2, <3>1
    <2>4. TypeOK' /\ Others(c) /\ phase'[c] = "returned"
      BY <1>1, <1>3, <1>4, <2>1, <2>3, Returning
    <2>5. ~ (Streams(c)')  BY <1>3, <1>5 DEF Streams
    <2>6. Stands(c)'
      BY <1>3, <1>4, <1>5, <2>4, <2>5 DEF Stands, WellFormed
    <2>. QED  BY <2>4, <2>6 DEF Kept, CallInv
  <1>6. CASE ~leave
    <2>1. Return(c, e)  BY <1>6 DEF Conclude
    <2>2. /\ w \in Seq(Events)
          /\ ask[c].streamed => Over(endpoint, w, heard[c].text)
          /\ ~ask[c].streamed => Len(w) = 1
      BY <1>2, <1>6, ConcludeEnds
    <2>. HIDE DEF e, leave
    <2>3. TypeOK' /\ Others(c) /\ phase'[c] = "returned" /\ out'[c] = w
      BY <1>1, <1>3, <1>4, <2>1, <2>2, Returning
    <2>. HIDE DEF w
    <2>4. CASE ask[c].streamed
      <3>1. Stands(c)'  BY <1>2, <1>3, <2>2, <2>3, <2>4, OverStands
      <3>. QED  BY <2>3, <3>1 DEF Kept, CallInv
    <2>5. CASE ~ask[c].streamed
      <3>1. ~ (Streams(c)')  BY <1>3, <2>5 DEF Streams
      <3>2. Stands(c)'  BY <2>2, <2>3, <2>5, <3>1 DEF Stands, WellFormed
      <3>. QED  BY <2>3, <3>2 DEF Kept, CallInv
    <2>. QED  BY <1>2, <2>4, <2>5
  <1>. QED  BY <1>2, <1>5, <1>6

LEMMA HangUpKeeps ==
    ASSUME NEW c \in Calls, TypeOK, CallInv(c), HangUp(c)
    PROVE  Kept(c)
  <1>1. Works(c) /\ phase[c] = "open" /\ gone[c]
    BY DEF CallInv, HangUp, Waits, Works, Stands
  <1>2. /\ Return(c, <<>>) /\ aborted' = [aborted EXCEPT ![c] = TRUE]
        /\ UNCHANGED <<ask, gone, made, ended, heard, seq>>
    BY DEF HangUp
  <1>3. out[c] \in Seq(Events) /\ out[c] \o <<>> = out[c]
    <2>1. out[c] \in Seq(Events)  BY TypesOf
    <2>. QED  BY <2>1, ConcatEmptySeq
  <1>4. /\ aborted' \in [Calls -> BOOLEAN] /\ aborted'[c] = TRUE
        /\ \A d \in Calls \ {c} : aborted'[d] = aborted[d]
    BY <1>2 DEF TypeOK
  <1>5. TypeOK' /\ Others(c) /\ phase'[c] = "returned" /\ out'[c] = out[c]
    BY <1>1, <1>2, <1>3, <1>4, Returning
  <1>6. WellFormed(c)  BY <1>1, WorksWell
  <1>7. Streams(c)' => Streams(c)
    BY <1>1, <1>2, <1>5 DEF Streams
  <1>8. WellFormed(c)'
    BY <1>1, <1>2, <1>4, <1>5, <1>6, <1>7 DEF WellFormed
  <1>. QED  BY <1>5, <1>8 DEF Kept, CallInv, Stands

LEMMA ClientLeavesKeeps ==
    ASSUME NEW c \in Calls, TypeOK, CallInv(c), ClientLeaves(c)
    PROVE  Kept(c)
  <1>1. Works(c)  BY DEF CallInv, ClientLeaves, Waits, Works, Stands
  <1>2. /\ gone' = [gone EXCEPT ![c] = TRUE]
        /\ UNCHANGED <<ask, phase, made, ended, heard, seq, out, aborted>>
    BY DEF ClientLeaves
  <1>3. TypeOK'  BY <1>2 DEF TypeOK
  <1>4. Works(c)'  BY <1>1, <1>2 DEF Works, Follows
  <1>5. Others(c)  BY <1>2 DEF Others, Same, TypeOK
  <1>. QED  BY <1>3, <1>4, <1>5 DEF Kept, CallInv

-----------------------------------------------------------------------------
(* Every answer is well formed.                                            *)

LEMMA UnchangedKeeps ==
    ASSUME TypeOK, CallsInv, UNCHANGED callVars
    PROVE  TypeOK' /\ CallsInv'
  <1>1. TypeOK'  BY DEF TypeOK, callVars
  <1>2. ASSUME NEW c \in Calls PROVE CallInv(c)'
    <2>1. Same(c)  BY DEF Same, callVars
    <2>. QED  BY <2>1, SameInv DEF CallsInv
  <1>. QED  BY <1>1, <1>2 DEF CallsInv

LEMMA InitInv == HttpInit => TypeOK /\ CallsInv
  <1>. SUFFICES ASSUME HttpInit PROVE TypeOK /\ CallsInv
    OBVIOUS
  <1>1. TypeOK
    <2>1. Deaf \in Hearings
      <3>. DEFINE none == <<>>
      <3>1. none \in Seq(Pieces) /\ NoUsage \in Usages  BY DEF NoUsage, Usages
      <3>2. Deaf = [text |-> none, why |-> "", usage |-> NoUsage]  BY DEF Deaf
      <3>. HIDE DEF none
      <3>. QED  BY <3>1, <3>2 DEF Hearings
    <2>2. <<>> \in Seq(Pieces) /\ <<>> \in Seq(Events)  OBVIOUS
    <2>. QED  BY <2>1, <2>2 DEF HttpInit, TypeOK, Whys
  <1>2. \A c \in Calls : Waits(c)  BY DEF HttpInit, Waits
  <1>. QED  BY <1>1, <1>2 DEF CallsInv, CallInv

LEMMA NextInv == TypeOK /\ CallsInv /\ [HttpNext]_httpVars => TypeOK' /\ CallsInv'
  <1>. SUFFICES ASSUME TypeOK, CallsInv, [HttpNext]_httpVars PROVE TypeOK' /\ CallsInv'
    OBVIOUS
  <1>1. CASE UNCHANGED callVars  BY <1>1, UnchangedKeeps
  <1>2. CASE Cancel \/ EngineStops \/ Shutdown \/ Stopped
    <2>1. UNCHANGED callVars  BY <1>2 DEF Cancel, EngineStops, Shutdown, Stopped
    <2>. QED  BY <2>1, UnchangedKeeps
  <1>3. ASSUME NEW c \in Calls,
               \/ AnswerAtOnce(c) \/ NotAdmitted(c) \/ Begin(c)
               \/ Generate(c) \/ EndOfText(c)
               \/ Receive(c) \/ ReceiveError(c) \/ Conclude(c) \/ HangUp(c)
               \/ ClientLeaves(c)
        PROVE  TypeOK' /\ CallsInv'
    <2>1. CallInv(c)  BY DEF CallsInv
    <2>2. Kept(c)
      BY <1>3, <2>1, AnswerAtOnceKeeps, NotAdmittedKeeps, BeginKeeps, GenerateKeeps,
         EndOfTextKeeps, ReceiveKeeps, ReceiveErrorKeeps, ConcludeKeeps, HangUpKeeps,
         ClientLeavesKeeps
    <2>. QED  BY <2>2, KeptInv
  <1>. QED  BY <1>1, <1>2, <1>3 DEF HttpNext, httpVars

\* Every answer of routes/*.go is a sentence of its API's language, opened and
\* closed once, however requests, the engine, leaving clients and the shutdown of
\* the server interleave.
THEOREM AnswersAreWellFormed == HttpSpec => []AnswersWellFormed
  <1>1. HttpInit => TypeOK /\ CallsInv  BY InitInv
  <1>2. TypeOK /\ CallsInv /\ [HttpNext]_httpVars => TypeOK' /\ CallsInv'  BY NextInv
  <1>3. TypeOK /\ CallsInv => AnswersWellFormed  BY InvWell
  <1>. QED  BY <1>1, <1>2, <1>3, PTL DEF HttpSpec

-----------------------------------------------------------------------------
(* Every answer keeps the promise of HttpAnswer.                           *)

None == [kind |-> "none", why |-> ""]

\* What an answer says while it is not given.
Readings ==
    \A c \in Calls :
        /\ Waits(c) => VerdictOf(c) = None /\ Told(c) = "" /\ Seen(c) = <<>>
        /\ Works(c) => /\ VerdictOf(c) = None /\ Told(c) = ended[c]
                       /\ ask[c].streamed => Seen(c) = heard[c].text
                       /\ ~ask[c].streamed => Seen(c) = <<>>

LEMMA HaveReadings == TypeOK => Readings
  <1>. SUFFICES ASSUME TypeOK, NEW c \in Calls
                PROVE  /\ Waits(c) => VerdictOf(c) = None /\ Told(c) = "" /\ Seen(c) = <<>>
                       /\ Works(c) => /\ VerdictOf(c) = None /\ Told(c) = ended[c]
                                      /\ ask[c].streamed => Seen(c) = heard[c].text
                                      /\ ~ask[c].streamed => Seen(c) = <<>>
    BY DEF Readings
  <1>1. ASSUME Waits(c) PROVE VerdictOf(c) = None /\ Told(c) = "" /\ Seen(c) = <<>>
    <2>1. ask[c].endpoint = "none" /\ ended[c] = ""
      <3>1. ask[c] = Nobody /\ ended[c] = ""  BY <1>1 DEF Waits
      <3>2. Nobody.endpoint = "none"  BY DEF Nobody
      <3>. QED  BY <3>1, <3>2
    <2>2. VerdictOf(c) = None  BY <2>1 DEF VerdictOf, Verdict, None
    <2>3. Told(c) = ""
      <3>1. VerdictOf(c).kind # "direct"
        <4>1. None.kind = "none"  BY DEF None
        <4>. QED  BY <2>2, <4>1
      <3>. QED  BY <2>1, <3>1 DEF Told
    <2>4. Seen(c) = <<>>  BY <2>1 DEF Seen, Generating
    <2>. QED  BY <2>2, <2>3, <2>4
  <1>2. ASSUME Works(c)
        PROVE  /\ VerdictOf(c) = None /\ Told(c) = ended[c]
               /\ ask[c].streamed => Seen(c) = heard[c].text
               /\ ~ask[c].streamed => Seen(c) = <<>>
    <2>1. ask[c].endpoint \in Generating /\ ask[c].streamed \in BOOLEAN
      BY <1>2, WorkingType DEF Works
    <2>2. ask[c].streamed => VerdictOf(c) = None /\ Seen(c) = heard[c].text
      <3>. SUFFICES ASSUME ask[c].streamed
                    PROVE  VerdictOf(c) = None /\ Seen(c) = heard[c].text
        OBVIOUS
      <3>1. Underway(ask[c].endpoint, out[c], heard[c].text, seq[c])  BY <1>2 DEF Works
      <3>2. VerdictOf(c) = None  BY <2>1, <3>1, UnderwayIsOpen DEF VerdictOf, None
      <3>3. Seen(c) = heard[c].text  BY <2>1, <3>1 DEF Seen, Underway, Reads
      <3>. QED  BY <3>2, <3>3
    <2>3. ~ask[c].streamed => VerdictOf(c) = None /\ Seen(c) = <<>>
      <3>. SUFFICES ASSUME ~ask[c].streamed PROVE VerdictOf(c) = None /\ Seen(c) = <<>>
        OBVIOUS
      <3>1. out[c] = <<>>  BY <1>2 DEF Works
      <3>2. ask[c].endpoint # "none"  BY <2>1 DEF Generating
      <3>3. VerdictOf(c) = None  BY <2>1, <3>1, <3>2 DEF VerdictOf, Verdict, None
      <3>4. Seen(c) = <<>>  BY <3>1, ShownOfNone DEF Seen
      <3>. QED  BY <3>3, <3>4
    <2>4. VerdictOf(c) = None  BY <2>1, <2>2, <2>3
    <2>5. Told(c) = ended[c]
      <3>1. VerdictOf(c).kind # "direct"
        <4>1. None.kind = "none"  BY DEF None
        <4>. QED  BY <2>4, <4>1
      <3>. QED  BY <3>1 DEF Told
    <2>. QED  BY <2>2, <2>3, <2>4, <2>5
  <1>. QED  BY <1>1, <1>2

LEMMA ReadingsNext == TypeOK' => Readings'
  BY HaveReadings, PTL

\* The maps of the refinement, and how a step of c changes them.
ToldMap == [c \in Calls |-> Told(c)]
SeenMap == [c \in Calls |-> Seen(c)]
VerdictMap == [c \in Calls |-> VerdictOf(c)]

LEMMA MapStep ==
    ASSUME NEW c \in Calls, Others(c)
    PROVE  /\ ToldMap' = [ToldMap EXCEPT ![c] = Told(c)']
           /\ SeenMap' = [SeenMap EXCEPT ![c] = Seen(c)']
           /\ VerdictMap' = [VerdictMap EXCEPT ![c] = VerdictOf(c)']
           /\ ToldMap[c] = Told(c) /\ SeenMap[c] = Seen(c) /\ VerdictMap[c] = VerdictOf(c)
  <1>1. ASSUME NEW d \in Calls, d # c
        PROVE  Told(d)' = Told(d) /\ Seen(d)' = Seen(d) /\ VerdictOf(d)' = VerdictOf(d)
    <2>1. Same(d)  BY <1>1 DEF Others
    <2>2. VerdictOf(d)' = VerdictOf(d)  BY <2>1 DEF Same, VerdictOf
    <2>3. Seen(d)' = Seen(d)  BY <2>1 DEF Same, Seen
    <2>4. Told(d)' = Told(d)  BY <2>1, <2>2 DEF Same, Told
    <2>. QED  BY <2>2, <2>3, <2>4
  <1>2. ToldMap' = [ToldMap EXCEPT ![c] = Told(c)']  BY <1>1 DEF ToldMap
  <1>3. SeenMap' = [SeenMap EXCEPT ![c] = Seen(c)']  BY <1>1 DEF SeenMap
  <1>4. VerdictMap' = [VerdictMap EXCEPT ![c] = VerdictOf(c)']  BY <1>1 DEF VerdictMap
  <1>5. ToldMap[c] = Told(c) /\ SeenMap[c] = Seen(c) /\ VerdictMap[c] = VerdictOf(c)
    BY DEF ToldMap, SeenMap, VerdictMap
  <1>. QED  BY <1>2, <1>3, <1>4, <1>5

LEMMA MapKept ==
    ASSUME NEW c \in Calls, Others(c)
    PROVE  /\ Told(c)' = Told(c) => ToldMap' = ToldMap
           /\ Seen(c)' = Seen(c) => SeenMap' = SeenMap
           /\ VerdictOf(c)' = VerdictOf(c) => VerdictMap' = VerdictMap
  <1>1. /\ [ToldMap EXCEPT ![c] = Told(c)] = ToldMap
        /\ [SeenMap EXCEPT ![c] = Seen(c)] = SeenMap
        /\ [VerdictMap EXCEPT ![c] = VerdictOf(c)] = VerdictMap
    BY DEF ToldMap, SeenMap, VerdictMap
  <1>. QED  BY <1>1, MapStep

\* A step the client does not see.
LEMMA Stutters ==
    ASSUME NEW c \in Calls, Others(c), made' = made, engine' = engine,
           Told(c)' = Told(c), Seen(c)' = Seen(c), VerdictOf(c)' = VerdictOf(c)
    PROVE  UNCHANGED Answer!answerVars
  <1>1. ToldMap' = ToldMap /\ SeenMap' = SeenMap /\ VerdictMap' = VerdictMap  BY MapKept
  <1>. QED  BY <1>1 DEF Answer!answerVars, ToldMap, SeenMap, VerdictMap

\* A request that nothing is generated for is answered directly.
LEMMA DirectStep ==
    ASSUME NEW c \in Calls, Others(c), made' = made, engine' = engine,
           made[c] = <<>>, VerdictOf(c) = None, Told(c) = "", Seen(c)' = Seen(c),
           Told(c)' = "direct", VerdictOf(c)' = [kind |-> "direct", why |-> ""]
    PROVE  Answer!Direct(c)
  <1>1. /\ ToldMap' = [ToldMap EXCEPT ![c] = "direct"] /\ ToldMap[c] = ""
        /\ SeenMap' = SeenMap
        /\ VerdictMap' = [VerdictMap EXCEPT ![c] = [kind |-> "direct", why |-> ""]]
        /\ VerdictMap[c] = None
    BY MapStep, MapKept
  <1>. QED
    BY <1>1 DEF Answer!Direct, Answer!Open, Answer!Said, ToldMap, SeenMap, VerdictMap, None

LEMMA AnswerAtOnceMaps ==
    ASSUME NEW c \in Calls, TypeOK, CallInv(c), Readings, AnswerAtOnce(c)
    PROVE  Answer!Direct(c)
  <1>1. Waits(c)  BY DEF CallInv, AnswerAtOnce, Waits, Works, Stands
  <1>2. PICK req \in Requests :
          /\ Gate(req) # 0 \/ req.endpoint \notin Generating
          /\ ask' = [ask EXCEPT ![c] = req]
          /\ Return(c, IF Gate(req) # 0 THEN ErrorBody ELSE <<Event("body")>>)
    BY DEF AnswerAtOnce
  <1>. DEFINE e == IF Gate(req) # 0 THEN ErrorBody ELSE <<Event("body")>>
  <1>3. Kept(c)  BY AnswerAtOnceKeeps
  <1>4. ask'[c] = req /\ made' = made /\ ended' = ended /\ engine' = engine
    BY <1>2 DEF AnswerAtOnce, TypeOK, serverVars
  <1>5. made[c] = <<>> /\ ended[c] = "" /\ out[c] = <<>>  BY <1>1 DEF Waits
  <1>6. req.endpoint \in Generating => out'[c] = ErrorBody
    <2>. SUFFICES ASSUME req.endpoint \in Generating PROVE out'[c] = ErrorBody
      OBVIOUS
    <2>1. e = ErrorBody  BY <1>2
    <2>2. out' = [out EXCEPT ![c] = @ \o e]  BY <1>2 DEF Return, Write
    <2>3. out' = [out EXCEPT ![c] = <<>> \o ErrorBody]  BY <1>5, <2>1, <2>2
    <2>. QED  BY <2>3, ErrorBodyFields DEF TypeOK
  <1>7. req.endpoint \in Endpoints  BY HttpAssumption
  <1>8. VerdictOf(c)' = [kind |-> "direct", why |-> ""]
    <2>1. CASE req.endpoint \in Generating
      BY <1>4, <1>5, <1>6, <1>7, <2>1, VerdictOfError DEF VerdictOf
    <2>2. CASE req.endpoint \notin Generating
      <3>1. req.endpoint # "none"  BY <1>7 DEF Endpoints, Generating, Validated, Listing
      <3>. QED  BY <1>4, <2>2, <3>1 DEF VerdictOf, Verdict
    <2>. QED  BY <2>1, <2>2
  <1>9. Told(c)' = "direct"
    <2>1. (VerdictOf(c).kind)' = "direct"
      <3>. DEFINE d == [kind |-> "direct", why |-> ""]
      <3>1. d.kind = "direct"  OBVIOUS
      <3>2. VerdictOf(c)' = d  BY <1>8
      <3>. HIDE DEF d
      <3>. QED  BY <3>1, <3>2
    <2>2. ended'[c] = ""  BY <1>4, <1>5
    <2>. QED  BY <2>1, <2>2 DEF Told
  <1>10. Seen(c)' = <<>>
    BY <1>4, <1>6, ErrorBodyFields DEF Seen
  <1>11. VerdictOf(c) = None /\ Told(c) = "" /\ Seen(c) = <<>>  BY <1>1 DEF Readings
  <1>. QED  BY <1>3, <1>4, <1>5, <1>8, <1>9, <1>10, <1>11, DirectStep DEF Kept

LEMMA NotAdmittedMaps ==
    ASSUME NEW c \in Calls, TypeOK, CallInv(c), Readings, NotAdmitted(c)
    PROVE  Answer!Direct(c)
  <1>1. Waits(c)  BY DEF CallInv, NotAdmitted, Waits, Works, Stands
  <1>2. PICK req \in Requests : req.endpoint \in Generating /\ ask' = [ask EXCEPT ![c] = req]
    BY DEF NotAdmitted
  <1>3. Kept(c)  BY NotAdmittedKeeps
  <1>4. ask'[c] = req /\ made' = made /\ ended' = ended /\ engine' = engine
    BY <1>2 DEF NotAdmitted, TypeOK, serverVars
  <1>5. made[c] = <<>> /\ ended[c] = "" /\ out[c] = <<>>  BY <1>1 DEF Waits
  <1>6. out'[c] = ErrorBody
    <2>1. out' = [out EXCEPT ![c] = <<>> \o ErrorBody]
      BY <1>5 DEF NotAdmitted, Return, Write
    <2>. QED  BY <2>1, ErrorBodyFields DEF TypeOK
  <1>7. req.endpoint \in Endpoints  BY HttpAssumption
  <1>8. VerdictOf(c)' = [kind |-> "direct", why |-> ""]
    BY <1>2, <1>4, <1>5, <1>6, <1>7, VerdictOfError DEF VerdictOf
  <1>9. Told(c)' = "direct"
    <2>1. (VerdictOf(c).kind)' = "direct"
      <3>. DEFINE d == [kind |-> "direct", why |-> ""]
      <3>1. d.kind = "direct"  OBVIOUS
      <3>2. VerdictOf(c)' = d  BY <1>8
      <3>. HIDE DEF d
      <3>. QED  BY <3>1, <3>2
    <2>2. ended'[c] = ""  BY <1>4, <1>5
    <2>. QED  BY <2>1, <2>2 DEF Told
  <1>10. Seen(c)' = <<>>  BY <1>4, <1>6, ErrorBodyFields DEF Seen
  <1>11. VerdictOf(c) = None /\ Told(c) = "" /\ Seen(c) = <<>>  BY <1>1 DEF Readings
  <1>. QED  BY <1>3, <1>4, <1>5, <1>8, <1>9, <1>10, <1>11, DirectStep DEF Kept

LEMMA BeginMaps ==
    ASSUME NEW c \in Calls, TypeOK, CallInv(c), Readings, Begin(c)
    PROVE  UNCHANGED Answer!answerVars
  <1>1. Waits(c)  BY DEF CallInv, Begin, Waits, Works, Stands
  <1>2. Kept(c)  BY BeginKeeps
  <1>3. Readings'  BY <1>2, ReadingsNext DEF Kept
  <1>4. /\ made' = made /\ ended' = ended /\ heard' = heard /\ engine' = engine
        /\ phase'[c] = "open"
    BY DEF Begin, TypeOK, serverVars
  <1>5. Works(c)'  BY <1>2, <1>4 DEF Kept, CallInv, Waits, Stands
  <1>6. heard[c].text = <<>> /\ ended[c] = ""
    <2>1. heard[c] = Deaf /\ ended[c] = ""  BY <1>1 DEF Waits
    <2>2. Deaf.text = <<>>  BY DEF Deaf
    <2>. QED  BY <2>1, <2>2
  <1>7. VerdictOf(c) = None /\ Told(c) = "" /\ Seen(c) = <<>>  BY <1>1 DEF Readings
  <1>8. ask'[c].streamed \in BOOLEAN
    <2>1. PICK req \in Requests : req.endpoint \in Generating /\ ask' = [ask EXCEPT ![c] = req]
      BY DEF Begin
    <2>. QED  BY <2>1, HttpAssumption DEF TypeOK
  <1>9. VerdictOf(c)' = None /\ Told(c)' = "" /\ Seen(c)' = <<>>
    <2>1. VerdictOf(c)' = None /\ Told(c)' = ended'[c]
          /\ (ask'[c].streamed => Seen(c)' = heard'[c].text)
          /\ (~ask'[c].streamed => Seen(c)' = <<>>)
      BY <1>3, <1>5 DEF Readings
    <2>. QED  BY <1>4, <1>6, <1>8, <2>1
  <1>. QED  BY <1>2, <1>4, <1>7, <1>9, Stutters DEF Kept

LEMMA GenerateMaps ==
    ASSUME NEW c \in Calls, TypeOK, CallInv(c), Readings, Generate(c)
    PROVE  Answer!Make(c) \/ Answer!End(c)
  <1>1. Works(c) /\ ended[c] = ""
    BY DEF CallInv, Generate, Runs, Waits, Works, Stands
  <1>2. Kept(c)  BY GenerateKeeps
  <1>3. Readings'  BY <1>2, ReadingsNext DEF Kept
  <1>4. PICK piece \in Pieces :
          /\ made' = [made EXCEPT ![c] = Append(made[c], piece)]
          /\ \E why \in {"", "stop", "length"} : ended' = [ended EXCEPT ![c] = why]
    BY DEF Generate
  <1>5. PICK why \in {"", "stop", "length"} : ended' = [ended EXCEPT ![c] = why]
    BY <1>4
  <1>6. UNCHANGED <<engine, ask, phase, heard, out>>  BY DEF Generate, serverVars
  <1>7. phase'[c] = "open" /\ ended'[c] = why
    BY <1>1, <1>5, <1>6 DEF Works, TypeOK
  <1>8. Works(c)'  BY <1>2, <1>7 DEF Kept, CallInv, Waits, Stands
  <1>9. VerdictOf(c) = None /\ Told(c) = ""  BY <1>1 DEF Readings
  <1>10. VerdictOf(c)' = None /\ Told(c)' = why  BY <1>3, <1>7, <1>8 DEF Readings
  <1>11. Seen(c)' = Seen(c)  BY <1>6 DEF Seen
  <1>12. /\ ToldMap' = [ToldMap EXCEPT ![c] = why] /\ ToldMap[c] = ""
         /\ SeenMap' = SeenMap /\ VerdictMap' = VerdictMap
    BY <1>2, <1>9, <1>10, <1>11, MapStep, MapKept DEF Kept
  <1>13. CASE why = ""
    <2>1. ToldMap' = ToldMap  BY <1>2, <1>9, <1>10, <1>13, MapKept DEF Kept
    <2>. QED
      BY <1>4, <1>6, <1>12, <2>1 DEF Answer!Make, ToldMap, SeenMap, VerdictMap
  <1>14. CASE why # ""
    <2>1. why \in {"stop", "length", "error"}  BY <1>14
    <2>. QED
      BY <1>4, <1>6, <1>12, <2>1 DEF Answer!End, ToldMap, SeenMap, VerdictMap
  <1>. QED  BY <1>13, <1>14

LEMMA EndOfTextMaps ==
    ASSUME NEW c \in Calls, TypeOK, CallInv(c), Readings, EndOfText(c)
    PROVE  Answer!End(c)
  <1>1. Works(c) /\ ended[c] = ""
    BY DEF CallInv, EndOfText, Runs, Waits, Works, Stands
  <1>2. Kept(c)  BY EndOfTextKeeps
  <1>3. Readings'  BY <1>2, ReadingsNext DEF Kept
  <1>4. PICK why \in {"stop", "error"} : ended' = [ended EXCEPT ![c] = why]
    BY DEF EndOfText
  <1>5. UNCHANGED <<engine, ask, phase, made, heard, out>>  BY DEF EndOfText, serverVars
  <1>6. phase'[c] = "open" /\ ended'[c] = why
    BY <1>1, <1>4, <1>5 DEF Works, TypeOK
  <1>7. Works(c)'  BY <1>2, <1>6 DEF Kept, CallInv, Waits, Stands
  <1>8. VerdictOf(c) = None /\ Told(c) = ""  BY <1>1 DEF Readings
  <1>9. VerdictOf(c)' = None /\ Told(c)' = why  BY <1>3, <1>6, <1>7 DEF Readings
  <1>10. Seen(c)' = Seen(c)  BY <1>5 DEF Seen
  <1>11. /\ ToldMap' = [ToldMap EXCEPT ![c] = why] /\ ToldMap[c] = ""
         /\ SeenMap' = SeenMap /\ VerdictMap' = VerdictMap
    BY <1>2, <1>8, <1>9, <1>10, MapStep, MapKept DEF Kept
  <1>12. why \in {"stop", "length", "error"}  OBVIOUS
  <1>. QED
    BY <1>5, <1>11, <1>12 DEF Answer!End, ToldMap, SeenMap, VerdictMap

LEMMA ReceiveMaps ==
    ASSUME NEW c \in Calls, TypeOK, CallInv(c), Readings, Receive(c)
    PROVE  Answer!Show(c) \/ UNCHANGED Answer!answerVars
  <1>1. Works(c) /\ heard[c].why = ""
    BY DEF CallInv, Receive, Waits, Works, Stands
  <1>2. Kept(c)  BY ReceiveKeeps
  <1>3. Readings'  BY <1>2, ReadingsNext DEF Kept
  <1>4. PICK n \in 0..(Len(made[c]) - Len(heard[c].text)), told \in BOOLEAN :
          /\ told => /\ ended[c] \in {"stop", "length"}
                     /\ Len(heard[c].text) + n = Len(made[c])
          /\ Hear(c, n, told)
    BY DEF Receive
  <1>5. UNCHANGED <<engine, ask, phase, made, ended>>  BY DEF Receive, serverVars
  <1>6. /\ heard'[c].text = heard[c].text \o NewText(c, n)
        /\ heard'[c].text = SubSeq(made[c], 1, Len(heard[c].text) + n)
        /\ Len(NewText(c, n)) = n
    <2>1. Hears(c, n, told)  BY <1>1, <1>4, <1>5 DEF Hears
    <2>. QED  BY <1>1, <2>1, Hearing
  <1>7. Works(c)'
    <2>1. phase'[c] = "open"  BY <1>1, <1>5 DEF Works
    <2>. QED  BY <1>2, <2>1 DEF Kept, CallInv, Waits, Stands
  <1>8. /\ VerdictOf(c) = None /\ Told(c) = ended[c]
        /\ ask[c].streamed => Seen(c) = heard[c].text
        /\ ~ask[c].streamed => Seen(c) = <<>>
    BY <1>1 DEF Readings
  <1>9. /\ VerdictOf(c)' = None /\ Told(c)' = ended'[c]
        /\ ask[c].streamed => Seen(c)' = heard'[c].text
        /\ ~ask[c].streamed => Seen(c)' = <<>>
    BY <1>3, <1>5, <1>7 DEF Readings
  <1>10. /\ ask[c].streamed \in BOOLEAN
         /\ heard[c].text \in Seq(Pieces) /\ made[c] \in Seq(Pieces)
    BY <1>1, TypesOf, WorkingType DEF Works
  <1>11. VerdictMap' = VerdictMap /\ ToldMap' = ToldMap /\ VerdictMap[c] = None
    BY <1>2, <1>5, <1>8, <1>9, MapKept, MapStep DEF Kept
  <1>12. CASE ask[c].streamed /\ n # 0
    <2>. DEFINE k == Len(heard[c].text)
                l == Len(made[c])
    <2>1. SeenMap' = [SeenMap EXCEPT ![c] = SubSeq(made[c], 1, k + n)] /\ SeenMap[c] = heard[c].text
      BY <1>2, <1>6, <1>8, <1>9, <1>12, MapStep DEF Kept
    <2>2. k + n \in k + 1..l
      <3>1. k \in Nat /\ l \in Nat  BY <1>10, LenProperties
      <3>2. n \in 0..l - k  BY <1>4
      <3>. HIDE DEF k, l
      <3>. QED  BY <1>12, <3>1, <3>2
    <2>3. k = Len(SeenMap[c])  BY <2>1
    <2>. HIDE DEF k
    <2>4. \E i \in (Len(SeenMap[c]) + 1)..Len(made[c]) :
             SeenMap' = [SeenMap EXCEPT ![c] = SubSeq(made[c], 1, i)]
      BY <2>1, <2>2, <2>3
    <2>5. Answer!Show(c)
      BY <1>5, <1>11, <2>4
      DEF Answer!Show, Answer!Open, ToldMap, SeenMap, VerdictMap, None
    <2>. QED  BY <2>5
  <1>13. CASE ~(ask[c].streamed /\ n # 0)
    <2>1. n = 0 => heard'[c].text = heard[c].text
      <3>. SUFFICES ASSUME n = 0 PROVE heard'[c].text = heard[c].text
        OBVIOUS
      <3>1. Len(heard[c].text) + 0 = Len(heard[c].text)
        <4>1. Len(heard[c].text) \in Nat  BY <1>10, LenProperties
        <4>. QED  BY <4>1
      <3>2. heard'[c].text = SubSeq(made[c], 1, Len(heard[c].text))
        BY <1>6, <3>1
      <3>. QED  BY <1>1, <3>2 DEF Works, Follows
    <2>2. Seen(c)' = Seen(c)  BY <1>8, <1>9, <1>10, <1>13, <2>1
    <2>3. VerdictOf(c)' = VerdictOf(c) /\ Told(c)' = Told(c)  BY <1>5, <1>8, <1>9
    <2>4. UNCHANGED Answer!answerVars
      BY <1>2, <1>5, <2>2, <2>3, Stutters DEF Kept
    <2>. QED  BY <2>4
  <1>. QED  BY <1>12, <1>13

\* What is written as an answer is given.
LEMMA Written ==
    ASSUME NEW c \in Calls, TypeOK, NEW e, Return(c, e),
           UNCHANGED <<ask, ended>>
    PROVE  /\ out'[c] = out[c] \o e
           /\ VerdictOf(c)' = Verdict(ask[c].endpoint, out[c] \o e, ended[c])
           /\ ask[c].endpoint \in Generating => Seen(c)' = ShownBy(out[c] \o e)
  <1>1. out'[c] = out[c] \o e  BY DEF Return, Write, TypeOK
  <1>. QED  BY <1>1 DEF VerdictOf, Seen

LEMMA ReceiveErrorMaps ==
    ASSUME NEW c \in Calls, TypeOK, CallInv(c), Readings, ReceiveError(c)
    PROVE  Answer!Fail(c)
  <1>. DEFINE e == IF ask[c].streamed THEN Failing(ask[c].endpoint, seq[c]) ELSE ErrorBody
              w == out[c] \o e
  <1>1. Works(c) /\ ended[c] = "error"
    BY DEF CallInv, ReceiveError, Waits, Works, Stands
  <1>2. Kept(c)  BY ReceiveErrorKeeps
  <1>3. Return(c, e) /\ UNCHANGED <<engine, ask, made, ended>>
    BY DEF ReceiveError, serverVars
  <1>4. /\ ShownBy(w) = ShownBy(out[c])
        /\ Verdict(ask[c].endpoint, w, "error") = [kind |-> "failed", why |-> ""]
    BY ReceiveErrorEnds
  <1>. HIDE DEF e
  <1>5. ask[c].endpoint \in Generating  BY <1>1 DEF Works
  <1>6. /\ VerdictOf(c)' = [kind |-> "failed", why |-> ""]
        /\ Seen(c)' = Seen(c)
    <2>1. /\ VerdictOf(c)' = Verdict(ask[c].endpoint, w, ended[c])
          /\ Seen(c)' = ShownBy(w)
      BY <1>3, <1>5, Written
    <2>2. Seen(c) = ShownBy(out[c])  BY <1>5 DEF Seen
    <2>. QED  BY <1>1, <1>4, <2>1, <2>2
  <1>7. VerdictOf(c) = None /\ Told(c) = ended[c]  BY <1>1 DEF Readings
  <1>8. Told(c)' = ended[c]
    <2>1. ended'[c] = "error"  BY <1>1, <1>3
    <2>. QED  BY <1>1, <2>1 DEF Told
  <1>9. /\ VerdictMap' = [VerdictMap EXCEPT ![c] = [kind |-> "failed", why |-> ""]]
        /\ VerdictMap[c] = None /\ ToldMap' = ToldMap /\ ToldMap[c] = "error"
        /\ SeenMap' = SeenMap
    BY <1>1, <1>2, <1>6, <1>7, <1>8, MapStep, MapKept DEF Kept
  <1>. QED
    BY <1>3, <1>9 DEF Answer!Fail, Answer!Open, Answer!Said, ToldMap, SeenMap, VerdictMap, None

LEMMA ConcludeMaps ==
    ASSUME NEW c \in Calls, TypeOK, CallInv(c), Readings, Conclude(c)
    PROVE  Answer!Complete(c) \/ Answer!CutShort(c) \/ UNCHANGED Answer!answerVars
  <1>. DEFINE endpoint == ask[c].endpoint
              leave == ~ask[c].streamed /\ gone[c]
              e == IF ask[c].streamed
                   THEN Closing(endpoint, seq[c], heard[c].text, Reason(c), StreamUsage(c))
                   ELSE Body(endpoint, FinalText(c), Reason(c), heard[c].usage)
              w == out[c] \o e
  <1>1. Works(c)
    BY DEF CallInv, Conclude, Waits, Works, Stands
  <1>2. Kept(c)  BY ConcludeKeeps
  <1>3. UNCHANGED <<engine, ask, made, ended>>  BY DEF Conclude, serverVars
  <1>4. endpoint \in Generating /\ ask[c].streamed \in BOOLEAN /\ gone[c] \in BOOLEAN
    BY <1>1, WorkingType DEF Works, TypeOK
  <1>5. /\ VerdictOf(c) = None /\ Told(c) = ended[c]
        /\ ask[c].streamed => Seen(c) = heard[c].text
        /\ ~ask[c].streamed => Seen(c) = <<>>
    BY <1>1 DEF Readings
  <1>6. CASE leave
    <2>1. Return(c, <<>>)  BY <1>6 DEF Conclude
    <2>2. out[c] \o <<>> = out[c]
      <3>1. out[c] \in Seq(Events)  BY TypesOf
      <3>. QED  BY <3>1, ConcatEmptySeq
    <2>3. VerdictOf(c)' = VerdictOf(c) /\ Seen(c)' = Seen(c)
      <3>1. /\ VerdictOf(c)' = Verdict(endpoint, out[c], ended[c])
            /\ Seen(c)' = ShownBy(out[c])
        BY <1>3, <1>4, <2>1, <2>2, Written
      <3>. QED  BY <1>4, <3>1 DEF VerdictOf, Seen
    <2>4. Told(c)' = Told(c)  BY <1>3, <2>3 DEF Told
    <2>5. UNCHANGED Answer!answerVars
      BY <1>2, <1>3, <2>3, <2>4, Stutters DEF Kept
    <2>. QED  BY <2>5
  <1>7. CASE ~leave
    <2>1. Return(c, e)  BY <1>7 DEF Conclude
    <2>2. ask[c].streamed \/ ~gone[c]  BY <1>4, <1>7
    <2>3. /\ ask[c].streamed => ShownBy(w) = ShownBy(out[c])
          /\ ~ask[c].streamed => ShownBy(w) \in {FinalText(c), TrimSpace(FinalText(c))}
      BY <2>2, ConcludeEnds
    <2>4. \E said \in {Reason(c), "unsaid"} : \A told :
             Verdict(endpoint, w, told) = [kind |-> "completed", why |-> said]
      BY <2>2, ConcludeEnds
    <2>5. PICK said \in {Reason(c), "unsaid"} : \A told :
             Verdict(endpoint, w, told) = [kind |-> "completed", why |-> said]
      BY <2>4
    <2>. HIDE DEF e, leave
    <2>6. /\ VerdictOf(c)' = Verdict(endpoint, w, ended[c])
          /\ Seen(c)' = ShownBy(w)
      BY <1>3, <1>4, <2>1, Written
    <2>. HIDE DEF w
    <2>7. VerdictOf(c)' = [kind |-> "completed", why |-> said]  BY <2>5, <2>6
    <2>8. Told(c)' = Told(c)
      <3>1. VerdictOf(c)'.kind # "direct"  BY <2>7
      <3>2. Told(c)' = ended'[c]  BY <3>1 DEF Told
      <3>. QED  BY <1>3, <1>5, <3>2
    <2>9. /\ VerdictMap' = [VerdictMap EXCEPT ![c] = [kind |-> "completed", why |-> said]]
          /\ VerdictMap[c] = None /\ ToldMap' = ToldMap /\ ToldMap[c] = ended[c]
          /\ SeenMap' = [SeenMap EXCEPT ![c] = ShownBy(w)]
      BY <1>2, <1>5, <2>6, <2>7, <2>8, MapStep, MapKept DEF Kept
    <2>10. ask[c].streamed => ShownBy(w) = heard[c].text
      <3>1. ask[c].streamed => Seen(c) = ShownBy(out[c])  BY <1>4 DEF Seen
      <3>. QED  BY <1>5, <2>3, <3>1
    <2>11. CASE heard[c].why # ""
      <3>1. Reason(c) = ended[c] /\ heard[c].text = made[c] /\ FinalText(c) = made[c]
        BY <1>1, <2>11 DEF Works, Follows, Reason, FinalText
      <3>2. ended[c] \in {"stop", "length"}
        <4>1. heard[c].why \in {"", "stop", "length"} /\ heard[c].why = ended[c]
          BY <1>1, <2>11, TypesOf DEF Works, Follows
        <4>. QED  BY <2>11, <4>1
      <3>3. TrimSpace(made[c]) = Answer!Trimmed(made[c])  BY DEF TrimSpace, Answer!Trimmed
      <3>4. ShownBy(w) \in {made[c], Answer!Trimmed(made[c])}
        BY <1>4, <2>3, <2>10, <3>1, <3>3
      <3>5. said \in {ended[c], "unsaid"}  BY <2>5, <3>1
      <3>6. Answer!Complete(c)
        BY <1>3, <2>9, <3>2, <3>4, <3>5
        DEF Answer!Complete, Answer!Open, Answer!Said, ToldMap, SeenMap, VerdictMap, None
      <3>. QED  BY <3>6
    <2>12. CASE heard[c].why = ""
      <3>1. engine = "stopped"  BY <2>12 DEF Conclude, Drained
      <3>2. Reason(c) = "stop" /\ FinalText(c) = <<>>  BY <2>12 DEF Reason, FinalText
      <3>3. TrimSpace(<<>>) = <<>>
        <4>1. <<>> \in Seq(Pieces)  OBVIOUS
        <4>. QED  BY <4>1, TrimType
      <3>4. ShownBy(w) = Seen(c)
        BY <1>4, <1>5, <2>3, <2>10, <3>2, <3>3
      <3>5. SeenMap' = SeenMap
        BY <1>2, <2>6, <3>4, MapKept DEF Kept
      <3>6. said \in {"stop", "unsaid"}  BY <2>5, <3>2
      <3>7. Answer!CutShort(c)
        BY <1>3, <2>9, <3>1, <3>5, <3>6
        DEF Answer!CutShort, Answer!Open, Answer!Said, ToldMap, SeenMap, VerdictMap, None
      <3>. QED  BY <3>7
    <2>. QED  BY <2>11, <2>12
  <1>. QED  BY <1>6, <1>7

LEMMA HangUpMaps ==
    ASSUME NEW c \in Calls, TypeOK, CallInv(c), HangUp(c)
    PROVE  UNCHANGED Answer!answerVars
  <1>1. Kept(c)  BY HangUpKeeps
  <1>2. Return(c, <<>>) /\ UNCHANGED <<engine, ask, made, ended>>
    BY DEF HangUp, serverVars
  <1>3. out[c] \o <<>> = out[c]
    <2>1. out[c] \in Seq(Events)  BY TypesOf
    <2>. QED  BY <2>1, ConcatEmptySeq
  <1>4. out'[c] = out[c]  BY <1>2, <1>3, Written
  <1>5. VerdictOf(c)' = VerdictOf(c) /\ Seen(c)' = Seen(c)
    BY <1>2, <1>4 DEF VerdictOf, Seen
  <1>6. Told(c)' = Told(c)  BY <1>2, <1>5 DEF Told
  <1>. QED  BY <1>1, <1>2, <1>5, <1>6, Stutters DEF Kept

LEMMA ClientLeavesMaps ==
    ASSUME NEW c \in Calls, TypeOK, CallInv(c), ClientLeaves(c)
    PROVE  UNCHANGED Answer!answerVars
  <1>1. Kept(c)  BY ClientLeavesKeeps
  <1>2. UNCHANGED <<engine, ask, made, ended, out>>  BY DEF ClientLeaves, serverVars
  <1>3. VerdictOf(c)' = VerdictOf(c) /\ Seen(c)' = Seen(c)  BY <1>2 DEF VerdictOf, Seen
  <1>4. Told(c)' = Told(c)  BY <1>2, <1>3 DEF Told
  <1>. QED  BY <1>1, <1>2, <1>3, <1>4, Stutters DEF Kept

\* What a step that leaves the calls alone does to the maps.
LEMMA CallsMapKept ==
    ASSUME UNCHANGED callVars
    PROVE  made' = made /\ ToldMap' = ToldMap /\ SeenMap' = SeenMap /\ VerdictMap' = VerdictMap
  <1>1. UNCHANGED <<ask, made, ended, out>>  BY DEF callVars
  <1>2. VerdictMap' = VerdictMap /\ SeenMap' = SeenMap
    BY <1>1 DEF VerdictMap, SeenMap, VerdictOf, Seen
  <1>3. ToldMap' = ToldMap  BY <1>1 DEF ToldMap, Told, VerdictOf
  <1>. QED  BY <1>1, <1>2, <1>3

LEMMA InitMaps == HttpInit => Answer!AnswerInit
  <1>. SUFFICES ASSUME HttpInit PROVE Answer!AnswerInit
    OBVIOUS
  <1>1. TypeOK /\ \A c \in Calls : Waits(c)
    BY InitInv DEF HttpInit, Waits
  <1>2. \A c \in Calls : VerdictOf(c) = None /\ Told(c) = "" /\ Seen(c) = <<>>
    BY <1>1, HaveReadings DEF Readings
  <1>3. engine = "running" /\ made = [c \in Calls |-> <<>>]  BY DEF HttpInit
  <1>. QED  BY <1>2, <1>3 DEF Answer!AnswerInit, Answer!Open, None

LEMMA NextMaps ==
    TypeOK /\ CallsInv /\ [HttpNext]_httpVars => [Answer!AnswerNext]_(Answer!answerVars)
  <1>. SUFFICES ASSUME TypeOK, CallsInv, [HttpNext]_httpVars
                PROVE  [Answer!AnswerNext]_(Answer!answerVars)
    OBVIOUS
  <1>0. Readings  BY HaveReadings
  <1>1. CASE UNCHANGED callVars /\ engine' = engine
    <2>1. UNCHANGED Answer!answerVars
      BY <1>1, CallsMapKept DEF Answer!answerVars, ToldMap, SeenMap, VerdictMap
    <2>. QED  BY <2>1
  <1>2. CASE EngineStops
    <2>1. UNCHANGED callVars /\ engine = "running" /\ engine' = "stopped"
      BY <1>2 DEF EngineStops
    <2>2. Answer!StopEngine
      BY <2>1, CallsMapKept DEF Answer!StopEngine, ToldMap, SeenMap, VerdictMap
    <2>. QED  BY <2>2 DEF Answer!AnswerNext
  <1>3. CASE Cancel \/ Shutdown \/ Stopped
    <2>1. UNCHANGED callVars /\ engine' = engine
      BY <1>3 DEF Cancel, Shutdown, Stopped
    <2>. QED  BY <1>1, <2>1
  <1>4. ASSUME NEW c \in Calls,
               \/ AnswerAtOnce(c) \/ NotAdmitted(c) \/ Begin(c)
               \/ Generate(c) \/ EndOfText(c)
               \/ Receive(c) \/ ReceiveError(c) \/ Conclude(c) \/ HangUp(c)
               \/ ClientLeaves(c)
        PROVE  [Answer!AnswerNext]_(Answer!answerVars)
    <2>1. CallInv(c)  BY DEF CallsInv
    <2>2. \/ Answer!Direct(c) \/ Answer!Make(c) \/ Answer!End(c) \/ Answer!Show(c)
          \/ Answer!Fail(c) \/ Answer!Complete(c) \/ Answer!CutShort(c)
          \/ UNCHANGED Answer!answerVars
      BY <1>0, <1>4, <2>1, AnswerAtOnceMaps, NotAdmittedMaps, BeginMaps, GenerateMaps,
         EndOfTextMaps, ReceiveMaps, ReceiveErrorMaps, ConcludeMaps, HangUpMaps,
         ClientLeavesMaps
    <2>. QED  BY <2>2 DEF Answer!AnswerNext
  <1>5. CASE UNCHANGED httpVars
    <2>1. UNCHANGED callVars /\ engine' = engine  BY <1>5 DEF httpVars, serverVars
    <2>. QED  BY <1>1, <2>1
  <1>. QED  BY <1>2, <1>3, <1>4, <1>5 DEF HttpNext

\* The handlers of every generating endpoint, streamed or not, keep what HttpAnswer
\* promises: the client is shown the generation from its beginning and in order,
\* and one verdict, "completed" only with all of it or by a server that stops.
THEOREM HandlersImplementAnswer == HttpSpec => ImplementsAnswer
  <1>1. HttpInit => TypeOK /\ CallsInv  BY InitInv
  <1>2. TypeOK /\ CallsInv /\ [HttpNext]_httpVars => TypeOK' /\ CallsInv'  BY NextInv
  <1>3. HttpInit => Answer!AnswerInit  BY InitMaps
  <1>4. TypeOK /\ CallsInv /\ [HttpNext]_httpVars => [Answer!AnswerNext]_(Answer!answerVars)
    BY NextMaps
  <1>. QED  BY <1>1, <1>2, <1>3, <1>4, PTL DEF HttpSpec, ImplementsAnswer, Answer!AnswerSpec
====
