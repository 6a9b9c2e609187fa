--------------------------- MODULE ToolCallFilter ---------------------------
(***************************************************************************)
(* The filter that keeps tool-call markup out of streamed text             *)
(* (api/tool_call_stream_filter.go).  Text arrives in chunks; envelopes    *)
(* are dropped, what might become one is held back, and the rest flows on. *)
(* A text is a sequence of atoms: the punctuation of the envelopes, the    *)
(* halves of the word "tool_call", "Calling" and "Tool" for the words that  *)
(* follow a bracket, "n" for a letter of a name, and others for the rest.  *)
(***************************************************************************)
EXTENDS Integers, Sequences, FiniteSets, SequencesExt

CONSTANTS
    Marker,      \* the tokenizer's markers: <<>>, <<open>> or <<open, close>>
    Contents,    \* the generations to filter
    MaxChunk,    \* no chunk is longer than this
    Window       \* how much is held back at most

VARIABLES
    content,   \* [text, at: how much was fed, done]
    filter,    \* [buffer, until]: the close waited for; <<>> for none
    visible    \* what went out

filterVars == <<content, filter, visible>>

From(text, i) == SubSeq(text, i, Len(text))
UpTo(text, i) == SubSeq(text, 1, i)
Least(S) == CHOOSE i \in S : \A j \in S : i <= j
Most(S)  == CHOOSE i \in S : \A j \in S : i >= j

\* Where text holds part.
Finds(text, part) ==
    {i \in 1..(Len(text) - Len(part) + 1) : SubSeq(text, i, i + Len(part) - 1) = part}

Word    == <<"tool", "_call">>
Letters == {"n", "tool", "_call"}
IsName(s) == s # <<>> /\ Range(s) \subseteq Letters

BuiltIn == <<<<"<">> \o Word \o <<">">>, <<"<", "/">> \o Word \o <<">">>>>
Pairs == IF Len(Marker) = 2 THEN <<Marker, BuiltIn>> ELSE <<BuiltIn>>
SuppressAfter   == IF Len(Marker) = 1 THEN {Marker[1]} ELSE {}
BracketPrefixes == {<<"[", "Calling", ":">>, <<"[", "Tool", ":">>}

\* The close marker nothing ever matches.
Never == <<"never">>

-----------------------------------------------------------------------------
(* findStartEnvelope: what opens at each place, in the order of preference. *)

Envelope(at, rank, size, until) ==
    [at |-> at, rank |-> rank, size |-> size, until |-> until]

MarkedOpens(text) ==
    UNION {{Envelope(i, p, Len(Pairs[p][1]), Pairs[p][2]) : i \in Finds(text, Pairs[p][1])} :
              p \in DOMAIN Pairs}

\* <ns:tool_call>, closed by </ns:tool_call>.
NamespacedOpens(text) ==
    {Envelope(i, 3, e - i + 4, <<"<", "/">> \o SubSeq(text, i + 1, e) \o Word \o <<">">>) :
        <<i, e>> \in {<<i, e>> \in Finds(text, <<"<">>)
                                     \X Finds(text, <<":">> \o Word \o <<">">>) :
                        IsName(SubSeq(text, i + 1, e - 1))}}

\* [Calling tool: name({...})]: a call that starts at i, with its first end.
CallEnds(text, i, prefix) ==
    {e \in Finds(text, <<"]">>) : \E n \in 1..(e - i - Len(prefix)) :
        LET after == i + Len(prefix) + n IN
        /\ IsName(SubSeq(text, i + Len(prefix), after - 1))
        /\ \/ e = after
           \/ /\ e >= after + 4
              /\ SubSeq(text, after, after + 1) = <<"(", "{">>
              /\ SubSeq(text, e - 2, e - 1) = <<"}", ")">>}

BracketStarts(text) == UNION {Finds(text, p) \X {p} : p \in BracketPrefixes}

BracketCalls(text) ==
    {Envelope(b[1], 4, Least(CallEnds(text, b[1], b[2])) - b[1] + 1, <<>>) :
        b \in {b \in BracketStarts(text) : CallEnds(text, b[1], b[2]) # {}}}

OneSided(text) ==
    UNION {{Envelope(i, 5, Len(text) - i + 1, Never) : i \in Finds(text, m)} :
              m \in SuppressAfter}

Envelopes(text) ==
    MarkedOpens(text) \cup NamespacedOpens(text) \cup BracketCalls(text) \cup OneSided(text)

Earliest(envelopes) ==
    CHOOSE e \in envelopes : \A f \in envelopes :
        e.at < f.at \/ (e.at = f.at /\ e.rank <= f.rank)

-----------------------------------------------------------------------------
(* What is held back.                                                      *)

\* The longest end of text that properly begins marker.
PartialPrefixLen_Whole(text, marker) ==
    Most({n \in 0..(Len(marker) - 2) : IsSuffix(UpTo(marker, n), text)})
PartialPrefixLen(text, marker) ==
    Most({n \in 0..(Len(marker) - 1) : IsSuffix(UpTo(marker, n), text)})

\* couldBePartialNamespacedOpen.
PartialNamespaced(s) ==
    /\ s # <<>> /\ s[1] = "<" /\ ">" \notin Range(s)
    /\ \/ Len(s) = 1
       \/ IsName(Tail(s))
       \/ \E c \in DOMAIN s : /\ s[c] = ":"
                              /\ IsName(SubSeq(s, 2, c - 1))
                              /\ IsPrefix(From(s, c + 1), Word)

\* The unresolved call at the end, if there is one.
OpenCall(text) ==
    LET starts == {b[1] : b \in BracketStarts(text)} IN
    IF starts = {} \/ "]" \in Range(From(text, Most(starts))) THEN <<>>
    ELSE From(text, Most(starts))

\* partialSuffixLen: how much of the end of text to hold back.
HeldBack(text) ==
    LET markers == {Pairs[p][1] : p \in DOMAIN Pairs} \cup BracketPrefixes \cup SuppressAfter
        opens == {Len(text) - i + 1 : i \in {Most(Finds(text, <<"<">>) \cup {0})} \ {0}}
        keep == Most({PartialPrefixLen(text, m) : m \in markers}
                     \cup {n \in opens : PartialNamespaced(From(text, Len(text) - n + 1))})
    IN IF OpenCall(text) # <<>> THEN Most({keep, Len(OpenCall(text))})
       ELSE IF keep > Window THEN Window ELSE keep

\* shouldDropTailAtFinish.
DropTail(tail) ==
    /\ tail # <<>>
    /\ \/ \E p \in DOMAIN Pairs : IsPrefix(tail, Pairs[p][1])
       \/ \E b \in BracketPrefixes : IsPrefix(b, tail)
       \/ \E m \in SuppressAfter : IsPrefix(tail, m) \/ IsPrefix(m, tail)
       \/ PartialNamespaced(tail) /\ (Len(tail) = 1 \/ ":" \in Range(tail))

\* sanitizePrefixBeforeSuppression: a call that is not closed loses its prefix,
\* literal text in brackets stays.
RECURSIVE Sanitized(_)
Sanitized(text) ==
    IF BracketStarts(text) = {} THEN text
    ELSE LET first == CHOOSE b \in BracketStarts(text) :
                          \A c \in BracketStarts(text) : b[1] <= c[1]
             after == first[1] + Len(first[2])
             closes == {e \in Finds(text, <<"]">>) : e >= after}
         IN IF closes = {} THEN UpTo(text, first[1] - 1) \o Sanitized(From(text, after))
            ELSE UpTo(text, Least(closes)) \o Sanitized(From(text, Least(closes) + 1))

-----------------------------------------------------------------------------
Resting == [buffer |-> <<>>, until |-> <<>>]

\* Feed's loop over the buffer: what the filter f has let out, and what it is then.
RECURSIVE Filtered(_, _)
Filtered(f, out) ==
    LET text == f.buffer IN
    IF text = <<>> THEN [filter |-> f, out |-> out]
    ELSE IF f.until = Never THEN [filter |-> [f EXCEPT !.buffer = <<>>], out |-> out]
    ELSE IF f.until # <<>>
    THEN IF Finds(text, f.until) # {}
         THEN Filtered([buffer |-> From(text, Least(Finds(text, f.until)) + Len(f.until)),
                        until |-> <<>>], out)
         ELSE [filter |-> [f EXCEPT !.buffer =
                  From(text, Len(text) - PartialPrefixLen(text, f.until) + 1)], out |-> out]
    ELSE IF Envelopes(text) # {}
    THEN LET e == Earliest(Envelopes(text)) IN
         Filtered([buffer |-> From(text, e.at + e.size), until |-> e.until],
                  out \o Sanitized(UpTo(text, e.at - 1)))
    ELSE [filter |-> [f EXCEPT !.buffer = From(text, Len(text) - HeldBack(text) + 1)],
          out |-> out \o UpTo(text, Len(text) - HeldBack(text))]

FilterFed(f, chunk) == Filtered([f EXCEPT !.buffer = @ \o chunk], <<>>)

\* What Finish lets out.
Flushed(f) ==
    IF f.until # <<>> THEN <<>>
    ELSE IF HeldBack(f.buffer) >= Len(f.buffer)
    THEN IF DropTail(f.buffer) THEN <<>> ELSE f.buffer
    ELSE UpTo(f.buffer, Len(f.buffer) - HeldBack(f.buffer))

-----------------------------------------------------------------------------
FilterInit ==
    /\ \E text \in Contents : content = [text |-> text, at |-> 0, done |-> FALSE]
    /\ filter = Resting /\ visible = <<>>

FeedFilter ==
    /\ ~content.done
    /\ \E n \in 1..MaxChunk :
         /\ content.at + n <= Len(content.text)
         /\ LET fed == FilterFed(filter, SubSeq(content.text, content.at + 1, content.at + n))
            IN filter' = fed.filter /\ visible' = visible \o fed.out
         /\ content' = [content EXCEPT !.at = @ + n]

FinishFilter ==
    /\ ~content.done /\ content.at = Len(content.text)
    /\ content' = [content EXCEPT !.done = TRUE]
    /\ visible' = visible \o Flushed(filter)
    /\ filter' = Resting

FilterNext == FeedFilter \/ FinishFilter
FilterSpec == FilterInit /\ [][FilterNext]_filterVars

-----------------------------------------------------------------------------
\* A call in brackets that a reader could mistake: with more markup, or another
\* bracket, before its own end.
Muddled(text) ==
    \E b \in BracketStarts(text) :
        LET ends  == CallEnds(text, b[1], b[2])
            stops == {e \in Finds(text, <<"]">>) : e > b[1]}
            last  == IF ends # {} THEN Least(ends)
                     ELSE IF stops # {} THEN Least(stops) ELSE Len(text)
        IN \E i \in (b[1] + 1)..(last - 1) : text[i] \in {"[", "]", "<"}

\* However a generation is cut into chunks, what goes out is what would have gone
\* out had it come in one.
Whole(text) == FilterFed(Resting, text)
ChunkingIrrelevant ==
    LET fed == UpTo(content.text, content.at) IN
    ~Muddled(fed) => visible = Whole(fed).out
                        \o (IF content.done THEN Flushed(Whole(fed).filter) ELSE <<>>)
=============================================================================
