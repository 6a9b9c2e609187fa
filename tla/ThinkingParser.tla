--------------------------- MODULE ThinkingParser ---------------------------
(***************************************************************************)
(* The streaming split of a generation into reasoning and answer           *)
(* (api/thinking.go): the text arrives in chunks that may end inside a     *)
(* tag, and what might still become a tag is held back until it is clear.  *)
(* A text is a sequence of atoms; the two tags are constants.              *)
(***************************************************************************)
EXTENDS Naturals, Sequences, FiniteSets, SequencesExt

CONSTANTS
    OpenTag, CloseTag,   \* sequences of atoms; only their first one is "<"
    Thoughts,            \* the generations to split
    ChunkBound           \* no chunk is longer than this

VARIABLES
    thought,    \* [text, started: the prompt opened the block, at: how much was fed]
    parser,     \* the fields of ThinkingParser
    reasoning,  \* the reasoning deltas, joined
    answer,     \* the content deltas, joined
    thinkingDone

thinkingVars == <<thought, parser, reasoning, answer, thinkingDone>>

TagAt(text, i, tag) ==
    /\ i + Len(tag) - 1 <= Len(text)
    /\ SubSeq(text, i, i + Len(tag) - 1) = tag

\* Could s, the end of what was fed, be the beginning of a tag?
CouldBeTag(s) ==
    /\ Len(s) < Len(CloseTag)
    /\ IsPrefix(s, OpenTag) \/ IsPrefix(s, CloseTag)

Fresh(started) == [inThinking |-> started, buffer |-> <<>>, closeSeen |-> FALSE]

\* Feed's loop: the parser p has written thinking and content so far and is at
\* the i-th atom of text.
RECURSIVE Scan(_, _, _, _, _)
Scan(p, text, i, thinking, content) ==
    IF i > Len(text) THEN [parser |-> p, thinking |-> thinking, content |-> content]
    ELSE IF TagAt(text, i, OpenTag)
    THEN Scan([p EXCEPT !.inThinking = TRUE], text, i + Len(OpenTag), thinking, content)
    ELSE IF TagAt(text, i, CloseTag)
    THEN Scan([p EXCEPT !.inThinking = FALSE, !.closeSeen = TRUE], text,
              i + Len(CloseTag), thinking, content)
    ELSE IF text[i] = Head(OpenTag) /\ CouldBeTag(SubSeq(text, i, Len(text)))
    THEN [parser |-> [p EXCEPT !.buffer = SubSeq(text, i, Len(text))],
          thinking |-> thinking, content |-> content]
    ELSE IF p.inThinking
    THEN Scan(p, text, i + 1, Append(thinking, text[i]), content)
    ELSE Scan(p, text, i + 1, thinking, Append(content, text[i]))

Fed(p, chunk) == Scan([p EXCEPT !.buffer = <<>>], p.buffer \o chunk, 1, <<>>, <<>>)

-----------------------------------------------------------------------------
ThinkingInit ==
    /\ \E text \in Thoughts, started \in BOOLEAN :
         /\ thought = [text |-> text, started |-> started, at |-> 0]
         /\ parser = Fresh(started)
    /\ reasoning = <<>> /\ answer = <<>> /\ thinkingDone = FALSE

Feed ==
    /\ ~thinkingDone
    /\ \E n \in 1..ChunkBound :
         /\ thought.at + n <= Len(thought.text)
         /\ LET fed == Fed(parser, SubSeq(thought.text, thought.at + 1, thought.at + n))
            IN /\ parser' = fed.parser
               /\ reasoning' = reasoning \o fed.thinking
               /\ answer' = answer \o fed.content
         /\ thought' = [thought EXCEPT !.at = @ + n]
    /\ UNCHANGED thinkingDone

\* A block that was never closed becomes the answer if there is none.
Recovers == parser.inThinking /\ ~parser.closeSeen /\ answer = <<>> /\ reasoning # <<>>

\* (Recovery forgets what was held back.)
Recovered_Unflushed == reasoning
Recovered == reasoning \o parser.buffer

FinishThinking ==
    /\ ~thinkingDone /\ thought.at = Len(thought.text)
    /\ thinkingDone' = TRUE
    /\ IF Recovers
       THEN answer' = Recovered /\ UNCHANGED reasoning
       ELSE IF parser.inThinking
       THEN reasoning' = reasoning \o parser.buffer /\ UNCHANGED answer
       ELSE answer' = answer \o parser.buffer /\ UNCHANGED reasoning
    /\ parser' = [parser EXCEPT !.buffer = <<>>]
    /\ UNCHANGED thought

ThinkingNext == Feed \/ FinishThinking
ThinkingSpec == ThinkingInit /\ [][ThinkingNext]_thinkingVars

-----------------------------------------------------------------------------
(* What a reader of the whole generation would say.                        *)

Opens(text)  == {i \in DOMAIN text : TagAt(text, i, OpenTag)}
Closes(text) == {i \in DOMAIN text : TagAt(text, i, CloseTag)}

\* Is atom i part of a tag?
Marked(text, i) ==
    \/ \E o \in Opens(text)  : i \in o..(o + Len(OpenTag) - 1)
    \/ \E c \in Closes(text) : i \in c..(c + Len(CloseTag) - 1)

\* Is it inside a block?
Inside(text, i, started) ==
    LET tags == {j \in Opens(text) \cup Closes(text) : j < i} IN
    IF tags = {} THEN started
    ELSE (CHOOSE j \in tags : \A k \in tags : k <= j) \in Opens(text)

\* The atoms of a text where the flags say so.
Picked(text, in(_)) ==
    FoldLeft(LAMBDA acc, i : IF in(i) THEN Append(acc, text[i]) ELSE acc,
             <<>>, [i \in DOMAIN text |-> i])

TheReasoning(text, started) ==
    Picked(text, LAMBDA i : ~Marked(text, i) /\ Inside(text, i, started))
TheAnswer(text, started) ==
    Picked(text, LAMBDA i : ~Marked(text, i) /\ ~Inside(text, i, started))

\* Is atom i part of what may still become a tag?
Open(text, i) ==
    \E j \in 1..i : \E tag \in {OpenTag, CloseTag} :
        Len(text) - j + 1 < Len(tag) /\ IsPrefix(SubSeq(text, j, Len(text)), tag)

\* However the generation is cut into chunks, the client has got the reasoning and
\* the answer of what was fed, except for an end that may still become a tag.  At
\* the end it has got all of it; and a block that was never closed is the answer
\* when there is no other, unless it is itself but the beginning of a tag.
SplitExactly ==
    LET text == SubSeq(thought.text, 1, thought.at)
        sure == SubSeq(text, 1, Len(text) - Len(parser.buffer))
        why  == TheReasoning(sure, thought.started)
        what == TheAnswer(sure, thought.started)
        idle == what = <<>> /\ Closes(text) = {}
    IN /\ IsSuffix(parser.buffer, text)
       /\ \/ reasoning = why /\ answer = what
          \/ thinkingDone /\ idle /\ answer = why /\ IsPrefix(reasoning, why)
       /\ thinkingDone /\ idle
          /\ (\E i \in DOMAIN text : ~Marked(text, i) /\ ~Open(text, i))
            => answer # <<>>

-----------------------------------------------------------------------------
(* ExtractThinking: the split of a complete generation.  (The parts are    *)
(* joined with line breaks and trimmed; there is no white space here.)     *)

First(S) == CHOOSE i \in S : \A j \in S : i <= j
BeforeTag(text, i) == SubSeq(text, 1, i - 1)
AfterTag(text, i, tag) == SubSeq(text, i + Len(tag), Len(text))

\* The leftmost block of a text: from its first open tag to the next close tag.
Blocks(text) ==
    {<<o, c>> \in Opens(text) \X Closes(text) :
        o = First(Opens(text)) /\ c = First({d \in Closes(text) : d > o})}

RECURSIVE Extracted(_, _)
Extracted(parts, rest) ==
    IF Blocks(rest) = {} THEN <<parts, rest>>
    ELSE LET block == CHOOSE b \in Blocks(rest) : TRUE
         IN Extracted(parts \o SubSeq(rest, block[1] + Len(OpenTag), block[2] - 1),
                      BeforeTag(rest, block[1]) \o AfterTag(rest, block[2], CloseTag))

ExtractThinking(text) ==
    IF Blocks(text) # {} THEN Extracted(<<>>, text)
    ELSE IF Closes(text) # {} /\ Opens(text) = {}
    THEN <<BeforeTag(text, First(Closes(text))), AfterTag(text, First(Closes(text)), CloseTag)>>
    ELSE IF Opens(text) # {} /\ Closes(text) = {}
    THEN <<<<>>, BeforeTag(text, First(Opens(text))) \o AfterTag(text, First(Opens(text)), OpenTag)>>
    ELSE <<<<>>, text>>

\* A generation whose blocks are closed before the next one is opened, and whose
\* answer has nothing that reads like a tag.
WellFormed(text) ==
    /\ \A j \in Opens(text) \cup Closes(text) :
         j \in Opens(text) <=>
            Cardinality({k \in Opens(text) \cup Closes(text) : k < j}) % 2 = 0
    /\ Cardinality(Opens(text)) = Cardinality(Closes(text))
    /\ Opens(TheAnswer(text, FALSE)) \cup Closes(TheAnswer(text, FALSE)) = {}

\* Streamed or not, the client gets the same reasoning and the same answer.
StreamedIsExtracted ==
    thinkingDone /\ ~thought.started /\ WellFormed(thought.text)
        => <<reasoning, answer>> = ExtractThinking(thought.text)
=============================================================================
