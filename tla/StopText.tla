------------------------------- MODULE StopText -------------------------------
(***************************************************************************)
(* How a sequence ends: the text side of processToken (scheduler.go),      *)
(* which Scheduler leaves to choice.  A token is its text, in characters,  *)
(* or a stop token; the text grows, is searched for the request's stop     *)
(* strings, and is cut, together with the delta that is streamed, at the   *)
(* first of them.  A delta that was streamed is not taken back.            *)
(***************************************************************************)
EXTENDS Integers, Sequences, SequencesExt

CONSTANTS
    Chars,      \* the characters
    Texts,      \* the texts a token can add; <<>> in the middle of a rune
    Stops,      \* the lists of stop strings a request may have
    Caps,       \* its caps on the tokens; 0 for none
    TokenBound  \* bound: the backend ends a sequence at this many tokens

ASSUME StopAssumption ==
    /\ Texts \subseteq Seq(Chars) /\ Stops \subseteq Seq(Seq(Chars))
    /\ Caps \subseteq Nat /\ TokenBound \in Nat

VARIABLE writing
\* writing.stop, .cap: what the request asked for
\* writing.text: Request.OutputText       writing.tokens: len(OutputTokenIDs)
\* writing.why: the finish reason, "" while it goes on
\* writing.shown: history, the deltas that were streamed
\* writing.decoded: history, the texts of all the tokens

WritingInit ==
    \E stop \in Stops, cap \in Caps :
       writing = [stop |-> stop, cap |-> cap, text |-> <<>>, tokens |-> 0, why |-> "",
                  shown |-> <<>>, decoded |-> <<>>]

-----------------------------------------------------------------------------
\* The lengths of text in front of the stop string s.
Occurrences(text, s) ==
    {i \in 0..(Len(text) - Len(s)) : SubSeq(text, i + 1, i + Len(s)) = s}

\* firstStop: the lengths in front of any of them; an empty one is passed over.
\* (The first string of the list that occurs decides, not the first occurrence.)
Hits_ListOrder(text, stop) ==
    LET found == {n \in DOMAIN stop : stop[n] # <<>> /\ Occurrences(text, stop[n]) # {}}
    IN IF found = {} THEN {} ELSE Occurrences(text, stop[Min(found)])

Hits(text, stop) ==
    UNION {Occurrences(text, stop[n]) : n \in {m \in DOMAIN stop : stop[m] # <<>>}}

\* The delta up to the cut: nothing when the stop string began in an earlier one.
Trim(delta, text, cut) ==
    LET keep == Max({cut - (Len(text) - Len(delta)), 0})
    IN SubSeq(delta, 1, Min({keep, Len(delta)}))

\* Why a token that leaves so many of them ends the sequence, if it does:
\* the backend declares an end, or the cap is reached.
Ending(declared, tokens) ==
    IF declared # "" THEN declared
    ELSE IF writing.cap > 0 /\ tokens >= writing.cap THEN "length"
    ELSE ""

Declarations(tokens) == IF tokens >= TokenBound THEN {"stop", "length"} ELSE {"", "stop", "length"}

\* A token with text.
AddText ==
    /\ writing.why = ""
    /\ \E delta \in Texts, declared \in Declarations(writing.tokens + 1) :
         LET text == writing.text \o delta
             hits == Hits(text, writing.stop)
         IN writing' =
              [writing EXCEPT
                !.tokens  = @ + 1,
                !.decoded = @ \o delta,
                !.text    = IF hits = {} THEN text ELSE SubSeq(text, 1, Min(hits)),
                !.shown   = @ \o IF hits = {} THEN delta ELSE Trim(delta, text, Min(hits)),
                !.why     = IF hits # {} THEN "stop"
                            ELSE Ending(declared, writing.tokens + 1)]

\* EOS or a stop token of the request: it adds neither text nor a token.
StopToken ==
    /\ writing.why = ""
    /\ \E declared \in {"", "stop", "length"} :
         writing' = [writing EXCEPT !.why = IF declared = "" THEN "stop" ELSE declared]

WritingNext == AddText \/ StopToken

WritingSpec == WritingInit /\ [][WritingNext]_writing

-----------------------------------------------------------------------------
\* The strings a text must not contain.
Forbidden == {writing.stop[n] : n \in DOMAIN writing.stop} \ {<<>>}

Holds(text, s) == \E before \in Prefixes(text) : IsPrefix(before \o s, text)

\* What the comments and tests of processToken ask: the sequence ends with the
\* first token that completes a stop string, with the reason "stop", and its text
\* is what came before the earliest one, however the string was cut into tokens.
\* The stream agrees with the text but for what earlier deltas held of the stop
\* string itself, which is never the whole of it.
StopsAtFirst ==
    LET stopped == \E s \in Forbidden : Holds(writing.decoded, s) IN
    /\ IF stopped
       THEN /\ writing.why = "stop"
            /\ \E s \in Forbidden : IsPrefix(writing.text \o s, writing.decoded)
            /\ \A before \in Prefixes(writing.text) \ {writing.text}, s \in Forbidden :
                  ~IsPrefix(before \o s, writing.decoded)
       ELSE writing.text = writing.decoded
    /\ IF writing.shown # writing.text
       THEN \E s \in Forbidden : \E begun \in Prefixes(s) \ {s} :
               /\ IsPrefix(writing.text \o s, writing.decoded)
               /\ writing.shown = writing.text \o begun
       ELSE TRUE
=============================================================================
