----------------------------- MODULE HttpAnswer -----------------------------
(***************************************************************************)
(* What the client of a generating endpoint is promised, whatever the wire *)
(* format: it is shown the generation from its beginning and in order, and *)
(* then gets one verdict.  "completed" comes with everything that was      *)
(* generated and, where the format has a place for it, with the reason the *)
(* generation ended; only a server that shuts down may call a part of it   *)
(* complete.                                                               *)
(***************************************************************************)
EXTENDS Naturals, Sequences, SequencesExt

CONSTANTS
    Calls,     \* the requests
    Pieces,    \* what a generation is made of
    Blank      \* those of them that are white space

VARIABLES
    made,      \* made[c]: what the engine generated for c
    ended,     \* ended[c]: why it ended ("" while it has not)
    stopping,  \* has the engine stopped?
    shown,     \* shown[c]: what the client of c has seen of it
    verdict    \* verdict[c]: [kind, why]

answerVars == <<made, ended, stopping, shown, verdict>>

Open == [kind |-> "none", why |-> ""]
Said(kind, why) == [kind |-> kind, why |-> why]

\* A text without the white space around it.
Trimmed(s) ==
    LET solid == {i \in DOMAIN s : s[i] \notin Blank} IN
    IF solid = {} THEN <<>>
    ELSE SubSeq(s, CHOOSE i \in solid : \A j \in solid : i <= j,
                   CHOOSE i \in solid : \A j \in solid : i >= j)

AnswerInit ==
    /\ made = [c \in Calls |-> <<>>] /\ ended = [c \in Calls |-> ""]
    /\ stopping = FALSE
    /\ shown = [c \in Calls |-> <<>>] /\ verdict = [c \in Calls |-> Open]

Make(c) ==
    /\ ended[c] = ""
    /\ \E piece \in Pieces : made' = [made EXCEPT ![c] = Append(@, piece)]
    /\ UNCHANGED <<ended, stopping, shown, verdict>>

End(c) ==
    /\ ended[c] = ""
    /\ \E why \in {"stop", "length", "error"} :
         ended' = [ended EXCEPT ![c] = why]
    /\ made' = made \/ \E piece \in Pieces :
                          made' = [made EXCEPT ![c] = Append(@, piece)]
    /\ UNCHANGED <<stopping, shown, verdict>>

StopEngine ==
    /\ ~stopping /\ stopping' = TRUE
    /\ UNCHANGED <<made, ended, shown, verdict>>

Show(c) ==
    /\ verdict[c] = Open
    /\ \E n \in (Len(shown[c]) + 1)..Len(made[c]) :
         shown' = [shown EXCEPT ![c] = SubSeq(made[c], 1, n)]
    /\ UNCHANGED <<made, ended, stopping, verdict>>

\* The whole of it, and why it ended.
Complete(c) ==
    /\ verdict[c] = Open
    /\ ended[c] \in {"stop", "length"}
    /\ \E text \in {made[c], Trimmed(made[c])} : shown' = [shown EXCEPT ![c] = text]
    /\ \E why \in {ended[c], "unsaid"} :
         verdict' = [verdict EXCEPT ![c] = Said("completed", why)]
    /\ UNCHANGED <<made, ended, stopping>>

\* The server shuts down under the generation.
CutShort(c) ==
    /\ stopping
    /\ verdict[c] = Open
    /\ \E why \in {"stop", "unsaid"} :
         verdict' = [verdict EXCEPT ![c] = Said("completed", why)]
    /\ UNCHANGED <<made, ended, stopping, shown>>

Fail(c) ==
    /\ verdict[c] = Open
    /\ ended[c] = "error"
    /\ verdict' = [verdict EXCEPT ![c] = Said("failed", "")]
    /\ UNCHANGED <<made, ended, stopping, shown>>

\* The endpoint answers by itself, or refuses: nothing is generated.
Direct(c) ==
    /\ verdict[c] = Open
    /\ ended[c] = "" /\ made[c] = <<>>
    /\ verdict' = [verdict EXCEPT ![c] = Said("direct", "")]
    /\ ended' = [ended EXCEPT ![c] = "direct"]
    /\ UNCHANGED <<made, stopping, shown>>

AnswerNext ==
    \/ StopEngine
    \/ \E c \in Calls : Make(c) \/ End(c) \/ Show(c) \/ Complete(c)
                        \/ CutShort(c) \/ Fail(c) \/ Direct(c)

AnswerSpec == AnswerInit /\ [][AnswerNext]_answerVars
=============================================================================
