----------------------------- MODULE RequestStream -----------------------------
(***************************************************************************)
(* What a handler is promised about the stream of one request, whatever    *)
(* the scheduler, the loop and the backpressure do in between: tokens are  *)
(* produced one by one until the request ends; the handler takes them in   *)
(* batches, in order, each once; it is told of the end only together with  *)
(* or after the last token.                                                *)
(***************************************************************************)
EXTENDS Naturals, Sequences, SequencesExt

CONSTANT Requests

VARIABLES
    made,    \* made[r]: the tokens produced for r
    ended,   \* ended[r]: has r ended?
    taken,   \* taken[r]: the tokens its handler has received
    told     \* told[r]: has the handler received the end?

streamVars == <<made, ended, taken, told>>

StreamInit ==
    /\ made  = [r \in Requests |-> <<>>]
    /\ ended = [r \in Requests |-> FALSE]
    /\ taken = [r \in Requests |-> <<>>]
    /\ told  = [r \in Requests |-> FALSE]

\* The next token of r.
Make(r) ==
    /\ ~ended[r]
    /\ made' = [made EXCEPT ![r] = Append(@, Len(@) + 1)]
    /\ UNCHANGED <<ended, taken, told>>

\* The end of r, possibly with a last token.
End(r) ==
    /\ ~ended[r]
    /\ ended' = [ended EXCEPT ![r] = TRUE]
    /\ \/ made' = made
       \/ made' = [made EXCEPT ![r] = Append(@, Len(@) + 1)]
    /\ UNCHANGED <<taken, told>>

\* The handler takes the next n tokens, and the end if nothing else is left.
Take(r, n) ==
    /\ ~told[r]
    /\ taken' = [taken EXCEPT ![r] = SubSeq(made[r], 1, Len(@) + n)]
    /\ told' \in {told, [told EXCEPT ![r] = TRUE]}
    /\ told'[r] => ended[r] /\ taken'[r] = made[r]
    /\ UNCHANGED <<made, ended>>

StreamNext ==
    \E r \in Requests :
        \/ Make(r)
        \/ End(r)
        \/ \E n \in 0..(Len(made[r]) - Len(taken[r])) : Take(r, n)

StreamSpec == StreamInit /\ [][StreamNext]_streamVars
=============================================================================
