------------------------------ MODULE DecodeSeam ------------------------------
(***************************************************************************)
(* What pipeline.DecodeStrategy promises the scheduler (pipeline.go): a    *)
(* step advances every sequence by one token, a sequence's tokens depend   *)
(* on nothing but its own prompt and its own tokens so far, and nothing    *)
(* follows a declared finish.  A token is named by its index in the        *)
(* history of its sequence.                                                *)
(***************************************************************************)
EXTENDS Naturals, Sequences

VARIABLES
    next,       \* the next uid
    prompt,     \* prompt[u]: the length of the prompt of sequence u
    live,       \* the uids inserted and not removed
    said,       \* said[u]: the tokens reported for u
    done        \* the uids whose finish was declared

seamVars == <<next, prompt, live, said, done>>

SeamInit ==
    /\ next = 0 /\ live = {} /\ done = {}
    /\ prompt = [u \in {} |-> u] /\ said = [u \in {} |-> u]

\* The histories f, with one more for the sequence that is inserted.
Longer(f) == /\ DOMAIN f' = DOMAIN f \cup {next}
             /\ \A u \in DOMAIN f : f'[u] = f[u]

\* Insert returns a fresh uid, and nothing has been said for it.
SeamInsert ==
    /\ next' = next + 1
    /\ live' = live \cup {next}
    /\ Longer(prompt) /\ prompt'[next] > 0
    /\ Longer(said) /\ said'[next] = <<>>
    /\ UNCHANGED done

\* Step reports the next token of each sequence; some of them finish with it.
SeamStep ==
    /\ said' = [u \in DOMAIN said |->
                  IF u \in live \ done THEN Append(said[u], prompt[u] + Len(said[u]) + 1)
                                       ELSE said[u]]
    /\ done \subseteq done' /\ done' \subseteq live \cup done
    /\ UNCHANGED <<next, prompt, live>>

SeamRemove ==
    \E u \in live : live' = live \ {u} /\ UNCHANGED <<next, prompt, said, done>>

SeamSpec == SeamInit /\ [][SeamInsert \/ SeamStep \/ SeamRemove]_seamVars
=============================================================================
