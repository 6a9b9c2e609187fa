---------------------------- MODULE MCHttpServer ----------------------------
(* An instance of HttpServer: every generating endpoint, streamed and not,  *)
(* and the others with no fault and with each pair of them.                 *)
EXTENDS HttpServer

\* No defaults are configured: the fallback's budget of 3 stands for 32768.
NoEngineDefaults == [temperature |-> 0, top_p |-> 0, repetition |-> 0, max_tokens |-> 1]
HardCoded == [temperature |-> 10, top_p |-> 9, top_k |-> 0, repetition |-> 10,
              max_tokens |-> 3]

Plain == [key |-> "right", preflight |-> FALSE, faults |-> {}, streamed |-> FALSE,
          usage |-> FALSE, prompt |-> 2, cached |-> 1, params |-> <<>>]
For(endpoint) == Plain @@ ("endpoint" :> endpoint)

\* Budgets: not asked for, a zero and a length.
Budgets == {<<>>, "max_tokens" :> 0, "max_tokens" :> 2,
            ("max_tokens" :> 3) @@ ("max_completion" :> 1)}

Served ==
    {[For(e) EXCEPT !.streamed = s, !.usage = (e = "chat"), !.params = b] :
        e \in Generating, s \in BOOLEAN, b \in {<<>>, "max_tokens" :> 2}}
    \cup {[For("chat") EXCEPT !.params = b] : b \in Budgets}

Turned ==
    UNION {{[For(e) EXCEPT !.faults = {f, g}] : f, g \in Faults(e)} : e \in Endpoints}
    \cup {For(e) : e \in Endpoints \ Generating}
    \cup {[For(e) EXCEPT !.key = k] : e \in Endpoints, k \in {"none", "wrong"}}
    \cup {[For("chat") EXCEPT !.preflight = TRUE]}

MCRequests == Served \cup Turned
=============================================================================
