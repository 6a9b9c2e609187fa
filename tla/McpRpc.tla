-------------------------------- MODULE McpRpc --------------------------------
(***************************************************************************)
(* What a connection to an MCP server promises its callers (the transport  *)
(* interface of mcp/client.go): a call returns once, with the server's     *)
(* reply to that very call or with an error.  A reply is named by the call *)
(* it answers.                                                             *)
(***************************************************************************)
CONSTANTS Calls, NoResult, Failed

VARIABLES
    answered,   \* the calls the server has replied to
    result      \* what each call has returned

rpcVars == <<answered, result>>

RpcInit == answered = {} /\ result = [k \in Calls |-> NoResult]

RpcAnswer(k) ==
    /\ k \notin answered
    /\ answered' = answered \cup {k}
    /\ UNCHANGED result

RpcReturn(k) ==
    /\ result[k] = NoResult
    /\ \/ result' = [result EXCEPT ![k] = Failed]
       \/ k \in answered /\ result' = [result EXCEPT ![k] = k]
    /\ UNCHANGED answered

RpcSpec == RpcInit /\ [][\E k \in Calls : RpcAnswer(k) \/ RpcReturn(k)]_rpcVars
=============================================================================
