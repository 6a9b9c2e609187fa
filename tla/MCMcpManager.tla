----------------------------- MODULE MCMcpManager -----------------------------
(* An instance of McpManager: two servers, one tool of the first with "__" *)
(* in its name, which read from the left names a tool of the second one.   *)
EXTENDS McpManager

MCServers == <<<<"fs">>, <<"web">>>>
MCOffered == <<{<<"web", "get">>}, {<<"get">>}>>
MCWanted  == {<<"fs", "web", "get">>, <<"get">>, <<"db", "get">>}
=============================================================================
