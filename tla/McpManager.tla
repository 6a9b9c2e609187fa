------------------------------ MODULE McpManager ------------------------------
(***************************************************************************)
(* The MCP manager (mcp/manager.go) over its clients (mcp/client.go), and  *)
(* the executor (mcp/executor.go) that runs a batch of tool calls on it.   *)
(* Each client has a mutex, which Connect holds through the dial and the   *)
(* whole handshake; everything that asks a client for its state or its     *)
(* tools waits for it.  Start and Stop work on all clients at once, and    *)
(* one goroutine of the process starts the manager and one stops it.       *)
(*                                                                         *)
(* Names are sequences of the parts that "__" separates, one at least, any *)
(* of which may be empty.  The transports                                   *)
(* are those of McpRpc: a call returns a result or an error; which errors  *)
(* there are does not matter here.                                         *)
(***************************************************************************)
EXTENDS Integers, Sequences, FiniteSets, SequenceTheorems, TLAPS

CONSTANTS
    Servers,        \* the names of the configured servers, in definition order
    Enabled,        \* the (indices of the) servers that are enabled
    Offered,        \* the tools each server may list, by their local names
    Wanted,         \* the names of the batch's tool calls are drawn from this set
    BatchSize,      \* the number of tool calls in the batch
    MaxParallel,    \* Executor.maxParallel
    MaxStarts, MaxStops     \* bounds: how often Start and Stop are called

Parts   == STRING
Clients == DOMAIN Servers
Calls   == 1..BatchSize

ASSUME ManagerAssumption ==
    /\ Servers \in Seq(Seq(Parts) \ {<<>>})
    /\ \A c \in Clients : \A d \in Clients \ {c} : Servers[c] # Servers[d]
    /\ \A c \in Clients : Offered[c] \subseteq Seq(Parts) \ {<<>>}
    /\ Enabled \subseteq Clients /\ Offered \in [Clients -> SUBSET UNION {Offered[c] : c \in Clients}]
    /\ BatchSize \in Nat /\ MaxParallel \in Nat \ {0} /\ MaxStarts \in Nat /\ MaxStops \in Nat

VARIABLES
    state,      \* Client.state
    tr,         \* the clients whose tr is not nil
    tools,      \* Client.tools
    locked,     \* the clients whose mutex Connect holds
    open,       \* the clients with a transport that was dialled and not closed
    started,    \* Manager.started
    conn, starts,       \* Start: where the goroutine of each client is; the calls of Start
    disc, stops,        \* Stop, in the same way
    wanted,     \* the name that each call of the batch asks for
    parallel,   \* does the batch run in parallel?
    pc,         \* where each call is
    at,         \* the client a call is looking at, or has chosen
    result,     \* the results, in the order of the calls
    view        \* AllTools or ServerStatuses: the client it is at, 0 when not running

clientVars == <<state, tr, tools, locked, open>>
startVars  == <<conn, starts>>
stopVars   == <<disc, stops>>
batchVars  == <<wanted, parallel, pc, at, result>>
vars       == <<clientVars, started, startVars, stopVars, batchVars, view>>

None == [kind |-> "none", client |-> 0, tool |-> <<>>]

Init ==
    /\ state = [c \in Clients |-> "disconnected"] /\ tr = {}
    /\ tools = [c \in Clients |-> {}] /\ locked = {} /\ open = {}
    /\ started = FALSE
    /\ conn = [c \in Clients |-> "idle"] /\ starts = 0
    /\ disc = [c \in Clients |-> "idle"] /\ stops = 0
    /\ wanted \in [Calls -> Wanted] /\ parallel \in BOOLEAN
    /\ pc = [i \in Calls |-> "new"] /\ at = [i \in Calls |-> 0]
    /\ result = [i \in Calls |-> None]
    /\ view = 0

Idle(task)    == \A c \in Clients : task[c] = "idle"
Free(c)       == c \notin locked
Connected(c)  == state[c] = "connected"

-----------------------------------------------------------------------------
(* Start, and Connect for each enabled client.                             *)

StartBegin ==
    /\ Idle(conn) /\ starts < MaxStarts
    /\ starts' = starts + 1
    /\ conn' = IF started THEN conn
               ELSE [c \in Clients |-> IF c \in Enabled THEN "lock" ELSE "done"]
    /\ UNCHANGED <<clientVars, started, stopVars, batchVars, view>>

ConnectLock(c) ==
    /\ conn[c] = "lock" /\ Free(c)
    /\ IF Connected(c)
         THEN /\ conn' = [conn EXCEPT ![c] = "done"]
              /\ UNCHANGED <<state, locked>>
         ELSE /\ conn' = [conn EXCEPT ![c] = "dial"]
              /\ state' = [state EXCEPT ![c] = "connecting"]
              /\ locked' = locked \cup {c}
    /\ UNCHANGED <<tr, tools, open, started, starts, stopVars, batchVars, view>>

\* (An error before the client is connected leaves the transport as it is.)
Closing_Kept(c) == open

\* What cleanup leaves open: everything but the client's transport.
Closing(c) == open \ {c}

\* (The mutex is not given back on this path.)
Unlocked_Held(c) == locked

\* The mutexes that are held after Connect's deferred Unlock.
Unlocked(c) == locked \ {c}

\* fail, after cleanup: the client is in error, and the mutex is given back.
ConnectFails(c) ==
    /\ conn[c] \in {"dial", "initialize"}
    /\ state' = [state EXCEPT ![c] = "error"]
    /\ open' = Closing(c)
    /\ tr' = tr \ {c}
    /\ locked' = Unlocked(c)
    /\ conn' = [conn EXCEPT ![c] = "done"]
    /\ UNCHANGED <<tools, started, starts, stopVars, batchVars, view>>

Dial(c) ==
    /\ conn[c] = "dial"
    /\ tr' = tr \cup {c}
    /\ open' = open \cup {c}
    /\ conn' = [conn EXCEPT ![c] = "initialize"]
    /\ UNCHANGED <<state, tools, locked, started, starts, stopVars, batchVars, view>>

\* The server answers initialize, and then takes the notification.
Handshake(c) ==
    /\ conn[c] = "initialize"
    /\ conn' = [conn EXCEPT ![c] = "list"]
    /\ UNCHANGED <<clientVars, started, starts, stopVars, batchVars, view>>

\* discoverTools: an error, or a reply that does not parse, leaves no tools;
\* either way the client is connected.
Discover(c) ==
    /\ conn[c] = "list"
    /\ \E listed \in SUBSET Offered[c] : tools' = [tools EXCEPT ![c] = listed]
    /\ state' = [state EXCEPT ![c] = "connected"]
    /\ locked' = Unlocked(c)
    /\ conn' = [conn EXCEPT ![c] = "done"]
    /\ UNCHANGED <<tr, open, started, starts, stopVars, batchVars, view>>

StartEnd ==
    /\ \A c \in Clients : conn[c] = "done"
    /\ started' = TRUE
    /\ conn' = [c \in Clients |-> "idle"]
    /\ UNCHANGED <<clientVars, starts, stopVars, batchVars, view>>

-----------------------------------------------------------------------------
(* Stop, and Disconnect for each client.                                   *)

StopBegin ==
    /\ Idle(disc) /\ stops < MaxStops
    /\ stops' = stops + 1
    /\ disc' = IF started THEN [c \in Clients |-> "lock"] ELSE disc
    /\ UNCHANGED <<clientVars, started, startVars, batchVars, view>>

\* (Disconnect returns early unless the client is connected.)
Skips_NotConnected(c) == ~Connected(c)

\* Disconnect has nothing to do.
Skips(c) == state[c] = "disconnected"

Disconnect(c) ==
    /\ disc[c] = "lock" /\ Free(c)
    /\ IF Skips(c) THEN UNCHANGED <<state, tr, tools, open>>
       ELSE /\ open' = Closing(c)
            /\ tr' = tr \ {c}
            /\ state' = [state EXCEPT ![c] = "disconnected"]
            /\ tools' = [tools EXCEPT ![c] = {}]
    /\ disc' = [disc EXCEPT ![c] = "done"]
    /\ UNCHANGED <<locked, started, startVars, stops, batchVars, view>>

StopEnd ==
    /\ \A c \in Clients : disc[c] = "done"
    /\ started' = FALSE
    /\ disc' = [c \in Clients |-> "idle"]
    /\ UNCHANGED <<clientVars, startVars, stops, batchVars, view>>

-----------------------------------------------------------------------------
(* A batch of tool calls: runOne, that is ExecuteTool and CallTool.        *)

Running == {i \in Calls : pc[i] \notin {"new", "done"}}

\* A slot of the semaphore; or the calls before this one have returned.
MayRun(i) ==
    IF parallel THEN Cardinality(Running) < MaxParallel
    ELSE \A j \in 1..i - 1 : pc[j] = "done"

\* The name has no "__", or nothing before it: the server is looked for.
Bare(name) == Len(name) = 1 \/ Head(name) = ""

\* (The last "__" separates the server from the tool.)
Split_Last(name) ==
    IF Bare(name) THEN [server |-> <<>>, tool |-> name]
    ELSE [server |-> SubSeq(name, 1, Len(name) - 1), tool |-> <<name[Len(name)]>>]

\* splitToolName: the first "__" does.
Split(name) ==
    IF Bare(name) THEN [server |-> <<>>, tool |-> name]
    ELSE [server |-> <<Head(name)>>, tool |-> Tail(name)]

Tool(i) == Split(wanted[i]).tool
Named(i) == {c \in Clients : Servers[c] = Split(wanted[i]).server}

Finish(i, kind, c) ==
    /\ pc' = [pc EXCEPT ![i] = "done"]
    /\ result' = [result EXCEPT ![i] = [kind |-> kind, client |-> c, tool |-> Tool(i)]]

\* ExecuteTool goes to the server that the name says, or looks for one.
Execute(i) ==
    /\ pc[i] = "new" /\ MayRun(i)
    /\ \/ /\ Split(wanted[i]).server = <<>>
          /\ pc' = [pc EXCEPT ![i] = "find"] /\ at' = [at EXCEPT ![i] = 1]
          /\ UNCHANGED result
       \/ /\ Split(wanted[i]).server # <<>> /\ Named(i) = {}
          /\ Finish(i, "no server", 0)
          /\ UNCHANGED at
       \/ \E c \in Named(i) :
          /\ pc' = [pc EXCEPT ![i] = "check"] /\ at' = [at EXCEPT ![i] = c]
          /\ UNCHANGED result
    /\ UNCHANGED <<clientVars, started, startVars, stopVars, wanted, parallel, view>>

\* findToolServer goes on with the next client, or gives up.
NextClient(i) ==
    IF at[i] = Len(Servers) THEN Finish(i, "not found", 0) /\ UNCHANGED at
    ELSE /\ pc' = [pc EXCEPT ![i] = "find"] /\ at' = [at EXCEPT ![i] = @ + 1]
         /\ UNCHANGED result

\* findToolServer asks whether the client is connected ...
FindConnected(i) ==
    /\ pc[i] = "find" /\ Free(at[i])
    /\ IF Connected(at[i]) THEN pc' = [pc EXCEPT ![i] = "tools"] /\ UNCHANGED <<at, result>>
       ELSE NextClient(i)
    /\ UNCHANGED <<clientVars, started, startVars, stopVars, wanted, parallel, view>>

\* ... and then for its tools.
FindTool(i) ==
    /\ pc[i] = "tools" /\ Free(at[i])
    /\ IF Tool(i) \in tools[at[i]] THEN pc' = [pc EXCEPT ![i] = "check"] /\ UNCHANGED <<at, result>>
       ELSE NextClient(i)
    /\ UNCHANGED <<clientVars, started, startVars, stopVars, wanted, parallel, view>>

CheckConnected(i) ==
    /\ pc[i] = "check" /\ Free(at[i])
    /\ IF Connected(at[i]) THEN pc' = [pc EXCEPT ![i] = "read"] /\ UNCHANGED result
       ELSE Finish(i, "not connected", at[i])
    /\ UNCHANGED <<clientVars, started, startVars, stopVars, wanted, parallel, at, view>>

\* CallTool may use the client's transport.
Usable(c) == Connected(c) /\ c \in tr

\* CallTool reads the transport under the mutex, and uses it after.
ReadTransport(i) ==
    /\ pc[i] = "read" /\ Free(at[i])
    /\ IF Usable(at[i]) THEN pc' = [pc EXCEPT ![i] = "call"] /\ UNCHANGED result
       ELSE Finish(i, "not connected", at[i])
    /\ UNCHANGED <<clientVars, started, startVars, stopVars, wanted, parallel, at, view>>

\* The transport's call returns: closed or not, since a streamable HTTP
\* transport has nothing to close.
Return(i) ==
    /\ pc[i] = "call"
    /\ \E kind \in {"ok", "error", "timed out"} : Finish(i, kind, at[i])
    /\ UNCHANGED <<clientVars, started, startVars, stopVars, wanted, parallel, at, view>>

-----------------------------------------------------------------------------
(* AllTools, HasTool and ServerStatuses ask one client after the other.    *)

ViewBegin ==
    /\ view = 0 /\ Servers # <<>>
    /\ view' = 1
    /\ UNCHANGED <<clientVars, started, startVars, stopVars, batchVars>>

ViewNext ==
    /\ view # 0 /\ Free(view)
    /\ view' = IF view = Len(Servers) THEN 0 ELSE view + 1
    /\ UNCHANGED <<clientVars, started, startVars, stopVars, batchVars>>

ConnectStep(c) == ConnectLock(c) \/ Dial(c) \/ Handshake(c) \/ Discover(c) \/ ConnectFails(c)

CallStep(i) == Execute(i) \/ FindConnected(i) \/ FindTool(i) \/ CheckConnected(i)
               \/ ReadTransport(i) \/ Return(i)

Next == \/ StartBegin \/ StartEnd \/ StopBegin \/ StopEnd
        \/ \E c \in Clients : ConnectStep(c) \/ Disconnect(c)
        \/ \E i \in Calls : CallStep(i)
        \/ ViewBegin \/ ViewNext

SafetySpec == Init /\ [][Next]_vars

\* Goroutines run; a dial and a handshake come to an end, because the server
\* answers or the context of Start does.
Spec == /\ SafetySpec /\ WF_vars(StartEnd) /\ WF_vars(StopEnd) /\ WF_vars(ViewNext)
        /\ \A c \in Clients : WF_vars(ConnectStep(c)) /\ WF_vars(Disconnect(c))
        /\ \A i \in Calls : WF_vars(CallStep(i))

-----------------------------------------------------------------------------
(* Properties.                                                             *)

\* No transport leaks, whichever step of a connection fails: those that are
\* open are the clients' own.  A client that nobody is connecting is connected
\* exactly if it has a transport, and only connected clients have tools.
ClientsSound ==
    /\ open = tr
    /\ \A c \in Clients \ locked : Connected(c) <=> c \in tr
    /\ \A c \in Clients : tools[c] # {} => Connected(c)

\* And Stop leaves nobody connected, nor in the error state: when the manager is
\* not started and no Start is under way, every client is disconnected.
StopsClean ==
    /\ ClientsSound
    /\ ~started /\ Idle(conn) => \A c \in Clients : state[c] = "disconnected"

\* The server's own name has no "__" and is not empty; no configuration has to
\* keep to that, but the names of the tools of other servers are ambiguous.
Plain(c) == Len(Servers[c]) = 1 /\ Servers[c] # <<"">>

\* A name that AllTools gives out leads back to the tool it was made for,
\* whatever "__" the tool's own name has, and its result is in its place.
NamesLeadBack ==
    \A i \in Calls : pc[i] = "done" =>
        \A c \in Clients : \A tool \in Offered[c] :
            Plain(c) /\ wanted[i] = Servers[c] \o tool =>
                result[i].client = c /\ result[i].tool = tool

\* Everybody returns: the calls of a batch, those who ask for tools or
\* statuses, Start and Stop.
EveryoneReturns ==
    /\ \A i \in Calls : <>(pc[i] = "done")
    /\ view # 0 ~> view = 0
    /\ ~Idle(conn) ~> Idle(conn)
    /\ ~Idle(disc) ~> Idle(disc)

-----------------------------------------------------------------------------
(* The proof, for any servers, tools and calls, and any number of starts and *)
(* stops.                                                                  *)

States    == {"disconnected", "connecting", "connected", "error"}
ConnSteps == {"idle", "lock", "dial", "initialize", "list", "done"}
DiscSteps == {"idle", "lock", "done"}

ManagerTypeOK ==
    /\ state \in [Clients -> States] /\ tr \subseteq Clients
    /\ tools = [c \in Clients |-> tools[c]]
    /\ started \in BOOLEAN
    /\ conn \in [Clients -> ConnSteps] /\ disc \in [Clients -> DiscSteps]

\* What holds of a client, by where its Connect is: the mutex is held from the dial
\* to the end, the transport is there from the handshake on, and a client that is
\* not connected has none, nor tools.
ClientInv(c) ==
    /\ c \in locked <=> conn[c] \in {"dial", "initialize", "list"}
    /\ conn[c] = "dial" => c \notin tr
    /\ conn[c] \in {"initialize", "list"} => c \in tr
    /\ c \in locked <=> state[c] = "connecting"
    /\ c \notin locked => (state[c] = "connected" <=> c \in tr)
    /\ tools[c] # {} => state[c] = "connected"

\* Start and Stop do not overlap: Start works only while the manager is not
\* started, Stop only while it is.
OneAtATime ==
    /\ ~Idle(conn) => ~started /\ Idle(disc)
    /\ ~Idle(disc) => started
    /\ \A c \in Clients : disc[c] = "done" => state[c] = "disconnected"
    /\ ~started /\ Idle(conn) => \A c \in Clients : state[c] = "disconnected"

ManagerInv ==
    /\ ManagerTypeOK /\ open = tr /\ locked \subseteq Clients
    /\ \A c \in Clients : ClientInv(c)
    /\ OneAtATime

LEMMA ManagerInvInit == Init => ManagerInv
  <1> SUFFICES ASSUME Init PROVE ManagerInv
    OBVIOUS
  <1>. USE DEF Init
  <1>1. ManagerTypeOK  BY DEF ManagerTypeOK, States, ConnSteps, DiscSteps
  <1>2. open = tr /\ locked \subseteq Clients  OBVIOUS
  <1>3. ASSUME NEW c \in Clients PROVE ClientInv(c)  BY DEF ClientInv
  <1>4. OneAtATime  BY DEF OneAtATime, Idle
  <1>. QED  BY <1>1, <1>2, <1>3, <1>4 DEF ManagerInv

-----------------------------------------------------------------------------
(* Steps of a Connect touch one client, and no Stop runs meanwhile.        *)

LEMMA ConnectKeeps ==
    ASSUME ManagerInv, NEW c \in Clients, ConnectStep(c)
    PROVE  ManagerInv'
  <1>. USE DEF ManagerInv, ManagerTypeOK, Idle
  <1>1. /\ started' = started /\ disc' = disc /\ conn[c] # "idle" /\ conn'[c] # "idle"
        /\ conn' \in [Clients -> ConnSteps]
        /\ \A d \in Clients \ {c} : conn'[d] = conn[d]
    BY DEF ConnectStep, ConnectLock, Dial, Handshake, Discover, ConnectFails, stopVars, clientVars,
           ConnSteps
  <1>2. ~Idle(conn) /\ ~Idle(conn') /\ Idle(disc) /\ ~started
    BY <1>1 DEF OneAtATime
  <1>3. OneAtATime'  BY <1>1, <1>2 DEF OneAtATime
  <1>4. /\ state' \in [Clients -> States] /\ tr' \subseteq Clients
        /\ tools' = [d \in Clients |-> tools'[d]]
    BY DEF ConnectStep, ConnectLock, Dial, Handshake, Discover, ConnectFails, clientVars, States
  <1>5. open' = tr' /\ locked' \subseteq Clients
    BY DEF ConnectStep, ConnectLock, Dial, Handshake, Discover, ConnectFails, clientVars,
           Closing, Unlocked
  <1>6. ASSUME NEW d \in Clients PROVE ClientInv(d)'
    <2>. USE DEF ClientInv
    <2>1. CASE ConnectLock(c)  BY <2>1 DEF ConnectLock, Free, Connected, States
    <2>2. CASE Dial(c)  BY <2>2 DEF Dial
    <2>3. CASE Handshake(c)  BY <2>3 DEF Handshake, clientVars
    <2>4. CASE Discover(c)  BY <2>4 DEF Discover, Unlocked
    <2>5. CASE ConnectFails(c)  BY <2>5 DEF ConnectFails, Closing, Unlocked
    <2>. QED  BY <2>1, <2>2, <2>3, <2>4, <2>5 DEF ConnectStep
  <1>. QED  BY <1>1, <1>3, <1>4, <1>5, <1>6

\* A Disconnect runs while nobody connects.
LEMMA DisconnectKeeps ==
    ASSUME ManagerInv, NEW c \in Clients, Disconnect(c)
    PROVE  ManagerInv'
  <1>. USE DEF ManagerInv, ManagerTypeOK, Idle
  <1>1. /\ started' = started /\ conn' = conn /\ locked' = locked
        /\ disc[c] = "lock" /\ disc'[c] = "done"
        /\ disc' \in [Clients -> DiscSteps]
        /\ \A d \in Clients \ {c} : disc'[d] = disc[d]
    BY DEF Disconnect, startVars, DiscSteps
  <1>2. started /\ Idle(conn) /\ ~Idle(disc')
    BY <1>1 DEF OneAtATime
  <1>3. /\ state' \in [Clients -> States] /\ state'[c] = "disconnected"
        /\ \A d \in Clients \ {c} : state'[d] = state[d]
        /\ tools' = [d \in Clients |-> tools'[d]]
        /\ tr' \subseteq Clients /\ open' = tr'
    BY DEF Disconnect, Skips, Closing, States
  <1>4. OneAtATime'  BY <1>1, <1>2, <1>3 DEF OneAtATime
  <1>5. ASSUME NEW d \in Clients PROVE ClientInv(d)'
    BY <1>1, <1>3 DEF ClientInv, Disconnect, Skips, Closing, Free
  <1>. QED  BY <1>1, <1>3, <1>4, <1>5

\* The calls of a batch and the views only look at the clients.
LEMMA LookingKeeps ==
    ASSUME ManagerInv, UNCHANGED <<clientVars, started, conn, disc>>
    PROVE  ManagerInv'
  BY DEF ManagerInv, ManagerTypeOK, ClientInv, OneAtATime, Idle, clientVars

LEMMA ManagerInvStep == ManagerInv /\ [Next]_vars => ManagerInv'
  <1> SUFFICES ASSUME ManagerInv, [Next]_vars PROVE ManagerInv'
    OBVIOUS
  <1>1. CASE StartBegin
    BY <1>1 DEF StartBegin, ManagerInv, ManagerTypeOK, ClientInv, OneAtATime, Idle, clientVars,
                stopVars, ConnSteps
  <1>2. CASE StartEnd
    BY <1>2 DEF StartEnd, ManagerInv, ManagerTypeOK, ClientInv, OneAtATime, Idle, clientVars,
                stopVars, ConnSteps
  <1>3. CASE StopBegin
    BY <1>3 DEF StopBegin, ManagerInv, ManagerTypeOK, ClientInv, OneAtATime, Idle, clientVars,
                startVars, DiscSteps
  <1>4. CASE StopEnd
    BY <1>4 DEF StopEnd, ManagerInv, ManagerTypeOK, ClientInv, OneAtATime, Idle, clientVars,
                startVars, DiscSteps
  <1>5. ASSUME NEW c \in Clients, ConnectStep(c) PROVE ManagerInv'
    BY <1>5, ConnectKeeps
  <1>6. ASSUME NEW c \in Clients, Disconnect(c) PROVE ManagerInv'
    BY <1>6, DisconnectKeeps
  <1>7. ASSUME NEW i \in Calls, CallStep(i) PROVE ManagerInv'
    <2>1. UNCHANGED <<clientVars, started, conn, disc>>
      BY <1>7 DEF CallStep, Execute, FindConnected, FindTool, CheckConnected, ReadTransport,
                  Return, startVars, stopVars
    <2>. QED  BY <2>1, LookingKeeps
  <1>8. CASE ViewBegin \/ ViewNext \/ UNCHANGED vars
    <2>1. UNCHANGED <<clientVars, started, conn, disc>>
      BY <1>8 DEF ViewBegin, ViewNext, vars, startVars, stopVars
    <2>. QED  BY <2>1, LookingKeeps
  <1>. QED  BY <1>1, <1>2, <1>3, <1>4, <1>5, <1>6, <1>7, <1>8 DEF Next

\* Whatever fails while connecting, no transport leaks; and after Stop nobody is
\* connected (manager.go Start, Stop; client.go Connect, Disconnect, fail).
THEOREM StopLeavesNobody == SafetySpec => []StopsClean
  <1>1. ManagerInv => StopsClean
    BY DEF ManagerInv, ManagerTypeOK, ClientInv, OneAtATime, StopsClean, ClientsSound, Connected
  <1>. QED  BY ManagerInvInit, ManagerInvStep, <1>1, PTL DEF SafetySpec
-----------------------------------------------------------------------------
(* A call whose name says a server goes to that server and to no other.    *)

CallSteps == {"new", "find", "tools", "check", "read", "call", "done"}

\* Where such a call is, and what its result says.
Directed(i) ==
    /\ pc[i] \notin {"find", "tools"}
    /\ pc[i] \in {"check", "read", "call"} => at[i] \in Named(i)
    /\ pc[i] = "done" => result[i].client \in Named(i) /\ result[i].tool = Tool(i)

CallsInv ==
    /\ pc \in [Calls -> CallSteps]
    /\ at = [i \in Calls |-> at[i]] /\ result = [i \in Calls |-> result[i]]
    /\ \A i \in Calls : Named(i) # {} => Directed(i)

\* A server that has a name has one that is not empty.
LEMMA NamedIsNamed == \A i \in Calls : Named(i) # {} => Split(wanted[i]).server # <<>>
  BY ManagerAssumption, ElementOfSeq, LenProperties DEF Named, Clients

LEMMA CallsInvStep == CallsInv /\ [Next]_vars => CallsInv'
  <1> SUFFICES ASSUME CallsInv, [Next]_vars PROVE CallsInv'
    OBVIOUS
  <1>1. ASSUME NEW i \in Calls, CallStep(i) PROVE CallsInv'
    <2>0. wanted' = wanted
      BY <1>1 DEF CallStep, Execute, FindConnected, FindTool, CheckConnected, ReadTransport, Return
    <2>1. \A j \in Calls : Named(j)' = Named(j) /\ Tool(j)' = Tool(j)
      BY <2>0 DEF Named, Tool, Split, Bare
    <2>2. /\ pc' \in [Calls -> CallSteps]
          /\ at' = [j \in Calls |-> at'[j]] /\ result' = [j \in Calls |-> result'[j]]
          /\ \A j \in Calls \ {i} : pc'[j] = pc[j] /\ at'[j] = at[j] /\ result'[j] = result[j]
      BY <1>1 DEF CallsInv, CallSteps, CallStep, Execute, FindConnected, FindTool, CheckConnected,
                  ReadTransport, Return, NextClient, Finish
    <2>3. ASSUME Named(i) # {} PROVE Directed(i)'
      <3>1. Directed(i) /\ Split(wanted[i]).server # <<>>
        BY <2>3, NamedIsNamed DEF CallsInv
      <3>2. CASE Execute(i)
        BY <2>1, <2>3, <3>1, <3>2 DEF Execute, Directed, CallsInv
      <3>3. CASE FindConnected(i) \/ FindTool(i)
        BY <3>1, <3>3 DEF FindConnected, FindTool, Directed
      <3>4. CASE CheckConnected(i) \/ ReadTransport(i) \/ Return(i)
        <4>1. /\ pc[i] \in {"check", "read", "call"} /\ at' = at
              /\ \/ pc' = [pc EXCEPT ![i] = "read"] \/ pc' = [pc EXCEPT ![i] = "call"]
                 \/ \E kind : Finish(i, kind, at[i])
          BY <3>4 DEF CheckConnected, ReadTransport, Return
        <4>2. pc'[i] \in {"read", "call"} \/ (pc'[i] = "done" /\ \E kind :
                 result'[i] = [kind |-> kind, client |-> at[i], tool |-> Tool(i)])
          BY <4>1 DEF Finish, CallsInv
        <4>3. Directed(i)' <=>
                /\ pc'[i] \notin {"find", "tools"}
                /\ pc'[i] \in {"check", "read", "call"} => at'[i] \in Named(i)
                /\ pc'[i] = "done" => result'[i].client \in Named(i) /\ result'[i].tool = Tool(i)
          BY <2>1 DEF Directed
        <4>4. at[i] \in Named(i)  BY <3>1, <4>1 DEF Directed
        <4>5. CASE pc'[i] \in {"read", "call"}  BY <4>1, <4>3, <4>4, <4>5
        <4>6. CASE pc'[i] = "done"
          <5>1. PICK kind : result'[i] = [kind |-> kind, client |-> at[i], tool |-> Tool(i)]
            BY <4>2, <4>6
          <5>. QED  BY <4>3, <4>4, <4>6, <5>1
        <4>. QED  BY <4>2, <4>5, <4>6
      <3>. QED  BY <1>1, <3>2, <3>3, <3>4 DEF CallStep
    <2>. QED  BY <2>1, <2>2, <2>3 DEF CallsInv, Directed
  <1>2. ASSUME UNCHANGED batchVars PROVE CallsInv'
    BY <1>2 DEF batchVars, CallsInv, Directed, Named, Tool, Split, Bare
  <1>3. \/ UNCHANGED batchVars
        \/ \E i \in Calls : CallStep(i)
    BY DEF Next, ConnectStep, StartBegin, StartEnd, StopBegin, StopEnd, ConnectLock, Dial, Handshake,
           Discover, ConnectFails, Disconnect, ViewBegin, ViewNext, vars
  <1>. QED  BY <1>1, <1>2, <1>3

\* A tool's full name is the name of its server, and then its own.
LEMMA FullName ==
    ASSUME NEW S, NEW part \in S, NEW tool \in Seq(S), tool # <<>>
    PROVE  /\ Len(<<part>> \o tool) # 1
           /\ Head(<<part>> \o tool) = part /\ Tail(<<part>> \o tool) = tool
  <1>. DEFINE name == <<part>> \o tool
  <1>1. <<part>> \in Seq(S) /\ Len(<<part>>) = 1 /\ <<part>>[1] = part
    OBVIOUS
  <1>2. Len(tool) \in Nat \ {0}  BY EmptySeq
  <1>3. /\ name \in Seq(S) /\ Len(name) = 1 + Len(tool)
        /\ \A i \in 1..Len(name) : name[i] = IF i <= 1 THEN <<part>>[i] ELSE tool[i - 1]
    BY <1>1, <1>2, ConcatProperties
  <1>. HIDE DEF name
  <1>4. name # <<>> /\ Head(name) = name[1]  BY <1>2, <1>3, EmptySeq
  <1>5. /\ Tail(name) \in Seq(S) /\ Len(Tail(name)) = Len(name) - 1
        /\ \A i \in 1..Len(Tail(name)) : Tail(name)[i] = name[i + 1]
    BY <1>3, <1>4, HeadTailProperties
  <1>6. \A i \in 1..Len(tool) : Tail(name)[i] = tool[i]
    BY <1>2, <1>3, <1>5
  <1>7. Tail(name) = tool  BY <1>2, <1>3, <1>5, <1>6, SeqEqual
  <1>8. Head(name) = part  BY <1>1, <1>2, <1>3, <1>4
  <1>. QED  BY <1>2, <1>3, <1>7, <1>8 DEF name

\* A name that AllTools gives out leads back to the server and the tool it was made
\* for (manager.go ExecuteTool, splitToolName; client.go FullName).
THEOREM NamesAreKept == SafetySpec => []NamesLeadBack
  <1>1. Init => CallsInv  BY DEF Init, CallsInv, CallSteps, Directed
  <1>2. CallsInv => NamesLeadBack
    <2> SUFFICES ASSUME CallsInv, NEW i \in Calls, pc[i] = "done",
                        NEW c \in Clients, NEW tool \in Offered[c],
                        Plain(c), wanted[i] = Servers[c] \o tool
                 PROVE  result[i].client = c /\ result[i].tool = tool
      BY DEF NamesLeadBack
    <2>1. Servers[c] \in Seq(Parts) /\ tool \in Seq(Parts) /\ tool # <<>>
      BY ManagerAssumption, ElementOfSeq, LenProperties DEF Clients
    <2>2. PICK name \in Parts : Servers[c] = <<name>> /\ name # ""
      <3>1. Len(Servers[c]) = 1  BY DEF Plain
      <3>2. Servers[c][1] \in Parts /\ Servers[c] = <<Servers[c][1]>>
        BY <2>1, <3>1, LenProperties
      <3>. QED  BY <3>2 DEF Plain
    <2>3. Len(wanted[i]) # 1 /\ Head(wanted[i]) = name /\ Tail(wanted[i]) = tool
      <3>1. wanted[i] = <<name>> \o tool  BY <2>2
      <3>. QED  BY <2>1, <3>1, FullName
    <2>4. Split(wanted[i]) = [server |-> Servers[c], tool |-> tool]
      <3>1. ~Bare(wanted[i])  BY <2>2, <2>3 DEF Bare
      <3>. QED  BY <2>2, <2>3, <3>1 DEF Split
    <2>5. Named(i) = {c} /\ Tool(i) = tool
      BY <2>4, ManagerAssumption DEF Named, Tool
    <2>. QED  BY <2>5 DEF CallsInv, Directed
  <1>. QED  BY CallsInvStep, <1>1, <1>2, PTL DEF SafetySpec
=============================================================================
