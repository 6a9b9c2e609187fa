--------------------------- MODULE OutputCollector ---------------------------
(***************************************************************************)
(* The output buffers between the engine loop and the streaming handlers   *)
(* (engine/output_collector.go): Put never blocks, Get blocks until there  *)
(* is an output or its context is done, Clear drops what is buffered, and  *)
(* a process-wide count says how many consumers are blocked.               *)
(*                                                                         *)
(* Every critical section of the collector's mutex is one action; between  *)
(* two of them Get may be overtaken by Put and Clear.  The channel ready   *)
(* has capacity one.  Tokens are numbered in the order of production.      *)
(***************************************************************************)
EXTENDS Integers, FiniteSets, Sequences

CONSTANTS
    Collectors,     \* the requests that stream
    Interval,       \* RequestStreamState.StreamInterval
    MaxPuts,        \* bound: outputs per request
    MaxClears,      \* bound: calls of Clear per request
    Cancels         \* may a handler's context be cancelled?

ASSUME CollectorAssumption ==
    /\ IsFiniteSet(Collectors) /\ Interval \in Nat /\ MaxPuts \in Nat /\ MaxClears \in Nat
    /\ Cancels \in BOOLEAN

VARIABLES
    aggregate,      \* RequestOutputCollector.aggregate, which never changes
    output,         \* the buffer of each collector; NoOutput if there is none
    ready,          \* is there a signal in the channel ready?
    isWaiting,      \* RequestOutputCollector.isWaiting
    waitingConsumers,   \* the count of the process
    consumer,       \* where the handler is in Get
    sentTokens,     \* RequestStreamState.SentTokens of the handler
    made,           \* history: the outputs that were put
    got,            \* history: the outputs that the handler took, merged
    cleared         \* the number of calls of Clear

bufferVars == <<aggregate, output, ready>>
waitVars   == <<isWaiting, waitingConsumers>>
collectorVars       == <<aggregate, output, ready, isWaiting, waitingConsumers, consumer, sentTokens,
                made, got, cleared>>

\* RequestOutput: its new tokens, Finished, and whether Err is set.
Outputs  == [toks : Seq(Nat), fin : BOOLEAN, err : BOOLEAN]
NoOutput == [toks |-> <<>>, fin |-> FALSE, err |-> FALSE, none |-> TRUE]

\* Where a handler is: outside Get, about to look at the buffer, about to
\* block, and about to leave Get.
ConsumerStates == {"idle", "look", "block", "leave"}

-----------------------------------------------------------------------------
CollectorInit ==
    /\ aggregate \in [Collectors -> BOOLEAN]
    /\ output = [c \in Collectors |-> NoOutput]
    /\ ready = [c \in Collectors |-> FALSE]
    /\ isWaiting = [c \in Collectors |-> FALSE] /\ waitingConsumers = 0
    /\ consumer = [c \in Collectors |-> "idle"]
    /\ sentTokens = [c \in Collectors |-> 0]
    /\ made = [c \in Collectors |-> <<>>]
    /\ got = [c \in Collectors |-> [toks |-> <<>>, fin |-> FALSE, err |-> FALSE]]
    /\ cleared = [c \in Collectors |-> 0]

Buffered(c) == output[c] # NoOutput

\* A slip, as everywhere in this project: a definition named *_<slip> is the
\* one after it with a plausible programming error.
\* (The error of the newest output wins.)
Merge_NewError(old, new) ==
    [toks |-> old.toks \o new.toks, fin |-> new.fin, err |-> new.err]

\* mergeOutputs: tokens accumulate, the status is the newest one, an error stays.
Merge(old, new) ==
    [toks |-> old.toks \o new.toks, fin |-> new.fin, err |-> old.err \/ new.err]

-----------------------------------------------------------------------------
(* The producer.                                                           *)

\* The outputs that the engine may make next for c: the next token, and on the
\* last one the end; nothing follows the end.
NewOutputs(c) ==
    IF \E i \in DOMAIN made[c] : made[c][i].fin THEN {}
    ELSE {[toks |-> <<Len(made[c]) + 1>>, fin |-> last, err |-> failed] :
            last \in BOOLEAN, failed \in BOOLEAN}

\* (Without aggregation, a full buffer keeps the old output.)
Put_KeepsOld(c, new) ==
    /\ Len(made[c]) < MaxPuts
    /\ made' = [made EXCEPT ![c] = Append(@, new)]
    /\ output' = [output EXCEPT ![c] = IF Buffered(c) /\ ~aggregate[c] THEN @ ELSE new]
    /\ ready' = [ready EXCEPT ![c] = TRUE]
    /\ UNCHANGED <<aggregate, waitVars, consumer, sentTokens, got, cleared>>

\* Put.
Put(c, new) ==
    /\ Len(made[c]) < MaxPuts
    /\ made' = [made EXCEPT ![c] = Append(@, new)]
    /\ output' = [output EXCEPT ![c] = IF Buffered(c) /\ aggregate[c] THEN Merge(@, new) ELSE new]
    /\ ready' = [ready EXCEPT ![c] = TRUE]
    /\ UNCHANGED <<aggregate, waitVars, consumer, sentTokens, got, cleared>>

-----------------------------------------------------------------------------
(* The handler.                                                            *)

\* (The first token waits for its interval too.)
ShouldSend_NoFirst(sent, total, fin) == fin \/ total - sent >= Interval

\* ShouldSend: the end and the first token go out at once.
ShouldSend(sent, total, fin) == fin \/ sent = 0 \/ total - sent >= Interval

\* takeLocked, and the handler's batching of what it took (MarkSent).
Take(c) ==
    LET all == Merge(got[c], output[c]) IN
    /\ Buffered(c)
    /\ output' = [output EXCEPT ![c] = NoOutput]
    /\ ready' = [ready EXCEPT ![c] = FALSE]
    /\ got' = [got EXCEPT ![c] = all]
    /\ sentTokens' = [sentTokens EXCEPT ![c] =
                        IF ShouldSend(@, Len(all.toks), all.fin) THEN Len(all.toks) ELSE @]

GetNowait(c) ==
    /\ consumer[c] = "idle"
    /\ Take(c)
    /\ UNCHANGED <<aggregate, waitVars, consumer, made, cleared>>

\* Get, its first critical section; the handler stops after the end.
GetBegin(c) ==
    /\ consumer[c] = "idle" /\ ~got[c].fin
    /\ isWaiting' = [isWaiting EXCEPT ![c] = TRUE]
    /\ waitingConsumers' = IF isWaiting[c] THEN waitingConsumers ELSE waitingConsumers + 1
    /\ consumer' = [consumer EXCEPT ![c] = "look"]
    /\ UNCHANGED <<bufferVars, sentTokens, made, got, cleared>>

GetTake(c) ==
    /\ consumer[c] = "look"
    /\ Take(c)
    /\ consumer' = [consumer EXCEPT ![c] = "leave"]
    /\ UNCHANGED <<aggregate, waitVars, made, cleared>>

GetNothing(c) ==
    /\ consumer[c] = "look" /\ ~Buffered(c)
    /\ consumer' = [consumer EXCEPT ![c] = "block"]
    /\ UNCHANGED <<bufferVars, waitVars, sentTokens, made, got, cleared>>

GetWake(c) ==
    /\ consumer[c] = "block" /\ ready[c]
    /\ ready' = [ready EXCEPT ![c] = FALSE]
    /\ consumer' = [consumer EXCEPT ![c] = "look"]
    /\ UNCHANGED <<aggregate, output, waitVars, sentTokens, made, got, cleared>>

\* The select may pick the context although ready is signalled.
GetCancel(c) ==
    /\ Cancels
    /\ consumer[c] = "block"
    /\ consumer' = [consumer EXCEPT ![c] = "leave"]
    /\ UNCHANGED <<bufferVars, waitVars, sentTokens, made, got, cleared>>

\* (The count goes down whether or not the collector is counted.)
StopWaiting_Always(c) ==
    /\ isWaiting' = [isWaiting EXCEPT ![c] = FALSE]
    /\ waitingConsumers' = waitingConsumers - 1

\* What stopWaiting and Clear do to the count.
StopWaiting(c) ==
    /\ isWaiting' = [isWaiting EXCEPT ![c] = FALSE]
    /\ waitingConsumers' = IF isWaiting[c] THEN waitingConsumers - 1 ELSE waitingConsumers

\* The deferred stopWaiting.
GetEnd(c) ==
    /\ consumer[c] = "leave"
    /\ StopWaiting(c)
    /\ consumer' = [consumer EXCEPT ![c] = "idle"]
    /\ UNCHANGED <<bufferVars, sentTokens, made, got, cleared>>

-----------------------------------------------------------------------------
\* Clear, called by anyone.
Clear(c) ==
    /\ cleared[c] < MaxClears
    /\ cleared' = [cleared EXCEPT ![c] = @ + 1]
    /\ output' = [output EXCEPT ![c] = NoOutput]
    /\ ready' = [ready EXCEPT ![c] = FALSE]
    /\ StopWaiting(c)
    /\ UNCHANGED <<aggregate, consumer, sentTokens, made, got>>

Handler(c) == \/ GetNowait(c) \/ GetBegin(c) \/ GetTake(c) \/ GetNothing(c)
              \/ GetWake(c) \/ GetEnd(c)

CollectorNext == \E c \in Collectors :
    \/ \E new \in NewOutputs(c) : Put(c, new)
    \/ Handler(c) \/ GetCancel(c) \/ Clear(c)

CollectorSpec == CollectorInit /\ [][CollectorNext]_collectorVars

-----------------------------------------------------------------------------
(* Properties.                                                             *)

\* The count of the process is the number of collectors that are marked, though
\* Get and Clear both may take the mark away.
WaitersCounted == waitingConsumers = Cardinality({c \in Collectors : isWaiting[c]})

\* A handler never blocks on an output that is there: whatever the order of Put,
\* Clear and the looks of Get, the signal is still to come.
NoLostWakeup == \A c \in Collectors : consumer[c] = "block" /\ Buffered(c) => ready[c]

\* With aggregation, nothing is lost, repeated or reordered on the way, and an
\* error reaches the handler, unless Clear drops it.
Lossless ==
    \A c \in Collectors : aggregate[c] /\ cleared[c] = 0 =>
        LET all == IF Buffered(c) THEN Merge(got[c], output[c]) ELSE got[c]
        IN  /\ all.toks = [i \in 1..Len(made[c]) |-> i]
            /\ all.err <=> \E i \in DOMAIN made[c] : made[c][i].err

\* A collector that does not aggregate skips outputs, but neither kind ever skips
\* the newest one.
LatestKept ==
    \A c \in Collectors : cleared[c] = 0 /\ made[c] # <<>> =>
        LET held == IF Buffered(c) THEN output[c].toks ELSE got[c].toks
        IN  held[Len(held)] = Len(made[c])

\* The handler holds back less than an interval, and nothing of the first output
\* or after the end.
HeldBackBounded ==
    \A c \in Collectors :
        LET held == Len(got[c].toks) - sentTokens[c]
        IN  /\ held = 0 \/ held < Interval
            /\ got[c].fin => held = 0
            /\ got[c].toks # <<>> => sentTokens[c] > 0

\* The collector wakes who waits, loses and repeats nothing, shows the newest state,
\* holds little back, and counts who waits (engine/output_collector.go).
CollectorSound == NoLostWakeup /\ Lossless /\ LatestKept /\ HeldBackBounded /\ WaitersCounted

=============================================================================
