------------------------------- MODULE McpStdio -------------------------------
(***************************************************************************)
(* The stdio transport (mcp/client.go): calls of several goroutines to a   *)
(* server process over its stdin and stdout.  The mutex of the transport   *)
(* admits one call at a time; it is taken without regard to the context.   *)
(* Each line is read by a goroutine of its own; when the context ends the  *)
(* call returns, and the goroutine stays blocked in its read.              *)
(*                                                                         *)
(* Readers that are left behind share the bufio.Reader with the next call. *)
(* That is a data race: here a line goes to any of the readers, or reaches *)
(* the call's own reader garbled.  The server is external: it answers a    *)
(* request at most once, at any time, or never, and may exit.              *)
(***************************************************************************)
EXTENDS Integers, Sequences, FiniteSets

CONSTANTS
    Calls,          \* the calls, each by a goroutine of its own
    MaxExtra,       \* bound: the lines the server sends that are not replies
    NoResult, Failed, NoCall, EOF, Garbled

VARIABLES
    pc,         \* where each call is
    id,         \* the JSON-RPC id of each call; 0 before it has one
    result,     \* what each call has returned
    next,       \* stdioTransport.next
    lock,       \* the call that holds stdioTransport.mu
    deadlined,  \* the calls whose context has a deadline
    expired,    \* the calls whose context is done
    reader,     \* does the call's reader wait for a line?
    line,       \* the line in the channel of the call's reader
    strays,     \* the number of readers that were left behind
    stdout,     \* the lines on their way from the server
    received,   \* the ids of the requests the server has
    answered,   \* history: the calls the server has replied to
    extra,      \* the number of lines sent that are not replies
    alive       \* does the server run?

callVars   == <<pc, id, result, next, lock, deadlined, expired>>
readVars   == <<reader, line, strays>>
serverVars == <<received, answered, extra, alive>>
vars       == <<callVars, readVars, stdout, serverVars>>

\* A line is a reply, a notification, or a request of the server, here under an
\* id that no call has.
Reply(i)     == [kind |-> "reply", id |-> i]
Notification == [kind |-> "notification", id |-> 0]
Request      == [kind |-> "request", id |-> 0]
Ids          == 1..Cardinality(Calls)
Lines        == {Notification, Request} \cup {Reply(i) : i \in Ids}
NoLine       == [kind |-> "none", id |-> 0]

Init ==
    /\ pc = [k \in Calls |-> "new"] /\ id = [k \in Calls |-> 0]
    /\ result = [k \in Calls |-> NoResult]
    /\ next = 0 /\ lock = NoCall /\ deadlined = {} /\ expired = {}
    /\ reader = [k \in Calls |-> FALSE] /\ line = [k \in Calls |-> NoLine] /\ strays = 0
    /\ stdout = <<>>
    /\ received = {} /\ answered = {} /\ extra = 0 /\ alive = TRUE

-----------------------------------------------------------------------------
(* A call.                                                                 *)

\* The caller's context has a deadline, or none.
Begin(k) ==
    /\ pc[k] = "new"
    /\ pc' = [pc EXCEPT ![k] = "lock"]
    /\ deadlined' \in {deadlined, deadlined \cup {k}}
    /\ UNCHANGED <<id, result, next, lock, expired, readVars, stdout, serverVars>>

Expire(k) ==
    /\ k \in deadlined \ expired
    /\ pc[k] \notin {"new", "done"}
    /\ expired' = expired \cup {k}
    /\ UNCHANGED <<pc, id, result, next, lock, deadlined, readVars, stdout, serverVars>>

\* A slip, as everywhere in this project: a definition named *_<slip> is the
\* one after it with a plausible programming error.
\* (The mutex is not released.)
Return_Locked(k, r) ==
    /\ pc' = [pc EXCEPT ![k] = "done"]
    /\ result' = [result EXCEPT ![k] = r]
    /\ lock' = lock
    /\ UNCHANGED <<id, next, deadlined, expired>>

\* call returns, and its deferred Unlock runs.
Return(k, r) ==
    /\ pc' = [pc EXCEPT ![k] = "done"]
    /\ result' = [result EXCEPT ![k] = r]
    /\ lock' = NoCall
    /\ UNCHANGED <<id, next, deadlined, expired>>

\* (Calls do not exclude each other.)
Free_Always == TRUE

\* stdioTransport.mu can be taken.
Free == lock = NoCall

NewId == next + 1

\* The mutex is free: take an id and write the request; the context is not
\* looked at before.
Send(k) ==
    /\ pc[k] = "lock" /\ Free /\ alive
    /\ lock' = k
    /\ next' = next + 1
    /\ id' = [id EXCEPT ![k] = NewId]
    /\ received' = received \cup {NewId}
    /\ pc' = [pc EXCEPT ![k] = "loop"]
    /\ UNCHANGED <<result, deadlined, expired, readVars, stdout, answered, extra, alive>>

\* Writing to a server that exited is an error.
SendFails(k) ==
    /\ pc[k] = "lock" /\ Free /\ ~alive
    /\ pc' = [pc EXCEPT ![k] = "done"]
    /\ result' = [result EXCEPT ![k] = Failed]
    /\ next' = next + 1 /\ id' = [id EXCEPT ![k] = NewId]
    /\ UNCHANGED <<lock, deadlined, expired, readVars, stdout, serverVars>>

\* The head of the loop: give up, or read the next line.
GiveUp(k) ==
    /\ pc[k] = "loop" /\ k \in expired
    /\ Return(k, Failed)
    /\ UNCHANGED <<readVars, stdout, serverVars>>

Read(k) ==
    /\ pc[k] = "loop" /\ k \notin expired
    /\ pc' = [pc EXCEPT ![k] = "read"]
    /\ reader' = [reader EXCEPT ![k] = TRUE]
    /\ UNCHANGED <<id, result, next, lock, deadlined, expired, line, strays, stdout, serverVars>>

\* (Any line with an id will do.)
Matches_AnyId(k, l) == l # Notification

\* The line is taken for the reply to k: it has an id, and it is the id of k.
Matches(k, l) == l # Notification /\ l.id = id[k]

\* Where a call goes on after a line that is not its reply.
Again == "loop"

\* The call receives what its reader read.
Receive(k) ==
    /\ pc[k] = "read" /\ line[k] # NoLine
    /\ line' = [line EXCEPT ![k] = NoLine]
    /\ \/ /\ line[k] \in {EOF, Garbled}
          /\ Return(k, Failed)
       \/ /\ line[k] \in Lines /\ Matches(k, line[k])
          /\ \E r \in {Failed, line[k]} : Return(k, r)      \* an error reply, or a result
       \/ /\ line[k] \in Lines /\ ~Matches(k, line[k])
          /\ pc' = [pc EXCEPT ![k] = Again]
          /\ UNCHANGED <<id, result, next, lock, deadlined, expired>>
    /\ UNCHANGED <<reader, strays, stdout, serverVars>>

\* The context ends first; what the reader read or will read is lost.
Abandon(k) ==
    /\ pc[k] = "read" /\ k \in expired
    /\ Return(k, Failed)
    /\ strays' = IF reader[k] THEN strays + 1 ELSE strays
    /\ reader' = [reader EXCEPT ![k] = FALSE]
    /\ line' = [line EXCEPT ![k] = NoLine]
    /\ UNCHANGED <<stdout, serverVars>>

-----------------------------------------------------------------------------
(* The readers.                                                            *)

ReadLine(k) ==
    /\ reader[k] /\ stdout # <<>>
    /\ reader' = [reader EXCEPT ![k] = FALSE]
    /\ \E l \in {Head(stdout)} \cup (IF strays > 0 THEN {Garbled} ELSE {}) :
         line' = [line EXCEPT ![k] = l]
    /\ stdout' = Tail(stdout)
    /\ UNCHANGED <<callVars, strays, serverVars>>

StrayRead ==
    /\ strays > 0 /\ stdout # <<>>
    /\ stdout' = Tail(stdout)
    /\ strays' = strays - 1
    /\ UNCHANGED <<callVars, reader, line, serverVars>>

ReadEOF(k) ==
    /\ reader[k] /\ stdout = <<>> /\ ~alive
    /\ reader' = [reader EXCEPT ![k] = FALSE]
    /\ line' = [line EXCEPT ![k] = EOF]
    /\ UNCHANGED <<callVars, strays, stdout, serverVars>>

-----------------------------------------------------------------------------
(* The server.                                                             *)

Answer(k) ==
    /\ alive /\ id[k] \in received /\ k \notin answered
    /\ stdout' = Append(stdout, Reply(id[k]))
    /\ answered' = answered \cup {k}
    /\ UNCHANGED <<callVars, readVars, received, extra, alive>>

Say ==
    /\ alive /\ extra < MaxExtra
    /\ \E l \in {Notification, Request, Garbled} : stdout' = Append(stdout, l)
    /\ extra' = extra + 1
    /\ UNCHANGED <<callVars, readVars, received, answered, alive>>

Exit ==
    /\ alive /\ alive' = FALSE
    /\ UNCHANGED <<callVars, readVars, stdout, received, answered, extra>>

Step(k) ==
    \/ Send(k) \/ SendFails(k) \/ GiveUp(k) \/ Read(k) \/ Receive(k) \/ Abandon(k)
    \/ ReadLine(k) \/ ReadEOF(k)

Next == \/ \E k \in Calls : Begin(k) \/ Expire(k) \/ Step(k) \/ Answer(k)
        \/ StrayRead \/ Say \/ Exit

SafetySpec == Init /\ [][Next]_vars

\* Goroutines run, and deadlines pass.
Spec == SafetySpec /\ \A k \in Calls : WF_vars(Step(k)) /\ WF_vars(Expire(k))

-----------------------------------------------------------------------------
(* Properties.                                                             *)

\* As long as no context ends, a call that the server answers returns, whatever
\* the server says in between.
AnswerArrives == \A k \in Calls : k \in answered ~> pc[k] = "done" \/ expired # {}

\* If all calls have deadlines, every call returns, also one that waits for the
\* mutex behind others.
CallsReturn ==
    \A k \in Calls : pc[k] = "lock" ~>
        pc[k] = "done" \/ \E j \in Calls \ deadlined : pc[j] # "new"

\* The transport keeps the promise of its interface.
Rpc == INSTANCE McpRpc WITH
    result <- [k \in Calls |-> IF result[k] \in {NoResult, Failed} THEN result[k]
                               ELSE CHOOSE j \in Calls : id[j] = result[k].id]
ImplementsRpc == Rpc!RpcSpec
=============================================================================
