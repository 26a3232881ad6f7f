------------------------------- MODULE JsonRpc -------------------------------
(***************************************************************************)
(* JsonRpc::call of src/src/net/jsonrpc.cpp: one request to the node over  *)
(* one connection, by a process that may be told to stop, with a node that *)
(* may refuse, fall silent, trickle, or close the connection at any time.  *)
(*                                                                         *)
(* A response is what the process can tell of it: the status, whether      *)
(* "error" is null, and "result".  It travels in two parts, the headers    *)
(* and the body, and the connection may end after either.                  *)
(*                                                                         *)
(* The module has the steps of a call; what the node does with a request,  *)
(* and what the process does with the reply, are the steps of a module     *)
(* that extends this one.                                                  *)
(***************************************************************************)
EXTENDS Integers

CONSTANTS Nothing,       \* no request, no response, no reply
          MaxAddresses   \* bound: how many addresses the host may have

ASSUME MaxAddressesAssumption == MaxAddresses \in Nat

VARIABLES
    g_stop,     \* util/interrupt.cpp: a signal has arrived
    rpc,        \* where the call is
    request,    \* what is asked; Nothing between calls
    addresses,  \* how many addresses of the host are still to be tried
    conn,       \* the connection: none, open, closed by the node, or
                \*   open with a node that trickles for ever
    pending,    \* the request as the node has it, until it is executed
    orphans,    \* requests that the node has and nobody waits for any more
    answer,     \* the response of the node
    sent,       \* how many parts of it have arrived
    reply       \* what call returned or threw

\* Nothing ignores SIGPIPE: a write may be the end of the process.
Killed == "SIGPIPE"

callVars == <<rpc, request, addresses, reply>>
wireVars == <<conn, pending, orphans, answer, sent>>
rpcVars  == <<g_stop, callVars, wireVars>>

Failure(why) == [ok |-> FALSE, value |-> why]
Success(v)   == [ok |-> TRUE, value |-> v]

RpcInit ==
    /\ g_stop = FALSE
    /\ rpc = "idle" /\ request = Nothing /\ reply = Nothing
    /\ addresses = 0
    /\ conn = "none" /\ pending = Nothing /\ orphans = {} /\ answer = Nothing /\ sent = 0

-----------------------------------------------------------------------------
\* The steps of the process.

\* getaddrinfo has found some number of addresses, perhaps none.
Call(r) ==
    /\ rpc' = "connect" /\ request' = r /\ reply' = Nothing
    /\ addresses' \in 0 .. MaxAddresses
    /\ UNCHANGED <<g_stop, wireVars>>

\* The descriptor is closed on every way out; a request that the node has
\* in full may be executed all the same.
Hangup_Leaks ==           \* mutant: a failed call keeps its descriptor
    conn' = conn /\ pending' = Nothing /\ answer' = Nothing /\ sent' = 0
Hangup == conn' = "none" /\ pending' = Nothing /\ answer' = Nothing /\ sent' = 0
Return(outcome) ==
    /\ rpc' = "idle" /\ request' = Nothing /\ reply' = outcome
    /\ addresses' = 0
    /\ Hangup
    /\ orphans' = (IF pending = Nothing THEN orphans ELSE orphans \cup {pending})
    /\ UNCHANGED g_stop

\* An address that refuses, does not answer in time, or whose poll is cut
\* short by a signal: on to the next one, the stop flag is not looked at.
TryNext ==
    /\ rpc = "connect" /\ addresses > 0
    /\ addresses' = addresses - 1
    /\ UNCHANGED <<g_stop, rpc, request, reply, wireVars>>
CannotConnect ==
    /\ rpc = "connect" /\ addresses = 0
    /\ Return(Failure("cannot connect to rpc"))
Connected ==
    /\ rpc = "connect" /\ addresses > 0
    /\ rpc' = "write" /\ conn' = "open"
    /\ UNCHANGED <<g_stop, request, addresses, reply, pending, orphans, answer, sent>>

\* wait_fd: the flag first, then a slice of poll; it ends with a descriptor
\* that is ready, or after a timeout that every byte starts again.
Waiting     == rpc \in {"write", "read"}
Interrupted_Deaf == FALSE       \* mutant: one poll for the whole timeout
Interrupted == Waiting /\ g_stop /\ Return(Failure("interrupted"))
TimedOut    == Waiting /\ conn = "open" /\ Return(Failure("rpc timeout"))

\* write_all: a request that is written in part is as good as none.
Write ==
    /\ rpc = "write" /\ ~g_stop /\ conn = "open"
    /\ rpc' = "read" /\ pending' = request
    /\ UNCHANGED <<g_stop, request, addresses, reply, conn, orphans, answer, sent>>
WriteFails ==
    /\ rpc = "write" /\ ~g_stop /\ conn = "closed"
    /\ \E why \in {"rpc write failed", Killed} : Return(Failure(why))

\* What the text that was read means.  Content-Length is not looked at: a
\* body that was cut off is no JSON.
ReplyOf(r, parts) ==
    IF parts = 0 THEN Failure("invalid rpc response")
    ELSE IF r.status = 401 THEN Failure("rpc authentication failed")
    ELSE IF r.status # 200 THEN Failure("rpc request failed")
    ELSE IF parts = 1 THEN Failure("invalid JSON")
    ELSE IF r.error THEN Failure("rpc request failed")
    ELSE IF r.result = Nothing THEN Failure("invalid rpc response")
    ELSE Success(r.result)

ReadEnd ==
    /\ rpc = "read" /\ ~g_stop /\ conn = "closed"
    /\ Return(ReplyOf(answer, sent))
ReadFails ==
    /\ rpc = "read" /\ ~g_stop /\ conn = "closed"
    /\ Return(Failure("rpc read failed"))

\* The steps that the process takes by itself, one after the other.
CallSteps ==
    \/ TryNext \/ CannotConnect \/ Connected
    \/ Interrupted \/ TimedOut
    \/ Write \/ WriteFails \/ ReadEnd \/ ReadFails

-----------------------------------------------------------------------------
\* The node and the signal.

\* It has the whole request, and answers with response r.
Answer(r) ==
    /\ pending # Nothing
    /\ pending' = Nothing /\ answer' = r
    /\ UNCHANGED <<g_stop, callVars, conn, orphans, sent>>
SendPart ==
    /\ conn = "open" /\ answer # Nothing
    /\ sent' \in sent + 1 .. 2
    /\ UNCHANGED <<g_stop, callVars, conn, pending, orphans, answer>>
CloseConn ==
    /\ conn = "open" /\ conn' = "closed"
    /\ pending' = Nothing
    /\ orphans' = (IF pending = Nothing THEN orphans ELSE orphans \cup {pending})
    /\ UNCHANGED <<g_stop, callVars, answer, sent>>
\* Never silent for a whole timeout, never done.
Trickle ==
    /\ conn = "open" /\ sent = 1
    /\ conn' = "trickle"
    /\ UNCHANGED <<g_stop, callVars, pending, orphans, answer, sent>>
RequestStop ==
    /\ ~g_stop /\ g_stop' = TRUE
    /\ UNCHANGED <<callVars, wireVars>>
Wire == SendPart \/ CloseConn \/ Trickle

-----------------------------------------------------------------------------
RpcShape ==
    /\ rpc \in {"idle", "connect", "write", "read"} /\ (request = Nothing) = (rpc = "idle")
    /\ addresses \in 0 .. MaxAddresses /\ sent \in 0 .. 2
    /\ conn \in {"none", "open", "closed", "trickle"}
    /\ (conn = "none") = (rpc \in {"idle", "connect"})
    /\ pending # Nothing => pending = request /\ answer = Nothing
    /\ answer = Nothing => sent = 0
=============================================================================
