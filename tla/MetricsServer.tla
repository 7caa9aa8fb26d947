---------------------------- MODULE MetricsServer ---------------------------
(***************************************************************************)
(* MetricsServer and its MetricsSessions on the controller's io_context,   *)
(* and the shutdown, which destroys the server (metrics_server_.reset())   *)
(* while the io_context goes on.  The page's contents are left out: the    *)
(* counters it prints are read in one handler of the one thread.           *)
(* PolicyLoop's handlers run on the same thread, and PartsProofs has both: *)
(* the names they would share start with Metrics here.                     *)
(***************************************************************************)
EXTENDS Naturals, Sequences, Functions

CONSTANTS
    Clients,        \* scrapes, one connection each
    MaxFailures     \* bound: accepts that fail for a passing reason

VARIABLES
    alive,          \* the MetricsServer object exists
    accepting,      \* an async_accept is outstanding
    ready,          \* handlers queued in the io_context
    client,         \* per client: idle, waiting, accepted, writing or closed
    failures        \* accepts failed so far

metricsVars == <<alive, accepting, ready, client, failures>>

Accepted(c) == [kind |-> "accepted", client |-> c]
Failed      == [kind |-> "failed"]
Written(c)  == [kind |-> "written", client |-> c]

IsAccept(h) == h.kind \in {"accepted", "failed"}

MetricsInit ==
    /\ alive = TRUE /\ accepting = TRUE
    /\ ready = <<>>
    /\ client = [c \in Clients |-> "idle"]
    /\ failures = 0

-----------------------------------------------------------------------------
(* The clients, the kernel and asio.                                        *)

Connect(c) ==
    /\ client[c] = "idle" /\ alive
    /\ client' = [client EXCEPT ![c] = "waiting"]
    /\ UNCHANGED <<alive, accepting, ready, failures>>

AcceptCompletes(c) ==
    /\ accepting /\ client[c] = "waiting"
    /\ accepting' = FALSE
    /\ ready' = Append(ready, Accepted(c))
    /\ client' = [client EXCEPT ![c] = "accepted"]
    /\ UNCHANGED <<alive, failures>>

AcceptFails ==
    /\ accepting /\ failures < MaxFailures
    /\ accepting' = FALSE
    /\ ready' = Append(ready, Failed)
    /\ failures' = failures + 1
    /\ UNCHANGED <<alive, client>>

\* The response is sent, or the client is gone: either way the write completes.
WriteCompletes(c) ==
    /\ client[c] = "writing"
    /\ Written(c) \notin Range(ready)
    /\ ready' = Append(ready, Written(c))
    /\ UNCHANGED <<alive, accepting, client, failures>>

-----------------------------------------------------------------------------
(* The handlers.                                                            *)

doAcceptAfterSuccess(ok) == ok

\* The accept handler ends with doAccept(), whatever the result.
doAccept(ok) == TRUE

\* start() writes the response.
Started(h) ==
    IF h.kind = "accepted" THEN [client EXCEPT ![h.client] = "writing"] ELSE client

RunAccept ==
    /\ alive
    /\ ready # <<>> /\ IsAccept(Head(ready))
    /\ ready' = Tail(ready)
    /\ client' = Started(Head(ready))
    /\ accepting' = doAccept(Head(ready).kind = "accepted")
    /\ UNCHANGED <<alive, failures>>

\* The same handler with a dangling this: the freed memory still holds the closed acceptor
\* and the tracker, and doAccept() returns at once, or the process dies and the kernel
\* closes its sockets.
RunAcceptDangling ==
    /\ ~alive
    /\ ready # <<>> /\ IsAccept(Head(ready))
    /\ \/ ready' = Tail(ready) /\ client' = Started(Head(ready))
       \/ ready' = <<>> /\ client' = [c \in Clients |-> "closed"]
    /\ UNCHANGED <<alive, accepting, failures>>

CloseAfterWriteNever(c) == client

\* The write's completion shuts the socket down and closes it, with or without an error.
CloseAfterWrite(c) == [client EXCEPT ![c] = "closed"]

RunWritten ==
    /\ ready # <<>> /\ Head(ready).kind = "written"
    /\ ready' = Tail(ready)
    /\ client' = CloseAfterWrite(Head(ready).client)
    /\ UNCHANGED <<alive, accepting, failures>>

\* shutdownController destroys the server: the destructor closes the acceptor, the accept
\* outstanding is aborted, and clients that were not accepted are refused.
Destroy ==
    /\ alive
    /\ alive' = FALSE /\ accepting' = FALSE
    /\ ready' = IF accepting THEN Append(ready, Failed) ELSE ready
    /\ client' = [c \in Clients |-> IF client[c] = "waiting" THEN "closed" ELSE client[c]]
    /\ UNCHANGED failures

MetricsNext ==
    \/ \E c \in Clients : Connect(c) \/ AcceptCompletes(c) \/ WriteCompletes(c)
    \/ AcceptFails \/ RunAccept \/ RunAcceptDangling \/ RunWritten \/ Destroy

MetricsSpec == MetricsInit /\ [][MetricsNext]_metricsVars

\* io_context::run runs what is queued, and the kernel completes accepts and writes.
FairMetricsSpec ==
    /\ MetricsSpec
    /\ WF_metricsVars(RunAccept \/ RunAcceptDangling \/ RunWritten)
    /\ \A c \in Clients : WF_metricsVars(AcceptCompletes(c)) /\ WF_metricsVars(WriteCompletes(c))

-----------------------------------------------------------------------------
(* Properties.                                                              *)

Accepts == {i \in DOMAIN ready : IsAccept(ready[i])}

\* While the server exists there is exactly one accept, outstanding or completed and
\* queued: a failed accept does not end the loop, and none runs twice (doAccept at the
\* end of every accept handler).  At most one is left when the server is destroyed, and
\* its handler starts no other.
AcceptLoop ==
    /\ \A i, j \in Accepts : i = j
    /\ alive => (accepting <=> Accepts = {})
    /\ accepting => alive

\* A connection is closed in the end: a scrape that gets in is answered and its socket
\* closed even when the server is destroyed meanwhile (the session holds itself), and one
\* that waits is accepted or refused.
ScrapesEnd == \A c \in Clients : client[c] \in {"waiting", "accepted", "writing"} ~> client[c] = "closed"
=============================================================================
