--------------------------- MODULE AgentLifecycle ---------------------------
(***************************************************************************)
(* One agent process (Agent.cpp and its main): connecting, reporting every *)
(* second, losing the connection, retrying every five seconds, giving up   *)
(* and shutting down on a signal.  ready is the FIFO queue of handlers of  *)
(* the io_context.  conn_ is followed from creation to reset; the TcpComm  *)
(* it points to outlives it, because its own handlers hold it, and keeps   *)
(* what TcpComm.tla shows: one error per direction at most.                *)
(*                                                                         *)
(* Time: the one-second wait may end at any moment; the five-second wait   *)
(* ends only once everything queued before has run.                        *)
(***************************************************************************)
EXTENDS Naturals, Sequences, Functions

CONSTANT MaxRetries   \* MAX_RETRIES

ASSUME RetriesAssumption == MaxRetries \in Nat \ {0, 1}

VARIABLES
    ready,             \* handlers waiting to run
    timer,             \* what the wait on timer_ is for: "none", "report" or "retry"
    connecting,        \* an async_connect on socket_ is outstanding
    conn,              \* conn_ is set
    socket,            \* the socket of the last TcpComm: "none", "open" or "closed"
    reading,           \* that TcpComm has an async_read outstanding
    writing,           \* its write pump: "idle", "pending", "done" (the completion is
                       \* queued) or "off" (a write failed)
    flushing,          \* its is_shutting_down_
    retry_count,       \* retry_count_
    is_shutting_down,  \* is_shutting_down_
    process,           \* "running", "ended", "failed" (an exception left run()) or "crashed"
    gave_up,           \* history: "Giving up" was logged
    attempts           \* history: retries started since the last connection

commVars == <<socket, reading, writing, flushing>>
vars == <<ready, timer, connecting, conn, commVars, retry_count, is_shutting_down, process,
          gave_up, attempts>>

Handlers == {"connected", "refused", "report", "retry", "message", "read_error", "write_error",
             "written", "send", "disconnect", "flush", "signal"}

Queued(h) == h \in Range(ready)

Init ==
    /\ ready = <<>>
    /\ timer = "none"
    /\ connecting = TRUE
    /\ conn = FALSE
    /\ socket = "none" /\ reading = FALSE /\ writing = "idle" /\ flushing = FALSE
    /\ retry_count = 0
    /\ is_shutting_down = FALSE
    /\ process = "running"
    /\ gave_up = FALSE
    /\ attempts = 0

-----------------------------------------------------------------------------
(* What handlers call.  queue is what remains of ready.                     *)

Runs(h) == process = "running" /\ ready # <<>> /\ Head(ready) = h

\* startReporting(): the wait replaces whatever timer_ waited for.
StartReporting == timer' = IF is_shutting_down THEN timer ELSE "report"

\* close(): the outstanding operations of the connection fail.
CloseSocket(queue) ==
    /\ socket' = "closed"
    /\ reading' = FALSE
    /\ writing' = IF writing = "pending" THEN "off" ELSE writing
    /\ ready' = queue \o (IF reading THEN <<"read_error">> ELSE <<>>)
                      \o (IF writing = "pending" THEN <<"write_error">> ELSE <<>>)

\* writePump(): an async_write, which fails at once on a closed socket.
WritePump ==
    IF socket = "open"
    THEN writing' = "pending" /\ ready' = Tail(ready)
    ELSE writing' = "off" /\ ready' = Append(Tail(ready), "write_error")

DropConnectionWithoutClosing == conn' = FALSE /\ ready' = Tail(ready)

\* conn_->disconnect(); conn_.reset().
DropConnection ==
    /\ conn' = FALSE
    /\ ready' = Tail(ready) \o (IF conn THEN <<"disconnect">> ELSE <<>>)

-----------------------------------------------------------------------------
(* Handlers of the agent.                                                   *)

ResetRetriesNever == retry_count

\* A connection starts a new series of retries.
ResetRetries == 0

CanRetryOnceMore == retry_count <= MaxRetries

CanRetry == retry_count < MaxRetries

ReportsOnFirstConnectionOnly ==
    IF retry_count = 0 THEN StartReporting ELSE UNCHANGED timer

\* The connect handler ends with startReporting().
ReportsAfterConnecting == StartReporting

\* The connect handler, successful: a TcpComm that reads, HELLO, reporting.
RunConnected ==
    /\ Runs("connected")
    /\ retry_count' = ResetRetries
    /\ conn' = TRUE
    /\ socket' = "open" /\ reading' = TRUE /\ writing' = "idle" /\ flushing' = FALSE
    /\ ready' = Append(Tail(ready), "send")
    /\ ReportsAfterConnecting
    /\ attempts' = 0
    /\ UNCHANGED <<connecting, is_shutting_down, process, gave_up>>

\* handleConnectionError(), from the connect handler or as error handler of the TcpComm.
\* socket_ was moved into the TcpComm or has just failed: closing it cancels nothing.
HandleConnectionError ==
    /\ \E h \in {"refused", "read_error", "write_error"} : Runs(h)
    /\ DropConnection
    /\ IF CanRetry
       THEN /\ retry_count' = retry_count + 1
            /\ timer' = "retry"
            /\ UNCHANGED gave_up
       ELSE /\ gave_up' = TRUE
            /\ UNCHANGED <<retry_count, timer>>
    /\ UNCHANGED <<connecting, commVars, is_shutting_down, process, attempts>>

\* start() from the timer: resolve() throws out of run(), or connecting begins.
RunRetry ==
    /\ Runs("retry")
    /\ ready' = Tail(ready)
    /\ \/ process' = "failed" /\ UNCHANGED <<connecting, attempts>>
       \/ connecting' = TRUE /\ attempts' = attempts + 1 /\ UNCHANGED process
    /\ UNCHANGED <<timer, conn, commVars, retry_count, is_shutting_down, gave_up>>

RunReportChecked ==
    /\ Runs("report")
    /\ ready' = Tail(ready) \o (IF conn THEN <<"send">> ELSE <<>>)
    /\ StartReporting
    /\ UNCHANGED <<connecting, conn, commVars, retry_count, is_shutting_down, process, gave_up,
                   attempts>>

\* The reporting handler: HEARTBEAT and STATE through conn_, which is not checked, then
\* the next wait.
RunReport ==
    /\ Runs("report")
    /\ IF conn
       THEN ready' = Append(Tail(ready), "send") /\ StartReporting /\ UNCHANGED process
       ELSE ready' = Tail(ready) /\ process' = "crashed" /\ UNCHANGED timer
    /\ UNCHANGED <<connecting, conn, commVars, retry_count, is_shutting_down, gave_up, attempts>>

\* onMessage(): every branch answers, through conn_ if it is set; then the next read.
RunMessage ==
    /\ Runs("message")
    /\ reading' = (socket = "open")
    /\ ready' = Tail(ready) \o (IF conn THEN <<"send">> ELSE <<>>)
                            \o (IF socket = "open" THEN <<>> ELSE <<"read_error">>)
    /\ UNCHANGED <<timer, connecting, conn, socket, writing, flushing, retry_count,
                   is_shutting_down, process, gave_up, attempts>>

\* shutdownAgent(): both timers are cancelled, a connection is flushed and closed.
RunSignal ==
    /\ Runs("signal")
    /\ is_shutting_down' = TRUE
    /\ timer' = "none"
    /\ ready' = Tail(ready) \o (IF conn THEN <<"flush">> ELSE <<>>)
    /\ UNCHANGED <<connecting, conn, commVars, retry_count, process, gave_up, attempts>>

-----------------------------------------------------------------------------
(* Handlers of the TcpComm.                                                 *)

RunSend ==
    /\ Runs("send")
    /\ IF writing = "idle" THEN WritePump ELSE ready' = Tail(ready) /\ UNCHANGED writing
    /\ UNCHANGED <<timer, connecting, conn, socket, reading, flushing, retry_count,
                   is_shutting_down, process, gave_up, attempts>>

\* A write is done: more frames are queued, or the flushed connection is closed.
RunWritten(more) ==
    /\ Runs("written")
    /\ IF more
       THEN WritePump /\ UNCHANGED <<socket, reading>>
       ELSE IF flushing /\ socket = "open"
            THEN /\ writing' = "idle" /\ socket' = "closed" /\ reading' = FALSE
                 /\ ready' = Tail(ready) \o (IF reading THEN <<"read_error">> ELSE <<>>)
            ELSE writing' = "idle" /\ ready' = Tail(ready) /\ UNCHANGED <<socket, reading>>
    /\ UNCHANGED <<timer, connecting, conn, flushing, retry_count, is_shutting_down, process,
                   gave_up, attempts>>

\* The closures of disconnect() and flushAndDisconnect().
RunClose(h) ==
    /\ Runs(h)
    /\ flushing' = (flushing \/ h = "flush")
    /\ IF socket = "open" /\ (h = "flush" => writing = "idle")
       THEN CloseSocket(Tail(ready))
       ELSE ready' = Tail(ready) /\ UNCHANGED <<socket, reading, writing>>
    /\ UNCHANGED <<timer, connecting, conn, retry_count, is_shutting_down, process, gave_up,
                   attempts>>

-----------------------------------------------------------------------------
(* The kernel, the controller and the operator.                             *)

Completes(h) == process = "running" /\ ready' = Append(ready, h)

ConnectCompletes(h) ==
    /\ connecting
    /\ connecting' = FALSE
    /\ Completes(h)
    /\ UNCHANGED <<timer, conn, commVars, retry_count, is_shutting_down, process, gave_up, attempts>>

\* A message, or the end of the stream, an error, a frame that does not parse.
ReadCompletes(h) ==
    /\ reading
    /\ reading' = FALSE
    /\ Completes(h)
    /\ UNCHANGED <<timer, connecting, conn, socket, writing, flushing, retry_count,
                   is_shutting_down, process, gave_up, attempts>>

WriteCompletes(h) ==
    /\ writing = "pending"
    /\ writing' = IF h = "written" THEN "done" ELSE "off"
    /\ Completes(h)
    /\ UNCHANGED <<timer, connecting, conn, socket, reading, flushing, retry_count,
                   is_shutting_down, process, gave_up, attempts>>

TimerExpires ==
    /\ timer # "none"
    /\ timer = "retry" => ready = <<>>
    /\ timer' = "none"
    /\ Completes(timer)
    /\ UNCHANGED <<connecting, conn, commVars, retry_count, is_shutting_down, process, gave_up,
                   attempts>>

\* SIGINT or SIGTERM; the handler waits for one signal only.
Signal ==
    /\ ~is_shutting_down /\ ~Queued("signal")
    /\ Completes("signal")
    /\ UNCHANGED <<timer, connecting, conn, commVars, retry_count, is_shutting_down, process,
                   gave_up, attempts>>

\* run() returns when nothing is outstanding; the wait for a signal counts as well.
End ==
    /\ process = "running"
    /\ ready = <<>> /\ timer = "none" /\ ~connecting /\ ~reading /\ writing # "pending"
    /\ is_shutting_down
    /\ process' = "ended"
    /\ UNCHANGED <<ready, timer, connecting, conn, commVars, retry_count, is_shutting_down,
                   gave_up, attempts>>

RunHandler ==
    \/ RunConnected \/ HandleConnectionError \/ RunRetry \/ RunReport \/ RunMessage \/ RunSignal
    \/ RunSend \/ \E more \in BOOLEAN : RunWritten(more)
    \/ \E h \in {"disconnect", "flush"} : RunClose(h)

Next ==
    \/ RunHandler
    \/ \E h \in {"connected", "refused"} : ConnectCompletes(h)
    \/ \E h \in {"message", "read_error"} : ReadCompletes(h)
    \/ \E h \in {"written", "write_error"} : WriteCompletes(h)
    \/ TimerExpires \/ Signal \/ End

Spec == Init /\ [][Next]_vars

(***************************************************************************)
(* run() runs what is queued and returns when there is nothing left; the   *)
(* kernel ends every connect and every write; timers expire.  The          *)
(* controller need not send or leave, and no signal need come.             *)
(***************************************************************************)
Fairness ==
    /\ WF_vars(RunHandler)
    /\ WF_vars(\E h \in {"connected", "refused"} : ConnectCompletes(h))
    /\ WF_vars(\E h \in {"written", "write_error"} : WriteCompletes(h))
    /\ WF_vars(TimerExpires)
    /\ WF_vars(End)

FairSpec == Spec /\ Fairness

-----------------------------------------------------------------------------
(* Properties.                                                              *)

TypeOK ==
    /\ ready \in Seq(Handlers)
    /\ timer \in {"none", "report", "retry"}
    /\ {connecting, conn, reading, flushing, is_shutting_down, gave_up} \subseteq BOOLEAN
    /\ socket \in {"none", "open", "closed"}
    /\ writing \in {"idle", "pending", "done", "off"}
    /\ retry_count \in 0..MaxRetries
    /\ process \in {"running", "ended", "failed", "crashed"}
    /\ attempts \in 0..MaxRetries

\* A connected agent keeps reporting: on every connection, also after reconnecting, the
\* next heartbeat is due or queued until the agent is told to stop.
ReportingContinues ==
    process = "running" /\ conn /\ ~is_shutting_down => timer = "report" \/ Queued("report")

\* There is one connection at a time: start() never runs, and no connect is under way,
\* while conn_ is set or the socket of the connection before is still open.
OneConnection ==
    connecting \/ Queued("connected") \/ Queued("retry") => ~conn /\ socket # "open"

\* Giving up is final and not early: no retry is pending then, although the two errors
\* of a lost connection are handled one after the other and the first may have armed
\* timer_, and the agent has tried MAX_RETRIES times to connect again, or once less when
\* the lost connection reported both its errors.
GivingUpIsFinal ==
    gave_up =>
        /\ ~connecting /\ timer # "retry" /\ ~Queued("retry") /\ ~Queued("connected")
        /\ attempts >= MaxRetries - 1

\* An agent that is not connected connects, gives up or ends: reporting and retrying
\* share timer_, and neither wait replaces the other when it must not.
Reconnects == process = "running" /\ ~conn ~> conn \/ gave_up \/ process # "running"
=============================================================================
