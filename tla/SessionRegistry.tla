-------------------------- MODULE SessionRegistry --------------------------
(***************************************************************************)
(* Which session belongs to which connection: Controller::doAccept with    *)
(* its error handler, onMessage, the health check's loop over sessions_,   *)
(* and shutdownController.                                                 *)
(*                                                                         *)
(* sessions_ holds the only shared_ptr of a session; a connection knows    *)
(* its session through the weak_ptr in its context.  A session is named by *)
(* its position in the order of creation, so a replaced session and the    *)
(* one that replaced it differ even when their agent id is the same.       *)
(* Connections keep TcpComm's promise: messages until the one read error,  *)
(* at most one write error, and closures of disconnect() that run later.   *)
(***************************************************************************)
EXTENDS Integers, Sequences, FiniteSets, Functions

CONSTANTS
    Conns,        \* connections the acceptor may yield
    AgentIds,     \* ids agents announce in HELLO
    MaxSessions   \* bound: sessions created

\* Agent ids are uint32_t.
ASSUME RegistryAssumption ==
    AgentIds \subseteq Nat /\ IsFiniteSet(AgentIds) /\ MaxSessions \in Nat

VARIABLES
    accepting,          \* the async_accept: "armed", "queued" when it completed before
                        \* the acceptor was cancelled, or "off"
    timer,              \* the health-check timer, likewise
    socket,             \* the connection's socket: "none", "open" or "closed"
    reading,            \* its read chain, see below
    write_failed,       \* its write chain has called the error handler
    closing,            \* connections with a disconnect() or flushAndDisconnect() posted
    ctx,                \* user_context_: the session the weak_ptr was made from, 0 if none
    session,            \* all sessions ever created
    sessions,           \* sessions_: agent id -> session
    active_connections, \* the metric
    is_shutting_down    \* is_shutting_down_

vars == <<accepting, timer, socket, reading, write_failed, closing, ctx, session, sessions,
          active_connections, is_shutting_down>>
loopVars == <<accepting, timer, is_shutting_down>>

\* "none": not started; "on": messages may come; "late": the socket is closed, one more
\* message had been read before; "failing": the failed read is queued; "off": the error
\* handler was called.
Reading == {"none", "on", "late", "failing", "off"}

\* id_, conn_ and whether the last heartbeat is less than 3 seconds old.
Session == [agent : AgentIds, conn : Conns, fresh : BOOLEAN]

Init ==
    /\ accepting = "armed"
    /\ timer = "armed"
    /\ socket = [c \in Conns |-> "none"]
    /\ reading = [c \in Conns |-> "none"]
    /\ write_failed = [c \in Conns |-> FALSE]
    /\ closing = {}
    /\ ctx = [c \in Conns |-> 0]
    /\ session = <<>>
    /\ sessions = [k \in {} |-> 0]
    /\ active_connections = 0
    /\ is_shutting_down = FALSE

-----------------------------------------------------------------------------

AliveForEver(s) == TRUE

\* Somebody still owns the session, so that weak_ptr::lock() yields it.
Alive(s) == s \in Range(sessions)

\* The connection's context leads to a session.
Registered(c) == ctx[c] # 0 /\ Alive(ctx[c])

\* isHealthy().
Healthy(s) == session[s].fresh /\ socket[session[s].conn] = "open"

\* The io_context re-arms an operation unless the controller is shutting down.
Rearmed == IF is_shutting_down THEN "off" ELSE "armed"

\* doAccept's handler: a connection without session starts reading.
Accept(c) ==
    /\ accepting # "off"
    /\ socket[c] = "none"
    /\ accepting' = Rearmed
    /\ socket' = [socket EXCEPT ![c] = "open"]
    /\ reading' = [reading EXCEPT ![c] = "on"]
    /\ active_connections' = active_connections + 1
    /\ UNCHANGED <<timer, write_failed, closing, ctx, session, sessions, is_shutting_down>>

\* The read chain hands one message to onMessage and goes on.
TakeMessage(c) ==
    /\ reading[c] \in {"on", "late"}
    /\ reading' = [reading EXCEPT ![c] = IF @ = "late" THEN "failing" ELSE @]

RegisterOnce(c, id) ==
    /\ TakeMessage(c)
    /\ ~Registered(c)
    /\ Len(session) < MaxSessions
    /\ session' = Append(session, [agent |-> id, conn |-> c, fresh |-> TRUE])
    /\ sessions' = [k \in DOMAIN sessions \union {id} |->
                       IF k = id THEN Len(session) + 1 ELSE sessions[k]]
    /\ ctx' = [ctx EXCEPT ![c] = IF @ = 0 THEN Len(session) + 1 ELSE @]
    /\ UNCHANGED <<loopVars, socket, write_failed, closing, active_connections>>

\* onMessage(HELLO) without session: a new session takes the agent id, whoever had it.
Register(c, id) ==
    /\ TakeMessage(c)
    /\ ~Registered(c)
    /\ Len(session) < MaxSessions
    /\ session' = Append(session, [agent |-> id, conn |-> c, fresh |-> TRUE])
    /\ sessions' = [k \in DOMAIN sessions \union {id} |->
                       IF k = id THEN Len(session) + 1 ELSE sessions[k]]
    /\ ctx' = [ctx EXCEPT ![c] = Len(session) + 1]
    /\ UNCHANGED <<loopVars, socket, write_failed, closing, active_connections>>

\* onMessage(anything else) without session: disconnect().
RefuseMessage(c) ==
    /\ TakeMessage(c)
    /\ ~Registered(c)
    /\ closing' = closing \union {c}
    /\ UNCHANGED <<loopVars, socket, write_failed, ctx, session, sessions, active_connections>>

\* onMessage(HEARTBEAT) with a session.
Heartbeat(c) ==
    /\ TakeMessage(c)
    /\ Registered(c)
    /\ session' = [session EXCEPT ![ctx[c]].fresh = TRUE]
    /\ UNCHANGED <<loopVars, socket, write_failed, closing, ctx, sessions, active_connections>>

\* onMessage(HELLO, STATE, ACK or NACK) with a session: the registry stays as it is.
OtherMessage(c) ==
    /\ TakeMessage(c)
    /\ Registered(c)
    /\ UNCHANGED <<loopVars, socket, write_failed, closing, ctx, session, sessions,
                   active_connections>>

HeartbeatExpires(s) ==
    /\ s \in 1..Len(session)
    /\ Alive(s)
    /\ session[s].fresh
    /\ session' = [session EXCEPT ![s].fresh = FALSE]
    /\ UNCHANGED <<loopVars, socket, reading, write_failed, closing, ctx, sessions,
                   active_connections>>

-----------------------------------------------------------------------------

OnErrorKeepsSession(c) ==
    /\ UNCHANGED sessions
    /\ active_connections' = active_connections - 1

OnErrorResetsPointer(c) ==
    /\ sessions' = IF Registered(c) /\ session[ctx[c]].agent # 0
                   THEN [sessions EXCEPT ![session[ctx[c]].agent] = 0]
                   ELSE sessions
    /\ active_connections' = active_connections - 1

\* The error handler doAccept installs: the connection's session, if it still has one
\* and its id is not 0, leaves sessions_.
OnError(c) ==
    /\ sessions' = IF Registered(c) /\ session[ctx[c]].agent # 0
                   THEN Restrict(sessions, DOMAIN sessions \ {session[ctx[c]].agent})
                   ELSE sessions
    /\ active_connections' = active_connections - 1

\* A read fails, a frame does not parse, or onMessage throws.
ReadError(c) ==
    /\ reading[c] \in {"on", "late", "failing"}
    /\ reading' = [reading EXCEPT ![c] = "off"]
    /\ OnError(c)
    /\ UNCHANGED <<loopVars, socket, write_failed, closing, ctx, session>>

\* A write to a registered agent fails.
WriteError(c) ==
    /\ ctx[c] # 0
    /\ ~write_failed[c]
    /\ write_failed' = [write_failed EXCEPT ![c] = TRUE]
    /\ OnError(c)
    /\ UNCHANGED <<loopVars, socket, reading, closing, ctx, session>>

\* The posted closure runs.
CloseRuns(c) ==
    /\ c \in closing
    /\ closing' = closing \ {c}
    /\ socket' = [socket EXCEPT ![c] = "closed"]
    /\ IF reading[c] = "on"
       THEN \E r \in {"late", "failing"} : reading' = [reading EXCEPT ![c] = r]
       ELSE UNCHANGED reading
    /\ UNCHANGED <<loopVars, write_failed, ctx, session, sessions, active_connections>>

HealthCheckOnlyCloses ==
    LET unhealthy == {k \in DOMAIN sessions : ~Healthy(sessions[k])}
    IN  /\ timer # "off"
        /\ timer' = Rearmed
        /\ closing' = closing \union {session[sessions[k]].conn : k \in unhealthy}
        /\ UNCHANGED <<accepting, is_shutting_down, socket, reading, write_failed, ctx, session,
                       sessions, active_connections>>

\* The health check: unhealthy sessions are disconnected and erased; of the others,
\* checkCommandTimeouts disconnects those whose command ran out of retries.
HealthCheck ==
    LET unhealthy == {k \in DOMAIN sessions : ~Healthy(sessions[k])}
        healthy   == DOMAIN sessions \ unhealthy
    IN  /\ timer # "off"
        /\ timer' = Rearmed
        /\ \E failed \in SUBSET healthy :
              closing' = closing \union {session[sessions[k]].conn : k \in unhealthy \union failed}
        /\ sessions' = Restrict(sessions, healthy)
        /\ active_connections' = active_connections - Cardinality(unhealthy)
        /\ UNCHANGED <<accepting, is_shutting_down, socket, reading, write_failed, ctx, session>>

\* shutdownController(): cancel what is armed, flush and disconnect every session.  A
\* completion that was queued before the cancel still runs.
Shutdown ==
    /\ ~is_shutting_down
    /\ is_shutting_down' = TRUE
    /\ accepting' \in {"queued", "off"}
    /\ timer' \in {"queued", "off"}
    /\ closing' = closing \union {session[s].conn : s \in Range(sessions)}
    /\ UNCHANGED <<socket, reading, write_failed, ctx, session, sessions, active_connections>>

Next ==
    \/ \E c \in Conns :
          \/ Accept(c)
          \/ \E id \in AgentIds : Register(c, id)
          \/ RefuseMessage(c) \/ Heartbeat(c) \/ OtherMessage(c)
          \/ ReadError(c) \/ WriteError(c) \/ CloseRuns(c)
    \/ \E s \in 1..MaxSessions : HeartbeatExpires(s)
    \/ HealthCheck \/ Shutdown

Spec == Init /\ [][Next]_vars

(***************************************************************************)
(* The io_context runs what is posted and what completed; the timer fires. *)
(* Agents need not send, reconnect or leave.                               *)
(***************************************************************************)
Fairness ==
    /\ WF_vars(HealthCheck)
    /\ \A c \in Conns :
          /\ WF_vars(CloseRuns(c))
          /\ WF_vars(/\ reading[c] \in {"late", "failing"}
                     /\ ReadError(c) \/ RefuseMessage(c) \/ Heartbeat(c) \/ OtherMessage(c))

FairSpec == Spec /\ Fairness

-----------------------------------------------------------------------------
(* Properties.                                                              *)

TypeOK ==
    /\ accepting \in {"armed", "queued", "off"}
    /\ timer \in {"armed", "queued", "off"}
    /\ socket \in [Conns -> {"none", "open", "closed"}]
    /\ reading \in [Conns -> Reading]
    /\ write_failed \in [Conns -> BOOLEAN]
    /\ closing \subseteq Conns
    /\ session \in Seq(Session)
    /\ ctx \in [Conns -> 0..Len(session)]
    /\ DOMAIN sessions \subseteq AgentIds
    /\ sessions \in [DOMAIN sessions -> 1..Len(session)]
    /\ active_connections \in Int
    /\ is_shutting_down \in BOOLEAN

\* sessions_ and the contexts agree: a session is found under its own id, and the
\* connection it sends on leads back to it, so that heartbeats and answers received
\* there are credited to the session that gets the commands.
ContextsAgree ==
    \A k \in DOMAIN sessions :
        /\ session[sessions[k]].agent = k
        /\ ctx[session[sessions[k]].conn] = sessions[k]

\* A session leaves sessions_ only because a HELLO with its id replaced it, because it
\* is unhealthy at a health check, or because its own connection reports an error: the
\* late error of an agent's old connection does not unregister its new session.
OnlyOwnErrors ==
    [][\A k \in DOMAIN sessions :
          LET s == sessions[k]
              c == session[s].conn
          IN  k \notin DOMAIN sessions' \/ sessions'[k] # s
              => \/ k \in DOMAIN sessions' /\ sessions'[k] = Len(session')
                 \/ ~Healthy(s) /\ reading' = reading /\ write_failed' = write_failed
                 \/ reading'[c] # reading[c] /\ reading'[c] = "off"
                 \/ write_failed'[c] # write_failed[c]]_vars

\* Once the reads of a connection have ended, no session is registered on it, so no
\* command is sent to an agent that cannot answer.  Sessions with agent id 0, which the
\* error handler skips, are the exception.
NoDeafSession ==
    \A k \in DOMAIN sessions \ {0} : reading[session[sessions[k]].conn] # "off"

\* A session whose heartbeats stop is dropped, also the sessions NoDeafSession leaves
\* out, unless the controller is shutting down and checks no more.
SilentSessionIsDropped ==
    \A s \in 1..MaxSessions :
        (s \in Range(sessions) /\ ~session[s].fresh)
            ~> (s \notin Range(sessions) \/ session[s].fresh \/ is_shutting_down)

\* Nothing posted or failing is left to be handled, and no write has ever failed.
Quiet ==
    /\ closing = {}
    /\ \A c \in Conns : reading[c] \in {"none", "on", "off"} /\ ~write_failed[c]

\* MetricsServer.cpp, line 15, and OPERATIONS.md, line 15: active_connections is the
\* number of connected agents; stated for moments when nothing is under way.
ActiveConnectionsCounts ==
    Quiet => active_connections = Cardinality({c \in Conns : reading[c] = "on"})
=============================================================================
