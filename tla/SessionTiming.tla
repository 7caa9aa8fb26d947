--------------------------- MODULE SessionTiming ---------------------------
(***************************************************************************)
(* One agent's session with clocks: the agent reports every second, the    *)
(* health check runs every two seconds, drops a session three seconds      *)
(* after its last heartbeat and resends commands after 1 << retry_count    *)
(* seconds.  Time passes in ticks; what has happened is kept as ages.      *)
(*                                                                         *)
(* A timer's handler runs in the tick its wait ends in; a heartbeat is     *)
(* under way for at most MaxDelay ticks.  What happens in one tick happens *)
(* in any order.                                                           *)
(***************************************************************************)
EXTENDS Integers, Sequences, Functions, FiniteSets

CONSTANTS
    TicksPerSecond,
    MaxRetries,     \* MAX_RETRIES of checkCommandTimeouts
    MaxDelay,       \* bound: ticks a heartbeat is under way
    Commands        \* bound: commands the policies issue

\* A heartbeat is under way for less than two seconds: agents that report are meant to
\* be healthy under this assumption only.
ASSUME TimingAssumption ==
    /\ TicksPerSecond \in Nat \ {0}
    /\ MaxRetries \in Nat
    /\ MaxDelay \in Nat /\ MaxDelay < 2 * TicksPerSecond
    /\ IsFiniteSet(Commands)

VARIABLES
    reporting,     \* the agent's reporting chain runs
    since_report,  \* ticks since its last report
    in_flight,     \* ages of the heartbeats under way, oldest first
    session,       \* "registered" in sessions_, or "dropped"
    connected,     \* its socket is open
    hb_age,        \* now - last_heartbeat_
    next_check,    \* ticks until the health check's timer expires
    pending,       \* pending_cmds_: command -> ages since last_send and since the first
                   \* send, retry_count
    unissued       \* commands no policy has issued yet

agentVars  == <<reporting, since_report, in_flight>>
vars == <<agentVars, session, connected, hb_age, next_check, pending, unissued>>

\* duration_cast<seconds>: whole seconds, rounded down.
Seconds(ticks) == ticks \div TicksPerSecond

\* expires_after(2 s) and the agent's expires_after(1 s).
CheckPeriod  == 2 * TicksPerSecond
ReportPeriod == TicksPerSecond

NoCommands == [c \in {} |-> 0]

Init ==
    /\ reporting = TRUE
    /\ since_report = 0
    /\ in_flight = <<>>
    /\ session = "registered"
    /\ connected = TRUE
    /\ hb_age = 0
    /\ next_check \in 0..CheckPeriod
    /\ pending = NoCommands
    /\ unissued = Commands

-----------------------------------------------------------------------------

\* Time passes unless something is due now: a report, a delivery, the health check, or
\* the error handler of a closed connection.
Tick ==
    /\ connected \/ session = "dropped"
    /\ next_check > 0
    /\ reporting => since_report < ReportPeriod
    /\ \A i \in DOMAIN in_flight : in_flight[i] < MaxDelay
    /\ since_report' = IF reporting THEN since_report + 1 ELSE since_report
    /\ in_flight' = [i \in DOMAIN in_flight |-> in_flight[i] + 1]
    /\ hb_age' = IF session = "registered" THEN hb_age + 1 ELSE hb_age
    /\ next_check' = next_check - 1
    /\ pending' = [c \in DOMAIN pending |->
                      [pending[c] EXCEPT !.age = @ + 1, !.total = @ + 1]]
    /\ UNCHANGED <<reporting, session, connected, unissued>>

\* The agent's reporting handler.
Report ==
    /\ reporting
    /\ since_report = ReportPeriod
    /\ since_report' = 0
    /\ in_flight' = Append(in_flight, 0)
    /\ UNCHANGED <<reporting, session, connected, hb_age, next_check, pending, unissued>>

\* The agent hangs: its connection stays open, it sends no more.
FallSilent ==
    /\ reporting
    /\ reporting' = FALSE
    /\ UNCHANGED <<since_report, in_flight, session, connected, hb_age, next_check, pending,
                   unissued>>

UpdateHeartbeatNever == hb_age

\* updateHeartbeat().
UpdateHeartbeat == 0

\* onMessage(HEARTBEAT).
Heartbeat ==
    /\ in_flight # <<>>
    /\ in_flight' = Tail(in_flight)
    /\ hb_age' = IF session = "registered" THEN UpdateHeartbeat ELSE hb_age
    /\ UNCHANGED <<reporting, since_report, session, connected, next_check, pending, unissued>>

\* onMessage(ACK) and handleAck(); the time since last_send goes into total_rtt_ms.
HandleAck(c) ==
    /\ session = "registered"
    /\ c \in DOMAIN pending
    /\ pending' = Restrict(pending, DOMAIN pending \ {c})
    /\ UNCHANGED <<agentVars, session, connected, hb_age, next_check, unissued>>

-----------------------------------------------------------------------------
(* The health check.                                                        *)

IsHealthyOneMore == Seconds(hb_age) <= 3

\* isHealthy(); the handler of a closed connection runs before the next check.
IsHealthy == Seconds(hb_age) < 3

\* 1 << n.
Shl[n \in Nat] == IF n = 0 THEN 1 ELSE 2 * Shl[n - 1]

WaitSecLinear(retry_count) == 1 + retry_count

\* wait_sec.
WaitSec(retry_count) == Shl[retry_count]

Due(pc) == Seconds(pc.age) >= WaitSec(pc.retry_count)

GivesUpLate(pc) == Due(pc) /\ pc.retry_count > MaxRetries

\* The command ran out of retries.
GivesUp(pc) == Due(pc) /\ pc.retry_count = MaxRetries

\* checkCommandTimeouts(): what remains pending, resent where due.
CheckCommandTimeouts ==
    [c \in {d \in DOMAIN pending : ~GivesUp(pending[d])} |->
        IF Due(pending[c])
        THEN [pending[c] EXCEPT !.age = 0, !.retry_count = @ + 1]
        ELSE pending[c]]

\* trackCommand() of a command a policy issues.
TrackCommand(cmds, c) ==
    [d \in DOMAIN cmds \union {c} |->
        IF d = c THEN [age |-> 0, total |-> 0, retry_count |-> 0] ELSE cmds[d]]

\* The session is dropped, or its commands are checked and a policy may issue one more.
\* Giving up closes the connection.
HealthCheck ==
    /\ next_check = 0
    /\ connected
    /\ next_check' = CheckPeriod
    /\ \/ session = "dropped" /\ UNCHANGED <<session, connected, pending, unissued>>
       \/ /\ session = "registered" /\ ~IsHealthy
          /\ session' = "dropped"
          /\ pending' = NoCommands
          /\ UNCHANGED <<connected, unissued>>
       \/ /\ session = "registered" /\ IsHealthy
          /\ connected' = ~ \E c \in DOMAIN pending : GivesUp(pending[c])
          /\ \/ pending' = CheckCommandTimeouts /\ UNCHANGED unissued
             \/ \E c \in unissued :
                   /\ pending' = TrackCommand(CheckCommandTimeouts, c)
                   /\ unissued' = unissued \ {c}
          /\ UNCHANGED session
    /\ UNCHANGED <<agentVars, hb_age>>

\* The error handler of the connection that was closed: the session is erased.
ConnectionError ==
    /\ ~connected
    /\ session' = "dropped"
    /\ connected' = TRUE
    /\ pending' = NoCommands
    /\ UNCHANGED <<agentVars, hb_age, next_check, unissued>>

\* onMessage(HELLO) on a new connection of the agent.
Register ==
    /\ session = "dropped"
    /\ session' = "registered"
    /\ hb_age' = 0
    /\ reporting' = TRUE
    /\ since_report' = 0
    /\ in_flight' = <<>>
    /\ UNCHANGED <<connected, next_check, pending, unissued>>

Next ==
    \/ Tick \/ Report \/ FallSilent \/ Heartbeat
    \/ \E c \in Commands : HandleAck(c)
    \/ HealthCheck \/ ConnectionError \/ Register

Spec == Init /\ [][Next]_vars

-----------------------------------------------------------------------------
(* Properties.                                                              *)

PendingCommand == [age : Nat, total : Nat, retry_count : 0..MaxRetries]

TypeOK ==
    /\ reporting \in BOOLEAN
    /\ since_report \in 0..ReportPeriod
    /\ in_flight \in Seq(0..MaxDelay)
    /\ session \in {"registered", "dropped"}
    /\ connected \in BOOLEAN
    /\ hb_age \in Nat
    /\ next_check \in 0..CheckPeriod
    /\ DOMAIN pending \subseteq Commands
    /\ pending \in [DOMAIN pending -> PendingCommand]
    /\ unissued \subseteq Commands

\* README.md, line 38: a session whose heartbeats stop is gone within five seconds of
\* the last one, wherever in the two-second period of the health check that came.
DroppedWithinFiveSeconds == session = "registered" => hb_age < 5 * TicksPerSecond

\* An agent that reports every second over a connection that delays by less than two
\* seconds is never found unhealthy.
ReportingAgentStays ==
    [][session = "registered" /\ session' = "dropped" /\ connected => ~reporting]_vars

Patience == Shl[MaxRetries + 1] * TicksPerSecond

\* checkCommandTimeouts() runs every two seconds, so the back-off 1, 2, 4, ... takes one
\* second more in all: a command is answered, or given up exactly that long after it
\* was issued, or goes with its session.
GivesUpOnTime ==
    \A c \in DOMAIN pending :
        /\ pending[c].total <= Patience
        /\ next_check = 0 /\ GivesUp(pending[c]) => pending[c].total = Patience
=============================================================================
