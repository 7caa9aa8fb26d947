-------------------------- MODULE CommandProtocol --------------------------
(***************************************************************************)
(* How a mode change travels from the controller's policy loop to the      *)
(* agents and back: Controller::startHealthCheck and onMessage,            *)
(* AgentTcpSession's pending commands and retries, Agent::onMessage, with  *)
(* connections that break, agents and controllers that restart, commands   *)
(* that are retried and answers that arrive late.                          *)
(*                                                                         *)
(* The health-check handler runs as a sequence of steps (phase) during     *)
(* which the single-threaded controller does nothing else while agents,    *)
(* clocks and the network go on.  A connection is the pair of channels     *)
(* down and up, each an OrderedLink.  Time is abstract: a heartbeat is     *)
(* fresh until it expires, a pending command is due when the step says so. *)
(* Connections whose agent is gone stay registered until the controller    *)
(* notices or the agent's next HELLO replaces the session.                 *)
(***************************************************************************)
EXTENDS Integers, Sequences, FiniteSets, Functions

CONSTANTS
    Agents,       \* agent ids
    Policies,     \* policies_: a sequence of [op, threshold, mode]
    Loads,        \* the values getAggregateLoad() may return once a load is stored
    IdSpace,      \* number of header ids, 2^32 in the code
    MaxRetries,   \* MAX_RETRIES of checkCommandTimeouts, 5 in the code
    MaxCommands   \* bound: commands issued; beyond it no load trips a policy

\* uint32_t counters wrap at an even number.
ASSUME IdSpaceAssumption == IdSpace \in Nat /\ IdSpace > 0 /\ IdSpace % 2 = 0

ASSUME PoliciesAssumption ==
    /\ Policies \in Seq([op : {">", "<"}, threshold : Int, mode : Nat])
    /\ Loads \subseteq Int
    /\ MaxRetries \in Nat
    /\ MaxCommands \in Nat

VARIABLES
    overload_mode,    \* overload_mode_
    next_id,          \* message_counters_[CMD_SET_MODE]
    phase,            \* where the health check is: "idle", "sessions" or "policies"
    todo,             \* sessions the running health check has not visited
    policy,           \* index of the policy to evaluate next
    avg_load,         \* avg_load of the running health check
    stored,           \* whether StateStore::states_ holds any load
    sessions,         \* the keys of sessions_
    fresh,            \* isHealthy(): heartbeat less than 3 seconds old, socket open
    set_mode_msg,     \* msg_set_mode_, the one message object of the session
    pending,          \* pending_cmds_: header id -> retry_count
    command_failures, \* the metric
    conn,             \* the agent's connection, see below
    down,             \* commands on the agent's connection, oldest first
    up,               \* answers on the agent's connection, oldest first
    current_mode,     \* Agent::current_mode_
    last_id,          \* Agent::cmd_set_mode_header_id_
    issued,           \* history: commands issued since the first start
    applied           \* history: serial of the command the agent applied last

controllerVars == <<overload_mode, next_id, phase, todo, policy, avg_load, stored,
                    command_failures, issued>>
sessionVars    == <<sessions, fresh, set_mode_msg, pending>>
linkVars       == <<conn, down, up>>
agentVars      == <<current_mode, last_id, applied>>
vars == <<overload_mode, next_id, phase, todo, policy, avg_load, stored, command_failures,
          issued, sessions, fresh, set_mode_msg, pending, conn, down, up, current_mode,
          last_id, applied>>

Ids == 0..(IdSpace - 1)

\* A command; serial is history: the how-manieth command ever issued it is.
Command == [id : Ids, mode : Nat, serial : Nat]
Answer  == [type : {"ACK", "NACK"}, id : Ids]

\* "none": no connection; "hello": connected, HELLO not yet processed; "open": the
\* agent's session is registered on it; "closed": the controller closed its end and
\* the agent has not noticed.
ConnStates == {"none", "hello", "open", "closed"}

NoIdIsZero == 0

\* The initial value 0xFFFFFFFF of cmd_set_mode_header_id_.
NoId == IdSpace - 1

\* What MessagePool::acquire returns, before the first getSetModeMsg.
BlankCommand == [id |-> 0, mode |-> 0, serial |-> 0]

\* pending_cmds_ of a session: the retry_count of every pending header id.
PendingCommands == UNION {[S -> 0..MaxRetries] : S \in SUBSET Ids}

\* The empty pending_cmds_.
NoCommands == [i \in {} |-> 0]

Init ==
    /\ overload_mode = FALSE
    /\ next_id = 0
    /\ phase = "idle"
    /\ todo = {}
    /\ policy = 1
    /\ avg_load = 0
    /\ stored = FALSE
    /\ sessions = {}
    /\ fresh = [a \in Agents |-> FALSE]
    /\ set_mode_msg = [a \in Agents |-> BlankCommand]
    /\ pending = [a \in Agents |-> NoCommands]
    /\ command_failures = 0
    /\ conn = [a \in Agents |-> "none"]
    /\ down = [a \in Agents |-> <<>>]
    /\ up = [a \in Agents |-> <<>>]
    /\ current_mode = [a \in Agents |-> 0]
    /\ last_id = [a \in Agents |-> NoId]
    /\ issued = 0
    /\ applied = [a \in Agents |-> 0]

-----------------------------------------------------------------------------
(* The agent.                                                               *)

\* start()'s connect handler: a new connection, with HELLO on its way.  Answers left
\* on the old connection either were read before or concern a session HELLO replaces.
Connect(a) ==
    /\ conn[a] = "none"
    /\ conn' = [conn EXCEPT ![a] = "hello"]
    /\ up' = [up EXCEPT ![a] = <<>>]
    /\ UNCHANGED <<controllerVars, sessionVars, agentVars, down>>

Reply(a, type, id) ==
    up' = IF conn[a] = "open"
          THEN [up EXCEPT ![a] = Append(@, [type |-> type, id |-> id])]
          ELSE up

\* onMessage(CMD_SET_MODE) with the header id of the last one: reject it.
RejectDuplicate(a) ==
    /\ conn[a] \in {"open", "closed"}
    /\ down[a] # <<>>
    /\ Head(down[a]).id = last_id[a]
    /\ down' = [down EXCEPT ![a] = Tail(@)]
    /\ Reply(a, "NACK", Head(down[a]).id)
    /\ UNCHANGED <<controllerVars, sessionVars, agentVars, conn>>

\* onMessage(CMD_SET_MODE) with another header id: remember it, switch, acknowledge.
ApplyCommand(a) ==
    /\ conn[a] \in {"open", "closed"}
    /\ down[a] # <<>>
    /\ Head(down[a]).id # last_id[a]
    /\ down' = [down EXCEPT ![a] = Tail(@)]
    /\ last_id' = [last_id EXCEPT ![a] = Head(down[a]).id]
    /\ current_mode' = [current_mode EXCEPT ![a] = Head(down[a]).mode]
    /\ applied' = [applied EXCEPT ![a] = Head(down[a]).serial]
    /\ Reply(a, "ACK", Head(down[a]).id)
    /\ UNCHANGED <<controllerVars, sessionVars, conn>>

\* handleConnectionError(): the connection is given up, unread commands are lost.
LoseConnection(a) ==
    /\ conn[a] # "none"
    /\ conn' = [conn EXCEPT ![a] = "none"]
    /\ down' = [down EXCEPT ![a] = <<>>]
    /\ UNCHANGED <<controllerVars, sessionVars, agentVars, up>>

\* The agent process ends and a new one starts.
RestartAgent(a) ==
    /\ conn' = [conn EXCEPT ![a] = "none"]
    /\ down' = [down EXCEPT ![a] = <<>>]
    /\ current_mode' = [current_mode EXCEPT ![a] = 0]
    /\ last_id' = [last_id EXCEPT ![a] = NoId]
    /\ applied' = [applied EXCEPT ![a] = 0]
    /\ UNCHANGED <<controllerVars, sessionVars, up>>

-----------------------------------------------------------------------------
(* The controller's message handlers.                                       *)

RegisterKeepsPending(a) ==
    /\ phase = "idle"
    /\ conn[a] = "hello"
    /\ conn' = [conn EXCEPT ![a] = "open"]
    /\ sessions' = sessions \union {a}
    /\ fresh' = [fresh EXCEPT ![a] = TRUE]
    /\ UNCHANGED <<controllerVars, agentVars, set_mode_msg, pending, down, up>>

\* onMessage(HELLO) on a connection without session: sessions_[id] becomes a new
\* session; the one it replaces, if any, goes with its pending commands.
Register(a) ==
    /\ phase = "idle"
    /\ conn[a] = "hello"
    /\ conn' = [conn EXCEPT ![a] = "open"]
    /\ sessions' = sessions \union {a}
    /\ fresh' = [fresh EXCEPT ![a] = TRUE]
    /\ set_mode_msg' = [set_mode_msg EXCEPT ![a] = BlankCommand]
    /\ pending' = [pending EXCEPT ![a] = NoCommands]
    /\ UNCHANGED <<controllerVars, agentVars, down, up>>

\* onMessage(HEARTBEAT).
Heartbeat(a) ==
    /\ phase = "idle"
    /\ conn[a] = "open"
    /\ ~fresh[a]
    /\ fresh' = [fresh EXCEPT ![a] = TRUE]
    /\ UNCHANGED <<controllerVars, linkVars, agentVars, sessions, set_mode_msg, pending>>

\* isHealthy() turns false: three seconds pass without a heartbeat, or the close that
\* checkCommandTimeouts posted has run.
HeartbeatExpires(a) ==
    /\ a \in sessions
    /\ fresh[a]
    /\ fresh' = [fresh EXCEPT ![a] = FALSE]
    /\ UNCHANGED <<controllerVars, linkVars, agentVars, sessions, set_mode_msg, pending>>

\* onMessage(STATE): from the first report on the store is never empty again.
UpdateAgentState(a) ==
    /\ phase = "idle"
    /\ conn[a] = "open"
    /\ ~stored
    /\ stored' = TRUE
    /\ UNCHANGED <<overload_mode, next_id, phase, todo, policy, avg_load, command_failures, issued,
                   sessionVars, linkVars, agentVars>>

HandleAckClears(a, id) ==
    pending' = [pending EXCEPT ![a] = NoCommands]

\* handleAck(): the command is no longer pending.
HandleAck(a, id) ==
    pending' = [pending EXCEPT ![a] = Restrict(@, DOMAIN @ \ {id})]

\* onMessage(ACK) and onMessage(NACK), which differ in what they log.
ReceiveAnswer(a) ==
    /\ phase = "idle"
    /\ a \in sessions
    /\ up[a] # <<>>
    /\ HandleAck(a, Head(up[a]).id)
    /\ up' = [up EXCEPT ![a] = Tail(@)]
    /\ UNCHANGED <<controllerVars, agentVars, sessions, fresh, set_mode_msg, conn, down>>

\* sessions_.erase(): the last owner of the session lets go of it.
EraseSession(a) ==
    /\ sessions' = sessions \ {a}
    /\ fresh' = [fresh EXCEPT ![a] = FALSE]
    /\ set_mode_msg' = [set_mode_msg EXCEPT ![a] = BlankCommand]
    /\ pending' = [pending EXCEPT ![a] = NoCommands]

\* The error handler of a registered connection that is dead: the session goes, and
\* with it whatever was unread on the connection.
ConnectionError(a) ==
    /\ phase = "idle"
    /\ a \in sessions
    /\ conn[a] # "open"
    /\ EraseSession(a)
    /\ up' = [up EXCEPT ![a] = <<>>]
    /\ UNCHANGED <<controllerVars, agentVars, conn, down>>

-----------------------------------------------------------------------------
(* The health check, every two seconds.                                     *)

\* The connection of a's session is closed from the controller's end.
CloseConnection(a) ==
    conn' = IF conn[a] = "open" THEN [conn EXCEPT ![a] = "closed"] ELSE conn

\* The frames reach the agent if the session's connection is the agent's.
Transmit(a, msgs) ==
    down' = IF conn[a] = "open" THEN [down EXCEPT ![a] = @ \o msgs] ELSE down

StartHealthCheck ==
    /\ phase = "idle"
    /\ phase' = "sessions"
    /\ todo' = sessions
    /\ UNCHANGED <<overload_mode, next_id, policy, avg_load, stored, command_failures, issued,
                   sessionVars, linkVars, agentVars>>

DropSessionStaysOnIt(a) ==
    /\ phase = "sessions"
    /\ a \in todo
    /\ ~fresh[a]
    /\ EraseSession(a)
    /\ CloseConnection(a)
    /\ up' = [up EXCEPT ![a] = <<>>]
    /\ UNCHANGED <<controllerVars, down, agentVars>>

\* !isHealthy(): disconnect and erase.
DropSession(a) ==
    /\ phase = "sessions"
    /\ a \in todo
    /\ ~fresh[a]
    /\ todo' = todo \ {a}
    /\ EraseSession(a)
    /\ CloseConnection(a)
    /\ up' = [up EXCEPT ![a] = <<>>]
    /\ UNCHANGED <<overload_mode, next_id, phase, policy, avg_load, stored, command_failures,
                   issued, down, agentVars>>

ResendOwnMessage(a, ids) ==
    [k \in 1..Cardinality(ids) |->
        LET i == CHOOSE j \in ids : Cardinality({n \in ids : n <= j}) = k
        IN  [id |-> i, mode |-> (i + 1) % 2, serial |-> set_mode_msg[a].serial - (set_mode_msg[a].id - i)]]

\* PendingCommand::msg points to the session's one message object, so whichever
\* command is resent, the frame carries the newest command.
Resend(a, ids) == [k \in 1..Cardinality(ids) |-> set_mode_msg[a]]

CheckCommandTimeoutsNeverGivesUp(a, due) ==
    LET retried == {i \in due : pending[a][i] < MaxRetries}
    IN  /\ phase = "sessions"
        /\ a \in todo
        /\ fresh[a]
        /\ todo' = todo \ {a}
        /\ pending' = [pending EXCEPT ![a] =
                          [i \in DOMAIN @ |-> IF i \in retried THEN @[i] + 1 ELSE @[i]]]
        /\ Transmit(a, Resend(a, retried))
        /\ UNCHANGED <<overload_mode, next_id, phase, policy, avg_load, stored, command_failures,
                       issued, sessions, fresh, set_mode_msg, conn, up, agentVars>>

\* checkCommandTimeouts() of a healthy session whose commands due have waited long
\* enough: resend those with retries left; for each other one count a failure, erase
\* it and disconnect.  What is resent in the same loop may be written before or after
\* the close.  The session stays registered until its error handler runs.
CheckCommandTimeouts(a, due) ==
    LET retried == {i \in due : pending[a][i] < MaxRetries}
        failed  == due \ retried
    IN  /\ phase = "sessions"
        /\ a \in todo
        /\ fresh[a]
        /\ todo' = todo \ {a}
        /\ pending' = [pending EXCEPT ![a] =
                          [i \in DOMAIN @ \ failed |-> IF i \in retried THEN @[i] + 1 ELSE @[i]]]
        /\ command_failures' = command_failures + Cardinality(failed)
        /\ IF failed = {}
           THEN Transmit(a, Resend(a, retried)) /\ UNCHANGED conn
           ELSE /\ \E sent \in SUBSET retried : Transmit(a, Resend(a, sent))
                /\ CloseConnection(a)
        /\ UNCHANGED <<overload_mode, next_id, phase, policy, avg_load, stored, issued,
                       sessions, fresh, set_mode_msg, up, agentVars>>

\* getAggregateLoad(): the mean of the loads the agents last reported, 0 before the
\* first report.
ComputeLoad ==
    /\ phase = "sessions"
    /\ todo = {}
    /\ phase' = "policies"
    /\ policy' = 1
    /\ avg_load' \in IF stored THEN Loads ELSE {0}
    /\ UNCHANGED <<overload_mode, next_id, todo, stored, command_failures, issued,
                   sessionVars, linkVars, agentVars>>

ConditionMet(p) ==
    \/ p.op = ">" /\ avg_load > p.threshold
    \/ p.op = "<" /\ avg_load < p.threshold

\* The policy's condition holds and overload_mode_ is not what its action asks for.
Triggered(p) ==
    /\ ConditionMet(p)
    /\ overload_mode # (p.mode = 1)
    /\ issued < MaxCommands

SkipPolicy ==
    /\ phase = "policies"
    /\ policy <= Len(Policies)
    /\ ~Triggered(Policies[policy])
    /\ policy' = policy + 1
    /\ UNCHANGED <<overload_mode, next_id, phase, todo, avg_load, stored, command_failures,
                   issued, sessionVars, linkVars, agentVars>>

\* getNextId(CMD_SET_MODE), called once for all sessions.
NextId == (next_id + 1) % IdSpace

\* Switch overload_mode_, take the next id, and for every healthy session rewrite its
\* message (getSetModeMsg), track it (trackCommand) and send it.
TriggerPolicy ==
    LET p   == Policies[policy]
        msg == [id |-> next_id, mode |-> p.mode, serial |-> issued + 1]
        to  == {a \in sessions : fresh[a]}
    IN  /\ phase = "policies"
        /\ policy <= Len(Policies)
        /\ Triggered(p)
        /\ policy' = policy + 1
        /\ overload_mode' = (p.mode = 1)
        /\ next_id' = NextId
        /\ issued' = issued + 1
        /\ set_mode_msg' = [a \in Agents |-> IF a \in to THEN msg ELSE set_mode_msg[a]]
        /\ pending' = [a \in Agents |->
                          IF a \in to
                          THEN [i \in DOMAIN pending[a] \union {next_id} |->
                                   IF i = next_id THEN 0 ELSE pending[a][i]]
                          ELSE pending[a]]
        /\ down' = [a \in Agents |->
                       IF a \in to /\ conn[a] = "open" THEN Append(down[a], msg) ELSE down[a]]
        /\ UNCHANGED <<phase, todo, avg_load, stored, command_failures, sessions, fresh, conn, up,
                       agentVars>>

\* The handler ends by re-arming its timer.
FinishHealthCheck ==
    /\ phase = "policies"
    /\ policy > Len(Policies)
    /\ phase' = "idle"
    /\ policy' = 1
    /\ avg_load' = 0
    /\ UNCHANGED <<overload_mode, next_id, todo, stored, command_failures, issued,
                   sessionVars, linkVars, agentVars>>

-----------------------------------------------------------------------------
(* The controller process ends and a new one starts.                        *)

FreshController ==
    /\ overload_mode' = FALSE
    /\ next_id' = 0
    /\ phase' = "idle"
    /\ todo' = {}
    /\ policy' = 1
    /\ avg_load' = 0
    /\ stored' = FALSE
    /\ command_failures' = 0
    /\ sessions' = {}
    /\ fresh' = [a \in Agents |-> FALSE]
    /\ set_mode_msg' = [a \in Agents |-> BlankCommand]
    /\ pending' = [a \in Agents |-> NoCommands]
    /\ conn' = [a \in Agents |-> IF conn[a] = "none" THEN "none" ELSE "closed"]
    /\ up' = [a \in Agents |-> <<>>]
    /\ UNCHANGED <<issued, agentVars>>

\* A crash: at any point, also inside the health check.
CrashController ==
    /\ FreshController
    /\ UNCHANGED down

\* SIGTERM: shutdownController() sends every pending command once more, flushes and
\* disconnects (flushPendingCommands), and the process ends.
ShutDownController ==
    /\ phase = "idle"
    /\ FreshController
    /\ down' = [a \in Agents |->
                   IF a \in sessions /\ conn[a] = "open"
                   THEN down[a] \o Resend(a, DOMAIN pending[a])
                   ELSE down[a]]

-----------------------------------------------------------------------------

Next ==
    \/ \E a \in Agents :
          \/ Connect(a) \/ RejectDuplicate(a) \/ ApplyCommand(a)
          \/ LoseConnection(a) \/ RestartAgent(a)
          \/ Register(a) \/ Heartbeat(a) \/ HeartbeatExpires(a) \/ UpdateAgentState(a)
          \/ ReceiveAnswer(a) \/ ConnectionError(a)
          \/ DropSession(a)
          \/ \E due \in SUBSET DOMAIN pending[a] : CheckCommandTimeouts(a, due)
    \/ StartHealthCheck \/ ComputeLoad
    \/ SkipPolicy \/ TriggerPolicy \/ FinishHealthCheck
    \/ CrashController \/ ShutDownController

Spec == Init /\ [][Next]_vars

(***************************************************************************)
(* The controller's timer fires and its handlers run.  A command that      *)
(* stays pending over one health check after the other is due at some of   *)
(* them: the back-off grows with the retries only.                         *)
(* Nothing else is forced: agents need not read, answer, send heartbeats,  *)
(* fall silent or reconnect, and a broken connection need not be noticed.  *)
(***************************************************************************)
Fairness ==
    /\ WF_vars(StartHealthCheck)
    /\ WF_vars(ComputeLoad)
    /\ WF_vars(SkipPolicy \/ TriggerPolicy \/ FinishHealthCheck)
    /\ \A a \in Agents :
          /\ WF_vars(DropSession(a))
          /\ WF_vars(\E due \in SUBSET DOMAIN pending[a] : CheckCommandTimeouts(a, due))
          /\ SF_vars(\E due \in SUBSET DOMAIN pending[a] :
                         due # {} /\ CheckCommandTimeouts(a, due))

FairSpec == Spec /\ Fairness

\* In addition a connected agent is registered and reads what arrives, its answers are
\* handled, and a broken connection is noticed.
AgentFairness ==
    \A a \in Agents :
        /\ WF_vars(RejectDuplicate(a) \/ ApplyCommand(a))
        /\ SF_vars(Register(a))
        /\ SF_vars(ReceiveAnswer(a))
        /\ SF_vars(ConnectionError(a))

AnsweringSpec == FairSpec /\ AgentFairness

-----------------------------------------------------------------------------
(* Properties.                                                              *)

TypeOK ==
    /\ overload_mode \in BOOLEAN
    /\ next_id \in Ids
    /\ phase \in {"idle", "sessions", "policies"}
    /\ todo \subseteq sessions
    /\ phase # "sessions" => todo = {}
    /\ policy \in 1..(Len(Policies) + 1)
    /\ avg_load \in Int
    /\ stored \in BOOLEAN
    /\ command_failures \in Nat
    /\ sessions \subseteq Agents
    /\ fresh \in [Agents -> BOOLEAN]
    /\ set_mode_msg \in [Agents -> Command]
    /\ pending \in [Agents -> PendingCommands]
    /\ conn \in [Agents -> ConnStates]
    /\ down \in [Agents -> Seq(Command)]
    /\ up \in [Agents -> Seq(Answer)]
    /\ current_mode \in [Agents -> Nat]
    /\ last_id \in [Agents -> Ids]
    /\ issued \in Nat
    /\ applied \in [Agents -> Nat]

\* A command the agent is about to reject as a duplicate asks for the mode the agent
\* is already in (mode 1, or not), whichever of retries, reconnections, restarts of
\* either side or wrap-around of the ids made the ids equal.  Agent::onMessage
\* compares with nothing but the last id, so this rests on how the controller
\* couples ids with overload_mode_.
DuplicateIsHarmless ==
    \A a \in Agents :
        down[a] # <<>> /\ Head(down[a]).id = last_id[a]
            => (Head(down[a]).mode = 1 <=> current_mode[a] = 1)

\* An agent never applies a command issued before the one it applied last, although
\* checkCommandTimeouts resends old pending commands after newer ones.
AppliesInOrder ==
    [][\A a \in Agents :
          applied'[a] # applied[a] /\ applied'[a] # 0 => applied'[a] > applied[a]]_vars

\* When the newest command of a live session is not pending any more, the agent is in
\* the mode it asked for: an answer, ACK or NACK, is never taken for another command's.
AnsweredMeansInMode ==
    \A a \in Agents :
        /\ conn[a] = "open"
        /\ set_mode_msg[a].serial # 0
        /\ set_mode_msg[a].id \notin DOMAIN pending[a]
        => (current_mode[a] = 1 <=> set_mode_msg[a].mode = 1)

\* Every pending command of a live session is either on its way to the agent or its
\* answer is on its way back, although a resend never carries an old command's id.
PendingIsUnderWay ==
    \A a \in Agents : conn[a] = "open" =>
        \A i \in DOMAIN pending[a] :
            \/ \E k \in 1..Len(down[a]) : down[a][k].id = i
            \/ \E k \in 1..Len(up[a]) : up[a][k].id = i

\* No command stays pending for ever, although its agent may never answer and its
\* connection may be dead: checkCommandTimeouts gives it up after MAX_RETRIES unless it
\* is answered or its session goes before.
PendingIsResolved ==
    \A a \in Agents : \A i \in Ids :
        (i \in DOMAIN pending[a]) ~> (i \notin DOMAIN pending[a])

\* README.md, line 39, and IntegrationTest.cpp, line 66: when the policy switches the
\* system to overload, all agents switch to mode 1.  Stated for an agent whose session
\* stays up and healthy while overload_mode_ stays set.
EveryAgentFollows ==
    \A a \in Agents :
        (conn[a] = "open" /\ overload_mode)
            ~> (current_mode[a] = 1 \/ ~overload_mode \/ conn[a] # "open" \/ ~fresh[a])

\* MetricsServer.cpp, line 19: command_failures_total counts "Total command failures
\* (NACK or Timeout)", so handling a NACK of a pending command counts one.
NackCountsAsFailure ==
    [][\A a \in Agents :
          /\ ReceiveAnswer(a)
          /\ Head(up[a]).type = "NACK"
          /\ Head(up[a]).id \in DOMAIN pending[a]
          => command_failures' = command_failures + 1]_vars
=============================================================================
