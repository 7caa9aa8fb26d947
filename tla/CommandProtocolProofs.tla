----------------------- MODULE CommandProtocolProofs -----------------------
(***************************************************************************)
(* Proofs about CommandProtocol, for every set of agents, every sequence   *)
(* of policies and every even number of header ids.                        *)
(***************************************************************************)
EXTENDS CommandProtocol, FiniteSetTheorems, SequenceTheorems, TLAPS

\* Finitely many ids can be pending, so resending them adds finitely many frames.
LEMMA CountIds ==
    ASSUME NEW S \in SUBSET Ids
    PROVE  /\ Cardinality(S) \in Nat
           /\ S = {} => Cardinality(S) = 0
<1>1. IsFiniteSet(Ids)
  BY FS_Interval, IdSpaceAssumption DEF Ids
<1>2. IsFiniteSet(S)
  BY <1>1, FS_Subset
<1> QED
  BY <1>2, FS_CardinalityType, FS_EmptySet

\* The frames of a resend are all the session's newest command.
LEMMA ResendType ==
    ASSUME TypeOK, NEW a \in Agents, NEW S \in SUBSET Ids
    PROVE  /\ Resend(a, S) \in Seq(Command)
           /\ \A k \in 1..Len(Resend(a, S)) :
                  Resend(a, S)[k] = set_mode_msg[a] /\ S # {}
<1>1. Cardinality(S) \in Nat /\ (S = {} => Cardinality(S) = 0)
  BY CountIds
<1>2. set_mode_msg[a] \in Command
  BY DEF TypeOK
<1> DEFINE n == Cardinality(S)
           R == [k \in 1..n |-> set_mode_msg[a]]
<1>3. R \in Seq(Command) /\ Len(R) = n
  BY <1>1, <1>2
<1> QED
  BY <1>1, <1>3 DEF Resend

\* The constants the initial and the reset states are made of.
LEMMA ConstantTypes ==
    /\ NoCommands \in PendingCommands
    /\ BlankCommand \in Command
    /\ NoId \in Ids
    /\ 0 \in Ids
    /\ Len(Policies) \in Nat
<1> USE IdSpaceAssumption, PoliciesAssumption
<1>1. NoCommands \in [{} -> 0..MaxRetries]
  BY DEF NoCommands
<1>2. {} \in SUBSET Ids
  OBVIOUS
<1>3. NoCommands \in PendingCommands
  BY <1>1, <1>2, Zenon DEF PendingCommands
<1>4. 0 \in Ids /\ NoId \in Ids
  BY DEF Ids, NoId
<1>5. BlankCommand \in Command
  BY <1>4 DEF BlankCommand, Command
<1>6. Len(Policies) \in Nat
  OBVIOUS
<1> QED
  BY <1>3, <1>4, <1>5, <1>6

\* pending_cmds_ is a map from a set of ids to retry counts.
LEMMA PendingType ==
    ASSUME TypeOK, NEW a \in Agents
    PROVE  /\ DOMAIN pending[a] \in SUBSET Ids
           /\ pending[a] \in [DOMAIN pending[a] -> 0..MaxRetries]
<1>1. PICK S \in SUBSET Ids : pending[a] \in [S -> 0..MaxRetries]
  BY DEF TypeOK, PendingCommands
<1> QED
  BY <1>1

\* Init establishes the types.
LEMMA InitType == Init => TypeOK
<1> SUFFICES ASSUME Init PROVE TypeOK
  OBVIOUS
<1>1. /\ down \in [Agents -> Seq(Command)]
      /\ up \in [Agents -> Seq(Answer)]
      /\ conn \in [Agents -> ConnStates]
  BY DEF Init, ConnStates
<1>2. /\ set_mode_msg \in [Agents -> Command]
      /\ pending \in [Agents -> PendingCommands]
      /\ last_id \in [Agents -> Ids]
      /\ next_id \in Ids
      /\ policy \in 1..(Len(Policies) + 1)
  BY ConstantTypes DEF Init
<1>3. /\ fresh \in [Agents -> BOOLEAN]
      /\ current_mode \in [Agents -> Nat]
      /\ applied \in [Agents -> Nat]
  BY DEF Init
<1>4. /\ overload_mode \in BOOLEAN
      /\ phase = "idle"
      /\ todo = {}
      /\ sessions = {}
      /\ avg_load = 0 /\ stored \in BOOLEAN /\ command_failures = 0 /\ issued = 0
  BY Zenon DEF Init
<1> QED
  BY <1>1, <1>2, <1>3, <1>4 DEF TypeOK

\* Every step keeps the types; in particular retry counts stay within MAX_RETRIES and
\* a running health check only has sessions to visit that are still registered.
LEMMA NextType == TypeOK /\ [Next]_vars => TypeOK'
<1> SUFFICES ASSUME TypeOK, [Next]_vars PROVE TypeOK'
  OBVIOUS
<1> USE IdSpaceAssumption, PoliciesAssumption
<1>1. ASSUME NEW a \in Agents, Connect(a) PROVE TypeOK'
  BY <1>1 DEF Connect, TypeOK, controllerVars, sessionVars, agentVars, ConnStates
<1>2. ASSUME NEW a \in Agents, RejectDuplicate(a) PROVE TypeOK'
  <2>1. Head(down[a]) \in Command /\ Tail(down[a]) \in Seq(Command)
    BY <1>2 DEF RejectDuplicate, TypeOK
  <2>2. [type |-> "NACK", id |-> Head(down[a]).id] \in Answer
    BY <2>1 DEF Answer, Command
  <2>3. up' \in [Agents -> Seq(Answer)]
    BY <1>2, <2>2 DEF RejectDuplicate, Reply, TypeOK
  <2> QED
    BY <1>2, <2>1, <2>3, Zenon DEF RejectDuplicate, TypeOK, controllerVars, sessionVars, agentVars
<1>3. ASSUME NEW a \in Agents, ApplyCommand(a) PROVE TypeOK'
  <2>1. Head(down[a]) \in Command /\ Tail(down[a]) \in Seq(Command)
    BY <1>3 DEF ApplyCommand, TypeOK
  <2>2. [type |-> "ACK", id |-> Head(down[a]).id] \in Answer
    BY <2>1 DEF Answer, Command
  <2>3. up' \in [Agents -> Seq(Answer)]
    BY <1>3, <2>2 DEF ApplyCommand, Reply, TypeOK
  <2> QED
    BY <1>3, <2>1, <2>3, Zenon DEF ApplyCommand, TypeOK, controllerVars, sessionVars, Command
<1>4. ASSUME NEW a \in Agents, LoseConnection(a) PROVE TypeOK'
  BY <1>4 DEF LoseConnection, TypeOK, controllerVars, sessionVars, agentVars, ConnStates
<1>5. ASSUME NEW a \in Agents, RestartAgent(a) PROVE TypeOK'
  BY ConstantTypes, <1>5 DEF RestartAgent, TypeOK, controllerVars, sessionVars, ConnStates
<1>6. ASSUME NEW a \in Agents, Register(a) PROVE TypeOK'
  BY ConstantTypes, <1>6 DEF Register, TypeOK, controllerVars, agentVars, ConnStates
<1>7. ASSUME NEW a \in Agents, Heartbeat(a) PROVE TypeOK'
  BY <1>7 DEF Heartbeat, TypeOK, controllerVars, linkVars, agentVars
<1>8. ASSUME NEW a \in Agents, HeartbeatExpires(a) \/ UpdateAgentState(a) PROVE TypeOK'
  <2>1. CASE HeartbeatExpires(a)
    BY <2>1 DEF HeartbeatExpires, TypeOK, controllerVars, linkVars, agentVars
  <2>2. CASE UpdateAgentState(a)
    BY <2>2 DEF UpdateAgentState, TypeOK, sessionVars, linkVars, agentVars
  <2> QED
    BY <1>8, <2>1, <2>2
<1>9. ASSUME NEW a \in Agents, ReceiveAnswer(a) PROVE TypeOK'
  <2>1. Tail(up[a]) \in Seq(Answer)
    BY <1>9 DEF ReceiveAnswer, TypeOK
  <2> DEFINE D == DOMAIN pending[a] \ {Head(up[a]).id}
  <2>2. Restrict(pending[a], D) \in [D -> 0..MaxRetries] /\ D \in SUBSET Ids
    BY PendingType DEF Restrict
  <2>3. Restrict(pending[a], D) \in PendingCommands
    BY <2>2, Zenon DEF PendingCommands
  <2>4. pending' \in [Agents -> PendingCommands]
    BY <1>9, <2>3 DEF ReceiveAnswer, HandleAck, TypeOK
  <2> QED
    BY <1>9, <2>1, <2>4, Zenon DEF ReceiveAnswer, TypeOK, controllerVars, agentVars
<1>10. ASSUME NEW a \in Agents, ConnectionError(a) PROVE TypeOK'
    BY ConstantTypes, <1>10 DEF ConnectionError, EraseSession, TypeOK, controllerVars, agentVars
<1>11. ASSUME NEW a \in Agents, DropSession(a) PROVE TypeOK'
  <2>1. conn' \in [Agents -> ConnStates]
    BY <1>11 DEF DropSession, CloseConnection, TypeOK, ConnStates
  <2>2. /\ fresh' \in [Agents -> BOOLEAN]
        /\ set_mode_msg' \in [Agents -> Command]
        /\ pending' \in [Agents -> PendingCommands]
        /\ up' \in [Agents -> Seq(Answer)]
    BY ConstantTypes, <1>11 DEF DropSession, EraseSession, TypeOK
  <2>3. /\ sessions' = sessions \ {a}
        /\ todo' = todo \ {a}
        /\ UNCHANGED <<overload_mode, next_id, phase, policy, avg_load, stored, command_failures,
                       issued, down, current_mode, last_id, applied>>
    BY <1>11 DEF DropSession, EraseSession, agentVars
  <2> QED
    BY <1>11, <2>1, <2>2, <2>3 DEF TypeOK
<1>12. ASSUME NEW a \in Agents, NEW due \in SUBSET DOMAIN pending[a],
              CheckCommandTimeouts(a, due)
       PROVE  TypeOK'
  <2> DEFINE retried == {i \in due : pending[a][i] < MaxRetries}
             failed  == due \ retried
             rest    == [i \in DOMAIN pending[a] \ failed |->
                            IF i \in retried THEN pending[a][i] + 1 ELSE pending[a][i]]
  <2>1. DOMAIN pending[a] \in SUBSET Ids /\ pending[a] \in [DOMAIN pending[a] -> 0..MaxRetries]
    BY PendingType
  <2>2. rest \in [DOMAIN pending[a] \ failed -> 0..MaxRetries]
    BY <2>1
  <2>3. rest \in PendingCommands
    <3> DEFINE S == DOMAIN pending[a] \ failed
    <3>1. S \in SUBSET Ids /\ rest \in [S -> 0..MaxRetries]
      BY <2>1, <2>2
    <3> HIDE DEF S, rest
    <3> QED
      BY <3>1 DEF PendingCommands
  <2>4. pending' \in [Agents -> PendingCommands]
    BY <1>12, <2>3 DEF CheckCommandTimeouts, TypeOK
  <2>5. Cardinality(failed) \in Nat
    BY <2>1, CountIds
  <2>6. \A S \in SUBSET retried : Resend(a, S) \in Seq(Command)
    BY <2>1, ResendType
  <2>7. down' \in [Agents -> Seq(Command)]
    <3>1. ASSUME NEW S \in SUBSET retried, Transmit(a, Resend(a, S))
          PROVE  down' \in [Agents -> Seq(Command)]
      BY <2>6, <3>1 DEF Transmit, TypeOK
    <3> QED
      BY <1>12, <3>1 DEF CheckCommandTimeouts
  <2>8. conn' \in [Agents -> ConnStates]
    <3>1. UNCHANGED conn \/ CloseConnection(a)
      BY <1>12 DEF CheckCommandTimeouts
    <3>2. conn \in [Agents -> ConnStates]
      BY DEF TypeOK
    <3> QED
      BY <3>1, <3>2 DEF CloseConnection, ConnStates
  <2>9. command_failures' \in Nat
    <3>1. command_failures' = command_failures + Cardinality(failed)
      BY <1>12 DEF CheckCommandTimeouts
    <3>2. command_failures \in Nat
      BY DEF TypeOK
    <3> HIDE DEF failed
    <3> QED
      BY <2>5, <3>1, <3>2
  <2> QED
    BY <1>12, <2>4, <2>7, <2>8, <2>9 DEF CheckCommandTimeouts, TypeOK, agentVars
<1>13. CASE StartHealthCheck
  BY <1>13 DEF StartHealthCheck, TypeOK, sessionVars, linkVars, agentVars
<1>14. CASE ComputeLoad
  BY <1>14, ConstantTypes DEF ComputeLoad, TypeOK, sessionVars, linkVars, agentVars
<1>15. CASE SkipPolicy
  BY <1>15, ConstantTypes DEF SkipPolicy, TypeOK, sessionVars, linkVars, agentVars
<1>16. CASE TriggerPolicy
  <2> DEFINE p   == Policies[policy]
             msg == [id |-> next_id, mode |-> p.mode, serial |-> issued + 1]
             to  == {a \in sessions : fresh[a]}
  <2>0. policy \in 1..Len(Policies)
    BY <1>16, ConstantTypes DEF TriggerPolicy, TypeOK
  <2>1. p.mode \in Nat
    <3>1. p \in [op : {">", "<"}, threshold : Int, mode : Nat]
      BY <2>0, ElementOfSeq, Zenon
    <3> QED
      BY <3>1
  <2>2. msg \in Command
    BY <2>1 DEF TypeOK, Command
  <2>3. set_mode_msg' \in [Agents -> Command]
    BY <1>16, <2>2 DEF TriggerPolicy, TypeOK
  <2>4. down' \in [Agents -> Seq(Command)]
    BY <1>16, <2>2 DEF TriggerPolicy, TypeOK
  <2>5. pending' \in [Agents -> PendingCommands]
    <3>1. SUFFICES ASSUME NEW a \in Agents
                   PROVE  [i \in DOMAIN pending[a] \union {next_id} |->
                              IF i = next_id THEN 0 ELSE pending[a][i]] \in PendingCommands
      BY <1>16, Zenon DEF TriggerPolicy, TypeOK
    <3>2. DOMAIN pending[a] \union {next_id} \in SUBSET Ids
      BY PendingType DEF TypeOK
    <3>3. [i \in DOMAIN pending[a] \union {next_id} |->
              IF i = next_id THEN 0 ELSE pending[a][i]]
            \in [DOMAIN pending[a] \union {next_id} -> 0..MaxRetries]
      BY PendingType
    <3> QED
      BY <3>2, <3>3, Zenon DEF PendingCommands
  <2>6. next_id' \in Ids
    <3>1. next_id \in Int /\ next_id' = (next_id + 1) % IdSpace
      BY <1>16 DEF TriggerPolicy, NextId, TypeOK, Ids
    <3> QED
      BY <3>1 DEF Ids
  <2>7. policy' = policy + 1 /\ issued' = issued + 1 /\ overload_mode' \in BOOLEAN
    BY <1>16 DEF TriggerPolicy
  <2> QED
    <3>1. UNCHANGED <<phase, todo, avg_load, stored, command_failures, sessions, fresh, conn, up,
                      current_mode, last_id, applied>>
      BY <1>16 DEF TriggerPolicy, agentVars
    <3> QED
      BY ConstantTypes, <2>0, <2>3, <2>4, <2>5, <2>6, <2>7, <3>1 DEF TypeOK
<1>17. CASE FinishHealthCheck
  BY <1>17, ConstantTypes DEF FinishHealthCheck, TypeOK, sessionVars, linkVars, agentVars
<1>18. ASSUME FreshController, down' \in [Agents -> Seq(Command)] PROVE TypeOK'
  <2>1. conn' \in [Agents -> ConnStates] /\ up' \in [Agents -> Seq(Answer)]
    BY <1>18 DEF FreshController, TypeOK, ConnStates
  <2>2. /\ set_mode_msg' \in [Agents -> Command]
        /\ pending' \in [Agents -> PendingCommands]
        /\ next_id' \in Ids
        /\ policy' \in 1..(Len(Policies) + 1)
        /\ fresh' \in [Agents -> BOOLEAN]
    BY <1>18, ConstantTypes DEF FreshController
  <2>3. /\ overload_mode' \in BOOLEAN
        /\ phase' = "idle"
        /\ todo' = {}
        /\ sessions' = {}
        /\ avg_load' = 0 /\ stored' \in BOOLEAN /\ command_failures' = 0
        /\ UNCHANGED <<issued, current_mode, last_id, applied>>
    BY <1>18, Zenon DEF FreshController, agentVars
  <2> QED
    BY <1>18, <2>1, <2>2, <2>3 DEF TypeOK
<1>19. CASE CrashController
  BY <1>18, <1>19 DEF CrashController, TypeOK
<1>20. CASE ShutDownController
  <2>1. \A a \in Agents : Resend(a, DOMAIN pending[a]) \in Seq(Command)
    BY PendingType, ResendType
  <2>2. down' \in [Agents -> Seq(Command)]
    BY <1>20, <2>1 DEF ShutDownController, TypeOK
  <2> QED
    BY <1>18, <1>20, <2>2 DEF ShutDownController
<1>21. CASE UNCHANGED vars
  BY <1>21 DEF vars, TypeOK
<1> QED
  BY <1>1, <1>2, <1>3, <1>4, <1>5, <1>6, <1>7, <1>8, <1>9, <1>10, <1>11, <1>12, <1>13, <1>14,
     <1>15, <1>16, <1>17, <1>19, <1>20, <1>21 DEF Next

\* CommandProtocol is type-correct: retry counts stay within MAX_RETRIES, ids within
\* the id space, and the health check visits registered sessions only.
THEOREM TypeCorrect == Spec => []TypeOK
<1> QED
  BY InitType, NextType, PTL DEF Spec

-----------------------------------------------------------------------------
(***************************************************************************)
(* Rejecting a duplicate is harmless.  Every command flips overload_mode_  *)
(* and takes the next id, so the parity of an id tells the mode that goes  *)
(* with it.  An agent's initial id 0xFFFFFFFF is odd like those of mode 0, *)
(* and a restarted controller resets id and overload_mode_ together.       *)
(***************************************************************************)

Agrees(id, mode) == mode = 1 <=> id % 2 = 0

IdsTellModes ==
    /\ overload_mode <=> next_id % 2 = 1
    /\ \A a \in Agents : Agrees(last_id[a], current_mode[a])
    /\ \A a \in Agents : set_mode_msg[a].serial # 0
                            => Agrees(set_mode_msg[a].id, set_mode_msg[a].mode)
    /\ \A a \in Agents : \A k \in 1..Len(down[a]) : Agrees(down[a][k].id, down[a][k].mode)
    /\ \A a \in Agents : DOMAIN pending[a] # {} => set_mode_msg[a].serial # 0

\* What resending some of the pending commands adds to the channel agrees, too.
LEMMA ResendAgrees ==
    ASSUME TypeOK, IdsTellModes, NEW a \in Agents, NEW S \in SUBSET DOMAIN pending[a]
    PROVE  \A k \in 1..Len(down[a] \o Resend(a, S)) :
              Agrees((down[a] \o Resend(a, S))[k].id, (down[a] \o Resend(a, S))[k].mode)
<1>1. S \in SUBSET Ids
  BY PendingType
<1>2. /\ Resend(a, S) \in Seq(Command)
      /\ \A k \in 1..Len(Resend(a, S)) : Resend(a, S)[k] = set_mode_msg[a] /\ S # {}
  BY <1>1, ResendType
<1>3. \A k \in 1..Len(Resend(a, S)) : Agrees(Resend(a, S)[k].id, Resend(a, S)[k].mode)
  BY <1>2 DEF IdsTellModes
<1>4. down[a] \in Seq(Command)
  BY DEF TypeOK
<1> DEFINE r == Resend(a, S)
           d == down[a]
<1> HIDE DEF r, d
<1>5. /\ Len(d \o r) = Len(d) + Len(r)
      /\ Len(d) \in Nat /\ Len(r) \in Nat
      /\ \A i \in 1..Len(d) + Len(r) : (d \o r)[i] = IF i <= Len(d) THEN d[i] ELSE r[i - Len(d)]
  BY <1>2, <1>4, ConcatProperties, LenProperties DEF r, d
<1>6. \A k \in 1..Len(d) : Agrees(d[k].id, d[k].mode)
  BY DEF IdsTellModes, d
<1>7. ASSUME NEW k \in 1..Len(d \o r) PROVE Agrees((d \o r)[k].id, (d \o r)[k].mode)
  <2>1. CASE k <= Len(d)
    BY <1>5, <1>6, <2>1
  <2>2. CASE k > Len(d)
    <3>1. k - Len(d) \in 1..Len(r) /\ (d \o r)[k] = r[k - Len(d)]
      BY <1>5, <2>2
    <3> QED
      BY <1>3, <3>1 DEF r
  <2> QED
    BY <1>5, <2>1, <2>2
<1> QED
  BY <1>7 DEF r, d

\* At the start no command exists and the sentinel id is odd.
LEMMA InitIdsTellModes == Init => IdsTellModes
<1> SUFFICES ASSUME Init PROVE IdsTellModes
  OBVIOUS
<1>1. NoId % 2 = 1
  BY IdSpaceAssumption DEF NoId
<1> QED
  BY <1>1 DEF Init, IdsTellModes, Agrees, NoCommands, BlankCommand

\* What remains of a channel after the agent has read a frame.
LEMMA TailElements ==
    ASSUME NEW d \in Seq(Command), d # <<>>
    PROVE  \A k \in 1..Len(Tail(d)) : Tail(d)[k] = d[k + 1] /\ k + 1 \in 1..Len(d)
<1>1. Len(d) \in Nat
  BY LenProperties
<1>2. Len(Tail(d)) = Len(d) - 1 /\ \A k \in 1..Len(Tail(d)) : Tail(d)[k] = d[k + 1]
  BY HeadTailProperties
<1> QED
  BY <1>1, <1>2

\* Every step keeps parity and mode together: a command flips overload_mode_ and takes
\* the next id, a resend repeats the newest command, a restart resets both.
LEMMA NextIdsTellModes == TypeOK /\ IdsTellModes /\ [Next]_vars => IdsTellModes'
<1> SUFFICES ASSUME TypeOK, IdsTellModes, [Next]_vars PROVE IdsTellModes'
  OBVIOUS
<1>1. ASSUME NEW a \in Agents, Connect(a) PROVE IdsTellModes'
  BY <1>1 DEF Connect, IdsTellModes, controllerVars, sessionVars, agentVars
<1>2. ASSUME NEW a \in Agents, RejectDuplicate(a) PROVE IdsTellModes'
  <2>1. \A k \in 1..Len(Tail(down[a])) : Tail(down[a])[k] = down[a][k + 1] /\ k + 1 \in 1..Len(down[a])
    <3>1. down[a] \in Seq(Command) /\ down[a] # <<>>
      BY <1>2 DEF RejectDuplicate, TypeOK
    <3> QED
      BY <3>1, TailElements
  <2>2. \A b \in Agents : \A k \in 1..Len(down'[b]) : Agrees(down'[b][k].id, down'[b][k].mode)
    BY <1>2, <2>1 DEF RejectDuplicate, IdsTellModes, TypeOK
  <2> QED
    BY <1>2, <2>2 DEF RejectDuplicate, IdsTellModes, controllerVars, sessionVars, agentVars
<1>3. ASSUME NEW a \in Agents, ApplyCommand(a) PROVE IdsTellModes'
  <2>1. \A k \in 1..Len(Tail(down[a])) : Tail(down[a])[k] = down[a][k + 1] /\ k + 1 \in 1..Len(down[a])
    <3>1. down[a] \in Seq(Command) /\ down[a] # <<>>
      BY <1>3 DEF ApplyCommand, TypeOK
    <3> QED
      BY <3>1, TailElements
  <2>2. \A b \in Agents : \A k \in 1..Len(down'[b]) : Agrees(down'[b][k].id, down'[b][k].mode)
    BY <1>3, <2>1 DEF ApplyCommand, IdsTellModes, TypeOK
  <2>3. Agrees(Head(down[a]).id, Head(down[a]).mode)
    BY <1>3 DEF ApplyCommand, IdsTellModes, TypeOK
  <2>4. \A b \in Agents : Agrees(last_id'[b], current_mode'[b])
    BY <1>3, <2>3 DEF ApplyCommand, IdsTellModes, TypeOK
  <2> QED
    BY <1>3, <2>2, <2>4 DEF ApplyCommand, IdsTellModes, controllerVars, sessionVars
<1>4. ASSUME NEW a \in Agents, LoseConnection(a) PROVE IdsTellModes'
  BY <1>4 DEF LoseConnection, IdsTellModes, TypeOK, controllerVars, sessionVars, agentVars
<1>5. ASSUME NEW a \in Agents, RestartAgent(a) PROVE IdsTellModes'
  <2>1. NoId % 2 = 1
    BY IdSpaceAssumption DEF NoId
  <2> QED
    BY <1>5, <2>1 DEF RestartAgent, IdsTellModes, TypeOK, Agrees, controllerVars, sessionVars
<1>6. ASSUME NEW a \in Agents, Register(a) PROVE IdsTellModes'
  BY <1>6 DEF Register, IdsTellModes, TypeOK, BlankCommand, NoCommands, controllerVars, agentVars
<1>7. ASSUME NEW a \in Agents, Heartbeat(a) \/ HeartbeatExpires(a) \/ UpdateAgentState(a)
      PROVE  IdsTellModes'
  BY <1>7 DEF Heartbeat, HeartbeatExpires, UpdateAgentState, IdsTellModes, controllerVars, sessionVars,
              linkVars, agentVars
<1>8. ASSUME NEW a \in Agents, ReceiveAnswer(a) PROVE IdsTellModes'
  <2>1. \A b \in Agents : DOMAIN pending'[b] # {} => DOMAIN pending[b] # {}
    BY <1>8 DEF ReceiveAnswer, HandleAck, Restrict, TypeOK
  <2> QED
    BY <1>8, <2>1 DEF ReceiveAnswer, IdsTellModes, controllerVars, agentVars
<1>9. ASSUME NEW a \in Agents, EraseSession(a),
             UNCHANGED <<overload_mode, next_id, down, agentVars>>
      PROVE  IdsTellModes'
  BY <1>9 DEF EraseSession, IdsTellModes, TypeOK, BlankCommand, NoCommands, agentVars
<1>10. ASSUME NEW a \in Agents, ConnectionError(a) \/ DropSession(a) PROVE IdsTellModes'
  BY <1>9, <1>10 DEF ConnectionError, DropSession, controllerVars
<1>11. ASSUME NEW a \in Agents, NEW due \in SUBSET DOMAIN pending[a],
              CheckCommandTimeouts(a, due)
       PROVE  IdsTellModes'
  <2> DEFINE retried == {i \in due : pending[a][i] < MaxRetries}
  <2>1. PICK S \in SUBSET DOMAIN pending[a] : Transmit(a, Resend(a, S))
    <3>1. retried \in SUBSET DOMAIN pending[a]
      OBVIOUS
    <3> QED
      BY <1>11, <3>1 DEF CheckCommandTimeouts
  <2>2. \A b \in Agents : \A k \in 1..Len(down'[b]) : Agrees(down'[b][k].id, down'[b][k].mode)
    <3>1. down' = down \/ down' = [down EXCEPT ![a] = down[a] \o Resend(a, S)]
      BY <2>1 DEF Transmit
    <3>2. CASE down' = down
      BY <3>2 DEF IdsTellModes
    <3>3. CASE down' = [down EXCEPT ![a] = down[a] \o Resend(a, S)]
      BY <3>3, ResendAgrees, Zenon DEF IdsTellModes, TypeOK
    <3> QED
      BY <3>1, <3>2, <3>3
  <2>3. \A b \in Agents : DOMAIN pending'[b] # {} => DOMAIN pending[b] # {}
    BY <1>11 DEF CheckCommandTimeouts, TypeOK
  <2>4. UNCHANGED <<overload_mode, next_id, set_mode_msg, agentVars>>
    BY <1>11 DEF CheckCommandTimeouts
  <2> QED
    BY <2>2, <2>3, <2>4 DEF IdsTellModes, agentVars
<1>12. CASE StartHealthCheck \/ ComputeLoad \/ SkipPolicy \/ FinishHealthCheck
  BY <1>12 DEF StartHealthCheck, ComputeLoad, SkipPolicy, FinishHealthCheck, IdsTellModes,
               sessionVars, linkVars, agentVars
<1>13. CASE TriggerPolicy
  <2> DEFINE m   == Policies[policy].mode
             msg == [id |-> next_id, mode |-> m, serial |-> issued + 1]
             to  == {a \in sessions : fresh[a]}
  <2>1. Agrees(msg.id, msg.mode) /\ msg.serial # 0
    BY <1>13 DEF TriggerPolicy, Triggered, IdsTellModes, Agrees, TypeOK, Ids
  <2>2. overload_mode' <=> next_id' % 2 = 1
    <3>1. next_id \in Nat /\ next_id' = (next_id + 1) % IdSpace
      BY <1>13, IdSpaceAssumption DEF TriggerPolicy, NextId, TypeOK, Ids
    <3>2. next_id < IdSpace
      BY IdSpaceAssumption DEF TypeOK, Ids
    <3>3. next_id' % 2 = (next_id + 1) % 2
      <4>1. CASE next_id + 1 < IdSpace
        BY <3>1, <4>1, IdSpaceAssumption
      <4>2. CASE next_id + 1 = IdSpace
        BY <3>1, <4>2, IdSpaceAssumption
      <4> QED
        BY <3>1, <3>2, <4>1, <4>2, IdSpaceAssumption
    <3>4. (next_id + 1) % 2 = 1 <=> next_id % 2 = 0
      BY <3>1
    <3> QED
      BY <1>13, <2>1, <3>3, <3>4, Zenon DEF TriggerPolicy, Agrees
  <2>3. \A a \in Agents : set_mode_msg'[a].serial # 0
                             => Agrees(set_mode_msg'[a].id, set_mode_msg'[a].mode)
    BY <1>13, <2>1 DEF TriggerPolicy, IdsTellModes
  <2>4. \A a \in Agents : \A k \in 1..Len(down'[a]) : Agrees(down'[a][k].id, down'[a][k].mode)
    <3>1. ASSUME NEW a \in Agents, NEW k \in 1..Len(Append(down[a], msg))
          PROVE  Append(down[a], msg)[k] = msg \/ (k \in 1..Len(down[a]) /\ Append(down[a], msg)[k] = down[a][k])
      <4>1. down[a] \in Seq(Command)
        BY DEF TypeOK
      <4>2. Len(down[a]) \in Nat
        BY <4>1
      <4> HIDE DEF msg
      <4>3. /\ Len(Append(down[a], msg)) = Len(down[a]) + 1
            /\ Append(down[a], msg)[Len(down[a]) + 1] = msg
            /\ \A j \in 1..Len(down[a]) : Append(down[a], msg)[j] = down[a][j]
        BY <4>1, <4>2
      <4>4. k \in 1..Len(down[a]) \/ k = Len(down[a]) + 1
        BY <3>1, <4>2, <4>3
      <4> QED
        BY <4>3, <4>4
    <3> QED
      BY <1>13, <2>1, <3>1 DEF TriggerPolicy, IdsTellModes
  <2>5. \A a \in Agents : DOMAIN pending'[a] # {} => set_mode_msg'[a].serial # 0
    BY <1>13, <2>1 DEF TriggerPolicy, IdsTellModes
  <2> QED
    BY <1>13, <2>2, <2>3, <2>4, <2>5 DEF TriggerPolicy, IdsTellModes, agentVars
<1>14. ASSUME FreshController,
              \A a \in Agents : \A k \in 1..Len(down'[a]) : Agrees(down'[a][k].id, down'[a][k].mode)
       PROVE  IdsTellModes'
  BY <1>14 DEF FreshController, IdsTellModes, BlankCommand, NoCommands, agentVars
<1>15. CASE CrashController
  BY <1>14, <1>15 DEF CrashController, IdsTellModes
<1>16. CASE ShutDownController
  <2>1. \A a \in Agents : \A k \in 1..Len(down[a] \o Resend(a, DOMAIN pending[a])) :
            Agrees((down[a] \o Resend(a, DOMAIN pending[a]))[k].id,
                   (down[a] \o Resend(a, DOMAIN pending[a]))[k].mode)
    BY ResendAgrees, Zenon
  <2>2. \A a \in Agents : \A k \in 1..Len(down'[a]) : Agrees(down'[a][k].id, down'[a][k].mode)
    BY <1>16, <2>1, Zenon DEF ShutDownController, IdsTellModes
  <2> QED
    BY <1>14, <1>16, <2>2, Zenon DEF ShutDownController
<1>17. CASE UNCHANGED vars
  BY <1>17 DEF vars, IdsTellModes
<1> QED
  BY <1>1, <1>2, <1>3, <1>4, <1>5, <1>6, <1>7, <1>8, <1>10, <1>11, <1>12, <1>13,
     <1>15, <1>16, <1>17 DEF Next

\* A command rejected by Agent::onMessage as a duplicate never asks for a mode the
\* agent is not in, for any number of agents, policies, retries, reconnections and
\* restarts of either side, and across wrap-around of the ids.
THEOREM DuplicatesAreHarmless == Spec => []DuplicateIsHarmless
<1>1. TypeOK /\ IdsTellModes => DuplicateIsHarmless
  <2> SUFFICES ASSUME TypeOK, IdsTellModes, NEW a \in Agents,
                      down[a] # <<>>, Head(down[a]).id = last_id[a]
               PROVE  Head(down[a]).mode = 1 <=> current_mode[a] = 1
    BY DEF DuplicateIsHarmless
  <2>1. Agrees(Head(down[a]).id, Head(down[a]).mode)
    BY DEF IdsTellModes, TypeOK
  <2> QED
    BY <2>1 DEF IdsTellModes, Agrees
<1> QED
  BY <1>1, InitType, NextType, InitIdsTellModes, NextIdsTellModes, PTL DEF Spec

-----------------------------------------------------------------------------
(***************************************************************************)
(* An agent never goes back to an older command.  The serials on a channel *)
(* do not decrease, start where the agent is, and end at the session's     *)
(* newest command, which is the only one ever resent.                      *)
(***************************************************************************)


\* Of n commands issued, the channel d holds some that follow the one with serial ap
\* and id lid, in order; equal serials mean the same command.
Ordered(d, ap, lid, n) ==
    /\ ap <= n
    /\ \A k \in 1..Len(d) :
          /\ d[k].serial # 0
          /\ ap <= d[k].serial
          /\ d[k].serial <= n
          /\ d[k].serial = ap => d[k].id = lid
    /\ \A j, k \in 1..Len(d) :
          /\ j <= k => d[j].serial <= d[k].serial
          /\ d[j].serial = d[k].serial => d[j].id = d[k].id

\* No command of d is newer than m, nor is the one with serial ap and id lid.
UpTo(d, ap, lid, m) ==
    /\ \A k \in 1..Len(d) :
          /\ d[k].serial <= m.serial
          /\ d[k].serial = m.serial => d[k].id = m.id
    /\ m.serial # 0 =>
          /\ ap <= m.serial
          /\ ap = m.serial => lid = m.id

InOrder ==
    \A a \in Agents :
        /\ Ordered(down[a], applied[a], last_id[a], issued)
        /\ set_mode_msg[a].serial <= issued
        /\ conn[a] = "open" => UpTo(down[a], applied[a], last_id[a], set_mode_msg[a])
        /\ conn[a] \in {"none", "hello"} => down[a] = <<>>

\* The serial of every command on a channel is a number.
LEMMA SerialType ==
    ASSUME NEW d \in Seq(Command), NEW k \in 1..Len(d)
    PROVE  d[k].serial \in Nat
<1>1. d[k] \in Command
  BY ElementOfSeq
<1> QED
  BY <1>1 DEF Command

\* The agent reads the first command; in the second case it also applies it.
LEMMA ReadInOrder ==
    ASSUME NEW d \in Seq(Command), d # <<>>, NEW ap \in Nat, NEW lid, NEW n \in Nat,
           Ordered(d, ap, lid, n)
    PROVE  /\ Ordered(Tail(d), ap, lid, n)
           /\ Ordered(Tail(d), Head(d).serial, Head(d).id, n)
           /\ \A m : UpTo(d, ap, lid, m) =>
                  /\ UpTo(Tail(d), ap, lid, m)
                  /\ UpTo(Tail(d), Head(d).serial, Head(d).id, m)
<1> DEFINE t == Tail(d)
<1>1. /\ Head(d) = d[1] /\ 1 \in 1..Len(d)
      /\ \A k \in 1..Len(t) : t[k] = d[k + 1] /\ k + 1 \in 1..Len(d) /\ k \in Nat
  BY HeadTailProperties
<1>2. \A k \in 1..Len(d) : d[k].serial \in Nat
  BY SerialType, Zenon DEF Command
<1> HIDE DEF t
<1>3. Ordered(t, ap, lid, n)
  <2>1. \A j, k \in 1..Len(t) :
            /\ j <= k => t[j].serial <= t[k].serial
            /\ t[j].serial = t[k].serial => t[j].id = t[k].id
    <3> TAKE j, k \in 1..Len(t)
    <3>1. /\ j + 1 \in 1..Len(d) /\ k + 1 \in 1..Len(d)
          /\ t[j] = d[j + 1] /\ t[k] = d[k + 1]
          /\ j <= k => j + 1 <= k + 1
      BY <1>1
    <3> QED
      BY <3>1 DEF Ordered
  <2> QED
    BY <1>1, <2>1 DEF Ordered
<1>4. Ordered(t, Head(d).serial, Head(d).id, n)
  <2>1. \A k \in 1..Len(t) :
            /\ d[1].serial <= d[k + 1].serial
            /\ d[k + 1].serial = d[1].serial => d[k + 1].id = d[1].id
    BY <1>1, <1>2 DEF Ordered
  <2>2. d[1].serial <= n
    BY <1>1 DEF Ordered
  <2>3. \A k \in 1..Len(t) :
            /\ t[k].serial # 0
            /\ Head(d).serial <= t[k].serial
            /\ t[k].serial <= n
            /\ t[k].serial = Head(d).serial => t[k].id = Head(d).id
    BY <1>1, <2>1 DEF Ordered
  <2> QED
    BY <1>1, <1>3, <2>2, <2>3 DEF Ordered
<1>5. ASSUME NEW m, UpTo(d, ap, lid, m)
      PROVE  UpTo(t, ap, lid, m) /\ UpTo(t, Head(d).serial, Head(d).id, m)
  BY <1>1, <1>2, <1>5, Zenon DEF UpTo
<1> QED
  BY <1>3, <1>4, <1>5 DEF t

\* Copies of the newest command are added at the end.
LEMMA ResendInOrder ==
    ASSUME NEW d \in Seq(Command), NEW r \in Seq(Command), NEW ap \in Nat, NEW lid,
           NEW n \in Nat, NEW m \in Command, m.serial <= n,
           Ordered(d, ap, lid, n), UpTo(d, ap, lid, m),
           \A k \in 1..Len(r) : r[k] = m /\ m.serial # 0
    PROVE  Ordered(d \o r, ap, lid, n) /\ UpTo(d \o r, ap, lid, m)
<1> DEFINE e == d \o r
<1>1. /\ Len(e) = Len(d) + Len(r)
      /\ Len(d) \in Nat /\ Len(r) \in Nat
      /\ \A i \in 1..Len(d) + Len(r) : e[i] = IF i <= Len(d) THEN d[i] ELSE r[i - Len(d)]
  BY ConcatProperties, LenProperties
<1>2. /\ \A k \in 1..Len(d) : d[k].serial \in Nat
      /\ m.serial \in Nat
  BY SerialType, Zenon DEF Command
<1> HIDE DEF e
<1>3. ASSUME NEW k \in 1..Len(e)
      PROVE  \/ k \in 1..Len(d) /\ e[k] = d[k]
             \/ k > Len(d) /\ e[k] = m /\ m.serial # 0
  <2>1. CASE k <= Len(d)
    BY <1>1, <2>1
  <2>2. CASE k > Len(d)
    <3>1. k - Len(d) \in 1..Len(r) /\ e[k] = r[k - Len(d)]
      BY <1>1, <2>2
    <3> QED
      BY <2>2, <3>1
  <2> QED
    BY <1>1, <2>1, <2>2
<1>4. UpTo(e, ap, lid, m)
  BY <1>2, <1>3 DEF UpTo
<1>5. \A j, k \in 1..Len(e) :
          /\ j <= k => e[j].serial <= e[k].serial
          /\ e[j].serial = e[k].serial => e[j].id = e[k].id
  <2> TAKE j, k \in 1..Len(e)
  <2>1. CASE j \in 1..Len(d) /\ k \in 1..Len(d) /\ e[j] = d[j] /\ e[k] = d[k]
    BY <2>1 DEF Ordered
  <2>2. CASE j \in 1..Len(d) /\ e[j] = d[j] /\ k > Len(d) /\ e[k] = m
    BY <2>2 DEF UpTo
  <2>3. CASE k \in 1..Len(d) /\ e[k] = d[k] /\ j > Len(d) /\ e[j] = m
    BY <1>1, <2>3 DEF UpTo
  <2>4. CASE e[j] = m /\ e[k] = m
    BY <1>2, <2>4
  <2> QED
    BY <1>3, <2>1, <2>2, <2>3, <2>4
<1>6. \A k \in 1..Len(e) :
          /\ e[k].serial # 0
          /\ ap <= e[k].serial
          /\ e[k].serial <= n
          /\ e[k].serial = ap => e[k].id = lid
  BY <1>2, <1>3 DEF Ordered, UpTo
<1> QED
  BY <1>4, <1>5, <1>6, Zenon DEF Ordered, e

\* A new command is added at the end.
LEMMA IssueInOrder ==
    ASSUME NEW d \in Seq(Command), NEW ap \in Nat, NEW lid, NEW n \in Nat,
           NEW m \in Command, m.serial = n + 1,
           Ordered(d, ap, lid, n)
    PROVE  /\ Ordered(d, ap, lid, n + 1)
           /\ Ordered(Append(d, m), ap, lid, n + 1)
           /\ UpTo(Append(d, m), ap, lid, m)
<1> DEFINE e == Append(d, m)
<1>1. \A k \in 1..Len(d) : d[k].serial \in Nat
  BY SerialType, Zenon DEF Command
<1>2. /\ Len(d) \in Nat
      /\ \A k \in 1..Len(e) : \/ k \in 1..Len(d) /\ e[k] = d[k]
                              \/ k = Len(d) + 1 /\ e[k] = m
  BY AppendProperties, LenProperties
<1> HIDE DEF e
<1>3. Ordered(d, ap, lid, n + 1)
  BY <1>1 DEF Ordered
<1>4. Ordered(e, ap, lid, n + 1)
  <2>1. \A j, k \in 1..Len(e) :
            /\ j <= k => e[j].serial <= e[k].serial
            /\ e[j].serial = e[k].serial => e[j].id = e[k].id
    <3> TAKE j, k \in 1..Len(e)
    <3>1. CASE j \in 1..Len(d) /\ k \in 1..Len(d) /\ e[j] = d[j] /\ e[k] = d[k]
      BY <3>1 DEF Ordered
    <3>2. CASE j \in 1..Len(d) /\ e[j] = d[j] /\ e[k] = m
      BY <1>1, <3>2 DEF Ordered
    <3>3. CASE k \in 1..Len(d) /\ e[k] = d[k] /\ j = Len(d) + 1 /\ e[j] = m
      BY <1>1, <1>2, <3>3 DEF Ordered
    <3>4. CASE e[j] = m /\ e[k] = m
      BY <3>4
    <3> QED
      BY <1>2, <3>1, <3>2, <3>3, <3>4
  <2>2. \A k \in 1..Len(e) :
            /\ e[k].serial # 0
            /\ ap <= e[k].serial
            /\ e[k].serial <= n + 1
            /\ e[k].serial = ap => e[k].id = lid
    <3> TAKE k \in 1..Len(e)
    <3>1. CASE k \in 1..Len(d) /\ e[k] = d[k]
      <4>1. d[k].serial \in Nat
        BY <1>1, <3>1
      <4>2. /\ d[k].serial # 0 /\ ap <= d[k].serial /\ d[k].serial <= n
            /\ d[k].serial = ap => d[k].id = lid
        BY <3>1 DEF Ordered
      <4>3. d[k].serial <= n + 1
        BY <4>1, <4>2
      <4> QED
        BY <3>1, <4>2, <4>3
    <3>2. CASE e[k] = m
      <4>1. ap <= n
        BY DEF Ordered
      <4>2. n + 1 # 0 /\ ap <= n + 1 /\ n + 1 # ap
        BY <4>1
      <4> QED
        BY <3>2, <4>2
    <3> QED
      BY <1>2, <3>1, <3>2
  <2> QED
    BY <2>1, <2>2 DEF Ordered
<1>5. UpTo(e, ap, lid, m)
  BY <1>1, <1>2 DEF Ordered, UpTo
<1> QED
  BY <1>3, <1>4, <1>5 DEF e

\* At the start every channel is empty.
LEMMA InitInOrder == Init => InOrder
  BY DEF Init, InOrder, Ordered, UpTo, BlankCommand

\* Channels that are unchanged or emptied stay in order.
LEMMA StillInOrder ==
    ASSUME InOrder, NEW a \in Agents,
           down'[a] = down[a] \/ (down'[a] = <<>> /\ conn'[a] # "open"),
           set_mode_msg'[a] = set_mode_msg[a] \/ (set_mode_msg'[a] = BlankCommand /\ conn'[a] # "open"),
           applied'[a] = applied[a], last_id'[a] = last_id[a],
           issued \in Nat, issued' = issued,
           conn'[a] = "open" => conn[a] = "open",
           conn'[a] \in {"none", "hello"} => down'[a] = <<>>
    PROVE  /\ Ordered(down'[a], applied'[a], last_id'[a], issued')
           /\ set_mode_msg'[a].serial <= issued'
           /\ conn'[a] = "open" => UpTo(down'[a], applied'[a], last_id'[a], set_mode_msg'[a])
           /\ conn'[a] \in {"none", "hello"} => down'[a] = <<>>
<1>1. Ordered(down'[a], applied'[a], last_id'[a], issued')
  <2>1. Ordered(down[a], applied[a], last_id[a], issued)
    BY DEF InOrder
  <2>2. CASE down'[a] = down[a]
    BY <2>1, <2>2
  <2>3. CASE down'[a] = <<>>
    <3>1. applied[a] <= issued
      BY <2>1 DEF Ordered
    <3>2. Ordered(<<>>, applied[a], last_id[a], issued)
      BY <3>1 DEF Ordered
    <3> QED
      BY <2>3, <3>2
  <2> QED
    BY <2>2, <2>3
<1>2. set_mode_msg'[a].serial <= issued'
  BY DEF InOrder, BlankCommand
<1>3. conn'[a] = "open" => UpTo(down'[a], applied'[a], last_id'[a], set_mode_msg'[a])
  BY DEF InOrder
<1> QED
  BY <1>1, <1>2, <1>3

\* Every step keeps the channels in order: only the newest command is ever added.
LEMMA NextInOrder == TypeOK /\ IdsTellModes /\ InOrder /\ [Next]_vars => InOrder'
<1> SUFFICES ASSUME TypeOK, IdsTellModes, InOrder, [Next]_vars PROVE InOrder'
  OBVIOUS
<1>0. issued \in Nat
  BY DEF TypeOK
<1>1. ASSUME NEW a \in Agents, Connect(a) PROVE InOrder'
  <2>1. \A b \in Agents : conn'[b] = "open" => conn[b] = "open"
    BY <1>1 DEF Connect, TypeOK
  <2>2. \A b \in Agents : conn'[b] \in {"none", "hello"} => down[b] = <<>>
    BY <1>1 DEF Connect, InOrder, TypeOK
  <2> QED
    BY <1>0, <1>1, <2>1, <2>2, StillInOrder
       DEF Connect, InOrder, controllerVars, sessionVars, agentVars
<1>2. ASSUME NEW a \in Agents, RejectDuplicate(a) PROVE InOrder'
  <2>1. down[a] \in Seq(Command) /\ applied[a] \in Nat
    BY DEF TypeOK
  <2>2. /\ Ordered(Tail(down[a]), applied[a], last_id[a], issued)
        /\ conn[a] = "open" => UpTo(Tail(down[a]), applied[a], last_id[a], set_mode_msg[a])
    BY <1>0, <1>2, <2>1, ReadInOrder DEF RejectDuplicate, InOrder
  <2>3. /\ down' = [down EXCEPT ![a] = Tail(down[a])]
        /\ conn[a] \notin {"none", "hello"}
        /\ UNCHANGED <<issued, set_mode_msg, applied, last_id, conn>>
    BY <1>2 DEF RejectDuplicate, controllerVars, sessionVars, agentVars
  <2> QED
    BY <2>2, <2>3 DEF InOrder, TypeOK
<1>3. ASSUME NEW a \in Agents, ApplyCommand(a) PROVE InOrder'
  <2>1. down[a] \in Seq(Command) /\ applied[a] \in Nat
    BY DEF TypeOK
  <2>2. /\ Ordered(Tail(down[a]), Head(down[a]).serial, Head(down[a]).id, issued)
        /\ conn[a] = "open" => UpTo(Tail(down[a]), Head(down[a]).serial, Head(down[a]).id, set_mode_msg[a])
    BY <1>0, <1>3, <2>1, ReadInOrder DEF ApplyCommand, InOrder
  <2>3. /\ down' = [down EXCEPT ![a] = Tail(down[a])]
        /\ applied' = [applied EXCEPT ![a] = Head(down[a]).serial]
        /\ last_id' = [last_id EXCEPT ![a] = Head(down[a]).id]
        /\ conn[a] \notin {"none", "hello"}
        /\ UNCHANGED <<issued, set_mode_msg, conn>>
    BY <1>3, Zenon DEF ApplyCommand, controllerVars, sessionVars
  <2> QED
    BY <2>2, <2>3, Zenon DEF InOrder, TypeOK
<1>4. ASSUME NEW a \in Agents, LoseConnection(a) PROVE InOrder'
  <2>1. \A b \in Agents :
            /\ conn'[b] = "open" => conn[b] = "open"
            /\ down'[b] = down[b] \/ (down'[b] = <<>> /\ conn'[b] # "open")
            /\ conn'[b] \in {"none", "hello"} => down'[b] = <<>>
    BY <1>4 DEF LoseConnection, InOrder, TypeOK
  <2> QED
    BY <1>0, <1>4, <2>1, StillInOrder
       DEF LoseConnection, InOrder, controllerVars, sessionVars, agentVars
<1>5. ASSUME NEW a \in Agents, RestartAgent(a) PROVE InOrder'
  <2>1. Ordered(<<>>, 0, NoId, issued)
    BY <1>0 DEF Ordered
  <2> QED
    BY <1>5, <2>1 DEF RestartAgent, InOrder, TypeOK, controllerVars, sessionVars
<1>6. ASSUME NEW a \in Agents, Register(a) PROVE InOrder'
  <2>1. down[a] = <<>>
    BY <1>6 DEF Register, InOrder
  <2>2. UpTo(<<>>, applied[a], last_id[a], BlankCommand) /\ BlankCommand.serial <= issued
    BY <1>0 DEF UpTo, BlankCommand
  <2>3. /\ conn' = [conn EXCEPT ![a] = "open"]
        /\ set_mode_msg' = [set_mode_msg EXCEPT ![a] = BlankCommand]
        /\ UNCHANGED <<issued, down, applied, last_id>>
    BY <1>6 DEF Register, controllerVars, agentVars
  <2> QED
    BY <2>1, <2>2, <2>3 DEF InOrder, TypeOK
<1>7. ASSUME NEW a \in Agents,
             Heartbeat(a) \/ HeartbeatExpires(a) \/ UpdateAgentState(a) \/ ReceiveAnswer(a)
      PROVE  InOrder'
  BY <1>7 DEF Heartbeat, HeartbeatExpires, UpdateAgentState, ReceiveAnswer, InOrder, controllerVars,
              sessionVars, linkVars, agentVars
<1>8. ASSUME NEW a \in Agents, ConnectionError(a) \/ DropSession(a) PROVE InOrder'
  <2>1. /\ set_mode_msg' = [set_mode_msg EXCEPT ![a] = BlankCommand]
        /\ UNCHANGED <<issued, down, applied, last_id>>
    BY <1>8 DEF ConnectionError, DropSession, EraseSession, controllerVars, agentVars
  <2>2. \A b \in Agents :
            /\ conn'[b] = "open" => conn[b] = "open" /\ b # a
            /\ conn'[b] \in {"none", "hello"} => conn[b] \in {"none", "hello"}
    BY <1>8 DEF ConnectionError, DropSession, CloseConnection, TypeOK
  <2>3. \A b \in Agents :
            set_mode_msg'[b] = set_mode_msg[b] \/ (set_mode_msg'[b] = BlankCommand /\ conn'[b] # "open")
    BY <2>1, <2>2 DEF TypeOK
  <2>4. \A b \in Agents : conn'[b] \in {"none", "hello"} => down'[b] = <<>>
    BY <2>1, <2>2 DEF InOrder
  <2> QED
    BY <1>0, <2>1, <2>2, <2>3, <2>4, StillInOrder DEF InOrder
<1>9. ASSUME NEW a \in Agents, NEW due \in SUBSET DOMAIN pending[a],
             CheckCommandTimeouts(a, due)
      PROVE  InOrder'
  <2> DEFINE retried == {i \in due : pending[a][i] < MaxRetries}
  <2>1. PICK S \in SUBSET DOMAIN pending[a] : Transmit(a, Resend(a, S))
    <3>1. retried \in SUBSET DOMAIN pending[a]
      OBVIOUS
    <3> QED
      BY <1>9, <3>1 DEF CheckCommandTimeouts
  <2>2. /\ UNCHANGED <<issued, set_mode_msg, applied, last_id>>
        /\ \A b \in Agents :
              /\ conn'[b] = "open" => conn[b] = "open"
              /\ conn'[b] \in {"none", "hello"} => conn[b] \in {"none", "hello"}
    BY <1>9 DEF CheckCommandTimeouts, CloseConnection, TypeOK, agentVars
  <2>3. CASE conn[a] = "open"
    <3>1. /\ Resend(a, S) \in Seq(Command)
          /\ \A k \in 1..Len(Resend(a, S)) :
                Resend(a, S)[k] = set_mode_msg[a] /\ set_mode_msg[a].serial # 0
      <4>1. S \in SUBSET Ids
        BY PendingType
      <4>2. S # {} => set_mode_msg[a].serial # 0
        BY DEF IdsTellModes
      <4>3. /\ Resend(a, S) \in Seq(Command)
            /\ \A k \in 1..Len(Resend(a, S)) : Resend(a, S)[k] = set_mode_msg[a] /\ S # {}
        BY <4>1, ResendType
      <4> QED
        BY <4>2, <4>3
    <3>2. down[a] \in Seq(Command) /\ applied[a] \in Nat /\ set_mode_msg[a] \in Command
      BY DEF TypeOK
    <3>3. /\ Ordered(down[a], applied[a], last_id[a], issued)
          /\ UpTo(down[a], applied[a], last_id[a], set_mode_msg[a])
          /\ set_mode_msg[a].serial <= issued
      BY <2>3 DEF InOrder
    <3>4. /\ Ordered(down[a] \o Resend(a, S), applied[a], last_id[a], issued)
          /\ UpTo(down[a] \o Resend(a, S), applied[a], last_id[a], set_mode_msg[a])
      BY <1>0, <3>1, <3>2, <3>3, ResendInOrder
    <3>5. down' = [down EXCEPT ![a] = down[a] \o Resend(a, S)]
      BY <2>1, <2>3 DEF Transmit
    <3> QED
      BY <2>2, <2>3, <3>4, <3>5 DEF InOrder, TypeOK
  <2>4. CASE conn[a] # "open"
    <3>1. down' = down
      BY <2>1, <2>4 DEF Transmit
    <3> QED
      BY <2>2, <3>1 DEF InOrder
  <2> QED
    BY <2>3, <2>4
<1>10. CASE StartHealthCheck \/ ComputeLoad \/ SkipPolicy \/ FinishHealthCheck
  BY <1>10 DEF StartHealthCheck, ComputeLoad, SkipPolicy, FinishHealthCheck, InOrder,
               sessionVars, linkVars, agentVars
<1>11. CASE TriggerPolicy
  <2> DEFINE msg == [id |-> next_id, mode |-> Policies[policy].mode, serial |-> issued + 1]
             to  == {a \in sessions : fresh[a]}
  <2>1. msg \in Command /\ msg.serial = issued + 1
    <3>1. policy \in 1..Len(Policies)
      BY <1>11, ConstantTypes DEF TriggerPolicy, TypeOK
    <3>2. Policies[policy] \in [op : {">", "<"}, threshold : Int, mode : Nat]
      BY <3>1, PoliciesAssumption, ElementOfSeq, Zenon
    <3>3. next_id \in Ids /\ issued + 1 \in Nat
      BY DEF TypeOK
    <3>4. Policies[policy].mode \in Nat
      BY <3>2
    <3> QED
      BY <3>3, <3>4 DEF Command
  <2>2. /\ UNCHANGED <<conn, applied, last_id>>
        /\ issued' = issued + 1
        /\ \A a \in Agents :
              /\ set_mode_msg'[a] = IF a \in to THEN msg ELSE set_mode_msg[a]
              /\ down'[a] = IF a \in to /\ conn[a] = "open" THEN Append(down[a], msg) ELSE down[a]
    BY <1>11, Zenon DEF TriggerPolicy, agentVars
  <2>3. ASSUME NEW a \in Agents
        PROVE  /\ Ordered(down'[a], applied'[a], last_id'[a], issued')
               /\ set_mode_msg'[a].serial <= issued'
               /\ conn'[a] = "open" => UpTo(down'[a], applied'[a], last_id'[a], set_mode_msg'[a])
               /\ conn'[a] \in {"none", "hello"} => down'[a] = <<>>
    <3>1. down[a] \in Seq(Command) /\ applied[a] \in Nat /\ set_mode_msg[a].serial \in Nat
      <4>1. down[a] \in Seq(Command) /\ applied[a] \in Nat /\ set_mode_msg[a] \in Command
        BY DEF TypeOK
      <4> QED
        BY <4>1 DEF Command
    <3>2. /\ Ordered(down[a], applied[a], last_id[a], issued + 1)
          /\ Ordered(Append(down[a], msg), applied[a], last_id[a], issued + 1)
          /\ UpTo(Append(down[a], msg), applied[a], last_id[a], msg)
      BY <1>0, <2>1, <3>1, IssueInOrder DEF InOrder
    <3> HIDE DEF msg, to
    <3>3. /\ set_mode_msg[a].serial <= issued /\ issued \in Nat
          /\ conn[a] = "open" => UpTo(down[a], applied[a], last_id[a], set_mode_msg[a])
          /\ conn[a] \in {"none", "hello"} => down[a] = <<>>
      BY <1>0 DEF InOrder, TypeOK
    <3>4. applied'[a] = applied[a] /\ last_id'[a] = last_id[a] /\ conn'[a] = conn[a] /\ issued' = issued + 1
      BY <2>2
    <3>5. set_mode_msg'[a].serial <= issued'
      <4>1. set_mode_msg'[a] = msg \/ set_mode_msg'[a] = set_mode_msg[a]
        BY <2>2
      <4>2. msg.serial <= issued + 1 /\ set_mode_msg[a].serial <= issued + 1
        <5>1. msg.serial = issued + 1
          BY <2>1
        <5>2. issued \in Nat /\ set_mode_msg[a].serial \in Nat /\ set_mode_msg[a].serial <= issued
          BY <3>1, <3>3
        <5>3. issued + 1 <= issued + 1 /\ set_mode_msg[a].serial <= issued + 1
          <6>1. \A j, l \in Nat : l <= j => j + 1 <= j + 1 /\ l <= j + 1
            OBVIOUS
          <6> QED
            BY <5>2, <6>1, Zenon
        <5> QED
          BY <5>1, <5>3, Zenon
      <4> QED
        BY <3>4, <4>1, <4>2
    <3>6. CASE a \in to /\ conn[a] = "open"
      <4>1. down'[a] = Append(down[a], msg) /\ set_mode_msg'[a] = msg /\ conn'[a] \notin {"none", "hello"}
        <5>1. down'[a] = Append(down[a], msg) /\ set_mode_msg'[a] = msg
          <6>1. a \in to /\ (a \in to /\ conn[a] = "open")
            BY <3>6
          <6>2. /\ set_mode_msg'[a] = IF a \in to THEN msg ELSE set_mode_msg[a]
                /\ down'[a] = IF a \in to /\ conn[a] = "open" THEN Append(down[a], msg) ELSE down[a]
            BY <2>2
          <6> QED
            BY <6>1, <6>2
        <5>2. conn'[a] \notin {"none", "hello"}
          BY <3>4, <3>6
        <5> QED
          BY <5>1, <5>2
      <4> QED
        BY <3>2, <3>4, <3>5, <4>1
    <3>7. CASE ~(a \in to /\ conn[a] = "open")
      <4>1. down'[a] = down[a] /\ (conn[a] = "open" => set_mode_msg'[a] = set_mode_msg[a])
        BY <2>2, <3>7
      <4> QED
        BY <3>2, <3>3, <3>4, <3>5, <4>1
    <3> QED
      BY <3>6, <3>7
  <2> QED
    BY <2>3, Zenon DEF InOrder
<1>12. ASSUME FreshController,
              \A a \in Agents : Ordered(down'[a], applied[a], last_id[a], issued)
                                  /\ (conn[a] = "none" => down'[a] = <<>>)
       PROVE  InOrder'
  <2>1. UNCHANGED <<issued, applied, last_id>> /\ issued \in Nat
    BY <1>12 DEF FreshController, agentVars, TypeOK
  <2>2. ASSUME NEW a \in Agents
        PROVE  /\ set_mode_msg'[a].serial = 0 /\ conn'[a] # "open"
               /\ conn'[a] \in {"none", "hello"} => conn[a] = "none"
    BY <1>12 DEF FreshController, BlankCommand
  <2>3. ASSUME NEW a \in Agents
        PROVE  /\ Ordered(down'[a], applied'[a], last_id'[a], issued')
               /\ set_mode_msg'[a].serial <= issued'
               /\ conn'[a] = "open" => UpTo(down'[a], applied'[a], last_id'[a], set_mode_msg'[a])
               /\ conn'[a] \in {"none", "hello"} => down'[a] = <<>>
    <3>1. Ordered(down'[a], applied[a], last_id[a], issued) /\ (conn[a] = "none" => down'[a] = <<>>)
      BY <1>12
    <3>2. Ordered(down'[a], applied'[a], last_id'[a], issued')
      BY <2>1, <3>1
    <3>3. set_mode_msg'[a].serial <= issued'
      BY <2>1, <2>2
    <3> QED
      BY <2>2, <3>1, <3>2, <3>3
  <2> QED
    BY <2>3 DEF InOrder
<1>13. CASE CrashController
  BY <1>12, <1>13 DEF CrashController, InOrder
<1>14. CASE ShutDownController
  <2>1. ASSUME NEW a \in Agents, conn[a] = "open"
        PROVE  Ordered(down[a] \o Resend(a, DOMAIN pending[a]), applied[a], last_id[a], issued)
    <3>1. /\ Resend(a, DOMAIN pending[a]) \in Seq(Command)
          /\ \A k \in 1..Len(Resend(a, DOMAIN pending[a])) :
                Resend(a, DOMAIN pending[a])[k] = set_mode_msg[a] /\ set_mode_msg[a].serial # 0
      <4> DEFINE S == DOMAIN pending[a]
      <4>1. S \in SUBSET Ids
        BY PendingType
      <4>2. S # {} => set_mode_msg[a].serial # 0
        BY DEF IdsTellModes
      <4>3. /\ Resend(a, S) \in Seq(Command)
            /\ \A k \in 1..Len(Resend(a, S)) : Resend(a, S)[k] = set_mode_msg[a] /\ S # {}
        BY <4>1, ResendType
      <4> QED
        BY <4>2, <4>3
    <3>2. down[a] \in Seq(Command) /\ applied[a] \in Nat /\ set_mode_msg[a] \in Command
      BY DEF TypeOK
    <3> QED
      BY <1>0, <2>1, <3>1, <3>2, ResendInOrder DEF InOrder
  <2>2. \A a \in Agents : Ordered(down'[a], applied[a], last_id[a], issued)
                            /\ (conn[a] = "none" => down'[a] = <<>>)
    BY <1>14, <2>1 DEF ShutDownController, InOrder
  <2> QED
    BY <1>12, <1>14, <2>2 DEF ShutDownController
<1>15. CASE UNCHANGED vars
  BY <1>15, Zenon DEF vars, InOrder
<1> QED
  BY <1>1, <1>2, <1>3, <1>4, <1>5, <1>6, <1>7, <1>8, <1>9, <1>10, <1>11, <1>13, <1>14, <1>15 DEF Next

\* The command an agent applies was issued after every command it applied before,
\* whatever is resent, reconnected, restarted or wrapped around.
THEOREM CommandsApplyInOrder == Spec => AppliesInOrder
<1>1. TypeOK /\ InOrder /\ [Next]_vars
        => \A a \in Agents :
              applied'[a] # applied[a] /\ applied'[a] # 0 => applied'[a] > applied[a]
  <2> SUFFICES ASSUME TypeOK, InOrder, [Next]_vars, NEW a \in Agents,
                      applied'[a] # applied[a], applied'[a] # 0
               PROVE  applied'[a] > applied[a]
    OBVIOUS
  <2>1. ApplyCommand(a)
    <3>1. ASSUME NEW b \in Agents, RestartAgent(b) PROVE FALSE
      BY <3>1 DEF RestartAgent, TypeOK
    <3>2. ASSUME NEW b \in Agents, b # a, ApplyCommand(b) PROVE FALSE
      BY <3>2 DEF ApplyCommand, TypeOK
    <3>3. applied' # applied
      OBVIOUS
    <3>4. ASSUME NEW b \in Agents,
                 \/ Connect(b) \/ RejectDuplicate(b) \/ LoseConnection(b)
                 \/ Register(b) \/ Heartbeat(b) \/ HeartbeatExpires(b) \/ UpdateAgentState(b)
          PROVE  FALSE
      BY <3>3, <3>4, Zenon DEF agentVars, Connect, RejectDuplicate, LoseConnection, Register, Heartbeat,
                        HeartbeatExpires, UpdateAgentState
    <3>5. ASSUME NEW b \in Agents,
                 \/ ReceiveAnswer(b) \/ ConnectionError(b) \/ DropSession(b)
                 \/ \E due \in SUBSET DOMAIN pending[b] : CheckCommandTimeouts(b, due)
          PROVE  FALSE
      BY <3>3, <3>5, Zenon DEF agentVars, ReceiveAnswer, ConnectionError, DropSession, CheckCommandTimeouts
    <3>6. CASE StartHealthCheck \/ ComputeLoad \/ SkipPolicy \/ TriggerPolicy \/ FinishHealthCheck
      BY <3>3, <3>6 DEF agentVars, StartHealthCheck, ComputeLoad, SkipPolicy, TriggerPolicy,
                        FinishHealthCheck
    <3>7. CASE CrashController \/ ShutDownController \/ UNCHANGED vars
      BY <3>3, <3>7, Zenon DEF agentVars, vars, CrashController, ShutDownController, FreshController
    <3> QED
      BY <3>1, <3>2, <3>4, <3>5, <3>6, <3>7 DEF Next
  <2>2. applied'[a] = Head(down[a]).serial /\ Head(down[a]).id # last_id[a]
    BY <2>1 DEF ApplyCommand, TypeOK
  <2>3. /\ Head(down[a]) = down[a][1] /\ 1 \in 1..Len(down[a])
        /\ down[a][1].serial \in Nat /\ applied[a] \in Nat
    <3>1. down[a] \in Seq(Command) /\ down[a] # <<>> /\ applied[a] \in Nat
      BY <2>1 DEF ApplyCommand, TypeOK
    <3>2. Head(down[a]) = down[a][1] /\ 1 \in 1..Len(down[a])
      BY <3>1
    <3>3. down[a][1].serial \in Nat
      BY <3>1, <3>2, SerialType
    <3> QED
      BY <3>1, <3>2, <3>3
  <2>4. applied[a] <= down[a][1].serial /\ applied[a] # down[a][1].serial
    BY <2>2, <2>3, Zenon DEF InOrder, Ordered
  <2> QED
    BY <2>2, <2>3, <2>4
<1> QED
  BY <1>1, InitType, NextType, InitIdsTellModes, NextIdsTellModes, InitInOrder, NextInOrder, PTL
     DEF Spec, AppliesInOrder

-----------------------------------------------------------------------------
(***************************************************************************)
(* A pending command of a live session is under way.  The invariant is     *)
(* inductive as it stands: a command becomes pending when it is put on the *)
(* channel, and leaves the channels when its answer is handled.            *)
(***************************************************************************)

\* Id i is on the channel d or answered on the channel u.
UnderWay(d, u, i) ==
    \/ \E k \in 1..Len(d) : d[k].id = i
    \/ \E k \in 1..Len(u) : u[k].id = i

\* The agent answers the command it reads, so what was under way still is.
LEMMA AnswerUnderWay ==
    ASSUME NEW d \in Seq(Command), d # <<>>, NEW u \in Seq(Answer), NEW r \in Answer,
           r.id = Head(d).id, NEW i, UnderWay(d, u, i)
    PROVE  UnderWay(Tail(d), Append(u, r), i)
<1> DEFINE t == Tail(d)
           v == Append(u, r)
<1>1. /\ Head(d) = d[1] /\ Len(t) = Len(d) - 1 /\ Len(d) \in Nat
      /\ \A k \in 1..Len(t) : t[k] = d[k + 1]
  <2>1. Len(d) \in Nat /\ Head(d) = d[1]
    BY LenProperties
  <2>2. Len(t) = Len(d) - 1 /\ \A k \in 1..Len(t) : t[k] = d[k + 1]
    BY HeadTailProperties
  <2> HIDE DEF t
  <2> QED
    BY <2>1, <2>2, Zenon
<1>2. /\ Len(v) = Len(u) + 1 /\ Len(u) \in Nat
      /\ \A k \in 1..Len(u) : v[k] = u[k]
      /\ v[Len(u) + 1] = r
  <2>1. Len(u) \in Nat
    BY LenProperties
  <2>2. /\ Len(v) = Len(u) + 1
        /\ \A k \in 1..Len(u) : v[k] = u[k]
        /\ v[Len(u) + 1] = r
    BY AppendProperties
  <2> QED
    BY <2>1, <2>2
<1> HIDE DEF t, v
<1>3. CASE \E k \in 1..Len(u) : u[k].id = i
  BY <1>2, <1>3 DEF UnderWay, v
<1>4. ASSUME NEW k \in 1..Len(d), d[k].id = i PROVE UnderWay(t, v, i)
  <2>1. CASE k = 1
    <3>1. Len(u) + 1 \in 1..Len(v)
      BY <1>2
    <3>2. v[Len(u) + 1].id = i
      BY <1>1, <1>2, <1>4, <2>1, Zenon
    <3> QED
      BY <3>1, <3>2, Zenon DEF UnderWay
  <2>2. CASE k # 1
    <3>1. k - 1 \in 1..Len(t) /\ t[k - 1] = d[k]
      BY <1>1, <2>2
    <3> QED
      BY <1>4, <3>1 DEF UnderWay
  <2> QED
    BY <2>1, <2>2
<1> QED
  BY <1>3, <1>4, Zenon DEF UnderWay, t, v

\* Frames added at the end of a channel hide none that were on it.
LEMMA MoreUnderWay ==
    ASSUME NEW d \in Seq(Command), NEW r \in Seq(Command), NEW u, NEW i, UnderWay(d, u, i)
    PROVE  UnderWay(d \o r, u, i)
<1>1. /\ Len(d \o r) = Len(d) + Len(r)
      /\ Len(d) \in Nat /\ Len(r) \in Nat
      /\ \A k \in 1..Len(d) : (d \o r)[k] = d[k]
  <2>1. Len(d) \in Nat /\ Len(r) \in Nat
    BY LenProperties
  <2>2. /\ Len(d \o r) = Len(d) + Len(r)
        /\ \A k \in 1..Len(d) + Len(r) : (d \o r)[k] = IF k <= Len(d) THEN d[k] ELSE r[k - Len(d)]
    BY ConcatProperties
  <2>3. ASSUME NEW k \in 1..Len(d) PROVE k \in 1..Len(d) + Len(r) /\ k <= Len(d)
    BY <2>1
  <2>4. \A k \in 1..Len(d) : (d \o r)[k] = d[k]
    BY <2>2, <2>3, Zenon
  <2> QED
    BY <2>1, <2>2, <2>4
<1>2. ASSUME NEW k \in 1..Len(d), d[k].id = i PROVE UnderWay(d \o r, u, i)
  <2>1. k \in 1..Len(d \o r) /\ (d \o r)[k].id = i
    BY <1>1, <1>2
  <2> QED
    BY <2>1 DEF UnderWay
<1> QED
  BY <1>2 DEF UnderWay

\* Handling the first answer loses no other one.
LEMMA HandledUnderWay ==
    ASSUME NEW d, NEW u \in Seq(Answer), u # <<>>, NEW i, i # Head(u).id, UnderWay(d, u, i)
    PROVE  UnderWay(d, Tail(u), i)
<1>1. /\ Head(u) = u[1] /\ Len(Tail(u)) = Len(u) - 1 /\ Len(u) \in Nat
      /\ \A k \in 1..Len(Tail(u)) : Tail(u)[k] = u[k + 1]
  BY HeadTailProperties, LenProperties
<1>2. ASSUME NEW k \in 1..Len(u), u[k].id = i PROVE UnderWay(d, Tail(u), i)
  <2>1. k - 1 \in 1..Len(Tail(u)) /\ Tail(u)[k - 1] = u[k]
    BY <1>1, <1>2
  <2> QED
    BY <1>2, <2>1 DEF UnderWay
<1> QED
  BY <1>2 DEF UnderWay

\* Every pending command of a registered session on a live connection has its frame
\* or its answer on the connection: retries are not what gets a command through.
THEOREM PendingCommandsAreUnderWay == Spec => []PendingIsUnderWay
<1> DEFINE Inv == \A a \in Agents : conn[a] = "open" =>
                     \A i \in DOMAIN pending[a] : UnderWay(down[a], up[a], i)
<1>1. Inv <=> PendingIsUnderWay
  BY DEF PendingIsUnderWay, UnderWay
<1>2. Init => Inv
  BY DEF Init
<1>3. TypeOK /\ Inv /\ [Next]_vars => Inv'
  <2> SUFFICES ASSUME TypeOK, Inv, [Next]_vars, NEW b \in Agents, conn'[b] = "open",
                      NEW i \in DOMAIN pending'[b]
               PROVE  UnderWay(down'[b], up'[b], i)
    BY Zenon
  <2>0. down[b] \in Seq(Command) /\ up[b] \in Seq(Answer)
    BY DEF TypeOK
  <2>1. ASSUME down'[b] = down[b], up'[b] = up[b], conn[b] = "open", i \in DOMAIN pending[b]
        PROVE  UnderWay(down'[b], up'[b], i)
    BY <2>1
  <2>2. ASSUME NEW a \in Agents, Connect(a) \/ LoseConnection(a) \/ RestartAgent(a)
        PROVE  UnderWay(down'[b], up'[b], i)
    BY <2>1, <2>2 DEF Connect, LoseConnection, RestartAgent, TypeOK, sessionVars
  <2>3. ASSUME NEW a \in Agents, RejectDuplicate(a) PROVE UnderWay(down'[b], up'[b], i)
    <3> DEFINE r == [type |-> "NACK", id |-> Head(down[a]).id]
    <3>1. CASE a = b
      <4>0. Head(down[a]) \in Command
        <5>1. down[a] # <<>>
          BY <2>3 DEF RejectDuplicate
        <5> QED
          BY <2>0, <3>1, <5>1, HeadTailProperties
      <4>1. r \in Answer /\ r.id = Head(down[a]).id
        BY <4>0 DEF Answer, Command
      <4>2. /\ down'[b] = Tail(down[b]) /\ up'[b] = Append(up[b], r) /\ down[b] # <<>>
            /\ conn[b] = "open" /\ i \in DOMAIN pending[b]
        BY <2>3, <3>1 DEF RejectDuplicate, Reply, TypeOK, sessionVars
      <4> QED
        BY <2>0, <3>1, <4>1, <4>2, AnswerUnderWay
    <3>2. CASE a # b
      BY <2>1, <2>3, <3>2 DEF RejectDuplicate, Reply, TypeOK, sessionVars
    <3> QED
      BY <3>1, <3>2, Zenon
  <2>4. ASSUME NEW a \in Agents, ApplyCommand(a) PROVE UnderWay(down'[b], up'[b], i)
    <3> DEFINE r == [type |-> "ACK", id |-> Head(down[a]).id]
    <3>1. CASE a = b
      <4>0. Head(down[a]) \in Command
        <5>1. down[a] # <<>>
          BY <2>4 DEF ApplyCommand
        <5> QED
          BY <2>0, <3>1, <5>1, HeadTailProperties
      <4>1. r \in Answer /\ r.id = Head(down[a]).id
        BY <4>0 DEF Answer, Command
      <4>2. /\ down'[b] = Tail(down[b]) /\ up'[b] = Append(up[b], r) /\ down[b] # <<>>
            /\ conn[b] = "open" /\ i \in DOMAIN pending[b]
        BY <2>4, <3>1 DEF ApplyCommand, Reply, TypeOK, sessionVars
      <4> QED
        BY <2>0, <3>1, <4>1, <4>2, AnswerUnderWay
    <3>2. CASE a # b
      BY <2>1, <2>4, <3>2, Zenon DEF ApplyCommand, Reply, TypeOK, sessionVars
    <3> QED
      BY <3>1, <3>2
  <2>5. ASSUME NEW a \in Agents,
               \/ Register(a) \/ Heartbeat(a) \/ HeartbeatExpires(a) \/ UpdateAgentState(a)
               \/ ConnectionError(a) \/ DropSession(a)
        PROVE  UnderWay(down'[b], up'[b], i)
    <3>1. CASE Register(a)
      <4>1. CASE a = b
        <5>1. DOMAIN pending'[b] = {}
          BY <3>1, <4>1 DEF Register, NoCommands, TypeOK
        <5> QED
          BY <5>1, Zenon
      <4>2. CASE a # b
        BY <2>1, <3>1, <4>2 DEF Register, TypeOK
      <4> QED
        BY <4>1, <4>2
    <3>2. CASE Heartbeat(a) \/ HeartbeatExpires(a) \/ UpdateAgentState(a)
      BY <2>1, <3>2, Zenon DEF Heartbeat, HeartbeatExpires, UpdateAgentState, sessionVars, linkVars
    <3>3. CASE ConnectionError(a)
      BY <2>1, <3>3 DEF ConnectionError, EraseSession, TypeOK
    <3>4. CASE DropSession(a)
      <4>1. CASE a = b
        BY <3>4, <4>1 DEF DropSession, CloseConnection, TypeOK
      <4>2. CASE a # b
        BY <2>1, <3>4, <4>2 DEF DropSession, CloseConnection, EraseSession, TypeOK
      <4> QED
        BY <4>1, <4>2
    <3> QED
      BY <2>5, <3>1, <3>2, <3>3, <3>4, Zenon
  <2>6. ASSUME NEW a \in Agents, ReceiveAnswer(a) PROVE UnderWay(down'[b], up'[b], i)
    <3>1. CASE a = b
      <4>1. /\ down'[b] = down[b] /\ up'[b] = Tail(up[b]) /\ up[b] # <<>> /\ conn[b] = "open"
            /\ pending'[b] = Restrict(pending[b], DOMAIN pending[b] \ {Head(up[b]).id})
        BY <2>6, <3>1 DEF ReceiveAnswer, HandleAck, TypeOK
      <4>2. DOMAIN pending'[b] = DOMAIN pending[b] \ {Head(up[b]).id}
        BY <4>1 DEF Restrict
      <4>3. UnderWay(down[b], up[b], i) /\ i # Head(up[b]).id
        BY <4>1, <4>2
      <4> QED
        BY <2>0, <4>1, <4>3, HandledUnderWay, Zenon
    <3>2. CASE a # b
      BY <2>1, <2>6, <3>2, Zenon DEF ReceiveAnswer, HandleAck, TypeOK
    <3> QED
      BY <3>1, <3>2
  <2>7. ASSUME NEW a \in Agents, NEW due \in SUBSET DOMAIN pending[a], CheckCommandTimeouts(a, due)
        PROVE  UnderWay(down'[b], up'[b], i)
    <3> DEFINE retried == {n \in due : pending[a][n] < MaxRetries}
               failed  == due \ retried
    <3>0. up' = up
      BY <2>7 DEF CheckCommandTimeouts
    <3>1. CASE a = b
      <4>1. conn[b] = "open" /\ failed = {}
        BY <2>7, <3>1 DEF CheckCommandTimeouts, CloseConnection, TypeOK
      <4>2. down' = [down EXCEPT ![a] = @ \o Resend(a, retried)]
        BY <2>7, <3>1, <4>1 DEF CheckCommandTimeouts, Transmit
      <4>3. down'[b] = down[b] \o Resend(a, retried)
        BY <3>1, <4>2 DEF TypeOK
      <4>4. i \in DOMAIN pending[b]
        <5>1. pending' = [pending EXCEPT ![a] =
                  [n \in DOMAIN @ \ failed |-> IF n \in retried THEN @[n] + 1 ELSE @[n]]]
          BY <2>7 DEF CheckCommandTimeouts
        <5>2. DOMAIN pending'[b] = DOMAIN pending[b] \ failed
          BY <3>1, <5>1 DEF TypeOK
        <5> QED
          BY <5>2
      <4>5. Resend(a, retried) \in Seq(Command)
        BY <2>7, PendingType, ResendType
      <4> QED
        BY <2>0, <3>0, <4>1, <4>3, <4>4, <4>5, MoreUnderWay, Zenon
    <3>2. CASE a # b
      <4>1. down'[b] = down[b]
        BY <2>7, <3>2 DEF CheckCommandTimeouts, Transmit, TypeOK
      <4>2. conn[b] = "open"
        BY <2>7, <3>2 DEF CheckCommandTimeouts, CloseConnection, TypeOK
      <4>3. pending'[b] = pending[b]
        BY <2>7, <3>2 DEF CheckCommandTimeouts, TypeOK
      <4> QED
        BY <2>1, <3>0, <4>1, <4>2, <4>3
    <3> QED
      BY <3>1, <3>2, Zenon
  <2>8. CASE TriggerPolicy
    <3> DEFINE msg == [id |-> next_id, mode |-> Policies[policy].mode, serial |-> issued + 1]
               to  == {a \in sessions : fresh[a]}
    <3>1. up' = up /\ conn' = conn
      BY <2>8, Zenon DEF TriggerPolicy
    <3>2. CASE b \in to
      <4>1. down'[b] = Append(down[b], msg)
        BY <2>8, <3>1, <3>2 DEF TriggerPolicy
      <4>2. i \in DOMAIN pending[b] \union {next_id}
        BY <2>8, <3>2, Zenon DEF TriggerPolicy
      <4>3. /\ Len(down'[b]) = Len(down[b]) + 1 /\ Len(down[b]) \in Nat
            /\ \A k \in 1..Len(down[b]) : down'[b][k] = down[b][k]
            /\ down'[b][Len(down[b]) + 1] = msg
        <5>1. down[b] \in Seq(Command)
          BY <2>0
        <5> HIDE DEF msg
        <5>2. Len(down[b]) \in Nat
          BY <5>1, LenProperties
        <5>3. /\ Len(Append(down[b], msg)) = Len(down[b]) + 1
              /\ \A k \in 1..Len(down[b]) : Append(down[b], msg)[k] = down[b][k]
              /\ Append(down[b], msg)[Len(down[b]) + 1] = msg
          BY <5>1, <5>2
        <5> QED
          BY <4>1, <5>2, <5>3, Zenon
      <4>4. CASE i = next_id
        <5>1. Len(down[b]) + 1 \in 1..Len(down'[b]) /\ down'[b][Len(down[b]) + 1].id = i
          BY <4>3, <4>4
        <5> QED
          BY <5>1 DEF UnderWay
      <4>5. CASE i \in DOMAIN pending[b]
        <5>1. UnderWay(down[b], up[b], i)
          BY <3>1, <4>5
        <5>2. \A k \in 1..Len(down[b]) : k \in 1..Len(down'[b]) /\ down'[b][k] = down[b][k]
          BY <4>3
        <5>3. up'[b] = up[b]
          BY <3>1
        <5> QED
          BY <5>1, <5>2, <5>3, Zenon DEF UnderWay
      <4> QED
        BY <4>2, <4>4, <4>5, Zenon
    <3>3. CASE b \notin to
      BY <2>1, <2>8, <3>1, <3>3, Zenon DEF TriggerPolicy
    <3> QED
      BY <3>2, <3>3, Zenon
  <2>9. CASE CrashController \/ ShutDownController
    BY <2>9, Zenon DEF CrashController, ShutDownController, FreshController
  <2>10. CASE StartHealthCheck \/ ComputeLoad \/ SkipPolicy \/ FinishHealthCheck \/ UNCHANGED vars
    BY <2>1, <2>10
       DEF StartHealthCheck, ComputeLoad, SkipPolicy, FinishHealthCheck, vars, sessionVars, linkVars
  <2> QED
    BY <2>2, <2>3, <2>4, <2>5, <2>6, <2>7, <2>8, <2>9, <2>10, Zenon DEF Next
<1> HIDE DEF Inv
<1> QED
  BY <1>1, <1>2, <1>3, TypeCorrect, PTL DEF Spec

-----------------------------------------------------------------------------
(* An answer is never taken for another command's: AnsweredMeansInMode, as  *)
(* long as no more commands are issued than there are ids.                  *)
(*                                                                          *)
(* The property says nothing of what is still on the connection.  The       *)
(* invariant does: once the newest command was read, only copies of it are  *)
(* left to read, and a new command's id is on neither channel.              *)

\* The agent has read command m: it is answered, and the answer is handled or under way.
Seen(u, p, m) == m.id \notin p \/ \E k \in 1..Len(u) : u[k].id = m.id

\* Channels d and u, pending ids p, the session's message m and the agent's mode cm.
Fits(d, u, p, m, cm) ==
    /\ m.serial = 0 => d = <<>> /\ u = <<>> /\ p = {}
    /\ \A k \in 1..Len(d) : d[k].id = m.id => d[k].mode = m.mode
    /\ \A j, k \in 1..Len(d) : j <= k /\ d[j].id = m.id => d[k].id = m.id
    /\ m.serial # 0 /\ Seen(u, p, m) =>
           /\ cm = 1 <=> m.mode = 1
           /\ \A k \in 1..Len(d) : d[k].id = m.id

\* No id in use on the connection has been reached by the counter n again.
Below(d, u, m, n) ==
    /\ m.serial # 0 => m.id < n
    /\ \A k \in 1..Len(d) : d[k].id < n
    /\ \A k \in 1..Len(u) : u[k].id < n

\* What holds of agent a's connection.
Connection(a) ==
    /\ conn[a] \in {"none", "hello"} => down[a] = <<>>
    /\ conn[a] = "hello" => up[a] = <<>>
    /\ conn[a] = "open" =>
          /\ Fits(down[a], up[a], DOMAIN pending[a], set_mode_msg[a], current_mode[a])
          /\ issued < IdSpace => Below(down[a], up[a], set_mode_msg[a], next_id)

AnswerInv ==
    /\ issued < IdSpace => next_id <= issued
    /\ \A a \in Agents : Connection(a)

\* The agent reads a command and answers it (onMessage): if it was the newest, the agent
\* is in its mode from then on, and only copies of it follow.
LEMMA ReadFits ==
    ASSUME NEW d \in Seq(Command), d # <<>>, NEW u \in Seq(Answer), NEW r \in Answer,
           r.id = Head(d).id, NEW p, NEW m \in Command, NEW cm, NEW cn,
           Head(d).id = m.id => (cn = 1 <=> Head(d).mode = 1),
           Fits(d, u, p, m, cm)
    PROVE  Fits(Tail(d), Append(u, r), p, m, cn)
<1> DEFINE t == Tail(d)
           v == Append(u, r)
<1>1. /\ Head(d) = d[1] /\ Len(t) = Len(d) - 1 /\ Len(d) \in Nat /\ Len(d) >= 1
      /\ \A k \in 1..Len(t) : t[k] = d[k + 1]
  <2>1. Len(d) \in Nat /\ Head(d) = d[1] /\ Len(d) # 0
    BY LenProperties, EmptySeq
  <2>2. Len(t) = Len(d) - 1 /\ \A k \in 1..Len(t) : t[k] = d[k + 1]
    BY HeadTailProperties
  <2> HIDE DEF t
  <2>3. Len(d) >= 1
    <3>1. \A l \in Nat : l # 0 => l >= 1
      OBVIOUS
    <3> QED
      BY <2>1, <3>1, Zenon
  <2> QED
    BY <2>1, <2>2, <2>3, Zenon
<1>2. /\ Len(v) = Len(u) + 1 /\ Len(u) \in Nat
      /\ \A k \in 1..Len(u) : v[k] = u[k]
      /\ v[Len(u) + 1] = r
  <2>1. Len(u) \in Nat
    BY LenProperties
  <2>2. /\ Len(v) = Len(u) + 1
        /\ \A k \in 1..Len(u) : v[k] = u[k]
        /\ v[Len(u) + 1] = r
    BY AppendProperties
  <2> QED
    BY <2>1, <2>2
<1>3. m.serial # 0
  BY DEF Fits
<1> HIDE DEF t, v
<1>4. \A k \in 1..Len(t) : k + 1 \in 1..Len(d) /\ t[k] = d[k + 1]
  BY <1>1
<1>5. \A k \in 1..Len(t) : t[k].id = m.id => t[k].mode = m.mode
  BY <1>4, Zenon DEF Fits
<1>6. \A j, k \in 1..Len(t) : j <= k /\ t[j].id = m.id => t[k].id = m.id
  <2> SUFFICES ASSUME NEW j \in 1..Len(t), NEW k \in 1..Len(t), j <= k, t[j].id = m.id
               PROVE  t[k].id = m.id
    OBVIOUS
  <2>1. j + 1 \in 1..Len(d) /\ k + 1 \in 1..Len(d) /\ j + 1 <= k + 1
    BY <1>4
  <2> QED
    BY <1>4, <2>1 DEF Fits
<1>7. 1 \in 1..Len(d)
  BY <1>1
<1>8. ASSUME Seen(v, p, m) PROVE d[1].id = m.id
  <2>1. CASE Seen(u, p, m)
    BY <1>3, <1>7, <2>1 DEF Fits
  <2>2. CASE ~Seen(u, p, m)
    <3>1. PICK k \in 1..Len(v) : v[k].id = m.id
      BY <1>8, <2>2 DEF Seen
    <3>2. k \notin 1..Len(u)
      BY <1>2, <2>2, <3>1 DEF Seen
    <3>3. k = Len(u) + 1
      BY <1>2, <3>2
    <3> QED
      BY <1>1, <1>2, <3>1, <3>3
  <2> QED
    BY <2>1, <2>2
<1>9. ASSUME Seen(v, p, m)
      PROVE  (cn = 1 <=> m.mode = 1) /\ \A k \in 1..Len(t) : t[k].id = m.id
  <2>1. d[1].id = m.id /\ d[1].mode = m.mode
    BY <1>7, <1>8, <1>9 DEF Fits
  <2>2. cn = 1 <=> m.mode = 1
    BY <1>1, <2>1
  <2>3. \A k \in 1..Len(t) : t[k].id = m.id
    <3> SUFFICES ASSUME NEW k \in 1..Len(t) PROVE t[k].id = m.id
      OBVIOUS
    <3>1. k + 1 \in 1..Len(d) /\ 1 <= k + 1 /\ t[k] = d[k + 1]
      BY <1>4
    <3> QED
      BY <1>7, <2>1, <3>1 DEF Fits
  <2> QED
    BY <2>2, <2>3
<1> QED
  BY <1>3, <1>5, <1>6, <1>9 DEF Fits, t, v

\* handleAck takes an id out of pending_cmds_ that the agent has answered.
LEMMA HandledFits ==
    ASSUME NEW d, NEW u \in Seq(Answer), u # <<>>, NEW p, NEW m, NEW cm, Fits(d, u, p, m, cm)
    PROVE  Fits(d, Tail(u), p \ {Head(u).id}, m, cm)
<1>1. /\ Head(u) = u[1] /\ Len(Tail(u)) = Len(u) - 1 /\ Len(u) \in Nat /\ Len(u) >= 1
      /\ \A k \in 1..Len(Tail(u)) : Tail(u)[k] = u[k + 1]
  BY HeadTailProperties, LenProperties, EmptySeq
<1>2. ASSUME Seen(Tail(u), p \ {Head(u).id}, m) PROVE Seen(u, p, m)
  <2>1. CASE m.id = Head(u).id
    <3>1. 1 \in 1..Len(u) /\ u[1].id = m.id
      BY <1>1, <2>1
    <3> QED
      BY <3>1 DEF Seen
  <2>2. ASSUME NEW k \in 1..Len(Tail(u)), Tail(u)[k].id = m.id PROVE Seen(u, p, m)
    <3>1. k + 1 \in 1..Len(u) /\ u[k + 1].id = m.id
      BY <1>1, <2>2
    <3> QED
      BY <3>1 DEF Seen
  <2> QED
    BY <1>2, <2>1, <2>2 DEF Seen
<1>3. m.serial # 0
  BY DEF Fits
<1> QED
  BY <1>2, <1>3 DEF Fits

\* Copies of the newest command behind what is on the channel (checkCommandTimeouts).
LEMMA ResendFits ==
    ASSUME NEW d \in Seq(Command), NEW R \in Seq(Command), NEW u, NEW p, NEW m \in Command, NEW cm,
           m.serial # 0, \A k \in 1..Len(R) : R[k] = m, Fits(d, u, p, m, cm)
    PROVE  Fits(d \o R, u, p, m, cm)
<1> DEFINE e == d \o R
<1>1. /\ Len(e) = Len(d) + Len(R) /\ Len(d) \in Nat /\ Len(R) \in Nat
      /\ \A k \in 1..Len(d) : e[k] = d[k]
      /\ \A k \in 1..Len(R) : e[Len(d) + k] = R[k]
  BY ConcatProperties, LenProperties
<1> HIDE DEF e
<1>2. \A k \in 1..Len(e) : (k \in 1..Len(d) /\ e[k] = d[k]) \/ (k > Len(d) /\ e[k] = m)
  <2> SUFFICES ASSUME NEW k \in 1..Len(e), k \notin 1..Len(d) PROVE k > Len(d) /\ e[k] = m
    BY <1>1
  <2>1. k - Len(d) \in 1..Len(R) /\ Len(d) + (k - Len(d)) = k /\ k > Len(d)
    BY <1>1
  <2> QED
    BY <1>1, <2>1, Zenon
<1>3. \A k \in 1..Len(e) : e[k].id = m.id => e[k].mode = m.mode
  BY <1>2 DEF Fits
<1>4. \A j, k \in 1..Len(e) : j <= k /\ e[j].id = m.id => e[k].id = m.id
  <2> SUFFICES ASSUME NEW j \in 1..Len(e), NEW k \in 1..Len(e), j <= k, e[j].id = m.id, e[k] # m
               PROVE  e[k].id = m.id
    OBVIOUS
  <2>1. k \in 1..Len(d) /\ e[k] = d[k]
    BY <1>2
  <2>2. j \in 1..Len(d)
    BY <1>1, <2>1
  <2> QED
    BY <1>1, <2>1, <2>2 DEF Fits
<1>5. Seen(u, p, m) => (cm = 1 <=> m.mode = 1) /\ \A k \in 1..Len(e) : e[k].id = m.id
  BY <1>2 DEF Fits
<1> QED
  BY <1>3, <1>4, <1>5, Zenon DEF Fits, e

\* A new command, whose id is in use on neither channel, behind what is on the channel
\* (the policy loop: getSetModeMsg, trackCommand, send).
LEMMA IssueFits ==
    ASSUME NEW d \in Seq(Command), NEW u \in Seq(Answer), NEW p, NEW m, NEW cm,
           NEW n \in Command, n.serial # 0, Below(d, u, m, n.id)
    PROVE  Fits(Append(d, n), u, p \union {n.id}, n, cm)
<1> DEFINE e == Append(d, n)
<1>1. /\ Len(e) = Len(d) + 1 /\ Len(d) \in Nat
      /\ \A k \in 1..Len(d) : e[k] = d[k] /\ d[k] \in Command
      /\ e[Len(d) + 1] = n
  <2>1. Len(d) \in Nat /\ \A k \in 1..Len(d) : d[k] \in Command
    BY LenProperties, ElementOfSeq
  <2>2. /\ Len(e) = Len(d) + 1
        /\ \A k \in 1..Len(d) : e[k] = d[k]
        /\ e[Len(d) + 1] = n
    BY AppendProperties
  <2> QED
    BY <2>1, <2>2
<1> HIDE DEF e
<1>2. n.id \in Int
  BY IdSpaceAssumption DEF Command, Ids
<1>3. \A k \in 1..Len(d) : e[k].id # n.id
  <2> SUFFICES ASSUME NEW k \in 1..Len(d) PROVE e[k].id # n.id
    OBVIOUS
  <2>1. d[k].id < n.id /\ d[k].id \in Int
    <3>1. d[k].id < n.id
      BY DEF Below
    <3>2. d[k].id \in Ids
      BY <1>1 DEF Command
    <3> QED
      BY <3>1, <3>2, IdSpaceAssumption DEF Ids
  <2>2. \A x, y \in Int : x < y => x # y
    OBVIOUS
  <2> QED
    BY <1>1, <1>2, <2>1, <2>2, Zenon
<1>4. \A k \in 1..Len(e) : k \in 1..Len(d) \/ k = Len(d) + 1
  BY <1>1
<1>5. ~Seen(u, p \union {n.id}, n)
  <2> SUFFICES ASSUME NEW k \in 1..Len(u), u[k].id = n.id PROVE FALSE
    BY DEF Seen
  <2>1. u[k].id < n.id
    BY DEF Below
  <2> QED
    BY <1>2, <2>1
<1>6. \A k \in 1..Len(e) : e[k].id = n.id => e[k].mode = n.mode
  BY <1>1, <1>3, <1>4
<1>7. \A j, k \in 1..Len(e) : j <= k /\ e[j].id = n.id => e[k].id = n.id
  <2> SUFFICES ASSUME NEW j \in 1..Len(e), NEW k \in 1..Len(e), j <= k, e[j].id = n.id
               PROVE  e[k].id = n.id
    OBVIOUS
  <2>1. j = Len(d) + 1
    BY <1>3, <1>4
  <2>2. k = Len(d) + 1
    BY <1>1, <2>1
  <2> QED
    BY <1>1, <2>2
<1> QED
  BY <1>5, <1>6, <1>7 DEF Fits, e

\* What leaves a channel takes no id with it that was not below the counter.
LEMMA ReadBelow ==
    ASSUME NEW d \in Seq(Command), d # <<>>, NEW u \in Seq(Answer), NEW r \in Answer,
           r.id = Head(d).id, NEW m, NEW n, Below(d, u, m, n)
    PROVE  Below(Tail(d), Append(u, r), m, n)
<1> DEFINE t == Tail(d)
           v == Append(u, r)
<1>1. /\ Head(d) = d[1] /\ Len(t) = Len(d) - 1 /\ Len(d) \in Nat /\ Len(d) >= 1
      /\ \A k \in 1..Len(t) : t[k] = d[k + 1]
  <2>1. Len(d) \in Nat /\ Head(d) = d[1] /\ Len(d) # 0
    BY LenProperties, EmptySeq
  <2>2. Len(t) = Len(d) - 1 /\ \A k \in 1..Len(t) : t[k] = d[k + 1]
    BY HeadTailProperties
  <2> HIDE DEF t
  <2>3. Len(d) >= 1
    <3>1. \A l \in Nat : l # 0 => l >= 1
      OBVIOUS
    <3> QED
      BY <2>1, <3>1, Zenon
  <2> QED
    BY <2>1, <2>2, <2>3, Zenon
<1>2. /\ Len(v) = Len(u) + 1 /\ Len(u) \in Nat
      /\ \A k \in 1..Len(u) : v[k] = u[k]
      /\ v[Len(u) + 1] = r
  <2>1. Len(u) \in Nat
    BY LenProperties
  <2>2. /\ Len(v) = Len(u) + 1
        /\ \A k \in 1..Len(u) : v[k] = u[k]
        /\ v[Len(u) + 1] = r
    BY AppendProperties
  <2> QED
    BY <2>1, <2>2
<1> HIDE DEF t, v
<1>3. \A k \in 1..Len(t) : k + 1 \in 1..Len(d) /\ t[k] = d[k + 1]
  BY <1>1
<1>4. 1 \in 1..Len(d) /\ r.id = d[1].id
  BY <1>1
<1>5. \A k \in 1..Len(v) : k \in 1..Len(u) \/ k = Len(u) + 1
  BY <1>2
<1>6. \A k \in 1..Len(v) : v[k].id < n
  BY <1>2, <1>4, <1>5 DEF Below
<1> QED
  BY <1>3, <1>6 DEF Below, t, v

\* The same for an answer that is handled.
LEMMA HandledBelow ==
    ASSUME NEW d, NEW u \in Seq(Answer), u # <<>>, NEW m, NEW n, Below(d, u, m, n)
    PROVE  Below(d, Tail(u), m, n)
<1>1. /\ Len(Tail(u)) = Len(u) - 1 /\ Len(u) \in Nat
      /\ \A k \in 1..Len(Tail(u)) : Tail(u)[k] = u[k + 1]
  BY HeadTailProperties, LenProperties
<1>2. \A k \in 1..Len(Tail(u)) : k + 1 \in 1..Len(u) /\ Tail(u)[k] = u[k + 1]
  BY <1>1
<1> QED
  BY <1>2 DEF Below

\* Frames whose ids are below the counter may follow.
LEMMA SentBelow ==
    ASSUME NEW d \in Seq(Command), NEW R \in Seq(Command), NEW u, NEW m, NEW n,
           \A k \in 1..Len(R) : R[k].id < n, Below(d, u, m, n)
    PROVE  Below(d \o R, u, m, n)
<1> DEFINE e == d \o R
<1>1. /\ Len(e) = Len(d) + Len(R) /\ Len(d) \in Nat /\ Len(R) \in Nat
      /\ \A k \in 1..Len(d) : e[k] = d[k]
      /\ \A k \in 1..Len(R) : e[Len(d) + k] = R[k]
  BY ConcatProperties, LenProperties
<1> HIDE DEF e
<1>2. ASSUME NEW k \in 1..Len(e) PROVE e[k].id < n
  <2>1. CASE k \in 1..Len(d)
    BY <1>1, <2>1 DEF Below
  <2>2. CASE k \notin 1..Len(d)
    <3>1. k - Len(d) \in 1..Len(R) /\ Len(d) + (k - Len(d)) = k
      BY <1>1, <2>2
    <3> QED
      BY <1>1, <3>1, Zenon
  <2> QED
    BY <2>1, <2>2
<1> QED
  BY <1>2 DEF Below, e

\* The counter goes on by one (getNextId) with a command that takes its old value.
LEMMA IssueBelow ==
    ASSUME NEW d \in Seq(Command), NEW u \in Seq(Answer), NEW m \in Command, NEW n \in Command,
           Below(d, u, m, n.id)
    PROVE  /\ Below(Append(d, n), u, n, n.id + 1)
           /\ Below(d, u, m, n.id + 1)
<1> DEFINE e == Append(d, n)
<1>0. /\ \A c \in Command : c.id \in Int
      /\ \A r \in Answer : r.id \in Int
  BY IdSpaceAssumption DEF Command, Answer, Ids
<1>1. /\ Len(e) = Len(d) + 1 /\ Len(d) \in Nat
      /\ \A k \in 1..Len(d) : e[k] = d[k]
      /\ e[Len(d) + 1] = n
  <2>1. Len(d) \in Nat
    BY LenProperties
  <2>2. /\ Len(e) = Len(d) + 1
        /\ \A k \in 1..Len(d) : e[k] = d[k]
        /\ e[Len(d) + 1] = n
    BY AppendProperties
  <2> QED
    BY <2>1, <2>2
<1> HIDE DEF e
<1>2. ASSUME NEW k \in 1..Len(d) PROVE d[k].id < n.id + 1
  <2>1. d[k] \in Command
    BY ElementOfSeq
  <2>2. d[k].id \in Int
    BY <1>0, <2>1
  <2>3. d[k].id < n.id
    BY DEF Below
  <2> QED
    BY <1>0, <2>2, <2>3
<1>3. ASSUME NEW k \in 1..Len(u) PROVE u[k].id < n.id + 1
  <2>1. u[k] \in Answer
    BY ElementOfSeq
  <2>2. u[k].id \in Int
    BY <1>0, <2>1
  <2>3. u[k].id < n.id
    BY DEF Below
  <2> QED
    BY <1>0, <2>2, <2>3
<1>4. \A k \in 1..Len(e) : k \in 1..Len(d) \/ k = Len(d) + 1
  BY <1>1
<1>5. \A k \in 1..Len(e) : e[k].id < n.id + 1
  BY <1>0, <1>1, <1>2, <1>4
<1>6. m.serial # 0 => m.id < n.id + 1
  BY <1>0 DEF Below
<1> QED
  BY <1>0, <1>2, <1>3, <1>5, <1>6 DEF Below, e

\* Init establishes the invariant.
LEMMA InitAnswerInv == Init => AnswerInv
  BY DEF Init, AnswerInv, Connection

\* Every step keeps what holds of one connection; those of the other agents and the
\* steps of the controller that send nothing leave it alone.
LEMMA NextConnection ==
    ASSUME MaxCommands <= IdSpace, TypeOK, DuplicateIsHarmless, AnswerInv, [Next]_vars,
           NEW b \in Agents
    PROVE  Connection(b)'
<1>0. /\ down[b] \in Seq(Command) /\ up[b] \in Seq(Answer) /\ set_mode_msg[b] \in Command
      /\ Connection(b)
  BY DEF TypeOK, AnswerInv
<1>1. ASSUME conn'[b] = conn[b], down'[b] = down[b], up'[b] = up[b], pending'[b] = pending[b],
             set_mode_msg'[b] = set_mode_msg[b], current_mode'[b] = current_mode[b],
             issued' = issued, next_id' = next_id
      PROVE  Connection(b)'
  BY <1>0, <1>1 DEF Connection
<1>2. ASSUME NEW a \in Agents, Connect(a) \/ LoseConnection(a) \/ RestartAgent(a)
      PROVE  Connection(b)'
  <2>1. CASE a = b
    <3>1. CASE Connect(a)
      BY <1>0, <2>1, <3>1 DEF Connect, Connection, TypeOK
    <3>2. CASE LoseConnection(a) \/ RestartAgent(a)
      BY <2>1, <3>2 DEF LoseConnection, RestartAgent, Connection, TypeOK
    <3> QED
      BY <1>2, <3>1, <3>2
  <2>2. CASE a # b
    BY <1>1, <1>2, <2>2
       DEF Connect, LoseConnection, RestartAgent, TypeOK, controllerVars, sessionVars, agentVars
  <2> QED
    BY <2>1, <2>2
<1>3. ASSUME NEW a \in Agents, RejectDuplicate(a) PROVE Connection(b)'
  <2> DEFINE r == [type |-> "NACK", id |-> Head(down[a]).id]
  <2>1. CASE a = b
    <3>1. /\ conn'[b] = conn[b] /\ conn[b] \in {"open", "closed"} /\ down[b] # <<>>
          /\ down'[b] = Tail(down[b]) /\ current_mode' = current_mode
          /\ pending' = pending /\ set_mode_msg' = set_mode_msg
          /\ issued' = issued /\ next_id' = next_id
      BY <1>3, <2>1 DEF RejectDuplicate, TypeOK, controllerVars, sessionVars, agentVars
    <3>2. CASE conn[b] = "closed"
      BY <3>1, <3>2 DEF Connection
    <3>3. CASE conn[b] = "open"
      <4>1. Head(down[b]) \in Command
        BY <1>0, <3>1, HeadTailProperties
      <4>2. r \in Answer /\ r.id = Head(down[b]).id
        BY <2>1, <4>1 DEF Answer, Command
      <4>3. up'[b] = Append(up[b], r)
        BY <1>3, <2>1, <3>3 DEF RejectDuplicate, Reply, TypeOK
      <4>4. current_mode'[b] = 1 <=> Head(down[b]).mode = 1
        BY <1>3, <2>1, <3>1 DEF RejectDuplicate, DuplicateIsHarmless
      <4>5. Fits(down'[b], up'[b], DOMAIN pending'[b], set_mode_msg'[b], current_mode'[b])
        BY <1>0, <3>1, <3>3, <4>2, <4>3, <4>4, ReadFits DEF Connection
      <4>6. issued' < IdSpace => Below(down'[b], up'[b], set_mode_msg'[b], next_id')
        BY <1>0, <3>1, <3>3, <4>2, <4>3, ReadBelow, Zenon DEF Connection
      <4> QED
        BY <3>1, <3>3, <4>5, <4>6 DEF Connection
    <3> QED
      BY <3>1, <3>2, <3>3
  <2>2. CASE a # b
    BY <1>1, <1>3, <2>2 DEF RejectDuplicate, Reply, TypeOK, controllerVars, sessionVars, agentVars
  <2> QED
    BY <2>1, <2>2
<1>4. ASSUME NEW a \in Agents, ApplyCommand(a) PROVE Connection(b)'
  <2> DEFINE r == [type |-> "ACK", id |-> Head(down[a]).id]
  <2>1. CASE a = b
    <3>1. /\ conn'[b] = conn[b] /\ conn[b] \in {"open", "closed"} /\ down[b] # <<>>
          /\ down'[b] = Tail(down[b]) /\ current_mode'[b] = Head(down[b]).mode
          /\ pending' = pending /\ set_mode_msg' = set_mode_msg
          /\ issued' = issued /\ next_id' = next_id
      BY <1>4, <2>1 DEF ApplyCommand, TypeOK, controllerVars, sessionVars, agentVars
    <3>2. CASE conn[b] = "closed"
      BY <3>1, <3>2 DEF Connection
    <3>3. CASE conn[b] = "open"
      <4>1. Head(down[b]) \in Command
        BY <1>0, <3>1, HeadTailProperties
      <4>2. r \in Answer /\ r.id = Head(down[b]).id
        BY <2>1, <4>1 DEF Answer, Command
      <4>3. up'[b] = Append(up[b], r)
        BY <1>4, <2>1, <3>3 DEF ApplyCommand, Reply, TypeOK
      <4>4. current_mode'[b] = 1 <=> Head(down[b]).mode = 1
        BY <1>4, <2>1, <3>1 DEF ApplyCommand, DuplicateIsHarmless
      <4>5. Fits(down'[b], up'[b], DOMAIN pending'[b], set_mode_msg'[b], current_mode'[b])
        BY <1>0, <3>1, <3>3, <4>2, <4>3, <4>4, ReadFits, Zenon DEF Connection
      <4>6. issued' < IdSpace => Below(down'[b], up'[b], set_mode_msg'[b], next_id')
        BY <1>0, <3>1, <3>3, <4>2, <4>3, ReadBelow DEF Connection
      <4> QED
        BY <3>1, <3>3, <4>5, <4>6 DEF Connection
    <3> QED
      BY <3>1, <3>2, <3>3
  <2>2. CASE a # b
    BY <1>1, <1>4, <2>2 DEF ApplyCommand, Reply, TypeOK, controllerVars, sessionVars, agentVars
  <2> QED
    BY <2>1, <2>2
<1>5. ASSUME NEW a \in Agents, Register(a) PROVE Connection(b)'
  <2>1. CASE a = b
    <3>1. /\ conn'[b] = "open" /\ down'[b] = <<>> /\ up'[b] = <<>>
          /\ pending'[b] = NoCommands /\ set_mode_msg'[b] = BlankCommand
      BY <1>0, <1>5, <2>1 DEF Register, Connection, TypeOK
    <3>2. DOMAIN pending'[b] = {} /\ set_mode_msg'[b].serial = 0
      <4>1. DOMAIN NoCommands = {}
        BY DEF NoCommands
      <4>2. BlankCommand.serial = 0
        BY DEF BlankCommand
      <4> QED
        BY <3>1, <4>1, <4>2, Zenon
    <3>3. Len(down'[b]) = 0 /\ Len(up'[b]) = 0 /\ 1..0 = {}
      <4>1. Len(<<>>) = 0 /\ 1..0 = {}
        OBVIOUS
      <4> QED
        BY <3>1, <4>1, Zenon
    <3>4. Fits(down'[b], up'[b], DOMAIN pending'[b], set_mode_msg'[b], current_mode'[b])
      BY <3>1, <3>2, <3>3 DEF Fits
    <3>5. Below(down'[b], up'[b], set_mode_msg'[b], next_id')
      BY <3>2, <3>3 DEF Below
    <3> QED
      BY <3>1, <3>4, <3>5 DEF Connection
  <2>2. CASE a # b
    BY <1>1, <1>5, <2>2 DEF Register, TypeOK, controllerVars, agentVars
  <2> QED
    BY <2>1, <2>2
<1>6. ASSUME NEW a \in Agents, Heartbeat(a) \/ HeartbeatExpires(a) \/ UpdateAgentState(a)
      PROVE  Connection(b)'
  BY <1>1, <1>6 DEF Heartbeat, HeartbeatExpires, UpdateAgentState, controllerVars, sessionVars, linkVars,
                    agentVars
<1>7. ASSUME NEW a \in Agents, ConnectionError(a) PROVE Connection(b)'
  <2>1. CASE a = b
    BY <1>0, <1>7, <2>1 DEF ConnectionError, Connection, TypeOK
  <2>2. CASE a # b
    BY <1>1, <1>7, <2>2 DEF ConnectionError, EraseSession, TypeOK, controllerVars, agentVars
  <2> QED
    BY <2>1, <2>2
<1>8. ASSUME NEW a \in Agents, DropSession(a) PROVE Connection(b)'
  <2>1. CASE a = b
    BY <1>0, <1>8, <2>1 DEF DropSession, CloseConnection, Connection, TypeOK
  <2>2. CASE a # b
    BY <1>1, <1>8, <2>2 DEF DropSession, CloseConnection, EraseSession, TypeOK, agentVars
  <2> QED
    BY <2>1, <2>2
<1>9. ASSUME NEW a \in Agents, ReceiveAnswer(a) PROVE Connection(b)'
  <2>1. CASE a = b
    <3>1. /\ conn' = conn /\ down' = down /\ up'[b] = Tail(up[b]) /\ up[b] # <<>>
          /\ pending'[b] = Restrict(pending[b], DOMAIN pending[b] \ {Head(up[b]).id})
          /\ set_mode_msg' = set_mode_msg /\ current_mode' = current_mode
          /\ issued' = issued /\ next_id' = next_id
      BY <1>9, <2>1 DEF ReceiveAnswer, HandleAck, TypeOK, controllerVars, agentVars
    <3>2. DOMAIN pending'[b] = DOMAIN pending[b] \ {Head(up[b]).id}
      BY <3>1 DEF Restrict
    <3>3. conn[b] # "hello"
      BY <1>0, <3>1 DEF Connection
    <3>4. conn[b] = "open" =>
             Fits(down'[b], up'[b], DOMAIN pending'[b], set_mode_msg'[b], current_mode'[b])
      <4>1. SUFFICES ASSUME conn[b] = "open"
                     PROVE  Fits(down[b], Tail(up[b]), DOMAIN pending[b] \ {Head(up[b]).id},
                                 set_mode_msg[b], current_mode[b])
        BY <3>1, <3>2
      <4>2. Fits(down[b], up[b], DOMAIN pending[b], set_mode_msg[b], current_mode[b])
        BY <1>0, <4>1 DEF Connection
      <4>3. up[b] \in Seq(Answer) /\ up[b] # <<>>
        BY <1>0, <3>1
      <4> QED
        BY <4>2, <4>3, HandledFits
    <3>5. conn[b] = "open" /\ issued < IdSpace =>
             Below(down'[b], up'[b], set_mode_msg'[b], next_id')
      BY <1>0, <3>1, HandledBelow DEF Connection
    <3> QED
      BY <1>0, <3>1, <3>3, <3>4, <3>5 DEF Connection
  <2>2. CASE a # b
    BY <1>1, <1>9, <2>2 DEF ReceiveAnswer, HandleAck, TypeOK, controllerVars, agentVars
  <2> QED
    BY <2>1, <2>2
<1>10. ASSUME NEW a \in Agents, NEW due \in SUBSET DOMAIN pending[a], CheckCommandTimeouts(a, due)
       PROVE  Connection(b)'
  <2> DEFINE retried == {n \in due : pending[a][n] < MaxRetries}
             failed  == due \ retried
             R == Resend(a, retried)
  <2>0. /\ up' = up /\ set_mode_msg' = set_mode_msg /\ current_mode' = current_mode
        /\ issued' = issued /\ next_id' = next_id
    BY <1>10 DEF CheckCommandTimeouts, agentVars
  <2>1. CASE a = b /\ conn[b] = "open" /\ failed = {}
    <3>1. conn' = conn /\ down'[b] = down[b] \o R
      <4>1. down' = [down EXCEPT ![a] = @ \o R] /\ conn' = conn
        BY <1>10, <2>1 DEF CheckCommandTimeouts, Transmit
      <4> QED
        BY <2>1, <4>1 DEF TypeOK
    <3>2. DOMAIN pending'[b] = DOMAIN pending[b]
      <4>1. pending' = [pending EXCEPT ![a] =
                [n \in DOMAIN @ \ failed |-> IF n \in retried THEN @[n] + 1 ELSE @[n]]]
        BY <1>10 DEF CheckCommandTimeouts
      <4>2. DOMAIN pending'[b] = DOMAIN pending[b] \ failed
        BY <2>1, <4>1 DEF TypeOK
      <4> QED
        BY <2>1, <4>2
    <3>3. R \in Seq(Command) /\ \A k \in 1..Len(R) : R[k] = set_mode_msg[b] /\ retried # {}
      <4>1. DOMAIN pending[a] \in SUBSET Ids
        BY PendingType
      <4>2. retried \in SUBSET Ids
        BY <4>1
      <4> HIDE DEF retried
      <4>3. R \in Seq(Command) /\ \A k \in 1..Len(R) : R[k] = set_mode_msg[a] /\ retried # {}
        BY <4>2, ResendType
      <4> QED
        BY <4>3, <2>1
    <3> HIDE DEF R
    <3>4. CASE retried = {}
      <4>1. Len(R) = 0
        <5>1. Len(R) \in Nat
          BY <3>3, LenProperties
        <5> QED
          BY <3>3, <3>4, <5>1
      <4>2. down'[b] = down[b]
        BY <1>0, <3>1, <3>3, <4>1, EmptySeq, ConcatEmptySeq
      <4> QED
        BY <1>0, <2>0, <3>1, <3>2, <4>2 DEF Connection
    <3>5. CASE retried # {}
      <4>1. set_mode_msg[b].serial # 0
        BY <1>0, <2>1, <3>5 DEF Connection, Fits
      <4>2. Fits(down'[b], up'[b], DOMAIN pending'[b], set_mode_msg'[b], current_mode'[b])
        BY <1>0, <2>0, <2>1, <3>1, <3>2, <3>3, <4>1, ResendFits, Zenon DEF Connection
      <4>3. ASSUME issued < IdSpace PROVE Below(down'[b], up'[b], set_mode_msg'[b], next_id')
        <5>1. Below(down[b], up[b], set_mode_msg[b], next_id)
          BY <1>0, <2>1, <4>3 DEF Connection
        <5>2. \A k \in 1..Len(R) : R[k].id < next_id
          BY <3>3, <4>1, <5>1 DEF Below
        <5> QED
          BY <1>0, <2>0, <3>1, <3>3, <5>1, <5>2, SentBelow
      <4> QED
        BY <2>0, <2>1, <3>1, <4>2, <4>3 DEF Connection
    <3> QED
      BY <3>4, <3>5
  <2>2. CASE a = b /\ conn[b] = "open" /\ failed # {}
    <3>1. conn'[b] = "closed"
      BY <1>10, <2>2 DEF CheckCommandTimeouts, CloseConnection, TypeOK
    <3> QED
      BY <3>1 DEF Connection
  <2>3. CASE a = b /\ conn[b] # "open"
    <3>1. conn' = conn /\ down' = down
      BY <1>10, <2>3 DEF CheckCommandTimeouts, CloseConnection, Transmit
    <3> QED
      BY <1>0, <2>0, <2>3, <3>1 DEF Connection
  <2>4. CASE a # b
    <3>1. down'[b] = down[b]
      BY <1>10, <2>4 DEF CheckCommandTimeouts, Transmit, TypeOK
    <3>2. conn'[b] = conn[b]
      BY <1>10, <2>4 DEF CheckCommandTimeouts, CloseConnection, TypeOK
    <3>3. pending'[b] = pending[b]
      BY <1>10, <2>4 DEF CheckCommandTimeouts, TypeOK
    <3> QED
      BY <1>1, <2>0, <3>1, <3>2, <3>3
  <2> QED
    BY <2>1, <2>2, <2>3, <2>4
<1>11. CASE TriggerPolicy
  <2> DEFINE msg == [id |-> next_id, mode |-> Policies[policy].mode, serial |-> issued + 1]
             to  == {a \in sessions : fresh[a]}
  <2>1. /\ up' = up /\ conn' = conn /\ current_mode' = current_mode
        /\ issued' = issued + 1 /\ next_id' = NextId /\ issued < IdSpace
    <3>1. /\ up' = up /\ conn' = conn /\ current_mode' = current_mode
          /\ issued' = issued + 1 /\ next_id' = NextId /\ issued < MaxCommands
      BY <1>11 DEF TriggerPolicy, Triggered, agentVars
    <3>2. issued \in Nat /\ MaxCommands \in Nat /\ IdSpace \in Nat
      BY IdSpaceAssumption, PoliciesAssumption DEF TypeOK
    <3> QED
      BY <3>1, <3>2
  <2>2. msg \in Command /\ msg.serial # 0 /\ msg.id = next_id
    <3>1. Policies[policy].mode \in Nat
      <4>1. policy \in 1..Len(Policies)
        <5>1. policy <= Len(Policies)
          BY <1>11 DEF TriggerPolicy
        <5>2. policy \in 1..(Len(Policies) + 1) /\ Len(Policies) \in Nat
          BY PoliciesAssumption, LenProperties DEF TypeOK
        <5> QED
          BY <5>1, <5>2
      <4>2. Policies[policy] \in [op : {">", "<"}, threshold : Int, mode : Nat]
        BY <4>1, PoliciesAssumption, ElementOfSeq, Zenon
      <4> QED
        BY <4>2
    <3>2. next_id \in Ids /\ issued \in Nat
      BY DEF TypeOK
    <3>3. issued + 1 \in Nat /\ issued + 1 # 0
      BY <3>2
    <3>4. msg \in [id : Ids, mode : Nat, serial : Nat]
      BY <3>1, <3>2, <3>3, Zenon
    <3> QED
      BY <3>3, <3>4, Zenon DEF Command
  <2>3. issued' < IdSpace => next_id' = next_id + 1
    <3>1. issued \in Nat /\ next_id \in Nat /\ IdSpace \in Nat /\ next_id <= issued
      BY <2>1, IdSpaceAssumption DEF AnswerInv, TypeOK, Ids
    <3>2. issued + 1 < IdSpace => (next_id + 1) % IdSpace = next_id + 1
      BY <3>1
    <3> QED
      BY <2>1, <3>2 DEF NextId
  <2>4. CASE conn[b] # "open"
    <3>1. down'[b] = down[b]
      BY <1>11, <2>4 DEF TriggerPolicy
    <3> QED
      BY <1>0, <2>1, <2>4, <3>1 DEF Connection
  <2>5. CASE conn[b] = "open"
    <3>1. Below(down[b], up[b], set_mode_msg[b], next_id)
      BY <1>0, <2>1, <2>5 DEF Connection
    <3>2. CASE b \in to
      <4>1. down'[b] = Append(down[b], msg) /\ set_mode_msg'[b] = msg
        BY <1>11, <2>5, <3>2 DEF TriggerPolicy
      <4>2. DOMAIN pending'[b] = DOMAIN pending[b] \union {next_id}
        BY <1>11, <3>2 DEF TriggerPolicy
      <4> HIDE DEF msg
      <4>3. Fits(down'[b], up'[b], DOMAIN pending'[b], set_mode_msg'[b], current_mode'[b])
        <5>1. Below(down[b], up[b], set_mode_msg[b], msg.id)
          BY <2>2, <3>1
        <5>2. Fits(Append(down[b], msg), up[b], DOMAIN pending[b] \union {msg.id}, msg, current_mode[b])
          BY <1>0, <2>2, <5>1, IssueFits, Zenon
        <5> QED
          BY <2>1, <2>2, <4>1, <4>2, <5>2
      <4>4. issued' < IdSpace => Below(down'[b], up'[b], set_mode_msg'[b], next_id')
        BY <1>0, <2>1, <2>2, <2>3, <3>1, <4>1, IssueBelow
      <4> QED
        BY <2>1, <2>5, <4>3, <4>4 DEF Connection
    <3>3. CASE b \notin to
      <4>1. /\ down'[b] = down[b] /\ set_mode_msg'[b] = set_mode_msg[b]
            /\ pending'[b] = pending[b]
        BY <1>11, <3>3 DEF TriggerPolicy
      <4> HIDE DEF msg
      <4>2. issued' < IdSpace => Below(down'[b], up'[b], set_mode_msg'[b], next_id')
        BY <1>0, <2>1, <2>2, <2>3, <3>1, <4>1, IssueBelow
      <4> QED
        BY <1>0, <2>1, <2>5, <4>1, <4>2 DEF Connection
    <3> QED
      BY <3>2, <3>3
  <2> QED
    BY <2>4, <2>5
<1>12. CASE CrashController \/ ShutDownController
  <2>1. conn'[b] = IF conn[b] = "none" THEN "none" ELSE "closed"
    BY <1>12, Zenon DEF CrashController, ShutDownController, FreshController
  <2>2. conn[b] = "none" => down'[b] = down[b]
    BY <1>12, Zenon DEF CrashController, ShutDownController
  <2> QED
    BY <1>0, <2>1, <2>2 DEF Connection
<1>13. CASE StartHealthCheck \/ ComputeLoad \/ SkipPolicy \/ FinishHealthCheck \/ UNCHANGED vars
  BY <1>1, <1>13
     DEF StartHealthCheck, ComputeLoad, SkipPolicy, FinishHealthCheck, vars, sessionVars, linkVars,
         agentVars
<1> QED
  BY <1>2, <1>3, <1>4, <1>5, <1>6, <1>7, <1>8, <1>9, <1>10, <1>11, <1>12, <1>13 DEF Next

\* Every step keeps the invariant: the counter moves when a command is issued or the
\* controller starts anew.
LEMMA NextAnswerInv ==
    ASSUME MaxCommands <= IdSpace, TypeOK, DuplicateIsHarmless, AnswerInv, [Next]_vars
    PROVE  AnswerInv'
<1>1. \A b \in Agents : Connection(b)'
  BY NextConnection
<1>2. issued \in Nat /\ next_id \in Nat /\ IdSpace \in Nat /\ IdSpace > 0
  BY IdSpaceAssumption DEF TypeOK, Ids
<1>3. CASE issued' = issued /\ next_id' = next_id
  BY <1>1, <1>3 DEF AnswerInv
<1>4. CASE TriggerPolicy
  <2>1. issued' = issued + 1 /\ next_id' = (next_id + 1) % IdSpace
    BY <1>4 DEF TriggerPolicy, NextId
  <2>2. ASSUME issued + 1 < IdSpace PROVE (next_id + 1) % IdSpace <= issued + 1
    <3>1. next_id <= issued
      BY <1>2, <2>2 DEF AnswerInv
    <3> QED
      BY <1>2, <2>2, <3>1
  <2> QED
    BY <1>1, <2>1, <2>2 DEF AnswerInv
<1>5. CASE CrashController \/ ShutDownController
  <2>1. issued' = issued /\ next_id' = 0
    BY <1>5, Zenon DEF CrashController, ShutDownController, FreshController
  <2> QED
    BY <1>1, <1>2, <2>1 DEF AnswerInv
<1>6. ASSUME NEW a \in Agents,
             \/ Connect(a) \/ RejectDuplicate(a) \/ ApplyCommand(a) \/ LoseConnection(a)
             \/ RestartAgent(a) \/ Register(a) \/ Heartbeat(a) \/ HeartbeatExpires(a)
             \/ UpdateAgentState(a) \/ ReceiveAnswer(a) \/ ConnectionError(a) \/ DropSession(a)
      PROVE  issued' = issued /\ next_id' = next_id
  BY <1>6, Zenon DEF Connect, RejectDuplicate, ApplyCommand, LoseConnection, RestartAgent, Register,
              Heartbeat, HeartbeatExpires, UpdateAgentState, ReceiveAnswer, ConnectionError, DropSession,
              controllerVars
<1>7. ASSUME NEW a \in Agents, NEW due \in SUBSET DOMAIN pending[a], CheckCommandTimeouts(a, due)
      PROVE  issued' = issued /\ next_id' = next_id
  BY <1>7 DEF CheckCommandTimeouts
<1>8. CASE StartHealthCheck \/ ComputeLoad \/ SkipPolicy \/ FinishHealthCheck \/ UNCHANGED vars
  BY <1>3, <1>8 DEF StartHealthCheck, ComputeLoad, SkipPolicy, FinishHealthCheck, vars
<1> QED
  BY <1>3, <1>4, <1>5, <1>6, <1>7, <1>8 DEF Next

\* When the newest command of a live session is not pending any more (handleAck), the
\* agent is in the mode it asked for, for any number of agents, policies, retries,
\* reconnections and restarts.  With more commands than ids an answer may name a later
\* command that has the same id, so the theorem is about fewer: 2^32 in the code.
THEOREM AnsweredCommandsAreInForce ==
    MaxCommands <= IdSpace => (Spec => []AnsweredMeansInMode)
<1> SUFFICES ASSUME MaxCommands <= IdSpace PROVE Spec => []AnsweredMeansInMode
  OBVIOUS
<1>1. AnswerInv => AnsweredMeansInMode
  BY DEF AnswerInv, Connection, Fits, Seen, AnsweredMeansInMode
<1>2. TypeOK /\ DuplicateIsHarmless /\ AnswerInv /\ [Next]_vars => AnswerInv'
  BY NextAnswerInv
<1> QED
  BY <1>1, <1>2, InitAnswerInv, TypeCorrect, DuplicatesAreHarmless, PTL DEF Spec
=============================================================================
