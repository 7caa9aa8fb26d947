----------------------- MODULE SessionRegistryProofs -----------------------
(***************************************************************************)
(* Proofs about SessionRegistry, for every number of connections, agent    *)
(* ids and sessions.  TypeOK, ContextsAgree and NoDeafSession together are *)
(* inductive: the error handler erases the right session because contexts  *)
(* and sessions_ agree.                                                    *)
(***************************************************************************)
EXTENDS SessionRegistry, FiniteSetTheorems, SequenceTheorems, TLAPS

\* What a registered session's entry in sessions_ says about the session.
LEMMA EntryType ==
    ASSUME TypeOK, NEW k \in DOMAIN sessions
    PROVE  /\ k \in AgentIds
           /\ sessions[k] \in 1..Len(session)
           /\ session[sessions[k]] \in Session
           /\ session[sessions[k]].conn \in Conns
<1>1. sessions[k] \in 1..Len(session) /\ k \in AgentIds
  BY DEF TypeOK
<1>2. session[sessions[k]] \in Session
  BY <1>1, ElementOfSeq DEF TypeOK
<1> QED
  BY <1>1, <1>2 DEF Session

\* The entries an error handler or a health check leaves are entries that were there.
LEMMA RestrictEntries ==
    ASSUME NEW f, NEW S \in SUBSET DOMAIN f
    PROVE  /\ DOMAIN Restrict(f, S) = S
           /\ \A k \in S : Restrict(f, S)[k] = f[k]
  BY DEF Restrict

\* What OnError leaves of sessions_: everything, or all but the connection's session.
LEMMA OnErrorEntries ==
    ASSUME NEW c \in Conns, OnError(c)
    PROVE  /\ DOMAIN sessions' \subseteq DOMAIN sessions
           /\ \A k \in DOMAIN sessions' : sessions'[k] = sessions[k]
           /\ \A k \in DOMAIN sessions :
                  k \in DOMAIN sessions' <=> ~(Registered(c) /\ k = session[ctx[c]].agent /\ k # 0)
<1> DEFINE d == session[ctx[c]].agent
           S == DOMAIN sessions \ {d}
<1>1. CASE Registered(c) /\ d # 0
  <2>1. sessions' = Restrict(sessions, S)
    BY <1>1 DEF OnError
  <2>2. DOMAIN sessions' = S /\ \A k \in S : sessions'[k] = sessions[k]
    BY <2>1, RestrictEntries
  <2> QED
    BY <1>1, <2>2
<1>2. CASE ~(Registered(c) /\ d # 0)
  BY <1>2 DEF OnError
<1> QED
  BY <1>1, <1>2

\* Init establishes the invariant: there are no sessions.
LEMMA InitAgree == Init => TypeOK /\ ContextsAgree /\ NoDeafSession
<1> SUFFICES ASSUME Init PROVE TypeOK /\ ContextsAgree /\ NoDeafSession
  OBVIOUS
<1>1. session \in Seq(Session) /\ Len(session) = 0
  BY DEF Init
<1>2. DOMAIN sessions = {}
  BY DEF Init
<1>3. sessions \in [DOMAIN sessions -> 1..Len(session)]
  BY <1>2 DEF Init
<1>4. ctx \in [Conns -> 0..Len(session)]
  BY <1>1 DEF Init
<1>5. /\ socket \in [Conns -> {"none", "open", "closed"}] /\ reading \in [Conns -> Reading]
      /\ write_failed \in [Conns -> BOOLEAN]
  BY DEF Init, Reading
<1>6. /\ accepting \in {"armed", "queued", "off"} /\ timer \in {"armed", "queued", "off"}
      /\ closing \subseteq Conns /\ active_connections \in Int
  BY DEF Init
<1>7. is_shutting_down \in BOOLEAN
  BY DEF Init
<1>8. TypeOK
  BY <1>1, <1>2, <1>3, <1>4, <1>5, <1>6, <1>7 DEF TypeOK
<1> QED
  BY <1>2, <1>8 DEF ContextsAgree, NoDeafSession

\* Losing sessions_ entries, and changing nothing else of what the invariant reads
\* except the connections' states, keeps the types and the agreement.
LEMMA FewerSessions ==
    ASSUME TypeOK, ContextsAgree, ctx' = ctx, session' = session,
           DOMAIN sessions' \subseteq DOMAIN sessions,
           \A k \in DOMAIN sessions' : sessions'[k] = sessions[k],
           sessions' = [k \in DOMAIN sessions' |-> sessions'[k]]
    PROVE  /\ sessions' \in [DOMAIN sessions' -> 1..Len(session')]
           /\ DOMAIN sessions' \subseteq AgentIds
           /\ ContextsAgree'
<1>1. \A k \in DOMAIN sessions' : sessions'[k] \in 1..Len(session')
  BY EntryType
<1> QED
  BY <1>1 DEF TypeOK, ContextsAgree

-----------------------------------------------------------------------------

\* The parts of TypeOK, ContextsAgree and NoDeafSession that an action must keep.
LoopType == /\ accepting \in {"armed", "queued", "off"}
            /\ timer \in {"armed", "queued", "off"}
            /\ is_shutting_down \in BOOLEAN
            /\ active_connections \in Int
LinkType == /\ socket \in [Conns -> {"none", "open", "closed"}]
            /\ reading \in [Conns -> Reading]
            /\ write_failed \in [Conns -> BOOLEAN]
            /\ closing \subseteq Conns
TableType == /\ session \in Seq(Session)
             /\ ctx \in [Conns -> 0..Len(session)]
             /\ DOMAIN sessions \subseteq AgentIds
             /\ sessions \in [DOMAIN sessions -> 1..Len(session)]

\* TypeOK is the conjunction of its three parts.
LEMMA TypeParts == TypeOK <=> LoopType /\ LinkType /\ TableType
  BY DEF TypeOK, LoopType, LinkType, TableType

\* No step corrupts the io_context's operations or the metric.
LEMMA NextLoopType == TypeOK /\ [Next]_vars => LoopType'
<1> SUFFICES ASSUME TypeOK, [Next]_vars PROVE LoopType'
  OBVIOUS
<1> USE DEF LoopType
<1>1. Rearmed \in {"armed", "queued", "off"}
  BY DEF Rearmed
<1>2. ASSUME NEW c \in Conns, Accept(c) PROVE LoopType'
  BY <1>1, <1>2 DEF TypeOK, Accept
<1>3. ASSUME NEW c \in Conns, NEW id \in AgentIds, Register(c, id) PROVE LoopType'
  BY <1>3 DEF TypeOK, Register, loopVars
<1>4. ASSUME NEW c \in Conns, RefuseMessage(c) \/ Heartbeat(c) \/ OtherMessage(c) PROVE LoopType'
  BY <1>4 DEF TypeOK, RefuseMessage, Heartbeat, OtherMessage, loopVars
<1>5. ASSUME NEW c \in Conns, ReadError(c) \/ WriteError(c) PROVE LoopType'
  BY <1>5 DEF TypeOK, ReadError, WriteError, OnError, loopVars
<1>6. ASSUME NEW c \in Conns, CloseRuns(c) PROVE LoopType'
  BY <1>6 DEF TypeOK, CloseRuns, loopVars
<1>7. ASSUME NEW s, HeartbeatExpires(s) PROVE LoopType'
  BY <1>7 DEF TypeOK, HeartbeatExpires, loopVars
<1>8. CASE HealthCheck
  <2> DEFINE U == {k \in DOMAIN sessions : ~Healthy(sessions[k])}
  <2>0. IsFiniteSet(U)
    <3>1. U \subseteq AgentIds
      BY DEF TypeOK
    <3> QED
      BY <3>1, RegistryAssumption, FS_Subset
  <2>1. Cardinality(U) \in Int
    BY <2>0, FS_CardinalityType
  <2> QED
    BY <1>1, <1>8, <2>1 DEF TypeOK, HealthCheck
<1>9. CASE Shutdown
  BY <1>9 DEF TypeOK, Shutdown
<1>10. CASE UNCHANGED vars
  BY <1>10 DEF TypeOK, vars
<1> QED
  BY <1>2, <1>3, <1>4, <1>5, <1>6, <1>7, <1>8, <1>9, <1>10 DEF Next

\* No step corrupts the connections' states, and only existing connections close.
LEMMA NextLinkType == TypeOK /\ ContextsAgree /\ [Next]_vars => LinkType'
<1> SUFFICES ASSUME TypeOK, ContextsAgree, [Next]_vars PROVE LinkType'
  OBVIOUS
<1> USE DEF LinkType
<1>1. ASSUME NEW c \in Conns, TakeMessage(c) PROVE reading' \in [Conns -> Reading]
  BY <1>1 DEF TypeOK, TakeMessage, Reading
<1>2. ASSUME NEW c \in Conns, Accept(c) PROVE LinkType'
  BY <1>2 DEF TypeOK, Accept, Reading
<1>3. ASSUME NEW c \in Conns, NEW id \in AgentIds, Register(c, id) PROVE LinkType'
  BY <1>1, <1>3 DEF TypeOK, Register
<1>4. ASSUME NEW c \in Conns, RefuseMessage(c) \/ Heartbeat(c) \/ OtherMessage(c) PROVE LinkType'
  BY <1>1, <1>4 DEF TypeOK, RefuseMessage, Heartbeat, OtherMessage
<1>5. ASSUME NEW c \in Conns, ReadError(c) PROVE LinkType'
  BY <1>5 DEF TypeOK, ReadError, Reading
<1>6. ASSUME NEW c \in Conns, WriteError(c) PROVE LinkType'
  BY <1>6 DEF TypeOK, WriteError
<1>7. ASSUME NEW c \in Conns, CloseRuns(c) PROVE LinkType'
  BY <1>7 DEF TypeOK, CloseRuns, Reading
<1>8. ASSUME NEW s, HeartbeatExpires(s) PROVE LinkType'
  BY <1>8 DEF TypeOK, HeartbeatExpires
<1>9. CASE HealthCheck
  <2>1. \A k \in DOMAIN sessions : session[sessions[k]].conn \in Conns
    BY EntryType
  <2>2. closing' \subseteq Conns
    BY <1>9, <2>1 DEF TypeOK, HealthCheck
  <2> QED
    BY <1>9, <2>2 DEF TypeOK, HealthCheck
<1>10. CASE Shutdown
  <2>1. \A k \in DOMAIN sessions : session[sessions[k]].conn \in Conns
    BY EntryType
  <2>2. closing' \subseteq Conns
    BY <1>10, <2>1 DEF TypeOK, Shutdown, Range
  <2> QED
    BY <1>10, <2>2 DEF TypeOK, Shutdown
<1>11. CASE UNCHANGED vars
  BY <1>11 DEF TypeOK, vars
<1> QED
  BY <1>2, <1>3, <1>4, <1>5, <1>6, <1>7, <1>8, <1>9, <1>10, <1>11 DEF Next

\* A session that is registered on c is the one c's context leads to.
LEMMA OneSessionPerConnection ==
    ASSUME TypeOK, ContextsAgree, NEW k \in DOMAIN sessions, NEW c \in Conns,
           session[sessions[k]].conn = c
    PROVE  Registered(c) /\ ctx[c] = sessions[k] /\ session[ctx[c]].agent = k
<1>1. ctx[c] = sessions[k] /\ session[sessions[k]].agent = k
  BY DEF ContextsAgree
<1>2. sessions[k] \in Range(sessions) /\ sessions[k] # 0
  BY EntryType DEF Range
<1> QED
  BY <1>1, <1>2 DEF Registered, Alive

\* A new session, registered by HELLO, is found under its id and from its connection;
\* the connection had no session, so no other entry is disturbed.
LEMMA RegisterAgrees ==
    ASSUME TypeOK, ContextsAgree, NEW c \in Conns, NEW id \in AgentIds, Register(c, id)
    PROVE  TableType' /\ ContextsAgree'
<1> DEFINE n == Len(session) + 1
           new == [agent |-> id, conn |-> c, fresh |-> TRUE]
<1>0. Len(session) \in Nat /\ session \in Seq(Session)
  BY DEF TypeOK
<1>1. new \in Session
  BY DEF Session
<1>2. /\ session' \in Seq(Session) /\ Len(session') = n
      /\ \A s \in 1..Len(session) : session'[s] = session[s]
      /\ session'[n] = new
  BY <1>0, <1>1, AppendProperties DEF Register
<1>3. /\ DOMAIN sessions' = DOMAIN sessions \union {id}
      /\ sessions'[id] = n
      /\ \A k \in DOMAIN sessions : k # id => sessions'[k] = sessions[k]
      /\ sessions' = [k \in DOMAIN sessions' |-> sessions'[k]]
  BY DEF Register
<1>4. ctx' \in [Conns -> 0..Len(session')] /\ ctx'[c] = n
  BY <1>0, <1>2 DEF TypeOK, Register
<1>5. \A k \in DOMAIN sessions' : sessions'[k] \in 1..Len(session')
  BY <1>0, <1>2, <1>3, EntryType
<1>6. TableType'
  <2>1. DOMAIN sessions' \subseteq AgentIds
    BY <1>3 DEF TypeOK
  <2>2. sessions' \in [DOMAIN sessions' -> 1..Len(session')]
    BY <1>3, <1>5
  <2> QED
    BY <1>2, <1>4, <2>1, <2>2 DEF TableType
<1>7. ASSUME NEW k \in DOMAIN sessions'
      PROVE  session'[sessions'[k]].agent = k /\ ctx'[session'[sessions'[k]].conn] = sessions'[k]
  <2>1. CASE k = id
    BY <1>2, <1>3, <1>4, <2>1
  <2>2. CASE k # id
    <3>1. k \in DOMAIN sessions /\ sessions'[k] = sessions[k]
      BY <1>3, <2>2
    <3>2. session'[sessions'[k]] = session[sessions[k]] /\ session[sessions[k]].conn \in Conns
      BY <1>2, <3>1, EntryType
    <3>3. session[sessions[k]].conn # c
      BY <3>1, OneSessionPerConnection DEF Register
    <3>4. ctx'[session[sessions[k]].conn] = ctx[session[sessions[k]].conn]
      BY <3>2, <3>3 DEF TypeOK, Register
    <3> QED
      BY <3>1, <3>2, <3>4 DEF ContextsAgree
  <2> QED
    BY <2>1, <2>2
<1> QED
  BY <1>6, <1>7 DEF ContextsAgree

\* A heartbeat, or its absence, changes a session's freshness and nothing else of it.
LEMMA FreshChanges ==
    ASSUME TypeOK, NEW s \in 1..Len(session), NEW b \in BOOLEAN,
           session' = [session EXCEPT ![s].fresh = b]
    PROVE  /\ session' \in Seq(Session) /\ Len(session') = Len(session)
           /\ \A t \in 1..Len(session) : /\ session'[t].agent = session[t].agent
                                         /\ session'[t].conn = session[t].conn
<1> DEFINE e == [session[s] EXCEPT !.fresh = b]
<1>1. session \in Seq(Session) /\ session[s] \in Session
  BY ElementOfSeq DEF TypeOK
<1>2. e \in Session /\ e.agent = session[s].agent /\ e.conn = session[s].conn
  BY <1>1 DEF Session
<1>3. session' = [session EXCEPT ![s] = e]
  OBVIOUS
<1> HIDE DEF e
<1>4. session' \in Seq(Session) /\ Len(session') = Len(session)
  BY <1>1, <1>2, <1>3, ExceptSeq
<1>5. \A t \in 1..Len(session) : session'[t] = IF t = s THEN e ELSE session[t]
  BY <1>1, <1>3, LenProperties
<1> QED
  BY <1>2, <1>4, <1>5

\* The table part of the invariant when only freshness changed.
LEMMA FreshKeeps ==
    ASSUME TypeOK, ContextsAgree, NEW s \in 1..Len(session), NEW b \in BOOLEAN,
           session' = [session EXCEPT ![s].fresh = b], ctx' = ctx, sessions' = sessions
    PROVE  TableType' /\ ContextsAgree'
<1>1. /\ session' \in Seq(Session) /\ Len(session') = Len(session)
      /\ \A t \in 1..Len(session) : /\ session'[t].agent = session[t].agent
                                    /\ session'[t].conn = session[t].conn
  BY FreshChanges
<1>2. TableType'
  BY <1>1 DEF TypeOK, TableType
<1>3. \A k \in DOMAIN sessions : sessions[k] \in 1..Len(session)
  BY EntryType
<1> QED
  BY <1>1, <1>2, <1>3 DEF ContextsAgree

\* Every step keeps sessions_, the sessions and the contexts in agreement.
LEMMA NextAgree == TypeOK /\ ContextsAgree /\ [Next]_vars => TableType' /\ ContextsAgree'
<1> SUFFICES ASSUME TypeOK, ContextsAgree, [Next]_vars PROVE TableType' /\ ContextsAgree'
  OBVIOUS
<1>1. ASSUME ctx' = ctx, session' = session, sessions' = sessions
      PROVE  TableType' /\ ContextsAgree'
  BY <1>1 DEF TypeOK, TableType, ContextsAgree
<1>2. ASSUME NEW c \in Conns, ctx' = ctx, session' = session, OnError(c)
      PROVE  TableType' /\ ContextsAgree'
  <2>1. sessions' = [k \in DOMAIN sessions' |-> sessions'[k]]
    <3>1. sessions = [k \in DOMAIN sessions |-> sessions[k]]
      BY DEF TypeOK
    <3> QED
      BY <1>2, <3>1 DEF OnError, Restrict
  <2>2. /\ DOMAIN sessions' \subseteq DOMAIN sessions
        /\ \A k \in DOMAIN sessions' : sessions'[k] = sessions[k]
    BY <1>2, OnErrorEntries
  <2> QED
    BY <1>2, <2>1, <2>2, FewerSessions DEF TypeOK, TableType
<1>3. ASSUME NEW c \in Conns, Accept(c) \/ RefuseMessage(c) \/ OtherMessage(c) \/ CloseRuns(c)
      PROVE  TableType' /\ ContextsAgree'
  BY <1>1, <1>3 DEF Accept, RefuseMessage, OtherMessage, CloseRuns
<1>4. ASSUME NEW c \in Conns, NEW id \in AgentIds, Register(c, id)
      PROVE  TableType' /\ ContextsAgree'
  BY <1>4, RegisterAgrees
<1>5. ASSUME NEW c \in Conns, Heartbeat(c) PROVE TableType' /\ ContextsAgree'
  <2>1. ctx[c] \in 1..Len(session)
    BY <1>5 DEF Heartbeat, Registered, TypeOK
  <2> QED
    BY <1>5, <2>1, FreshKeeps DEF Heartbeat
<1>6. ASSUME NEW c \in Conns, ReadError(c) \/ WriteError(c) PROVE TableType' /\ ContextsAgree'
  BY <1>2, <1>6 DEF ReadError, WriteError
<1>7. ASSUME NEW s \in 1..MaxSessions, HeartbeatExpires(s) PROVE TableType' /\ ContextsAgree'
  BY <1>7, FreshKeeps DEF HeartbeatExpires
<1>8. CASE HealthCheck
  <2> DEFINE healthy == DOMAIN sessions \ {k \in DOMAIN sessions : ~Healthy(sessions[k])}
  <2>1. sessions' = Restrict(sessions, healthy) /\ ctx' = ctx /\ session' = session
    BY <1>8 DEF HealthCheck
  <2>2. DOMAIN sessions' = healthy /\ \A k \in healthy : sessions'[k] = sessions[k]
    BY <2>1, RestrictEntries
  <2>3. sessions' = [k \in DOMAIN sessions' |-> sessions'[k]]
    BY <2>1 DEF Restrict
  <2> QED
    BY <2>1, <2>2, <2>3, FewerSessions DEF TypeOK, TableType
<1>9. CASE Shutdown \/ UNCHANGED vars
  BY <1>1, <1>9 DEF Shutdown, vars
<1> QED
  BY <1>3, <1>4, <1>5, <1>6, <1>7, <1>8, <1>9 DEF Next

\* No step leaves a session on a connection whose reads ended: the error handler that
\* ends them finds the session through the context and erases it.
LEMMA NextNoDeaf ==
    TypeOK /\ ContextsAgree /\ NoDeafSession /\ [Next]_vars => NoDeafSession'
<1> SUFFICES ASSUME TypeOK, ContextsAgree, NoDeafSession, [Next]_vars,
                    NEW k \in DOMAIN sessions' \ {0}
             PROVE  reading'[session'[sessions'[k]].conn] # "off"
  BY DEF NoDeafSession
<1> DEFINE Same == k \in DOMAIN sessions /\ sessions'[k] = sessions[k]
           c0   == session[sessions[k]].conn
<1>1. ASSUME Same, session'[sessions[k]].conn = c0, reading'[c0] = "off" => reading[c0] = "off"
      PROVE  reading'[session'[sessions'[k]].conn] # "off"
  BY <1>1 DEF NoDeafSession
<1>2. ASSUME NEW c \in Conns, TakeMessage(c), NEW d \in Conns
      PROVE  (reading'[d] = "off" => reading[d] = "off") /\ reading'[c] # "off"
  BY <1>2 DEF TakeMessage, TypeOK
<1>3. ASSUME NEW c \in Conns, Accept(c) PROVE reading'[session'[sessions'[k]].conn] # "off"
  BY <1>1, <1>3, EntryType DEF Accept, TypeOK
<1>4. ASSUME NEW c \in Conns, NEW id \in AgentIds, Register(c, id)
      PROVE  reading'[session'[sessions'[k]].conn] # "off"
  <2>0. session \in Seq(Session) /\ Len(session) \in Nat
    BY DEF TypeOK
  <2>1. CASE k = id
    <3>1. sessions'[k] = Len(session) + 1
      BY <1>4, <2>1 DEF Register
    <3>2. session'[Len(session) + 1] = [agent |-> id, conn |-> c, fresh |-> TRUE]
      BY <1>4, <2>0, AppendProperties DEF Register, Session
    <3> QED
      BY <1>2, <1>4, <3>1, <3>2 DEF Register
  <2>2. CASE k # id
    <3>1. Same
      BY <1>4, <2>2 DEF Register
    <3>2. sessions[k] \in 1..Len(session) /\ c0 \in Conns
      BY <3>1, EntryType
    <3>3. session'[sessions[k]] = session[sessions[k]]
      BY <1>4, <2>0, <3>2 DEF Register
    <3> QED
      BY <1>1, <1>2, <1>4, <3>1, <3>2, <3>3 DEF Register
  <2> QED
    BY <2>1, <2>2
<1>5. ASSUME NEW c \in Conns, RefuseMessage(c) \/ OtherMessage(c)
      PROVE  reading'[session'[sessions'[k]].conn] # "off"
  <2>1. Same /\ session' = session /\ TakeMessage(c)
    BY <1>5 DEF RefuseMessage, OtherMessage
  <2>2. c0 \in Conns
    BY <2>1, EntryType
  <2> QED
    BY <1>1, <1>2, <2>1, <2>2
<1>6. ASSUME NEW c \in Conns, Heartbeat(c) PROVE reading'[session'[sessions'[k]].conn] # "off"
  <2>1. Same /\ TakeMessage(c)
    BY <1>6 DEF Heartbeat
  <2>2. ctx[c] \in 1..Len(session)
    BY <1>6 DEF Heartbeat, Registered, TypeOK
  <2>3. sessions[k] \in 1..Len(session) /\ c0 \in Conns
    BY <2>1, EntryType
  <2>4. session'[sessions[k]].conn = c0
    BY <1>6, <2>2, <2>3, FreshChanges DEF Heartbeat
  <2> QED
    BY <1>1, <1>2, <2>1, <2>3, <2>4
<1>7. ASSUME NEW c \in Conns, OnError(c), session' = session, reading'[c0] = "off" => (reading[c0] = "off" \/ c0 = c)
      PROVE  reading'[session'[sessions'[k]].conn] # "off"
  <2>1. Same
    BY <1>7, OnErrorEntries
  <2>2. CASE c0 = c
    <3>1. Registered(c) /\ session[ctx[c]].agent = k
      BY <2>1, <2>2, OneSessionPerConnection
    <3>2. k \notin DOMAIN sessions'
      BY <1>7, <2>1, <3>1, OnErrorEntries
    <3> QED
      BY <3>2
  <2>3. CASE c0 # c
    BY <1>1, <1>7, <2>1, <2>3
  <2> QED
    BY <2>2, <2>3
<1>8. ASSUME NEW c \in Conns, ReadError(c) PROVE reading'[session'[sessions'[k]].conn] # "off"
  <2>1. k \in DOMAIN sessions
    BY <1>8, OnErrorEntries DEF ReadError
  <2>2. c0 \in Conns
    BY <2>1, EntryType
  <2>3. reading'[c0] = "off" => (reading[c0] = "off" \/ c0 = c)
    BY <1>8, <2>2 DEF ReadError, TypeOK
  <2> QED
    BY <1>7, <1>8, <2>3 DEF ReadError
<1>9. ASSUME NEW c \in Conns, WriteError(c) PROVE reading'[session'[sessions'[k]].conn] # "off"
  BY <1>7, <1>9 DEF WriteError
<1>10. ASSUME NEW c \in Conns, CloseRuns(c) PROVE reading'[session'[sessions'[k]].conn] # "off"
  <2>1. Same /\ session' = session
    BY <1>10 DEF CloseRuns
  <2>2. c0 \in Conns
    BY <2>1, EntryType
  <2>3. reading'[c0] = "off" => reading[c0] = "off"
    BY <1>10, <2>2 DEF CloseRuns, TypeOK
  <2> QED
    BY <1>1, <2>1, <2>3
<1>11. ASSUME NEW s \in 1..MaxSessions, HeartbeatExpires(s)
       PROVE  reading'[session'[sessions'[k]].conn] # "off"
  <2>1. Same /\ reading' = reading
    BY <1>11 DEF HeartbeatExpires
  <2>2. sessions[k] \in 1..Len(session)
    BY <2>1, EntryType
  <2>3. session'[sessions[k]].conn = c0
    BY <1>11, <2>2, FreshChanges DEF HeartbeatExpires
  <2> QED
    BY <1>1, <2>1, <2>3
<1>12. CASE HealthCheck
  <2> DEFINE healthy == DOMAIN sessions \ {j \in DOMAIN sessions : ~Healthy(sessions[j])}
  <2>1. sessions' = Restrict(sessions, healthy) /\ session' = session /\ reading' = reading
    BY <1>12 DEF HealthCheck
  <2>2. Same
    BY <2>1, RestrictEntries
  <2> QED
    BY <1>1, <2>1, <2>2
<1>13. CASE Shutdown \/ UNCHANGED vars
  BY <1>1, <1>13 DEF Shutdown, vars
<1> QED
  BY <1>3, <1>4, <1>5, <1>6, <1>8, <1>9, <1>10, <1>11, <1>12, <1>13 DEF Next

-----------------------------------------------------------------------------

\* The three invariants together are inductive.
LEMMA RegistryInvariant == Spec => [](TypeOK /\ ContextsAgree /\ NoDeafSession)
<1>1. TypeOK /\ ContextsAgree /\ NoDeafSession /\ [Next]_vars
        => (TypeOK /\ ContextsAgree /\ NoDeafSession)'
  <2>1. (LoopType /\ LinkType /\ TableType)' => TypeOK'
    BY DEF TypeOK, LoopType, LinkType, TableType
  <2> QED
    BY <2>1, NextLoopType, NextLinkType, NextAgree, NextNoDeaf
<1> QED
  BY <1>1, InitAgree, PTL DEF Spec

\* SessionRegistry is type-correct: sessions_ and the contexts only name sessions that
\* exist, and only accepted connections are ever closed.
THEOREM RegistryTypeCorrect == Spec => []TypeOK
  BY RegistryInvariant, PTL

\* The connection a registered session sends on leads back to that session, whatever
\* agents announce, reconnect or share an id.
THEOREM RegistryContextsAgree == Spec => []ContextsAgree
  BY RegistryInvariant, PTL

\* No session with an id other than 0 is registered on a connection whose reads ended.
THEOREM RegistryHasNoDeafSession == Spec => []NoDeafSession
  BY RegistryInvariant, PTL

-----------------------------------------------------------------------------

\* The context of a connection names a session that was created on that connection.
OwnContext == \A c \in Conns : ctx[c] # 0 => session[ctx[c]].conn = c

\* HELLO sets the context to the session it creates, and a session keeps its connection.
LEMMA NextOwnContext == TypeOK /\ OwnContext /\ [Next]_vars => OwnContext'
<1> SUFFICES ASSUME TypeOK, OwnContext, [Next]_vars, NEW d \in Conns, ctx'[d] # 0
             PROVE  session'[ctx'[d]].conn = d
  BY DEF OwnContext
<1>0. session \in Seq(Session) /\ Len(session) \in Nat /\ ctx[d] \in 0..Len(session)
  BY DEF TypeOK
<1>1. ASSUME ctx' = ctx, session' = session PROVE session'[ctx'[d]].conn = d
  BY <1>1 DEF OwnContext
<1>2. ASSUME NEW s \in 1..Len(session), NEW b \in BOOLEAN,
             session' = [session EXCEPT ![s].fresh = b], ctx' = ctx
      PROVE  session'[ctx'[d]].conn = d
  <2>1. ctx[d] \in 1..Len(session)
    BY <1>0, <1>2
  <2> QED
    BY <1>2, <2>1, FreshChanges DEF OwnContext
<1>3. ASSUME NEW c \in Conns, NEW id \in AgentIds, Register(c, id)
      PROVE  session'[ctx'[d]].conn = d
  <2>1. CASE d = c
    <3>1. ctx'[d] = Len(session) + 1
      BY <1>3, <2>1 DEF Register, TypeOK
    <3>2. session'[Len(session) + 1] = [agent |-> id, conn |-> c, fresh |-> TRUE]
      BY <1>0, <1>3, AppendProperties DEF Register, Session
    <3> QED
      BY <2>1, <3>1, <3>2
  <2>2. CASE d # c
    <3>1. ctx'[d] = ctx[d] /\ ctx[d] \in 1..Len(session)
      BY <1>0, <1>3, <2>2 DEF Register, TypeOK
    <3>2. session'[ctx[d]] = session[ctx[d]]
      BY <1>0, <1>3, <3>1 DEF Register
    <3> QED
      BY <3>1, <3>2 DEF OwnContext
  <2> QED
    BY <2>1, <2>2
<1>4. ASSUME NEW c \in Conns, Heartbeat(c) PROVE session'[ctx'[d]].conn = d
  <2>1. ctx[c] \in 1..Len(session)
    BY <1>4 DEF Heartbeat, Registered, TypeOK
  <2> QED
    BY <1>2, <1>4, <2>1 DEF Heartbeat
<1>5. ASSUME NEW s \in 1..MaxSessions, HeartbeatExpires(s) PROVE session'[ctx'[d]].conn = d
  BY <1>2, <1>5 DEF HeartbeatExpires
<1>6. ASSUME NEW c \in Conns,
             \/ Accept(c) \/ RefuseMessage(c) \/ OtherMessage(c)
             \/ ReadError(c) \/ WriteError(c) \/ CloseRuns(c)
      PROVE  session'[ctx'[d]].conn = d
  BY <1>1, <1>6 DEF Accept, RefuseMessage, OtherMessage, ReadError, WriteError, CloseRuns
<1>7. CASE HealthCheck \/ Shutdown \/ UNCHANGED vars
  BY <1>1, <1>7 DEF HealthCheck, Shutdown, vars
<1> QED
  BY <1>3, <1>4, <1>5, <1>6, <1>7 DEF Next

\* One step of OnlyOwnErrors.
LEMMA LeavingIsOwn ==
    ASSUME TypeOK, ContextsAgree, OwnContext, [Next]_vars, NEW k \in DOMAIN sessions,
           k \notin DOMAIN sessions' \/ sessions'[k] # sessions[k]
    PROVE  LET c == session[sessions[k]].conn
           IN  \/ k \in DOMAIN sessions' /\ sessions'[k] = Len(session')
               \/ ~Healthy(sessions[k]) /\ reading' = reading /\ write_failed' = write_failed
               \/ reading'[c] # reading[c] /\ reading'[c] = "off"
               \/ write_failed'[c] # write_failed[c]
<1> DEFINE c0 == session[sessions[k]].conn
           Why ==
               \/ k \in DOMAIN sessions' /\ sessions'[k] = Len(session')
               \/ ~Healthy(sessions[k]) /\ reading' = reading /\ write_failed' = write_failed
               \/ reading'[c0] # reading[c0] /\ reading'[c0] = "off"
               \/ write_failed'[c0] # write_failed[c0]
<1> SUFFICES Why
  OBVIOUS
<1>1. sessions' # sessions
  OBVIOUS
<1>2. ASSUME NEW d \in Conns, OnError(d) PROVE c0 = d
  <2>1. Registered(d) /\ k = session[ctx[d]].agent
    BY <1>2, OnErrorEntries
  <2>2. PICK j \in DOMAIN sessions : sessions[j] = ctx[d]
    BY <2>1 DEF Registered, Alive, Range
  <2>3. j = k
    BY <2>1, <2>2 DEF ContextsAgree
  <2> QED
    BY <2>1, <2>2, <2>3 DEF OwnContext, Registered
<1>3. ASSUME NEW d \in Conns, NEW id \in AgentIds, Register(d, id) PROVE Why
  <2>1. session \in Seq(Session) /\ Len(session') = Len(session) + 1
    <3>1. session \in Seq(Session) /\ [agent |-> id, conn |-> d, fresh |-> TRUE] \in Session
      BY DEF TypeOK, Session
    <3> QED
      BY <1>3, <3>1, AppendProperties DEF Register
  <2>2. k \in DOMAIN sessions' /\ (k # id => sessions'[k] = sessions[k])
    BY <1>3 DEF Register
  <2>3. k = id
    BY <2>2
  <2>4. sessions'[k] = Len(session')
    BY <1>3, <2>1, <2>2, <2>3 DEF Register
  <2> QED
    BY <2>2, <2>4
<1>4. ASSUME NEW d \in Conns, ReadError(d) PROVE Why
  <2>1. c0 = d
    BY <1>2, <1>4 DEF ReadError
  <2> QED
    BY <1>4, <2>1 DEF ReadError, TypeOK
<1>5. ASSUME NEW d \in Conns, WriteError(d) PROVE Why
  <2>1. c0 = d
    BY <1>2, <1>5 DEF WriteError
  <2>2. write_failed'[d] = TRUE /\ write_failed[d] = FALSE
    BY <1>5 DEF WriteError, TypeOK
  <2> QED
    BY <2>1, <2>2
<1>6. CASE HealthCheck
  <2> DEFINE healthy == DOMAIN sessions \ {j \in DOMAIN sessions : ~Healthy(sessions[j])}
  <2>1. /\ sessions' = Restrict(sessions, healthy)
        /\ reading' = reading /\ write_failed' = write_failed
    BY <1>6 DEF HealthCheck
  <2>2. k \notin healthy
    BY <2>1, RestrictEntries
  <2> QED
    BY <2>1, <2>2
<1>7. ASSUME NEW d \in Conns,
             Accept(d) \/ RefuseMessage(d) \/ Heartbeat(d) \/ OtherMessage(d) \/ CloseRuns(d)
      PROVE  Why
  BY <1>1, <1>7 DEF Accept, RefuseMessage, Heartbeat, OtherMessage, CloseRuns
<1>8. ASSUME NEW s \in 1..MaxSessions, HeartbeatExpires(s) PROVE Why
  BY <1>1, <1>8 DEF HeartbeatExpires
<1>9. CASE Shutdown \/ UNCHANGED vars
  BY <1>1, <1>9 DEF Shutdown, vars
<1> HIDE DEF Why
<1> QED
  BY <1>3, <1>4, <1>5, <1>6, <1>7, <1>8, <1>9 DEF Next

\* A session leaves sessions_ only by replacement, by an unhealthy verdict or by an
\* error of its own connection: never by the late error of another one.
THEOREM RegistryOnlyOwnErrors == Spec => OnlyOwnErrors
<1> DEFINE Step ==
      \A k \in DOMAIN sessions :
          LET s == sessions[k]
              c == session[s].conn
          IN  k \notin DOMAIN sessions' \/ sessions'[k] # s
              => \/ k \in DOMAIN sessions' /\ sessions'[k] = Len(session')
                 \/ ~Healthy(s) /\ reading' = reading /\ write_failed' = write_failed
                 \/ reading'[c] # reading[c] /\ reading'[c] = "off"
                 \/ write_failed'[c] # write_failed[c]
<1>1. Init => OwnContext
  BY DEF Init, OwnContext
<1>2. TypeOK /\ ContextsAgree /\ OwnContext /\ [Next]_vars => Step
  BY LeavingIsOwn
<1>3. TypeOK /\ ContextsAgree /\ OwnContext /\ [Next]_vars => [Step]_vars
  BY <1>2
<1>4. OnlyOwnErrors <=> [][Step]_vars
  BY DEF OnlyOwnErrors
<1> HIDE DEF Step
<1> QED
  BY <1>1, <1>3, <1>4, NextOwnContext, RegistryInvariant, PTL DEF Spec
=============================================================================
