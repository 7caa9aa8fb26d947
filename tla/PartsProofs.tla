---------------------------- MODULE PartsProofs -----------------------------
(***************************************************************************)
(* The parts of the controller beside the protocol: the accept loop of     *)
(* MetricsServer, the policies of the health check, and, as an instance,   *)
(* the messages of MessagePool.                                            *)
(***************************************************************************)
EXTENDS PolicyLoop, MetricsServer, FiniteSetTheorems, SequenceTheorems, TLAPS

-----------------------------------------------------------------------------
(* MetricsServer.                                                           *)

Handlers == [kind : {"accepted", "written"}, client : Clients] \union [kind : {"failed"}]

\* What is queued are handlers, and no accept is outstanding without a server.
MetricsInv == ready \in Seq(Handlers) /\ AcceptLoop

\* A handler put at the end is the only new one.
LEMMA QueuedAccepts ==
    ASSUME ready \in Seq(Handlers), NEW h \in Handlers, ready' = Append(ready, h)
    PROVE  /\ ready' \in Seq(Handlers)
           /\ ~IsAccept(h) => Accepts' = Accepts
           /\ IsAccept(h) => Accepts' = Accepts \union {Len(ready) + 1}
<1>1. /\ Len(ready) \in Nat /\ DOMAIN ready = 1..Len(ready)
      /\ ready' \in Seq(Handlers) /\ DOMAIN ready' = 1..(Len(ready) + 1)
      /\ \A i \in 1..Len(ready) : ready'[i] = ready[i]
      /\ ready'[Len(ready) + 1] = h
  BY AppendProperties, LenProperties
<1>2. \A i \in 1..(Len(ready) + 1) : i \in 1..Len(ready) \/ i = Len(ready) + 1
  BY <1>1
<1>3. Len(ready) + 1 \notin 1..Len(ready) /\ Len(ready) + 1 \in 1..(Len(ready) + 1)
  BY <1>1
<1>4. 1..Len(ready) \subseteq 1..(Len(ready) + 1)
  BY <1>1
<1> QED
  BY <1>1, <1>2, <1>3, <1>4 DEF Accepts

\* Running the first handler takes it out, and moves the others up.
LEMMA RunAccepts ==
    ASSUME ready \in Seq(Handlers), ready # <<>>, ready' = Tail(ready)
    PROVE  /\ ready' \in Seq(Handlers) /\ Head(ready) = ready[1] /\ 1 \in DOMAIN ready
           /\ \A i : i \in Accepts' <=> i \in Nat \ {0} /\ i + 1 \in Accepts
<1>1. /\ Len(ready) \in Nat /\ Len(ready) # 0 /\ DOMAIN ready = 1..Len(ready)
      /\ ready' \in Seq(Handlers) /\ Len(ready') = Len(ready) - 1
      /\ DOMAIN ready' = 1..(Len(ready) - 1)
      /\ \A i \in 1..(Len(ready) - 1) : ready'[i] = ready[i + 1]
      /\ Head(ready) = ready[1]
  <2>1. /\ Tail(ready) \in Seq(Handlers) /\ Len(Tail(ready)) = Len(ready) - 1
        /\ \A i \in 1..Len(Tail(ready)) : Tail(ready)[i] = ready[i + 1]
        /\ Head(ready) = ready[1]
    BY HeadTailProperties
  <2>2. Len(ready) \in Nat /\ Len(ready) # 0 /\ DOMAIN ready = 1..Len(ready)
    BY EmptySeq, LenProperties
  <2>3. DOMAIN Tail(ready) = 1..Len(Tail(ready))
    BY <2>1, LenProperties
  <2> QED
    BY <2>1, <2>2, <2>3
<1>2. \A i : i \in 1..(Len(ready) - 1) <=> i \in Nat \ {0} /\ i + 1 \in 1..Len(ready)
  BY <1>1
<1> QED
  BY <1>1, <1>2 DEF Accepts

\* The accept loop goes on as long as the server exists, and has one accept.
THEOREM AcceptsGoOn == MetricsSpec => []AcceptLoop
<1> USE DEF AcceptLoop
<1>1. MetricsInit => MetricsInv
  <2> SUFFICES ASSUME MetricsInit PROVE MetricsInv
    OBVIOUS
  <2>1. ready = <<>> /\ alive = TRUE /\ accepting = TRUE
    BY DEF MetricsInit
  <2>2. ready \in Seq(Handlers) /\ DOMAIN ready = {}
    BY <2>1
  <2>3. Accepts = {}
    BY <2>2, Zenon DEF Accepts
  <2> QED
    BY <2>1, <2>2, <2>3 DEF MetricsInv
<1>2. MetricsInv /\ [MetricsNext]_(metricsVars) => MetricsInv'
  <2> SUFFICES ASSUME MetricsInv, [MetricsNext]_(metricsVars) PROVE MetricsInv'
    OBVIOUS
  <2>0. ready \in Seq(Handlers)
    BY DEF MetricsInv
  <2>1. ASSUME NEW c \in Clients, Connect(c) PROVE MetricsInv'
    BY <2>1 DEF Connect, MetricsInv, Accepts
  <2>2. ASSUME NEW c \in Clients, AcceptCompletes(c) PROVE MetricsInv'
    <3> DEFINE h == Accepted(c)
    <3>1. h \in Handlers /\ IsAccept(h)
      BY DEF Handlers, Accepted, IsAccept
    <3>2. /\ accepting /\ accepting' = FALSE /\ ready' = Append(ready, h) /\ alive' = alive
      BY <2>2 DEF AcceptCompletes
    <3> HIDE DEF h
    <3>3. ready' \in Seq(Handlers) /\ Accepts' = Accepts \union {Len(ready) + 1}
      BY <2>0, <3>1, <3>2, QueuedAccepts
    <3> QED
      BY <3>2, <3>3 DEF MetricsInv
  <2>3. ASSUME NEW c \in Clients, WriteCompletes(c) PROVE MetricsInv'
    <3> DEFINE h == Written(c)
    <3>1. h \in Handlers /\ ~IsAccept(h)
      BY DEF Handlers, Written, IsAccept
    <3>2. ready' = Append(ready, h) /\ UNCHANGED <<alive, accepting>>
      BY <2>3 DEF WriteCompletes
    <3> HIDE DEF h
    <3>3. ready' \in Seq(Handlers) /\ Accepts' = Accepts
      BY <2>0, <3>1, <3>2, QueuedAccepts
    <3> QED
      BY <3>2, <3>3 DEF MetricsInv
  <2>4. CASE AcceptFails
    <3> DEFINE h == Failed
    <3>1. h \in Handlers /\ IsAccept(h)
      BY DEF Handlers, Failed, IsAccept
    <3>2. /\ accepting /\ accepting' = FALSE /\ ready' = Append(ready, h) /\ alive' = alive
      BY <2>4 DEF AcceptFails
    <3> HIDE DEF h
    <3>3. ready' \in Seq(Handlers) /\ Accepts' = Accepts \union {Len(ready) + 1}
      BY <2>0, <3>1, <3>2, QueuedAccepts
    <3> QED
      BY <3>2, <3>3 DEF MetricsInv
  <2>5. CASE RunAccept
    <3>1. /\ alive /\ alive' = alive /\ accepting' = TRUE
          /\ ready # <<>> /\ IsAccept(Head(ready)) /\ ready' = Tail(ready)
      BY <2>5 DEF RunAccept, doAccept
    <3>2. /\ ready' \in Seq(Handlers) /\ Head(ready) = ready[1] /\ 1 \in DOMAIN ready
          /\ \A i : i \in Accepts' <=> i \in Nat \ {0} /\ i + 1 \in Accepts
      BY <2>0, <3>1, RunAccepts
    <3>3. 1 \in Accepts
      BY <3>1, <3>2 DEF Accepts
    <3>4. \A i \in Nat \ {0} : i + 1 # 1
      OBVIOUS
    <3>5. Accepts' = {}
      BY <3>2, <3>3, <3>4 DEF MetricsInv
    <3> QED
      BY <3>1, <3>2, <3>5 DEF MetricsInv
  <2>6. CASE RunAcceptDangling
    <3>1. /\ ~alive /\ UNCHANGED <<alive, accepting>>
          /\ ready # <<>> /\ IsAccept(Head(ready)) /\ (ready' = Tail(ready) \/ ready' = <<>>)
      BY <2>6 DEF RunAcceptDangling
    <3>2. CASE ready' = Tail(ready)
      <4>1. /\ ready' \in Seq(Handlers)
            /\ \A i : i \in Accepts' <=> i \in Nat \ {0} /\ i + 1 \in Accepts
        BY <2>0, <3>1, <3>2, RunAccepts
      <4>2. \A i, j \in Accepts' : i = j
        BY <4>1 DEF MetricsInv
      <4> QED
        BY <3>1, <4>1, <4>2 DEF MetricsInv
    <3>3. CASE ready' = <<>>
      <4>1. ready' \in Seq(Handlers) /\ DOMAIN ready' = {}
        BY <3>3
      <4>2. Accepts' = {}
        BY <4>1, Zenon DEF Accepts
      <4> QED
        BY <3>1, <4>1, <4>2 DEF MetricsInv
    <3> QED
      BY <3>1, <3>2, <3>3
  <2>7. CASE RunWritten
    <3>1. /\ UNCHANGED <<alive, accepting>> /\ ready # <<>> /\ Head(ready).kind = "written"
          /\ ready' = Tail(ready)
      BY <2>7 DEF RunWritten
    <3>2. /\ ready' \in Seq(Handlers) /\ Head(ready) = ready[1] /\ 1 \in DOMAIN ready
          /\ \A i : i \in Accepts' <=> i \in Nat \ {0} /\ i + 1 \in Accepts
      BY <2>0, <3>1, RunAccepts
    <3>3. 1 \notin Accepts
      BY <3>1, <3>2 DEF Accepts, IsAccept
    <3>4. \A i \in Accepts : i \in Nat \ {0}
      BY <2>0, LenProperties DEF Accepts
    <3>5. \A i, j \in Accepts' : i = j
      BY <3>2 DEF MetricsInv
    <3>6. Accepts' = {} <=> Accepts = {}
      <4>1. ASSUME NEW i \in Accepts PROVE i - 1 \in Accepts'
        <5>1. i - 1 \in Nat \ {0} /\ (i - 1) + 1 = i
          BY <3>3, <3>4
        <5> QED
          BY <3>2, <5>1
      <4> QED
        BY <3>2, <4>1
    <3> QED
      BY <3>1, <3>2, <3>5, <3>6 DEF MetricsInv
  <2>8. CASE Destroy
    <3> DEFINE h == Failed
    <3>1. h \in Handlers /\ IsAccept(h)
      BY DEF Handlers, Failed, IsAccept
    <3>2. /\ alive /\ alive' = FALSE /\ accepting' = FALSE
          /\ ready' = IF accepting THEN Append(ready, h) ELSE ready
      BY <2>8 DEF Destroy
    <3> HIDE DEF h
    <3>3. CASE accepting
      <4>1. ready' \in Seq(Handlers) /\ Accepts' = Accepts \union {Len(ready) + 1}
        BY <2>0, <3>1, <3>2, <3>3, QueuedAccepts
      <4> QED
        BY <3>2, <3>3, <4>1 DEF MetricsInv
    <3>4. CASE ~accepting
      <4>1. ready' = ready
        BY <3>2, <3>4
      <4>2. Accepts' = Accepts
        BY <4>1 DEF Accepts
      <4> QED
        BY <3>2, <4>1, <4>2 DEF MetricsInv
    <3> QED
      BY <3>3, <3>4
  <2>9. CASE UNCHANGED metricsVars
    BY <2>9 DEF metricsVars, MetricsInv, Accepts
  <2> QED
    BY <2>1, <2>2, <2>3, <2>4, <2>5, <2>6, <2>7, <2>8, <2>9 DEF MetricsNext
<1>3. MetricsInv => AcceptLoop
  BY DEF MetricsInv
<1> QED
  BY <1>1, <1>2, <1>3, PTL DEF MetricsSpec

-----------------------------------------------------------------------------
(* MessagePool.  That a message is its holder's is not inductive alone: a   *)
(* write through one holder must not reach another's object, nor an         *)
(* acquisition take an object that is held, so no object is in two places.  *)

CONSTANTS Holders, Values, NoValue

VARIABLES pool_, made, content, held, written

Pool == INSTANCE MessagePool

PoolType ==
    /\ made \in Nat
    /\ pool_ \in Seq(1..made)
    /\ content \in [1..made -> Values]
    /\ held \in [Holders -> 0..made]
    /\ written \in [Holders -> Values \union {NoValue}]

\* No object is in the pool twice, pooled and held, or held twice.
Apart ==
    /\ \A i, j \in 1..Len(pool_) : pool_[i] = pool_[j] => i = j
    /\ \A i \in 1..Len(pool_), h \in Holders : pool_[i] # held[h]
    /\ \A g, h \in Holders : held[g] = held[h] /\ held[g] # 0 => g = h

PoolInv == PoolType /\ Apart /\ Pool!OwnMessage

\* acquire on an empty pool returns an object nobody has (new).
LEMMA AcquireNewKeepsPoolInv ==
    ASSUME PoolInv, NEW h \in Holders, NEW v \in Values, Pool!AcquireNew(h, v)
    PROVE  PoolInv'
<1>1. PoolType'
  BY DEF PoolInv, PoolType, Pool!AcquireNew, Pool!Empty
<1>2. Apart'
  BY DEF PoolInv, PoolType, Apart, Pool!AcquireNew, Pool!Empty
<1>3. Pool!OwnMessage'
  BY DEF PoolInv, PoolType, Pool!OwnMessage, Pool!Live, Pool!AcquireNew, Pool!Empty
<1> QED
  BY <1>1, <1>2, <1>3 DEF PoolInv

\* pop_back leaves the objects before the last.
LEMMA RestOfPool ==
    ASSUME NEW S, NEW p \in Seq(S), Len(p) # 0
    PROVE  /\ Pool!Rest(p) \in Seq(S) /\ Len(Pool!Rest(p)) = Len(p) - 1
           /\ \A i \in 1..(Len(p) - 1) : Pool!Rest(p)[i] = p[i]
<1> DEFINE n == Len(p)
           rest == SubSeq(p, 1, n - 1)
<1>1. n \in Nat /\ n # 0 /\ n - 1 \in Nat /\ 1 \in Int /\ n - 1 \in Int
  BY LenProperties
<1>2. \A i \in 1..(n - 1) : p[i] \in S
  <2>1. \A i \in 1..n : p[i] \in S
    BY ElementOfSeq
  <2>2. \A i \in 1..(n - 1) : i \in 1..n
    BY <1>1
  <2> QED
    BY <2>1, <2>2
<1> HIDE DEF n
<1>3. /\ rest \in Seq(S)
      /\ Len(rest) = IF 1 <= n - 1 THEN (n - 1) - 1 + 1 ELSE 0
      /\ \A i \in 1..((n - 1) - 1 + 1) : rest[i] = p[1 + i - 1]
  BY <1>1, <1>2, SubSeqProperties
<1> HIDE DEF rest
<1>4. Len(rest) = n - 1
  BY <1>1, <1>3
<1>5. ASSUME NEW i \in 1..(n - 1) PROVE rest[i] = p[i]
  <2>1. i \in 1..((n - 1) - 1 + 1) /\ 1 + i - 1 = i
    BY <1>1
  <2> QED
    BY <1>3, <2>1
<1>6. Pool!Rest(p) = rest
  BY DEF Pool!Rest, rest, n
<1> QED
  BY <1>3, <1>4, <1>5, <1>6 DEF n

\* acquire on a pool with objects takes the last one out of it and constructs it anew.
LEMMA AcquirePooledKeepsPoolInv ==
    ASSUME PoolInv, NEW h \in Holders, NEW v \in Values, Pool!AcquirePooled(h, v)
    PROVE  PoolInv'
<1> DEFINE n == Len(pool_)
           o == pool_[n]
<1>1. n \in Nat /\ n > 0 /\ o \in 1..made
  BY DEF PoolInv, PoolType, Pool!AcquirePooled
<1>2. /\ pool_' \in Seq(1..made) /\ Len(pool_') = n - 1
      /\ \A i \in 1..(n - 1) : pool_'[i] = pool_[i]
  <2>1. pool_' = Pool!Rest(pool_) /\ pool_ \in Seq(1..made) /\ n # 0
    BY <1>1 DEF PoolInv, PoolType, Pool!AcquirePooled
  <2> QED
    BY <2>1, RestOfPool
<1>3. PoolType'
  BY <1>1, <1>2 DEF PoolInv, PoolType, Pool!AcquirePooled, Pool!Constructed
<1>4. Apart'
  BY <1>1, <1>2 DEF PoolInv, PoolType, Apart, Pool!AcquirePooled
<1>5. Pool!OwnMessage'
  BY <1>1 DEF PoolInv, PoolType, Apart, Pool!OwnMessage, Pool!Live, Pool!AcquirePooled, Pool!Constructed
<1> QED
  BY <1>3, <1>4, <1>5 DEF PoolInv

\* A change of a message's fields reaches no other holder.
LEMMA WriteKeepsPoolInv ==
    ASSUME PoolInv, NEW h \in Holders, NEW v \in Values, Pool!Write(h, v)
    PROVE  PoolInv'
<1>1. PoolType'
  BY DEF PoolInv, PoolType, Pool!Write
<1>2. Apart'
  BY DEF PoolInv, Apart, Pool!Write
<1>3. Pool!OwnMessage'
  BY DEF PoolInv, PoolType, Apart, Pool!OwnMessage, Pool!Live, Pool!Write
<1> QED
  BY <1>1, <1>2, <1>3 DEF PoolInv

\* release puts an object into the pool that is not there yet and has no other holder.
LEMMA ReleaseKeepsPoolInv ==
    ASSUME PoolInv, NEW h \in Holders, Pool!Release(h)
    PROVE  PoolInv'
<1> DEFINE n == Len(pool_)
<1>1. /\ n \in Nat /\ held[h] \in 1..made
      /\ pool_' \in Seq(1..made) /\ Len(pool_') = n + 1
      /\ pool_'[n + 1] = held[h]
      /\ \A i \in 1..n : pool_'[i] = pool_[i]
  <2>1. pool_' = Append(pool_, held[h]) /\ pool_ \in Seq(1..made) /\ held[h] \in 1..made
    BY DEF PoolInv, PoolType, Pool!Release, Pool!Released
  <2> QED
    BY <2>1, AppendProperties, LenProperties
<1>2. PoolType'
  BY <1>1 DEF PoolInv, PoolType, Pool!Release
<1>3. Apart'
  <2>1. \A i \in 1..(n + 1) : i \in 1..n \/ i = n + 1
    BY <1>1
  <2>2. \A g \in Holders : held'[g] = IF g = h THEN 0 ELSE held[g]
    BY DEF PoolInv, PoolType, Pool!Release
  <2>3. \A i \in 1..n : pool_[i] # held[h] /\ pool_[i] \in 1..made
    BY <1>1 DEF PoolInv, PoolType, Apart
  <2>4. \A i, j \in 1..Len(pool_') : pool_'[i] = pool_'[j] => i = j
    BY <1>1, <2>1, <2>3 DEF PoolInv, Apart
  <2>5. \A i \in 1..Len(pool_'), g \in Holders : pool_'[i] # held'[g]
    <3> SUFFICES ASSUME NEW i \in 1..(n + 1), NEW g \in Holders PROVE pool_'[i] # held'[g]
      BY <1>1
    <3>1. CASE i \in 1..n
      BY <1>1, <2>2, <2>3, <3>1 DEF PoolInv, Apart
    <3>2. CASE i = n + 1
      BY <1>1, <2>2, <3>2 DEF PoolInv, Apart
    <3> QED
      BY <2>1, <3>1, <3>2
  <2>6. \A f, g \in Holders : held'[f] = held'[g] /\ held'[f] # 0 => f = g
    BY <2>2 DEF PoolInv, Apart
  <2> QED
    BY <2>4, <2>5, <2>6 DEF Apart
<1>4. Pool!OwnMessage'
  BY DEF PoolInv, PoolType, Pool!OwnMessage, Pool!Live, Pool!Release
<1> QED
  BY <1>2, <1>3, <1>4 DEF PoolInv

\* No object is ever in two places.
LEMMA PoolInvariance == Pool!Spec => []PoolInv
<1>1. Pool!Init => PoolInv
  BY DEF Pool!Init, PoolInv, PoolType, Apart, Pool!OwnMessage, Pool!Live
<1>2. PoolInv /\ [Pool!Next]_(Pool!vars) => PoolInv'
  <2> SUFFICES ASSUME PoolInv, [Pool!Next]_(Pool!vars) PROVE PoolInv'
    OBVIOUS
  <2>1. CASE Pool!Next
    BY <2>1, AcquireNewKeepsPoolInv, AcquirePooledKeepsPoolInv, WriteKeepsPoolInv,
       ReleaseKeepsPoolInv DEF Pool!Next
  <2>2. CASE UNCHANGED Pool!vars
    BY <2>2 DEF Pool!vars, PoolInv, PoolType, Apart, Pool!OwnMessage, Pool!Live
  <2> QED
    BY <2>1, <2>2
<1> QED
  BY <1>1, <1>2, PTL DEF Pool!Spec

\* A holder's message has what the holder last put there, whoever had the memory before
\* (acquire and release).
THEOREM MessagesAreOwn == Pool!Spec => []Pool!OwnMessage
<1>1. PoolInv => Pool!OwnMessage
  BY DEF PoolInv
<1> QED
  BY <1>1, PoolInvariance, PTL

\* Every object made is in the pool or has a live holder.
Accounted == made = Len(pool_) + Cardinality(Pool!Live)

\* The instance counts as this module does.
LEMMA SameCardinality == Pool!Cardinality(Holders) = Cardinality(Holders)
  BY DEF Pool!Cardinality, Cardinality

\* An acquisition adds a live holder, a release takes one away.
LEMMA LiveChanges ==
    ASSUME IsFiniteSet(Holders), PoolType, NEW h \in Holders, NEW o \in Nat,
           held' = [held EXCEPT ![h] = o]
    PROVE  /\ IsFiniteSet(Pool!Live) /\ Cardinality(Pool!Live) \in Nat
           /\ held[h] = 0 /\ o # 0 => Cardinality(Pool!Live') = Cardinality(Pool!Live) + 1
           /\ held[h] # 0 /\ o = 0 => Cardinality(Pool!Live') = Cardinality(Pool!Live) - 1
<1>1. Pool!Live \subseteq Holders
  BY DEF Pool!Live
<1>2. IsFiniteSet(Pool!Live) /\ Cardinality(Pool!Live) \in Nat
  BY <1>1, FS_Subset, FS_CardinalityType
<1>3. \A g \in Holders : held'[g] = IF g = h THEN o ELSE held[g]
  BY DEF PoolType
<1>4. ASSUME held[h] = 0, o # 0 PROVE Cardinality(Pool!Live') = Cardinality(Pool!Live) + 1
  <2>1. h \notin Pool!Live /\ Pool!Live' = Pool!Live \union {h}
    BY <1>3, <1>4 DEF Pool!Live
  <2> QED
    BY <1>2, <2>1, FS_AddElement
<1>5. ASSUME held[h] # 0, o = 0 PROVE Cardinality(Pool!Live') = Cardinality(Pool!Live) - 1
  <2>1. h \in Pool!Live /\ Pool!Live' = Pool!Live \ {h}
    BY <1>3, <1>5 DEF Pool!Live
  <2> QED
    BY <1>2, <2>1, FS_RemoveElement
<1> QED
  BY <1>2, <1>4, <1>5

\* The objects that were made are never more than the messages that can be live at a
\* time: acquire calls new only while every object has a holder.
THEOREM PoolStaysBounded ==
    ASSUME IsFiniteSet(Holders)
    PROVE  Pool!Spec => []Pool!PoolIsBounded
<1>1. Pool!Init => PoolInv /\ Accounted /\ Pool!PoolIsBounded
  <2> SUFFICES ASSUME Pool!Init PROVE PoolInv /\ Accounted /\ Pool!PoolIsBounded
    OBVIOUS
  <2>1. PoolInv
    BY DEF Pool!Init, PoolInv, PoolType, Apart, Pool!OwnMessage, Pool!Live
  <2>2. Pool!Live = {} /\ made = 0 /\ pool_ = <<>>
    BY DEF Pool!Init, Pool!Live
  <2>3. Cardinality(Holders) \in Nat /\ Cardinality({}) = 0 /\ Len(<<>>) = 0
    BY FS_CardinalityType, FS_EmptySet
  <2> QED
    BY <2>1, <2>2, <2>3, SameCardinality DEF Accounted, Pool!PoolIsBounded
<1>2. PoolInv /\ Accounted /\ Pool!PoolIsBounded /\ [Pool!Next]_(Pool!vars)
        => Accounted' /\ Pool!PoolIsBounded'
  <2> SUFFICES ASSUME PoolInv, Accounted, Pool!PoolIsBounded, [Pool!Next]_(Pool!vars)
               PROVE  Accounted' /\ Pool!PoolIsBounded'
    OBVIOUS
  <2>0. /\ PoolType /\ made \in Nat /\ pool_ \in Seq(1..made) /\ Len(pool_) \in Nat
        /\ held \in [Holders -> 0..made]
    BY LenProperties DEF PoolInv, PoolType
  <2>1. ASSUME NEW h \in Holders, NEW v \in Values, Pool!AcquireNew(h, v)
        PROVE  Accounted' /\ Pool!PoolIsBounded'
    <3>1. /\ held[h] = 0 /\ pool_ = <<>> /\ pool_' = pool_ /\ made' = made + 1
          /\ held' = [held EXCEPT ![h] = made + 1]
      BY <2>1 DEF Pool!AcquireNew, Pool!Empty
    <3>2. made + 1 \in Nat /\ made + 1 # 0 /\ Len(pool_) = 0
      BY <2>0, <3>1
    <3>3. Cardinality(Pool!Live') = Cardinality(Pool!Live) + 1
      BY <2>0, <3>1, <3>2, LiveChanges
    <3>4. Cardinality(Pool!Live') <= Cardinality(Holders)
      <4>1. Pool!Live' \subseteq Holders
        BY DEF Pool!Live
      <4> QED
        BY <4>1, FS_Subset
    <3>5. Cardinality(Pool!Live) \in Nat
      BY <2>0, <3>1, <3>2, LiveChanges
    <3>6. made' = Cardinality(Pool!Live') /\ Len(pool_') = 0
      BY <2>0, <3>1, <3>2, <3>3, <3>5 DEF Accounted
    <3>7. Accounted'
      BY <3>3, <3>5, <3>6 DEF Accounted
    <3>8. Pool!PoolIsBounded'
      BY <3>4, <3>6, SameCardinality DEF Pool!PoolIsBounded
    <3> QED
      BY <3>7, <3>8
  <2>2. ASSUME NEW h \in Holders, NEW v \in Values, Pool!AcquirePooled(h, v)
        PROVE  Accounted' /\ Pool!PoolIsBounded'
    <3> DEFINE o == pool_[Len(pool_)]
    <3>1. /\ held[h] = 0 /\ pool_ # <<>> /\ pool_' = Pool!Rest(pool_)
          /\ made' = made /\ held' = [held EXCEPT ![h] = o]
      BY <2>2 DEF Pool!AcquirePooled
    <3>2. Len(pool_) > 0 /\ o \in 1..made
      BY <2>0, <3>1
    <3>3. o \in Nat /\ o # 0
      BY <3>2
    <3> HIDE DEF o
    <3>4. Cardinality(Pool!Live') = Cardinality(Pool!Live) + 1 /\ Cardinality(Pool!Live) \in Nat
      BY <2>0, <3>1, <3>3, LiveChanges
    <3>5. Len(pool_') = Len(pool_) - 1
      BY <2>0, <3>1, <3>2, RestOfPool
    <3>6. Accounted'
      <4>1. made' = made /\ made = Len(pool_) + Cardinality(Pool!Live)
        BY <3>1 DEF Accounted
      <4> QED
        BY <2>0, <3>4, <3>5, <4>1 DEF Accounted
    <3> QED
      BY <3>1, <3>6 DEF Pool!PoolIsBounded
  <2>3. ASSUME NEW h \in Holders, NEW v \in Values, Pool!Write(h, v)
        PROVE  Accounted' /\ Pool!PoolIsBounded'
    BY <2>3 DEF Pool!Write, Accounted, Pool!PoolIsBounded, Pool!Live
  <2>4. ASSUME NEW h \in Holders, Pool!Release(h)
        PROVE  Accounted' /\ Pool!PoolIsBounded'
    <3>1. /\ held[h] # 0 /\ pool_' = Append(pool_, held[h]) /\ made' = made
          /\ held' = [held EXCEPT ![h] = 0]
      BY <2>4 DEF Pool!Release, Pool!Released
    <3>2. Cardinality(Pool!Live') = Cardinality(Pool!Live) - 1 /\ Cardinality(Pool!Live) \in Nat
      BY <2>0, <3>1, LiveChanges
    <3>3. Len(pool_') = Len(pool_) + 1
      BY <2>0, <3>1
    <3>4. Accounted'
      BY <2>0, <3>1, <3>2, <3>3 DEF Accounted
    <3> QED
      BY <3>1, <3>4 DEF Pool!PoolIsBounded
  <2>5. CASE UNCHANGED Pool!vars
    BY <2>5 DEF Pool!vars, Accounted, Pool!PoolIsBounded, Pool!Live
  <2> QED
    BY <2>1, <2>2, <2>3, <2>4, <2>5 DEF Pool!Next
<1> QED
  BY <1>1, <1>2, PoolInvariance, PTL DEF Pool!Spec

-----------------------------------------------------------------------------
(* PolicyLoop.                                                              *)

\* What is parsed and not yet adopted are the policies of the file read last, too.
LoopInv ==
    /\ step = "stamp" => Parses(loaded) /\ new_policies \in Meanings(loaded)
    /\ KeepsPolicies

\* The policies in force are always all those of the last file that parsed, or none before
\* the first (loadPolicies collects them in new_policies and moves them at its end).
THEOREM PoliciesAreOfOneFile == Spec => []KeepsPolicies
<1>1. Init => LoopInv
  <2> SUFFICES ASSUME Init PROVE LoopInv
    OBVIOUS
  <2>1. step = "wait"
    BY DEF Init
  <2>2. CASE Parses(file.contents)
    <3>1. loaded = file.contents /\ policies \in Meanings(file.contents)
      BY <2>2 DEF Init
    <3> QED
      BY <2>1, <2>2, <3>1 DEF LoopInv, KeepsPolicies
  <2>3. CASE ~Parses(file.contents)
    <3>1. policies = <<>> /\ last_time = Epoch /\ loaded = Missing
      BY <2>3 DEF Init
    <3> QED
      BY <2>1, <3>1 DEF LoopInv, KeepsPolicies, Parses
  <2> QED
    BY <2>2, <2>3
<1>2. LoopInv /\ [Next]_(vars) => LoopInv'
  <2> SUFFICES ASSUME LoopInv, [Next]_(vars) PROVE LoopInv'
    OBVIOUS
  <2>0. ASSUME UNCHANGED <<policies, last_time, new_policies, loaded>>,
               step' = step \/ (step # "stamp" /\ step' # "stamp")
        PROVE  LoopInv'
    BY <2>0 DEF LoopInv, KeepsPolicies, Parses, Meanings, Epoch
  <2>1. ASSUME NEW c \in Contents \union {Broken, Incomplete, Missing}, NEW t \in 1..MaxTime,
               Edit(c, t)
        PROVE  LoopInv'
    <3>1. UNCHANGED <<policies, last_time, new_policies, loaded, step>>
      BY <2>1 DEF Edit, loadVars
    <3> QED
      BY <2>0, <3>1
  <2>2. ASSUME NEW a \in Agents,
               Join(a) \/ Leave(a) \/ \E load \in Loads : UpdateAgentState(a, load)
        PROVE  LoopInv'
    <3>1. UNCHANGED <<policies, last_time, new_policies, loaded, step>>
      BY <2>2 DEF Join, Leave, UpdateAgentState, loadVars
    <3> QED
      BY <2>0, <3>1
  <2>3. CASE CheckPolicyUpdate
    <3>1. /\ step # "stamp" /\ step' # "stamp"
          /\ UNCHANGED <<policies, last_time, new_policies, loaded>>
      BY <2>3 DEF CheckPolicyUpdate, loadVars
    <3> QED
      BY <2>0, <3>1
  <2>4. CASE Read
    <3>1. step = "read" /\ UNCHANGED <<policies, last_time>>
      BY <2>4 DEF Read
    <3>2. CASE Parses(file.contents)
      <4>1. /\ new_policies' \in Meanings(file.contents)
            /\ step' = "stamp" /\ loaded' = file.contents
        BY <2>4, <3>2 DEF Read
      <4>2. Parses(loaded)' /\ new_policies' \in Meanings(loaded)'
        BY <3>2, <4>1 DEF Parses, Meanings
      <4> QED
        BY <4>1, <4>2 DEF LoopInv, KeepsPolicies
    <3>3. CASE ~Parses(file.contents)
      <4>1. step' \in {"decide", "ended"} /\ UNCHANGED <<new_policies, loaded>>
        BY <2>4, <3>3 DEF Read
      <4> QED
        BY <2>0, <3>1, <4>1
    <3> QED
      BY <3>2, <3>3
  <2>5. CASE Stamp
    <3>1. policies' = new_policies /\ loaded' = loaded /\ step = "stamp" /\ step' = "decide"
      BY <2>5 DEF Stamp, Adopted
    <3>2. Parses(loaded)' /\ policies' \in Meanings(loaded)'
      BY <3>1 DEF LoopInv, Parses, Meanings
    <3> QED
      BY <3>1, <3>2 DEF LoopInv, KeepsPolicies
  <2>6. CASE Decide
    <3>1. /\ step = "decide" /\ step' = "wait"
          /\ UNCHANGED <<policies, last_time, new_policies, loaded>>
      BY <2>6 DEF Decide, loadVars
    <3> QED
      BY <2>0, <3>1
  <2>7. CASE UNCHANGED vars
    <3>1. UNCHANGED <<policies, last_time, new_policies, loaded, step>>
      BY <2>7 DEF vars, loadVars
    <3> QED
      BY <2>0, <3>1
  <2> QED
    BY <2>1, <2>2, <2>3, <2>4, <2>5, <2>6, <2>7 DEF Next
<1>3. LoopInv => KeepsPolicies
  BY DEF LoopInv
<1> QED
  BY <1>1, <1>2, <1>3, PTL DEF Spec
=============================================================================
