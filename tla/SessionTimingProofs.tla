------------------------ MODULE SessionTimingProofs -------------------------
(***************************************************************************)
(* Proofs about SessionTiming, for every resolution of the clock, every    *)
(* delay below two seconds and any number of commands and retries.         *)
(***************************************************************************)
EXTENDS SessionTiming, SequenceTheorems, WellFoundedInduction, TLAPS

-----------------------------------------------------------------------------
(* The five seconds of README.md.  The bound on the heartbeat's age alone   *)
(* is not inductive: what is kept is the bound on its age at the next       *)
(* health check.                                                            *)

Deadline ==
    /\ hb_age \in Nat
    /\ next_check \in 0..CheckPeriod
    /\ session = "registered" => hb_age + next_check < 5 * TicksPerSecond

\* Rounding down to whole seconds: less than three of them means less than three
\* seconds of ticks (duration_cast in isHealthy).
LEMMA SecondsRoundDown ==
    ASSUME NEW t \in Nat, Seconds(t) < 3
    PROVE  t < 3 * TicksPerSecond
<1> DEFINE q == t \div TicksPerSecond
<1>1. TicksPerSecond \in Nat /\ TicksPerSecond > 0
  BY TimingAssumption
<1>2. /\ q \in Int /\ t % TicksPerSecond \in 0..(TicksPerSecond - 1)
      /\ t = TicksPerSecond * q + (t % TicksPerSecond)
  BY <1>1
<1>3. q <= 2
  BY <1>2 DEF Seconds
<1>4. TicksPerSecond * q <= TicksPerSecond * 2
  BY <1>1, <1>2, <1>3
<1> QED
  BY <1>1, <1>2, <1>4

\* At most five seconds pass between a session's last heartbeat and the health check
\* that finds it, for each action that touches the ages.
LEMMA DeadlineInductive == Deadline /\ [Next]_vars => Deadline'
<1> SUFFICES ASSUME Deadline, [Next]_vars PROVE Deadline'
  OBVIOUS
<1>0. TicksPerSecond \in Nat /\ TicksPerSecond > 0 /\ CheckPeriod = 2 * TicksPerSecond
  BY TimingAssumption DEF CheckPeriod
<1>1. CASE Tick
  <2>1. /\ next_check > 0 /\ next_check' = next_check - 1 /\ session' = session
        /\ hb_age' = IF session = "registered" THEN hb_age + 1 ELSE hb_age
    BY <1>1 DEF Tick
  <2> QED
    BY <1>0, <2>1 DEF Deadline, CheckPeriod
<1>2. CASE Report
  BY <1>2 DEF Report, Deadline
<1>3. CASE FallSilent
  BY <1>3 DEF FallSilent, Deadline
<1>4. CASE Heartbeat
  BY <1>0, <1>4 DEF Heartbeat, UpdateHeartbeat, Deadline
<1>5. ASSUME NEW c \in Commands, HandleAck(c) PROVE Deadline'
  BY <1>5 DEF HandleAck, Deadline
<1>6. CASE HealthCheck
  <2>1. hb_age' = hb_age /\ next_check' = CheckPeriod
    BY <1>6 DEF HealthCheck
  <2>2. session' = "registered" => IsHealthy
    BY <1>6 DEF HealthCheck
  <2>3. session' = "registered" => hb_age < 3 * TicksPerSecond
    BY <2>2, SecondsRoundDown DEF IsHealthy, Deadline
  <2> QED
    BY <1>0, <2>1, <2>3 DEF Deadline
<1>7. CASE ConnectionError
  BY <1>7 DEF ConnectionError, Deadline
<1>8. CASE Register
  BY <1>0, <1>8 DEF Register, Deadline
<1>9. CASE UNCHANGED vars
  BY <1>9 DEF vars, Deadline
<1> QED
  BY <1>1, <1>2, <1>3, <1>4, <1>5, <1>6, <1>7, <1>8, <1>9 DEF Next

\* README.md, line 38: a session is never registered five seconds after its last
\* heartbeat.
THEOREM SilentSessionsEndInTime == Spec => []DroppedWithinFiveSeconds
<1>1. Init => Deadline
  BY TimingAssumption DEF Init, Deadline, CheckPeriod
<1>2. Deadline => DroppedWithinFiveSeconds
  BY TimingAssumption DEF Deadline, DroppedWithinFiveSeconds, CheckPeriod
<1> QED
  BY <1>1, <1>2, DeadlineInductive, PTL DEF Spec

-----------------------------------------------------------------------------
(* The shift of the back-off.                                               *)

\* Induction over the naturals, for a set: its complement would have a least element.
LEMMA NatSetInduction ==
    ASSUME NEW S, 0 \in S, \A n \in Nat : n \in S => n + 1 \in S
    PROVE  Nat \subseteq S
<1> DEFINE T == Nat \ S
<1>1. SUFFICES ASSUME T # {} PROVE FALSE
  OBVIOUS
<1>2. IsWellFoundedOn(OpToRel(<, Nat), Nat)
  BY NatLessThanWellFounded
<1>3. T \subseteq Nat
  OBVIOUS
<1>4. \E x \in T : \A y \in T : ~(<<y, x>> \in OpToRel(<, Nat))
  BY <1>1, <1>2, <1>3, WFMin
<1>5. \E x \in T : \A y \in T : ~(y < x)
  BY <1>3, <1>4 DEF OpToRel
<1>6. PICK x \in T : \A y \in T : ~(y < x)
  BY <1>5
<1>7. x \in Nat /\ x # 0
  BY <1>6
<1>8. x - 1 \in Nat /\ x - 1 < x /\ (x - 1) + 1 = x
  BY <1>7
<1>9. x - 1 \in S
  BY <1>6, <1>8
<1> QED
  BY <1>6, <1>8, <1>9

\* The doublings 1, 2, 4, ... up to n.
Doublings(n) ==
    {g \in [0..n -> Nat] : g[0] = 1 /\ \A i \in 1..n : g[i] = 2 * g[i - 1]}

\* They exist for every n.
LEMMA DoublingsExist == \A n \in Nat : Doublings(n) # {}
<1> DEFINE S == {n \in Nat : Doublings(n) # {}}
<1>1. 0 \in S
  <2>1. [i \in 0..0 |-> 1] \in Doublings(0)
    BY DEF Doublings
  <2> QED
    BY <2>1
<1>2. ASSUME NEW n \in Nat, n \in S PROVE n + 1 \in S
  <2>1. PICK g : g \in Doublings(n)
    BY <1>2
  <2>2. g \in [0..n -> Nat] /\ g[0] = 1 /\ \A i \in 1..n : g[i] = 2 * g[i - 1]
    BY <2>1 DEF Doublings
  <2> DEFINE h == [i \in 0..(n + 1) |-> IF i = n + 1 THEN 2 * g[n] ELSE g[i]]
  <2>3. \A i \in 0..n : g[i] \in Nat /\ h[i] = g[i]
    BY <2>2
  <2>4. h[n + 1] = 2 * g[n] /\ 2 * g[n] \in Nat
    <3>1. n + 1 \in 0..(n + 1) /\ n \in 0..n
      OBVIOUS
    <3>2. g[n] \in Nat
      BY <3>1, <2>2
    <3> QED
      BY <3>1, <3>2
  <2>5. h \in [0..(n + 1) -> Nat]
    <3>1. \A i \in 0..(n + 1) : i = n + 1 \/ i \in 0..n
      OBVIOUS
    <3>2. \A i \in 0..(n + 1) : (IF i = n + 1 THEN 2 * g[n] ELSE g[i]) \in Nat
      BY <3>1, <2>2, <2>4
    <3> QED
      BY <3>2
  <2>6. h[0] = 1
    BY <2>2, <2>3
  <2>7. ASSUME NEW i \in 1..(n + 1) PROVE h[i] = 2 * h[i - 1]
    <3>1. CASE i = n + 1
      <4>1. i - 1 = n /\ h[n] = g[n]
        BY <3>1, <2>3
      <4> QED
        BY <3>1, <4>1, <2>4
    <3>2. CASE i # n + 1
      <4>1. i \in 1..n /\ i \in 0..n /\ i - 1 \in 0..n
        BY <3>2
      <4> QED
        BY <4>1, <2>2, <2>3
    <3> QED
      BY <3>1, <3>2
  <2> HIDE DEF h
  <2>8. h \in Doublings(n + 1)
    BY <2>5, <2>6, <2>7 DEF Doublings
  <2> QED
    BY <2>8
<1> HIDE DEF S
<1>3. Nat \subseteq S
  BY <1>1, <1>2, NatSetInduction
<1> QED
  BY <1>3 DEF S

\* They agree with each other as far as the shorter one goes.
LEMMA DoublingsAgree ==
    ASSUME NEW m \in Nat, NEW n \in Nat, m <= n, NEW g \in Doublings(m), NEW h \in Doublings(n)
    PROVE  \A i \in 0..m : g[i] = h[i]
<1> DEFINE S == {i \in Nat : i <= m => g[i] = h[i]}
<1>1. 0 \in S
  BY DEF Doublings
<1>2. ASSUME NEW i \in Nat, i \in S PROVE i + 1 \in S
  <2>1. SUFFICES ASSUME i + 1 <= m PROVE g[i + 1] = h[i + 1]
    OBVIOUS
  <2>2. i + 1 \in 1..m /\ i + 1 \in 1..n /\ (i + 1) - 1 = i
    BY <2>1
  <2>3. g[i + 1] = 2 * g[i] /\ h[i + 1] = 2 * h[i]
    BY <2>2 DEF Doublings
  <2> QED
    BY <2>1, <2>3, <1>2
<1> HIDE DEF S
<1>3. Nat \subseteq S
  BY <1>1, <1>2, NatSetInduction
<1> QED
  BY <1>3 DEF S

\* 1 << n as the shift doubles it.
LEMMA ShlDoubles ==
    /\ Shl[0] = 1
    /\ \A n \in Nat : Shl[n] \in Nat \ {0} /\ Shl[n + 1] = 2 * Shl[n]
<1> DEFINE G(n) == CHOOSE g \in Doublings(n) : TRUE
           F == [n \in Nat |-> G(n)[n]]
<1>1. \A n \in Nat : G(n) \in Doublings(n)
  BY DoublingsExist
<1> HIDE DEF G
<1>2. F[0] = 1
  BY <1>1 DEF Doublings
<1>3. ASSUME NEW n \in Nat \ {0} PROVE F[n] = 2 * F[n - 1]
  <2>1. n - 1 \in Nat /\ n - 1 <= n /\ n - 1 \in 0..(n - 1) /\ n \in 1..n
    OBVIOUS
  <2>2. G(n) \in Doublings(n) /\ G(n - 1) \in Doublings(n - 1)
    BY <1>1, <2>1
  <2>3. G(n)[n] = 2 * G(n)[n - 1]
    BY <2>1, <2>2 DEF Doublings
  <2>4. G(n - 1)[n - 1] = G(n)[n - 1]
    BY <2>1, <2>2, DoublingsAgree
  <2> QED
    BY <2>1, <2>3, <2>4
<1>4. F = [n \in Nat |-> IF n = 0 THEN 1 ELSE 2 * F[n - 1]]
  <2> DEFINE E == [n \in Nat |-> IF n = 0 THEN 1 ELSE 2 * F[n - 1]]
  <2>1. \A n \in Nat : F[n] = IF n = 0 THEN 1 ELSE 2 * F[n - 1]
    BY <1>2, <1>3
  <2>2. \A n \in Nat : F[n] = E[n]
    BY <2>1
  <2>3. F = [n \in Nat |-> F[n]]
    OBVIOUS
  <2> HIDE DEF F
  <2> QED
    BY <2>1, <2>3
<1> HIDE DEF F
<1>5. Shl = [n \in Nat |-> IF n = 0 THEN 1 ELSE 2 * Shl[n - 1]]
  BY <1>4 DEF Shl
<1>6. Shl[0] = 1 /\ \A n \in Nat \ {0} : Shl[n] = 2 * Shl[n - 1]
  BY <1>5
<1>7. \A n \in Nat : Shl[n + 1] = 2 * Shl[n]
  BY <1>6
<1>8. \A n \in Nat : Shl[n] \in Nat \ {0}
  <2> DEFINE S == {n \in Nat : Shl[n] \in Nat \ {0}}
  <2>1. 0 \in S
    BY <1>6
  <2>2. \A n \in Nat : n \in S => n + 1 \in S
    BY <1>7
  <2> HIDE DEF S
  <2>3. Nat \subseteq S
    BY <2>1, <2>2, NatSetInduction
  <2> QED
    BY <2>3 DEF S
<1> QED
  BY <1>6, <1>7, <1>8

\* It grows.
LEMMA ShlGrows == \A m, n \in Nat : m <= n => Shl[m] <= Shl[n]
<1>1. SUFFICES ASSUME NEW m \in Nat PROVE \A n \in Nat : m <= n => Shl[m] <= Shl[n]
  OBVIOUS
<1> DEFINE S == {n \in Nat : m <= n => Shl[m] <= Shl[n]}
<1>2. 0 \in S
  BY ShlDoubles
<1>3. ASSUME NEW n \in Nat, n \in S PROVE n + 1 \in S
  <2>1. Shl[n + 1] = 2 * Shl[n] /\ Shl[n] \in Nat /\ Shl[m] \in Nat /\ Shl[n + 1] \in Nat
    BY ShlDoubles
  <2>2. CASE m <= n
    BY <2>1, <2>2, <1>3
  <2>3. CASE ~(m <= n)
    <3>1. m <= n + 1 => m = n + 1
      BY <2>3
    <3> QED
      BY <3>1, <2>1
  <2> QED
    BY <2>2, <2>3
<1> HIDE DEF S
<1>4. Nat \subseteq S
  BY <1>2, <1>3, NatSetInduction
<1> QED
  BY <1>4 DEF S

-----------------------------------------------------------------------------
(* Types.                                                                   *)

\* The constants as the proofs use them.
LEMMA Constants ==
    /\ TicksPerSecond \in Nat \ {0} /\ MaxRetries \in Nat /\ MaxDelay \in Nat
    /\ MaxDelay < 2 * TicksPerSecond
    /\ ReportPeriod = TicksPerSecond /\ CheckPeriod = 2 * TicksPerSecond
    /\ CheckPeriod \in Nat /\ ReportPeriod \in Nat
  BY TimingAssumption DEF ReportPeriod, CheckPeriod

\* A pending command one tick later, and one that is resent.
LEMMA PendingUpdates ==
    ASSUME NEW pc \in PendingCommand
    PROVE  /\ [pc EXCEPT !.age = @ + 1, !.total = @ + 1] =
                  [age |-> pc.age + 1, total |-> pc.total + 1, retry_count |-> pc.retry_count]
           /\ [pc EXCEPT !.age = 0, !.retry_count = @ + 1] =
                  [age |-> 0, total |-> pc.total, retry_count |-> pc.retry_count + 1]
<1> DEFINE F == {"age", "total", "retry_count"}
           aged == [pc EXCEPT !.age = @ + 1, !.total = @ + 1]
           sent == [pc EXCEPT !.age = 0, !.retry_count = @ + 1]
<1>1. pc = [age |-> pc.age, total |-> pc.total, retry_count |-> pc.retry_count]
  BY DEF PendingCommand
<1>2. DOMAIN pc = F
  BY <1>1
<1>3. aged = [f \in F |-> IF f = "total" THEN pc.total + 1
                          ELSE IF f = "age" THEN pc.age + 1 ELSE pc[f]]
  BY <1>2, Zenon
<1>4. sent = [f \in F |-> IF f = "retry_count" THEN pc.retry_count + 1
                          ELSE IF f = "age" THEN 0 ELSE pc[f]]
  BY <1>2, Zenon
<1> QED
  BY <1>3, <1>4

\* checkCommandTimeouts() keeps a command or resends it with one retry more, and only
\* one that has a retry left.
LEMMA TimeoutsTyped ==
    ASSUME TypeOK
    PROVE  /\ DOMAIN CheckCommandTimeouts \subseteq DOMAIN pending
           /\ \A c \in DOMAIN CheckCommandTimeouts :
                 /\ ~GivesUp(pending[c])
                 /\ CheckCommandTimeouts[c] =
                       IF Due(pending[c])
                       THEN [age |-> 0, total |-> pending[c].total,
                             retry_count |-> pending[c].retry_count + 1]
                       ELSE pending[c]
                 /\ CheckCommandTimeouts[c] \in PendingCommand
           /\ CheckCommandTimeouts \in [DOMAIN CheckCommandTimeouts -> PendingCommand]
<1> DEFINE D == {d \in DOMAIN pending : ~GivesUp(pending[d])}
           T == CheckCommandTimeouts
<1>1. DOMAIN T = D
  BY DEF CheckCommandTimeouts
<1>2. ASSUME NEW c \in D
      PROVE  /\ T[c] = IF Due(pending[c])
                       THEN [age |-> 0, total |-> pending[c].total,
                             retry_count |-> pending[c].retry_count + 1]
                       ELSE pending[c]
             /\ T[c] \in PendingCommand
  <2>1. pending[c] \in PendingCommand
    BY DEF TypeOK
  <2>2. T[c] = IF Due(pending[c])
               THEN [pending[c] EXCEPT !.age = 0, !.retry_count = @ + 1]
               ELSE pending[c]
    BY DEF CheckCommandTimeouts
  <2>3. [pending[c] EXCEPT !.age = 0, !.retry_count = @ + 1] =
            [age |-> 0, total |-> pending[c].total, retry_count |-> pending[c].retry_count + 1]
    BY <2>1, PendingUpdates
  <2>4. Due(pending[c]) => pending[c].retry_count + 1 \in 0..MaxRetries
    <3>1. Due(pending[c]) => pending[c].retry_count # MaxRetries
      BY DEF GivesUp
    <3>2. pending[c].retry_count \in 0..MaxRetries
      BY <2>1 DEF PendingCommand
    <3> QED
      BY <3>1, <3>2, Constants
  <2>5. pending[c].total \in Nat
    BY <2>1 DEF PendingCommand
  <2>6. Due(pending[c]) =>
            [age |-> 0, total |-> pending[c].total, retry_count |-> pending[c].retry_count + 1]
                \in PendingCommand
    BY <2>4, <2>5 DEF PendingCommand
  <2>7. CASE Due(pending[c])
    BY <2>2, <2>3, <2>6, <2>7
  <2>8. CASE ~Due(pending[c])
    BY <2>1, <2>2, <2>8
  <2> QED
    BY <2>7, <2>8
<1>3. T = [c \in D |-> T[c]]
  BY DEF CheckCommandTimeouts
<1> HIDE DEF T
<1>4. T \in [D -> PendingCommand]
  BY <1>2, <1>3
<1> QED
  BY <1>1, <1>2, <1>4 DEF T

\* No step of the clocks, the agent or the controller leaves the types.
LEMMA TypeInductive == TypeOK /\ [Next]_vars => TypeOK'
<1> SUFFICES ASSUME TypeOK, [Next]_vars PROVE TypeOK'
  OBVIOUS
<1>1. CASE Tick
  <2>1. since_report' \in 0..ReportPeriod
    <3>1. since_report \in 0..ReportPeriod
      BY DEF TypeOK
    <3>2. since_report' = since_report
          \/ (since_report < ReportPeriod /\ since_report' = since_report + 1)
      BY <1>1 DEF Tick, TypeOK
    <3> QED
      BY <3>1, <3>2, Constants
  <2>2. in_flight' \in Seq(0..MaxDelay)
    <3> DEFINE n == Len(in_flight)
    <3>1. in_flight \in Seq(0..MaxDelay)
      BY DEF TypeOK
    <3>2. n \in Nat /\ DOMAIN in_flight = 1..n /\ \A i \in 1..n : in_flight[i] \in 0..MaxDelay
      BY <3>1, LenProperties, ElementOfSeq
    <3> HIDE DEF n
    <3>3. in_flight' = [i \in 1..n |-> in_flight[i] + 1]
      BY <1>1, <3>2 DEF Tick
    <3>4. \A i \in 1..n : in_flight[i] < MaxDelay
      BY <1>1, <3>2 DEF Tick
    <3>5. \A i \in 1..n : in_flight[i] + 1 \in 0..MaxDelay
      BY <3>2, <3>4, Constants
    <3> QED
      BY <3>2, <3>3, <3>5, IsASeq
  <2>3. hb_age' \in Nat /\ next_check' \in 0..CheckPeriod
    <3>1. hb_age \in Nat /\ next_check \in 0..CheckPeriod
      BY DEF TypeOK
    <3>2. next_check > 0 /\ next_check' = next_check - 1 /\ hb_age' \in {hb_age, hb_age + 1}
      BY <1>1 DEF Tick
    <3> QED
      BY <3>1, <3>2, Constants
  <2>4. /\ DOMAIN pending' = DOMAIN pending
        /\ pending' \in [DOMAIN pending -> PendingCommand]
    <3>1. pending' = [c \in DOMAIN pending |->
                         [pending[c] EXCEPT !.age = @ + 1, !.total = @ + 1]]
      BY <1>1 DEF Tick
    <3>2. ASSUME NEW c \in DOMAIN pending
          PROVE  [pending[c] EXCEPT !.age = @ + 1, !.total = @ + 1] \in PendingCommand
      <4>1. pending[c] \in PendingCommand
        BY DEF TypeOK
      <4>2. [age |-> pending[c].age + 1, total |-> pending[c].total + 1,
             retry_count |-> pending[c].retry_count] \in PendingCommand
        BY <4>1 DEF PendingCommand
      <4> QED
        BY <4>1, <4>2, PendingUpdates
    <3> QED
      BY <3>1, <3>2
  <2> QED
    BY <1>1, <2>1, <2>2, <2>3, <2>4 DEF Tick, TypeOK
<1>2. CASE Report
  <2>1. 0 \in 0..MaxDelay /\ 0 \in 0..ReportPeriod
    BY Constants
  <2>2. in_flight' \in Seq(0..MaxDelay)
    BY <1>2, <2>1 DEF Report, TypeOK
  <2> QED
    BY <1>2, <2>1, <2>2 DEF Report, TypeOK
<1>3. CASE FallSilent
  BY <1>3 DEF FallSilent, TypeOK
<1>4. CASE Heartbeat
  BY <1>4 DEF Heartbeat, TypeOK, UpdateHeartbeat
<1>5. ASSUME NEW c \in Commands, HandleAck(c) PROVE TypeOK'
  <2>1. pending' = [d \in DOMAIN pending \ {c} |-> pending[d]]
    BY <1>5 DEF HandleAck, Restrict
  <2>2. DOMAIN pending' \subseteq Commands /\ pending' \in [DOMAIN pending' -> PendingCommand]
    BY <2>1 DEF TypeOK
  <2> QED
    BY <1>5, <2>2 DEF HandleAck, TypeOK, agentVars
<1>6. CASE HealthCheck
  <2> DEFINE T == CheckCommandTimeouts
  <2>1. /\ next_check' \in 0..CheckPeriod /\ session' \in {"registered", "dropped"}
        /\ connected' \in BOOLEAN /\ unissued' \subseteq Commands
        /\ UNCHANGED <<agentVars, hb_age>>
    <3>1. next_check' \in 0..CheckPeriod /\ UNCHANGED <<agentVars, hb_age>>
      BY <1>6, Constants DEF HealthCheck
    <3>2. session' \in {"registered", "dropped"} /\ unissued' \subseteq Commands
      BY <1>6 DEF HealthCheck, TypeOK
    <3>3. connected' \in BOOLEAN
      BY <1>6 DEF HealthCheck, TypeOK
    <3> QED
      BY <3>1, <3>2, <3>3
  <2>2. DOMAIN T \subseteq Commands /\ T \in [DOMAIN T -> PendingCommand]
    BY TimeoutsTyped DEF TypeOK
  <2>3. \/ pending' = pending \/ pending' = NoCommands \/ pending' = T
        \/ \E c \in unissued : pending' = TrackCommand(T, c)
    BY <1>6 DEF HealthCheck
  <2>4. ASSUME NEW c \in unissued
        PROVE  /\ DOMAIN TrackCommand(T, c) \subseteq Commands
               /\ TrackCommand(T, c) \in [DOMAIN TrackCommand(T, c) -> PendingCommand]
    <3>1. [age |-> 0, total |-> 0, retry_count |-> 0] \in PendingCommand
      BY Constants DEF PendingCommand
    <3> HIDE DEF T
    <3> QED
      BY <2>2, <3>1 DEF TrackCommand, TypeOK
  <2>5. NoCommands \in [DOMAIN NoCommands -> PendingCommand] /\ DOMAIN NoCommands = {}
    BY DEF NoCommands
  <2> HIDE DEF T
  <2>6. DOMAIN pending' \subseteq Commands /\ pending' \in [DOMAIN pending' -> PendingCommand]
    BY <2>2, <2>3, <2>4, <2>5 DEF TypeOK
  <2> QED
    BY <2>1, <2>6 DEF TypeOK, agentVars
<1>7. CASE ConnectionError
  BY <1>7 DEF ConnectionError, TypeOK, agentVars, NoCommands
<1>8. CASE Register
  BY <1>8, Constants DEF Register, TypeOK
<1>9. CASE UNCHANGED vars
  BY <1>9 DEF vars, agentVars, TypeOK
<1> QED
  BY <1>1, <1>2, <1>3, <1>4, <1>5, <1>6, <1>7, <1>8, <1>9 DEF Next

\* The clocks, the heartbeats under way and the pending commands keep their types; no
\* command is ever resent more than MAX_RETRIES times.
THEOREM TypeCorrect == Spec => []TypeOK
<1>1. Init => TypeOK
  BY Constants DEF Init, TypeOK, NoCommands
<1> QED
  BY <1>1, TypeInductive, PTL DEF Spec

-----------------------------------------------------------------------------
(* Agents that report.                                                      *)

\* Less than three seconds of ticks are less than three whole seconds, and whole seconds
\* are counted exactly (duration_cast in isHealthy and checkCommandTimeouts).
LEMMA SecondsCounted ==
    /\ \A t \in Nat : t < 3 * TicksPerSecond => Seconds(t) < 3
    /\ \A n \in Nat : Seconds(n * TicksPerSecond) = n
<1>1. TicksPerSecond \in Nat /\ TicksPerSecond > 0
  BY TimingAssumption
<1>2. ASSUME NEW t \in Nat
      PROVE  /\ Seconds(t) \in Int /\ t % TicksPerSecond \in 0..(TicksPerSecond - 1)
             /\ t = TicksPerSecond * Seconds(t) + (t % TicksPerSecond)
  BY <1>1 DEF Seconds
<1>3. ASSUME NEW t \in Nat, t < 3 * TicksPerSecond PROVE Seconds(t) < 3
  <2> DEFINE q == Seconds(t)
             m == t % TicksPerSecond
  <2>1. q \in Int /\ m \in 0..(TicksPerSecond - 1) /\ t = TicksPerSecond * q + m
    BY <1>2
  <2> HIDE DEF q, m
  <2>2. q >= 3 => TicksPerSecond * q >= TicksPerSecond * 3
    BY <2>1, <1>1
  <2>3. ~(q >= 3)
    BY <2>1, <2>2, <1>1, <1>3
  <2>4. q < 3
    BY <2>1, <2>3
  <2> QED
    BY <2>4 DEF q
<1>4. ASSUME NEW n \in Nat PROVE Seconds(n * TicksPerSecond) = n
  <2> DEFINE t == n * TicksPerSecond
             q == Seconds(t)
             m == t % TicksPerSecond
  <2>1. t \in Nat
    BY <1>1
  <2>2. q \in Int /\ m \in 0..(TicksPerSecond - 1) /\ t = TicksPerSecond * q + m
    BY <2>1, <1>2
  <2> HIDE DEF q, m
  <2>3. TicksPerSecond * (n - q) = m
    BY <2>2, <1>1
  <2>4. ~(n - q >= 1)
    <3>1. n - q >= 1 => TicksPerSecond * (n - q) >= TicksPerSecond * 1
      BY <2>2, <1>1
    <3> QED
      BY <3>1, <2>2, <2>3, <1>1
  <2>5. ~(n - q <= -1)
    <3>1. n - q <= -1 => TicksPerSecond * (n - q) <= TicksPerSecond * (-1)
      BY <2>2, <1>1
    <3> QED
      BY <3>1, <2>2, <2>3, <1>1
  <2>6. n - q = 0 \/ n - q >= 1 \/ n - q <= -1
    BY <2>2
  <2>7. n = q
    BY <2>2, <2>4, <2>5, <2>6
  <2> QED
    BY <2>7 DEF q
<1> QED
  BY <1>3, <1>4

\* The oldest heartbeat under way.
LEMMA FirstElement ==
    ASSUME NEW S, NEW q \in Seq(S)
    PROVE  /\ Len(q) \in Nat /\ DOMAIN q = 1..Len(q)
           /\ q = <<>> => Len(q) = 0
           /\ q # <<>> => 1 \in 1..Len(q) /\ q[1] \in S
<1>1. Len(q) \in Nat /\ DOMAIN q = 1..Len(q)
  BY LenProperties
<1>2. q = <<>> <=> Len(q) = 0
  BY EmptySeq
<1>3. q # <<>> => 1 \in 1..Len(q)
  BY <1>1, <1>2
<1>4. q # <<>> => q[1] \in S
  BY <1>3, ElementOfSeq
<1> QED
  BY <1>1, <1>2, <1>3, <1>4

\* While the agent reports, the last heartbeat handled is no older than the last report
\* sent, or than the report before the oldest one under way.
Fresh ==
    session = "registered" /\ reporting =>
        hb_age <= IF in_flight = <<>> THEN since_report ELSE in_flight[1] + ReportPeriod

\* The age at a health check follows from the period and the delay.
LEMMA FreshIsHealthy ==
    ASSUME TypeOK, Fresh, session = "registered", reporting
    PROVE  IsHealthy
<1>1. hb_age \in Nat /\ since_report \in 0..ReportPeriod
  BY DEF TypeOK
<1>2. in_flight # <<>> => in_flight[1] \in 0..MaxDelay
  <2>1. in_flight \in Seq(0..MaxDelay)
    BY DEF TypeOK
  <2> QED
    BY <2>1, FirstElement
<1>3. hb_age <= MaxDelay + ReportPeriod
  <2>1. CASE in_flight = <<>>
    BY <2>1, <1>1, Constants DEF Fresh
  <2>2. CASE in_flight # <<>>
    BY <2>2, <1>1, <1>2, Constants DEF Fresh
  <2> QED
    BY <2>1, <2>2
<1>4. hb_age < 3 * TicksPerSecond
  BY <1>1, <1>3, Constants
<1> QED
  BY <1>1, <1>4, SecondsCounted DEF IsHealthy

\* Reports, deliveries and time keep the heartbeat fresh.
LEMMA FreshInductive == TypeOK /\ Fresh /\ [Next]_vars => Fresh'
<1> SUFFICES ASSUME TypeOK, Fresh, [Next]_vars, session' = "registered", reporting'
             PROVE  hb_age' <= IF in_flight' = <<>> THEN since_report'
                               ELSE in_flight'[1] + ReportPeriod
  BY DEF Fresh
<1>1. hb_age \in Nat /\ since_report \in 0..ReportPeriod /\ in_flight \in Seq(0..MaxDelay)
  BY DEF TypeOK
<1>2. /\ Len(in_flight) \in Nat /\ DOMAIN in_flight = 1..Len(in_flight)
      /\ in_flight # <<>> => 1 \in 1..Len(in_flight) /\ in_flight[1] \in 0..MaxDelay
      /\ in_flight = <<>> => Len(in_flight) = 0
  BY <1>1, FirstElement
<1>3. CASE Tick
  <2>1. /\ session = "registered" /\ reporting
        /\ hb_age' = hb_age + 1 /\ since_report' = since_report + 1
        /\ in_flight' = [i \in 1..Len(in_flight) |-> in_flight[i] + 1]
    BY <1>3, <1>2 DEF Tick
  <2>2. CASE in_flight = <<>>
    <3>1. in_flight' = <<>>
      BY <2>1, <2>2, <1>2
    <3> QED
      BY <3>1, <2>1, <2>2, <1>1, Constants DEF Fresh
  <2>3. CASE in_flight # <<>>
    <3>1. in_flight'[1] = in_flight[1] + 1
      BY <2>1, <2>3, <1>2
    <3>2. in_flight' # <<>>
      BY <2>1, <2>3, <1>2
    <3>3. hb_age <= in_flight[1] + ReportPeriod
      BY <2>1, <2>3 DEF Fresh
    <3>4. hb_age + 1 <= (in_flight[1] + 1) + ReportPeriod
      BY <3>3, <2>3, <1>1, <1>2, Constants
    <3> QED
      BY <3>1, <3>2, <3>4, <2>1
  <2> QED
    BY <2>2, <2>3
<1>4. CASE Report
  <2>1. /\ session = "registered" /\ reporting /\ since_report = ReportPeriod
        /\ hb_age' = hb_age /\ in_flight' = Append(in_flight, 0)
    BY <1>4 DEF Report
  <2>2. in_flight' # <<>>
    BY <2>1, <1>1, Constants
  <2>3. CASE in_flight = <<>>
    <3>1. in_flight'[1] = 0
      BY <2>1, <2>3
    <3> QED
      BY <3>1, <2>1, <2>2, <2>3, <1>1, Constants DEF Fresh
  <2>4. CASE in_flight # <<>>
    <3>1. in_flight'[1] = in_flight[1]
      BY <2>1, <2>4, <1>1, <1>2, Constants
    <3> QED
      BY <3>1, <2>1, <2>2, <2>4 DEF Fresh
  <2> QED
    BY <2>3, <2>4
<1>5. CASE FallSilent
  BY <1>5 DEF FallSilent
<1>6. CASE Heartbeat
  <2>1. session = "registered" /\ hb_age' = 0 /\ in_flight # <<>> /\ in_flight' = Tail(in_flight)
    BY <1>6 DEF Heartbeat, UpdateHeartbeat
  <2>2. since_report' \in 0..ReportPeriod
    BY <1>6, <1>1 DEF Heartbeat
  <2>3. in_flight' \in Seq(0..MaxDelay)
    BY <2>1, <1>1, HeadTailProperties
  <2>4. in_flight' # <<>> => in_flight'[1] \in 0..MaxDelay
    BY <2>3, FirstElement
  <2>5. CASE in_flight' = <<>>
    BY <2>1, <2>2, <2>5, Constants
  <2>6. CASE in_flight' # <<>>
    BY <2>1, <2>4, <2>6, Constants
  <2> QED
    BY <2>5, <2>6
<1>7. CASE HealthCheck \/ \E c \in Commands : HandleAck(c)
  BY <1>7 DEF HealthCheck, HandleAck, agentVars, Fresh
<1>8. CASE ConnectionError
  BY <1>8 DEF ConnectionError
<1>9. CASE Register
  BY <1>9 DEF Register
<1>10. CASE UNCHANGED vars
  BY <1>10 DEF vars, agentVars, Fresh
<1> QED
  BY <1>3, <1>4, <1>5, <1>6, <1>7, <1>8, <1>9, <1>10 DEF Next

\* An agent that reports every second is never found unhealthy, for every delay below
\* two seconds: the health check alone drops a session whose connection is open.
THEOREM HealthyWhileReporting == Spec => ReportingAgentStays
<1>1. Init => TypeOK /\ Fresh
  <2>1. Init => TypeOK
    BY Constants DEF Init, TypeOK, NoCommands
  <2>2. Init => Fresh
    BY DEF Init, Fresh
  <2> QED
    BY <2>1, <2>2
<1>2. TypeOK /\ Fresh /\ [Next]_vars => (TypeOK /\ Fresh)'
  BY TypeInductive, FreshInductive
<1>3. TypeOK /\ Fresh /\ [Next]_vars =>
          [session = "registered" /\ session' = "dropped" /\ connected => ~reporting]_vars
  <2>1. SUFFICES ASSUME TypeOK, Fresh, Next, session = "registered", session' = "dropped",
                        connected, reporting
                 PROVE  FALSE
    BY DEF TypeOK
  <2>2. HealthCheck
    BY <2>1 DEF Next, Tick, Report, FallSilent, Heartbeat, HandleAck, ConnectionError, Register
  <2>3. ~IsHealthy
    BY <2>1, <2>2 DEF HealthCheck
  <2> QED
    BY <2>1, <2>3, FreshIsHealthy
<1> QED
  BY <1>1, <1>2, <1>3, PTL DEF Spec, ReportingAgentStays

-----------------------------------------------------------------------------
(* Commands that are not answered.                                          *)

\* Health checks until a command with r retries is due, and seconds it took to get r of
\* them.  The first wait is one second, half a period: it lasts a whole one.
Checks(r) == IF r = 0 THEN 1 ELSE Shl[r - 1]
Waited(r) == IF r = 0 THEN 0 ELSE Shl[r]

\* A command is sent at a health check and counts in whole periods from there; the time
\* since its first send is what its retries took and the time since the last of them.
\* n ticks remain until the next check.
OnSchedule(pc, n) ==
    /\ \E k \in 1..Checks(pc.retry_count) : pc.age + n = k * CheckPeriod
    /\ pc.total = pc.age + Waited(pc.retry_count) * TicksPerSecond

Schedule ==
    /\ session = "dropped" => DOMAIN pending = {}
    /\ \A c \in DOMAIN pending : OnSchedule(pending[c], next_check)

\* The waits add up: 1 << r seconds, or two for the first, after all the ones before.
LEMMA WaitsAddUp ==
    ASSUME NEW r \in Nat
    PROVE  /\ Checks(r) \in Nat \ {0} /\ Waited(r) \in Nat
           /\ 2 * Checks(r) + Waited(r) = Shl[r + 1]
           /\ Waited(r + 1) = Shl[r + 1] /\ Shl[r + 1] \in Nat
           /\ \A k \in Nat \ {0} : 2 * k >= Shl[r] <=> k >= Checks(r)
<1>1. Shl[0] = 1 /\ Shl[1] = 2
  <2>1. Shl[0] = 1 /\ Shl[0 + 1] = 2 * Shl[0]
    BY ShlDoubles
  <2> QED
    BY <2>1
<1>2. Shl[r] \in Nat \ {0} /\ Shl[r + 1] \in Nat /\ Shl[r + 1] = 2 * Shl[r]
  BY ShlDoubles
<1>3. Waited(r + 1) = Shl[r + 1]
  BY DEF Waited
<1>4. CASE r = 0
  <2>1. Checks(r) = 1 /\ Waited(r) = 0 /\ Shl[r] = 1 /\ Shl[r + 1] = 2
    BY <1>1, <1>4 DEF Checks, Waited
  <2> QED
    BY <2>1, <1>3
<1>5. CASE r # 0
  <2>1. r - 1 \in Nat /\ (r - 1) + 1 = r
    BY <1>5
  <2>2. Shl[r - 1] \in Nat \ {0} /\ Shl[(r - 1) + 1] = 2 * Shl[r - 1]
    BY <2>1, ShlDoubles
  <2>3. Checks(r) = Shl[r - 1] /\ Waited(r) = Shl[r] /\ Shl[r] = 2 * Shl[r - 1]
    BY <1>5, <2>1, <2>2 DEF Checks, Waited
  <2> QED
    BY <2>2, <2>3, <1>2, <1>3
<1> QED
  BY <1>4, <1>5

\* At a health check a command is due exactly when its last one has come.
LEMMA DueAtLastCheck ==
    ASSUME NEW pc \in PendingCommand, NEW k \in 1..Checks(pc.retry_count),
           pc.age + 0 = k * CheckPeriod
    PROVE  /\ Due(pc) <=> k = Checks(pc.retry_count)
           /\ pc.age = (2 * k) * TicksPerSecond
<1>1. pc.age \in Nat /\ pc.retry_count \in Nat
  BY Constants DEF PendingCommand
<1>2. k \in Nat \ {0} /\ Checks(pc.retry_count) \in Nat /\ k <= Checks(pc.retry_count)
  <2>1. Checks(pc.retry_count) \in Nat
    BY <1>1, WaitsAddUp
  <2> QED
    BY <2>1
<1>3. pc.age = (2 * k) * TicksPerSecond
  <2>1. pc.age = k * (2 * TicksPerSecond)
    BY <1>1, Constants
  <2> QED
    BY <2>1, <1>2, Constants
<1>4. 2 * k \in Nat
  BY <1>2
<1>5. Seconds(pc.age) = 2 * k
  BY <1>3, <1>4, SecondsCounted
<1>6. Due(pc) <=> 2 * k >= Shl[pc.retry_count]
  BY <1>5 DEF Due, WaitSec
<1>7. Due(pc) <=> k >= Checks(pc.retry_count)
  BY <1>6, <1>1, <1>2, WaitsAddUp
<1> QED
  BY <1>2, <1>3, <1>7

\* Being resent, or waiting for one more check, keeps to the schedule.
LEMMA TimeoutsOnSchedule ==
    ASSUME TypeOK, NEW c \in DOMAIN CheckCommandTimeouts, OnSchedule(pending[c], 0)
    PROVE  OnSchedule(CheckCommandTimeouts[c], CheckPeriod)
<1> DEFINE pc == CheckCommandTimeouts[c]
           b == pending[c]
           r == b.retry_count
<1>1. b \in PendingCommand /\ r \in Nat /\ b.age \in Nat
  <2>1. c \in DOMAIN pending
    BY TimeoutsTyped
  <2>2. b \in PendingCommand
    BY <2>1 DEF TypeOK
  <2> QED
    BY <2>2, Constants DEF PendingCommand
<1>2. pc = IF Due(b) THEN [age |-> 0, total |-> b.total, retry_count |-> r + 1] ELSE b
  BY TimeoutsTyped
<1>3. /\ \E k \in 1..Checks(r) : b.age + 0 = k * CheckPeriod
      /\ b.total = b.age + Waited(r) * TicksPerSecond
  BY DEF OnSchedule
<1>4. PICK k \in 1..Checks(r) : b.age + 0 = k * CheckPeriod
  BY <1>3
<1>5. (Due(b) <=> k = Checks(r)) /\ b.age = (2 * k) * TicksPerSecond
  BY <1>1, <1>4, DueAtLastCheck
<1>6. /\ Checks(r) \in Nat \ {0} /\ Waited(r) \in Nat /\ Checks(r + 1) \in Nat \ {0}
      /\ 2 * Checks(r) + Waited(r) = Waited(r + 1)
  <2>1. r \in Nat /\ r + 1 \in Nat
    BY <1>1
  <2> HIDE DEF r
  <2>2. /\ Checks(r) \in Nat \ {0} /\ Waited(r) \in Nat
        /\ 2 * Checks(r) + Waited(r) = Shl[r + 1] /\ Waited(r + 1) = Shl[r + 1]
    BY <2>1, WaitsAddUp
  <2>3. Checks(r + 1) \in Nat \ {0}
    BY <2>1, WaitsAddUp
  <2> QED
    BY <2>2, <2>3
<1> HIDE DEF pc, b, r
<1>7. CASE Due(b)
  <2>1. pc.age = 0 /\ pc.total = b.total /\ pc.retry_count = r + 1
    BY <1>2, <1>7
  <2>2. 0 + CheckPeriod = 1 * CheckPeriod /\ 1 \in 1..Checks(r + 1)
    BY <1>6, Constants
  <2>3. b.total = (2 * Checks(r)) * TicksPerSecond + Waited(r) * TicksPerSecond
    BY <1>3, <1>5, <1>7
  <2>4. b.total = (2 * Checks(r) + Waited(r)) * TicksPerSecond
    BY <2>3, <1>6, Constants
  <2>5. b.total = 0 + Waited(r + 1) * TicksPerSecond
    BY <2>4, <1>1, <1>6, WaitsAddUp, Constants
  <2>6. OnSchedule(pc, CheckPeriod)
    BY <2>1, <2>2, <2>5 DEF OnSchedule
  <2> QED
    BY <2>6 DEF pc
<1>8. CASE ~Due(b)
  <2>1. pc = b /\ pc.retry_count = r
    BY <1>2, <1>8 DEF r
  <2>2. k \in Nat /\ k + 1 \in 1..Checks(r)
    BY <1>5, <1>6, <1>8
  <2>3. b.age + CheckPeriod = (k + 1) * CheckPeriod
    BY <1>1, <1>4, <2>2, Constants
  <2>4. OnSchedule(pc, CheckPeriod)
    BY <2>1, <2>2, <2>3, <1>3 DEF OnSchedule
  <2> QED
    BY <2>4 DEF pc
<1> QED
  BY <1>7, <1>8

\* Every step keeps every pending command on its schedule.
LEMMA ScheduleInductive == TypeOK /\ Schedule /\ [Next]_vars => Schedule'
<1> SUFFICES ASSUME TypeOK, Schedule, [Next]_vars PROVE Schedule'
  OBVIOUS
<1>1. next_check \in 0..CheckPeriod
  BY DEF TypeOK
<1>2. ASSUME next_check' = next_check, session' = session,
             DOMAIN pending' \subseteq DOMAIN pending,
             \A c \in DOMAIN pending' : pending'[c] = pending[c]
      PROVE  Schedule'
  BY <1>2 DEF Schedule, OnSchedule
<1>3. CASE Tick
  <2>1. /\ session' = session /\ next_check' = next_check - 1
        /\ DOMAIN pending' = DOMAIN pending
    BY <1>3 DEF Tick
  <2>2. ASSUME NEW c \in DOMAIN pending' PROVE OnSchedule(pending'[c], next_check')
    <3> DEFINE b == pending[c]
    <3>1. c \in DOMAIN pending /\ b \in PendingCommand /\ OnSchedule(b, next_check)
      BY <2>1, <2>2 DEF TypeOK, Schedule
    <3>2. pending'[c] = [b EXCEPT !.age = @ + 1, !.total = @ + 1]
      BY <1>3, <3>1 DEF Tick
    <3>3. pending'[c] =
              [age |-> b.age + 1, total |-> b.total + 1, retry_count |-> b.retry_count]
      BY <3>1, <3>2, PendingUpdates
    <3>4. b.age \in Nat /\ b.total \in Nat /\ b.retry_count \in Nat
      BY <3>1, Constants DEF PendingCommand
    <3>5. Waited(b.retry_count) * TicksPerSecond \in Nat
      <4>1. Waited(b.retry_count) \in Nat
        BY <3>4, WaitsAddUp
      <4> QED
        BY <4>1, Constants
    <3>6. /\ \E k \in 1..Checks(b.retry_count) : b.age + next_check = k * CheckPeriod
          /\ b.total = b.age + Waited(b.retry_count) * TicksPerSecond
      BY <3>1 DEF OnSchedule
    <3> HIDE DEF b
    <3>7. (b.age + 1) + next_check' = b.age + next_check
      BY <3>4, <2>1, <1>1, Constants
    <3>8. b.total + 1 = (b.age + 1) + Waited(b.retry_count) * TicksPerSecond
      BY <3>4, <3>5, <3>6
    <3> QED
      BY <3>3, <3>6, <3>7, <3>8 DEF OnSchedule
  <2> QED
    BY <2>1, <2>2 DEF Schedule
<1>4. CASE Report \/ FallSilent \/ Heartbeat \/ UNCHANGED vars
  <2>1. UNCHANGED <<next_check, session, pending>>
    BY <1>4 DEF Report, FallSilent, Heartbeat, vars
  <2> QED
    BY <2>1, <1>2
<1>5. ASSUME NEW c \in Commands, HandleAck(c) PROVE Schedule'
  <2>1. pending' = [d \in DOMAIN pending \ {c} |-> pending[d]]
    BY <1>5 DEF HandleAck, Restrict
  <2>2. UNCHANGED <<next_check, session>>
    BY <1>5 DEF HandleAck
  <2> QED
    BY <2>1, <2>2, <1>2
<1>6. CASE HealthCheck
  <2>1. next_check = 0 /\ next_check' = CheckPeriod
    BY <1>6 DEF HealthCheck
  <2>2. CASE session' = "dropped"
    <3>1. DOMAIN pending' = {}
      BY <1>6, <2>2 DEF HealthCheck, Schedule, NoCommands
    <3> QED
      BY <3>1 DEF Schedule
  <2>3. CASE session' # "dropped"
    <3> DEFINE T == CheckCommandTimeouts
    <3>1. \/ pending' = T
          \/ \E c \in unissued : pending' = TrackCommand(T, c)
      BY <1>6, <2>3 DEF HealthCheck
    <3>2. \A d \in DOMAIN T : OnSchedule(T[d], CheckPeriod)
      <4>1. \A d \in DOMAIN T : OnSchedule(pending[d], 0)
        BY <2>1, TimeoutsTyped DEF Schedule
      <4> QED
        BY <4>1, TimeoutsOnSchedule
    <3> HIDE DEF T
    <3>3. OnSchedule([age |-> 0, total |-> 0, retry_count |-> 0], CheckPeriod)
      <4>1. 1 \in 1..Checks(0) /\ 0 + CheckPeriod = 1 * CheckPeriod
        BY Constants DEF Checks
      <4>2. 0 = 0 + Waited(0) * TicksPerSecond
        BY Constants DEF Waited
      <4> QED
        BY <4>1, <4>2 DEF OnSchedule
    <3>4. \A d \in DOMAIN pending' : OnSchedule(pending'[d], CheckPeriod)
      <4>1. CASE pending' = T
        BY <4>1, <3>2
      <4>2. ASSUME NEW c \in unissued, pending' = TrackCommand(T, c)
            PROVE  \A d \in DOMAIN pending' : OnSchedule(pending'[d], CheckPeriod)
        <5>1. /\ DOMAIN pending' = DOMAIN T \union {c}
              /\ \A d \in DOMAIN pending' :
                    pending'[d] = IF d = c THEN [age |-> 0, total |-> 0, retry_count |-> 0]
                                  ELSE T[d]
          BY <4>2 DEF TrackCommand
        <5> QED
          BY <5>1, <3>2, <3>3
      <4> QED
        BY <4>1, <4>2, <3>1
    <3> QED
      BY <3>4, <2>1, <2>3 DEF Schedule
  <2> QED
    BY <2>2, <2>3
<1>7. CASE ConnectionError
  BY <1>7 DEF ConnectionError, Schedule, NoCommands
<1>8. CASE Register
  <2>1. DOMAIN pending' = {}
    BY <1>8 DEF Register, Schedule
  <2> QED
    BY <2>1 DEF Schedule
<1> QED
  BY <1>3, <1>4, <1>5, <1>6, <1>7, <1>8 DEF Next

\* The back-off 1, 2, 4, ... checked every two seconds: no unanswered command outlives
\* 2 << MAX_RETRIES seconds, and it is given up exactly then.
THEOREM CommandsEndOnTime == Spec => []GivesUpOnTime
<1>1. Init => TypeOK /\ Schedule
  <2>1. Init => TypeOK
    BY Constants DEF Init, TypeOK, NoCommands
  <2>2. Init => Schedule
    BY DEF Init, Schedule, NoCommands
  <2> QED
    BY <2>1, <2>2
<1>2. TypeOK /\ Schedule /\ [Next]_vars => (TypeOK /\ Schedule)'
  BY TypeInductive, ScheduleInductive
<1>3. TypeOK /\ Schedule => GivesUpOnTime
  <2>1. SUFFICES ASSUME TypeOK, Schedule, NEW c \in DOMAIN pending
                 PROVE  /\ pending[c].total <= Patience
                        /\ next_check = 0 /\ GivesUp(pending[c]) =>
                              pending[c].total = Patience
    BY DEF GivesUpOnTime
  <2> DEFINE b == pending[c]
             r == b.retry_count
  <2>2. b \in PendingCommand /\ b.age \in Nat /\ r \in 0..MaxRetries /\ next_check \in Nat
    BY <2>1, Constants DEF TypeOK, PendingCommand
  <2>3. /\ \E k \in 1..Checks(r) : b.age + next_check = k * CheckPeriod
        /\ b.total = b.age + Waited(r) * TicksPerSecond
    BY <2>1 DEF Schedule, OnSchedule
  <2>4. PICK k \in 1..Checks(r) : b.age + next_check = k * CheckPeriod
    BY <2>3
  <2> HIDE DEF b, r
  <2>5. r \in Nat /\ r + 1 \in Nat /\ MaxRetries + 1 \in Nat /\ r + 1 <= MaxRetries + 1
    BY <2>2, Constants
  <2>6. /\ Checks(r) \in Nat /\ Waited(r) \in Nat /\ Shl[r + 1] \in Nat
        /\ 2 * Checks(r) + Waited(r) = Shl[r + 1]
    BY <2>5, WaitsAddUp
  <2>7. (2 * Checks(r)) * TicksPerSecond + Waited(r) * TicksPerSecond
            = Shl[r + 1] * TicksPerSecond
    BY <2>6, Constants
  <2>8. b.total <= Patience
    <3>1. k \in Nat /\ k <= Checks(r)
      BY <2>6
    <3>2. k * CheckPeriod <= Checks(r) * CheckPeriod
      BY <3>1, <2>6, Constants
    <3>3. b.age <= Checks(r) * CheckPeriod
      BY <3>1, <3>2, <2>2, <2>4, <2>6, Constants
    <3>4. Checks(r) * CheckPeriod = (2 * Checks(r)) * TicksPerSecond
      BY <2>6, Constants
    <3>5. b.total <= Shl[r + 1] * TicksPerSecond
      BY <3>3, <3>4, <2>2, <2>3, <2>6, <2>7, Constants
    <3>6. Shl[r + 1] <= Shl[MaxRetries + 1] /\ Shl[MaxRetries + 1] \in Nat
      BY <2>5, ShlGrows, ShlDoubles
    <3>7. Shl[r + 1] * TicksPerSecond <= Shl[MaxRetries + 1] * TicksPerSecond
      BY <3>6, <2>6, Constants
    <3>8. b.total \in Nat
      BY <2>2 DEF PendingCommand
    <3> QED
      BY <3>5, <3>6, <3>7, <3>8, <2>6, Constants DEF Patience
  <2>9. ASSUME next_check = 0, GivesUp(b) PROVE b.total = Patience
    <3>1. Due(b) /\ r = MaxRetries
      BY <2>9 DEF GivesUp, r
    <3>2. b.age + 0 = k * CheckPeriod
      BY <2>4, <2>9
    <3>3. k = Checks(r) /\ b.age = (2 * k) * TicksPerSecond
      BY <3>1, <3>2, <2>2, DueAtLastCheck DEF r
    <3> QED
      BY <3>1, <3>3, <2>3, <2>7 DEF Patience
  <2> QED
    BY <2>8, <2>9 DEF b
<1> QED
  BY <1>1, <1>2, <1>3, PTL DEF Spec
=============================================================================
