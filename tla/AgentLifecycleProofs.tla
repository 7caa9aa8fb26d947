------------------------ MODULE AgentLifecycleProofs ------------------------
(***************************************************************************)
(* Proofs about AgentLifecycle, for every MAX_RETRIES above one.           *)
(***************************************************************************)
EXTENDS AgentLifecycle, SequenceTheorems, TLAPS

-----------------------------------------------------------------------------
(* The inductive invariant.                                                 *)

\* Some handler, and at most one handler, of the queue q is in C.
Has(q, C)    == \E i \in 1..Len(q) : q[i] \in C
Single(q, C) == \A i, j \in 1..Len(q) : q[i] \in C /\ q[j] \in C => i = j

AttemptHandlers == {"connected", "refused", "retry"}
ReadHandlers    == {"message", "read_error"}
LinkHandlers    == ReadHandlers \union
                   {"written", "write_error", "send", "disconnect", "flush", "report"}

\* start() is posted or has begun to connect.
Connecting == connecting \/ Has(ready, AttemptHandlers)

\* Something of a connection is left: conn_, its socket, an operation, a handler.
Linked ==
    \/ conn \/ socket = "open" \/ reading \/ writing \in {"pending", "done"}
    \/ timer = "report" \/ Has(ready, LinkHandlers)

\* The read chain, or the write chain, of the last TcpComm has told its error.
ReadsOver  == ~reading /\ ~Has(ready, ReadHandlers)
WritesOver == writing = "off" /\ ~Has(ready, {"write_error"})
ErrorsTold == (IF ReadsOver THEN 1 ELSE 0) + (IF WritesOver THEN 1 ELSE 0)

\* One attempt at a time, only with nothing left of the last connection, and the
\* retries counted are the attempts made, up to one error told twice.
AttemptInv ==
    /\ connecting => ~Has(ready, AttemptHandlers)
    /\ Single(ready, AttemptHandlers)
    /\ Connecting => ~Linked /\ timer = "none" /\ ~gave_up
    /\ connecting \/ Has(ready, {"connected", "refused"}) =>
           attempts \in {retry_count - 1, retry_count}
    /\ timer = "retry" \/ Has(ready, {"retry"}) =>
           ~conn /\ attempts \in {retry_count - 2, retry_count - 1}
    /\ gave_up => ~Connecting /\ ~Linked /\ timer = "none" /\ attempts >= MaxRetries - 1

\* A connection tells at most one error per direction, each counts as one retry, and
\* the first one makes conn_ null and posts the disconnect.
LinkInv ==
    /\ reading \/ writing = "pending" => socket = "open"
    /\ socket = "open" => conn \/ Has(ready, {"disconnect"})
    /\ timer = "report" => conn
    /\ reading => ~Has(ready, ReadHandlers)
    /\ Single(ready, ReadHandlers)
    /\ writing = "done" <=> Has(ready, {"written"})
    /\ Single(ready, {"written"})
    /\ Has(ready, {"write_error"}) => writing = "off"
    /\ Single(ready, {"write_error"})
    /\ Linked => attempts = 0 /\ retry_count = ErrorsTold /\ (conn <=> retry_count = 0)

Inv == TypeOK /\ AttemptInv /\ LinkInv /\ ReportingContinues

-----------------------------------------------------------------------------
(* The queue of handlers.  A handler takes the head; everything else appends. *)

\* The tail of a queue holds its elements one place further on.
LEMMA TailElements ==
    ASSUME NEW S, NEW q \in Seq(S), q # <<>>
    PROVE  /\ Len(q) \in Nat \ {0}
           /\ Head(q) = q[1] /\ Head(q) \in S
           /\ Tail(q) \in Seq(S)
           /\ Len(Tail(q)) = Len(q) - 1
           /\ \A i \in 1..Len(Tail(q)) : Tail(q)[i] = q[i + 1]
  BY HeadTailProperties, EmptySeq, LenProperties

\* What running the head leaves of a class of handlers.
LEMMA TailClass ==
    ASSUME NEW S, NEW q \in Seq(S), q # <<>>, NEW C
    PROVE  /\ Has(q, C) <=> Head(q) \in C \/ Has(Tail(q), C)
           /\ Single(q, C) => Single(Tail(q), C)
           /\ Single(q, C) /\ Head(q) \in C => ~Has(Tail(q), C)
<1> DEFINE t == Tail(q)
           n == Len(q)
<1>1. /\ n \in Nat \ {0}
      /\ Head(q) = q[1]
      /\ Len(t) = n - 1
      /\ \A i \in 1..Len(t) : t[i] = q[i + 1]
  BY TailElements
<1> HIDE DEF t, n
<1>2. \A i \in 1..Len(t) : i + 1 \in 1..n /\ i + 1 # 1
  BY <1>1
<1>3. \A i \in 1..n : i = 1 \/ (i - 1 \in 1..Len(t) /\ t[i - 1] = q[i])
  BY <1>1
<1>4. 1 \in 1..n
  BY <1>1
<1>5. Has(t, C) => Has(q, C)
  BY <1>1, <1>2 DEF Has, n
<1>6. Head(q) \in C => Has(q, C)
  BY <1>1, <1>4 DEF Has, n
<1>7. Has(q, C) => Head(q) \in C \/ Has(t, C)
  BY <1>1, <1>3 DEF Has, n
<1>8. Single(q, C) => Single(t, C)
  <2>1. SUFFICES ASSUME Single(q, C), NEW i \in 1..Len(t), NEW j \in 1..Len(t),
                        t[i] \in C, t[j] \in C
                 PROVE  i = j
    BY DEF Single
  <2>2. i + 1 = j + 1
    BY <2>1, <1>1, <1>2 DEF Single, n
  <2> QED
    BY <2>2, <1>1
<1>9. Single(q, C) /\ Head(q) \in C => ~Has(t, C)
  BY <1>1, <1>2, <1>4 DEF Single, Has, n
<1> QED
  BY <1>5, <1>6, <1>7, <1>8, <1>9 DEF t

\* What appending a handler makes of a class of handlers.
LEMMA AppendClass ==
    ASSUME NEW S, NEW q \in Seq(S), NEW e \in S, NEW C
    PROVE  /\ Has(Append(q, e), C) <=> Has(q, C) \/ e \in C
           /\ Single(q, C) /\ (e \notin C \/ ~Has(q, C)) => Single(Append(q, e), C)
<1> DEFINE a == Append(q, e)
           n == Len(q)
<1>1. /\ n \in Nat
      /\ Len(a) = n + 1
      /\ \A i \in 1..n : a[i] = q[i]
      /\ a[n + 1] = e
  BY AppendProperties, LenProperties
<1> HIDE DEF a, n
<1>2. \A i \in 1..Len(a) : i \in 1..n \/ i = n + 1
  BY <1>1
<1>3. \A i \in 1..n : i \in 1..Len(a)
  BY <1>1
<1>4. n + 1 \in 1..Len(a)
  BY <1>1
<1>5. Has(a, C) <=> Has(q, C) \/ e \in C
  BY <1>1, <1>2, <1>3, <1>4 DEF Has, n
<1>6. Single(q, C) /\ (e \notin C \/ ~Has(q, C)) => Single(a, C)
  BY <1>1, <1>2, Zenon DEF Single, Has, n
<1> QED
  BY <1>5, <1>6 DEF a

\* The queue p is q with the handlers of A behind it, each once.
Adds(q, p, A) ==
    /\ p \in Seq(Handlers)
    /\ \A C : Has(p, C) <=> Has(q, C) \/ \E h \in A : h \in C
    /\ \A C : /\ Single(q, C)
              /\ \A g, h \in A : g \in C /\ h \in C => g = h
              /\ (\E h \in A : h \in C) => ~Has(q, C)
              => Single(p, C)

\* A handler that posts nothing.
LEMMA AddsNothing ==
    ASSUME NEW q \in Seq(Handlers)
    PROVE  Adds(q, q, {})
  BY DEF Adds

\* One handler more.
LEMMA AddsOneMore ==
    ASSUME NEW q \in Seq(Handlers), NEW p, NEW A, Adds(q, p, A), NEW e \in Handlers, e \notin A
    PROVE  Adds(q, Append(p, e), A \union {e})
<1>1. p \in Seq(Handlers)
  BY DEF Adds
<1>2. Append(p, e) \in Seq(Handlers)
  BY <1>1, AppendProperties
<1>3. \A C : /\ Has(Append(p, e), C) <=> Has(p, C) \/ e \in C
             /\ Single(p, C) /\ (e \notin C \/ ~Has(p, C)) => Single(Append(p, e), C)
  BY <1>1, AppendClass
<1>4. \A C : Has(Append(p, e), C) <=> Has(q, C) \/ \E h \in A \union {e} : h \in C
  BY <1>3 DEF Adds
<1>5. ASSUME NEW C, Single(q, C),
             \A g, h \in A \union {e} : g \in C /\ h \in C => g = h,
             (\E h \in A \union {e} : h \in C) => ~Has(q, C)
      PROVE  Single(Append(p, e), C)
  <2>1. Single(p, C)
    BY <1>5 DEF Adds
  <2>2. e \in C => ~Has(p, C)
    BY <1>5 DEF Adds
  <2> QED
    BY <2>1, <2>2, <1>3
<1> QED
  BY <1>2, <1>4, <1>5 DEF Adds

\* Posting one handler, or one if c.
LEMMA AddsOne ==
    ASSUME NEW q \in Seq(Handlers), NEW e \in Handlers
    PROVE  Adds(q, Append(q, e), {e})
<1>1. Adds(q, Append(q, e), {} \union {e})
  BY AddsNothing, AddsOneMore
<1> QED
  BY <1>1

\* One handler appended under a condition, as for a connection that is set.
LEMMA AddsOneIf ==
    ASSUME NEW q \in Seq(Handlers), NEW p, NEW A, Adds(q, p, A), NEW e \in Handlers, e \notin A,
           NEW c \in BOOLEAN
    PROVE  Adds(q, p \o (IF c THEN <<e>> ELSE <<>>), IF c THEN A \union {e} ELSE A)
<1>1. p \in Seq(Handlers)
  BY DEF Adds
<1>2. p \o <<e>> = Append(p, e) /\ p \o <<>> = p
  BY <1>1, AppendIsConcat, ConcatEmptySeq
<1>3. Adds(q, Append(p, e), A \union {e})
  BY AddsOneMore
<1> QED
  BY <1>2, <1>3

\* Posting up to two handlers: e if u holds it, and f if v does.
Among(e, u, f, v) == {g \in {e, f} : (g = e /\ u = <<e>>) \/ (g = f /\ v = <<f>>)}

\* Two handlers appended, each under its own condition.
LEMMA AddsTwo ==
    ASSUME NEW q \in Seq(Handlers), NEW e \in Handlers, NEW f \in Handlers, e # f,
           NEW u \in {<<>>, <<e>>}, NEW v \in {<<>>, <<f>>}
    PROVE  Adds(q, q \o u \o v, Among(e, u, f, v))
<1> DEFINE B == IF u = <<e>> THEN {e} ELSE {}
           A == IF v = <<f>> THEN B \union {f} ELSE B
           p == q \o u
<1>1. Adds(q, p, B)
  <2>1. q \o <<e>> = Append(q, e) /\ q \o <<>> = q
    BY AppendIsConcat, ConcatEmptySeq
  <2>2. Adds(q, q, {}) /\ Adds(q, Append(q, e), {e})
    BY AddsNothing, AddsOne
  <2>3. <<>> # <<e>>
    OBVIOUS
  <2> QED
    BY <2>1, <2>2, <2>3
<1>2. f \notin B
  OBVIOUS
<1>3. A = Among(e, u, f, v)
  BY DEF Among
<1> HIDE DEF p, B
<1>4. Adds(q, p \o v, A)
  <2>1. p \in Seq(Handlers)
    BY <1>1 DEF Adds
  <2>2. p \o <<f>> = Append(p, f) /\ p \o <<>> = p
    BY <2>1, AppendIsConcat, ConcatEmptySeq
  <2>3. Adds(q, Append(p, f), B \union {f})
    BY <1>1, <1>2, AddsOneMore
  <2>4. <<>> # <<f>>
    OBVIOUS
  <2> QED
    BY <2>2, <2>3, <2>4, <1>1
<1> QED
  BY <1>3, <1>4 DEF p

\* A step runs the handlers of H, at most one, and posts those of A: what that means
\* for a class C of handlers.
Moves(H, A) ==
    /\ ready' \in Seq(Handlers)
    /\ \A C : H \intersect C # {} => Has(ready, C)
    /\ \A C : H \intersect C = {} => (Has(ready', C) <=> Has(ready, C) \/ A \intersect C # {})
    /\ \A C : Has(ready', C) => Has(ready, C) \/ A \intersect C # {}
    /\ \A C : A \intersect C # {} => Has(ready', C)
    /\ \A C : Single(ready, C) /\ H \intersect C # {} => (Has(ready', C) <=> A \intersect C # {})
    /\ \A C : /\ Single(ready, C)
              /\ \A g, h \in A : g \in C /\ h \in C => g = h
              /\ A \intersect C # {} => H \intersect C # {} \/ ~Has(ready, C)
              => Single(ready', C)

\* A completion appends handlers and runs none.
LEMMA PostMoves ==
    ASSUME TypeOK, NEW A, Adds(ready, ready', A)
    PROVE  Moves({}, A)
  BY DEF Adds, Moves

\* A handler that runs leaves the queue, and what it posts comes after.
LEMMA RunMoves ==
    ASSUME TypeOK, NEW h, Runs(h), NEW A, Adds(Tail(ready), ready', A)
    PROVE  Moves({h}, A)
<1>1. ready \in Seq(Handlers) /\ ready # <<>> /\ Head(ready) = h
  BY DEF TypeOK, Runs
<1> DEFINE t == Tail(ready)
<1>2. \A C : /\ Has(ready, C) <=> h \in C \/ Has(t, C)
             /\ Single(ready, C) => Single(t, C)
             /\ Single(ready, C) /\ h \in C => ~Has(t, C)
  BY <1>1, TailClass
<1> HIDE DEF t
<1>3. /\ ready' \in Seq(Handlers)
      /\ \A C : Has(ready', C) <=> Has(t, C) \/ \E g \in A : g \in C
      /\ \A C : /\ Single(t, C)
                /\ \A f, g \in A : f \in C /\ g \in C => f = g
                /\ (\E g \in A : g \in C) => ~Has(t, C)
                => Single(ready', C)
  BY DEF Adds, t
<1>4. \A C : {h} \intersect C # {} <=> h \in C
  OBVIOUS
<1>5. \A C : A \intersect C # {} <=> \E g \in A : g \in C
  OBVIOUS
<1>6. \A C : /\ Single(ready, C)
             /\ \A f, g \in A : f \in C /\ g \in C => f = g
             /\ A \intersect C # {} => {h} \intersect C # {} \/ ~Has(ready, C)
             => Single(ready', C)
  BY <1>2, <1>3, <1>4, <1>5
<1> QED
  BY <1>2, <1>3, <1>4, <1>5, <1>6 DEF Moves

\* What is queued by name.
LEMMA QueuedClass ==
    ASSUME NEW q \in Seq(Handlers), NEW h
    PROVE  h \in Range(q) <=> Has(q, {h})
<1>1. DOMAIN q = 1..Len(q)
  BY LenProperties
<1> QED
  BY <1>1 DEF Has, Range

\* Part of a class.
LEMMA SubClass ==
    ASSUME NEW q
    PROVE  /\ Has(q, {"retry"}) => Has(q, AttemptHandlers)
           /\ Has(q, {"connected"}) => Has(q, {"connected", "refused"})
           /\ Has(q, {"connected", "refused"}) => Has(q, AttemptHandlers)
           /\ Has(q, AttemptHandlers) => Has(q, {"retry"}) \/ Has(q, {"connected", "refused"})
           /\ \A h \in LinkHandlers : Has(q, {h}) => Has(q, LinkHandlers)
           /\ Has(q, ReadHandlers) => Has(q, LinkHandlers)
  BY DEF Has, AttemptHandlers, ReadHandlers, LinkHandlers

\* A step of the TcpComm alone: its handlers move, the agent's state stays.
LEMMA CommKeeps ==
    ASSUME Inv, Linked, NEW H, NEW A, Moves(H, A), H \subseteq LinkHandlers \ {"report"},
           A \subseteq LinkHandlers \ {"report"},
           UNCHANGED <<timer, connecting, conn, retry_count, is_shutting_down, process, gave_up,
                       attempts>>
    PROVE  AttemptInv' /\ ReportingContinues'
<1>1. TypeOK /\ AttemptInv /\ LinkInv /\ ReportingContinues
  BY DEF Inv
<1>2. /\ H \intersect AttemptHandlers = {} /\ A \intersect AttemptHandlers = {}
      /\ H \intersect {"retry"} = {} /\ A \intersect {"retry"} = {}
      /\ H \intersect {"connected", "refused"} = {} /\ A \intersect {"connected", "refused"} = {}
      /\ H \intersect {"report"} = {} /\ A \intersect {"report"} = {}
  BY DEF AttemptHandlers, LinkHandlers, ReadHandlers
<1>3. /\ ready' \in Seq(Handlers)
      /\ Has(ready', AttemptHandlers) <=> Has(ready, AttemptHandlers)
      /\ Has(ready', {"retry"}) <=> Has(ready, {"retry"})
      /\ Has(ready', {"connected", "refused"}) <=> Has(ready, {"connected", "refused"})
      /\ Has(ready', {"report"}) <=> Has(ready, {"report"})
      /\ Single(ready, AttemptHandlers) => Single(ready', AttemptHandlers)
  BY <1>2 DEF Moves
<1>4. ~Connecting /\ ~gave_up
  BY <1>1 DEF AttemptInv
<1>5. AttemptInv'
  <2>1. ~Connecting'
    BY <1>3, <1>4 DEF Connecting
  <2> QED
    BY <2>1, <1>1, <1>3, <1>4 DEF AttemptInv
<1>6. ReportingContinues'
  BY <1>1, <1>3, QueuedClass DEF ReportingContinues, Queued, TypeOK
<1> QED
  BY <1>5, <1>6

-----------------------------------------------------------------------------
(* The steps of the TcpComm keep the invariant.                             *)

\* The state a step of the TcpComm starts from and what it must keep.
LEMMA LinkKept ==
    ASSUME Inv, Linked, UNCHANGED <<timer, conn, retry_count, attempts>>,
           ErrorsTold' = ErrorsTold
    PROVE  /\ timer' = "report" => conn'
           /\ Linked' => attempts' = 0 /\ retry_count' = ErrorsTold' /\ (conn' <=> retry_count' = 0)
  BY DEF Inv, LinkInv

\* writePump(), posted from send() or from a write completion: the write goes on or
\* fails, and its error is still to be told.
LEMMA PumpKeeps ==
    ASSUME Inv, NEW h \in {"send", "written"}, Runs(h),
           h = "send" => writing = "idle", WritePump,
           UNCHANGED <<timer, connecting, conn, socket, reading, flushing, retry_count,
                       is_shutting_down, process, gave_up, attempts>>
    PROVE  Inv'
<1>1. TypeOK /\ LinkInv
  BY DEF Inv
<1> DEFINE A == IF socket = "open" THEN {} ELSE {"write_error"}
<1>2. /\ ready \in Seq(Handlers)
      /\ ready # <<>>
      /\ Tail(ready) \in Seq(Handlers)
  BY <1>1, TailElements DEF TypeOK, Runs
<1>3. Adds(Tail(ready), ready', A)
  <2>1. "write_error" \in Handlers
    BY DEF Handlers
  <2> QED
    BY <2>1, <1>2, AddsNothing, AddsOne DEF WritePump
<1>4. Moves({h}, A)
  BY <1>1, <1>3, RunMoves
<1>5. writing' = IF socket = "open" THEN "pending" ELSE "off"
  BY DEF WritePump
<1>6. Has(ready, {h}) /\ Linked
  <2>1. Has(ready, {h})
    BY <1>4 DEF Moves
  <2> QED
    BY <2>1, SubClass DEF Linked, LinkHandlers
<1>7. writing \in {"idle", "done"} /\ ~Has(ready, {"write_error"})
  BY <1>1, <1>6 DEF LinkInv
<1>8. A \subseteq LinkHandlers \ {"report"} /\ {h} \subseteq LinkHandlers \ {"report"}
  BY DEF LinkHandlers
<1>9. AttemptInv' /\ ReportingContinues'
  BY <1>4, <1>6, <1>8, CommKeeps
<1>10. /\ Has(ready', ReadHandlers) <=> Has(ready, ReadHandlers)
       /\ Single(ready, ReadHandlers) => Single(ready', ReadHandlers)
  <2>1. {h} \intersect ReadHandlers = {} /\ A \intersect ReadHandlers = {}
    BY DEF ReadHandlers
  <2> QED
    BY <2>1, <1>4 DEF Moves
<1>11. /\ Has(ready', {"disconnect"}) <=> Has(ready, {"disconnect"})
  BY <1>4 DEF Moves
<1>12. ~Has(ready', {"written"}) /\ Single(ready', {"written"})
  <2>1. A \intersect {"written"} = {}
    OBVIOUS
  <2>2. CASE h = "written"
    BY <2>1, <2>2, <1>1, <1>4 DEF Moves, LinkInv
  <2>3. CASE h = "send"
    BY <2>1, <2>3, <1>1, <1>4 DEF Moves, LinkInv
  <2> QED
    BY <2>2, <2>3
<1>13. /\ Has(ready', {"write_error"}) <=> socket # "open"
       /\ Single(ready', {"write_error"})
  <2>1. A \intersect {"write_error"} # {} <=> socket # "open"
    OBVIOUS
  <2> QED
    BY <2>1, <1>1, <1>4, <1>7 DEF Moves, LinkInv
<1>14. LinkInv'
  <2>1. ErrorsTold' = ErrorsTold
    BY <1>5, <1>7, <1>10, <1>13 DEF ErrorsTold, ReadsOver, WritesOver
  <2>2. /\ timer' = "report" => conn'
        /\ Linked' => attempts' = 0 /\ retry_count' = ErrorsTold' /\ (conn' <=> retry_count' = 0)
    BY <2>1, <1>6, LinkKept
  <2> QED
    BY <2>2, <1>1, <1>5, <1>10, <1>11, <1>12, <1>13 DEF LinkInv
<1>15. TypeOK'
  BY <1>1, <1>4, <1>5 DEF TypeOK, Moves
<1> QED
  BY <1>9, <1>14, <1>15 DEF Inv

\* A handler that posts nothing and leaves the write pump as it is, but for the pop
\* of a finished write.
LEMMA QuietKeeps ==
    ASSUME Inv, NEW h \in {"send", "written", "disconnect", "flush"}, Runs(h), ready' = Tail(ready),
           h = "written" => writing' = "idle", h # "written" => writing' = writing,
           h = "disconnect" => socket # "open",
           flushing' \in BOOLEAN,
           UNCHANGED <<timer, connecting, conn, socket, reading, retry_count,
                       is_shutting_down, process, gave_up, attempts>>
    PROVE  Inv'
<1>1. TypeOK /\ LinkInv
  BY DEF Inv
<1>2. Tail(ready) \in Seq(Handlers)
  BY <1>1, TailElements DEF TypeOK, Runs
<1>3. Moves({h}, {})
  BY <1>1, <1>2, AddsNothing, RunMoves
<1>4. Has(ready, {h}) /\ Linked
  <2>1. Has(ready, {h})
    BY <1>3 DEF Moves
  <2> QED
    BY <2>1, SubClass DEF Linked, LinkHandlers
<1>5. AttemptInv' /\ ReportingContinues'
  <2>1. {} \subseteq LinkHandlers \ {"report"} /\ {h} \subseteq LinkHandlers \ {"report"}
    BY DEF LinkHandlers
  <2> QED
    BY <2>1, <1>3, <1>4, CommKeeps
<1>6. /\ Has(ready', ReadHandlers) <=> Has(ready, ReadHandlers)
      /\ Single(ready, ReadHandlers) => Single(ready', ReadHandlers)
  <2>1. {h} \intersect ReadHandlers = {}
    BY DEF ReadHandlers
  <2> QED
    BY <2>1, <1>3 DEF Moves
<1>7. h # "disconnect" => (Has(ready', {"disconnect"}) <=> Has(ready, {"disconnect"}))
  BY <1>3 DEF Moves
<1>8. /\ h = "written" => ~Has(ready', {"written"})
      /\ h # "written" => (Has(ready', {"written"}) <=> Has(ready, {"written"}))
      /\ Single(ready', {"written"})
  <2>1. Single(ready, {"written"})
    BY <1>1 DEF LinkInv
  <2> QED
    BY <2>1, <1>3 DEF Moves
<1>9. /\ Has(ready', {"write_error"}) <=> Has(ready, {"write_error"})
      /\ Single(ready', {"write_error"})
  BY <1>1, <1>3 DEF Moves, LinkInv
<1>10. h = "written" => writing = "done"
  BY <1>1, <1>4 DEF LinkInv
<1>11. LinkInv'
  <2>1. ErrorsTold' = ErrorsTold
    BY <1>6, <1>9, <1>10 DEF ErrorsTold, ReadsOver, WritesOver
  <2>2. /\ timer' = "report" => conn'
        /\ Linked' => attempts' = 0 /\ retry_count' = ErrorsTold' /\ (conn' <=> retry_count' = 0)
    BY <2>1, <1>4, LinkKept
  <2> QED
    BY <2>2, <1>1, <1>6, <1>7, <1>8, <1>9, <1>10 DEF LinkInv
<1>12. TypeOK'
  BY <1>1, <1>2 DEF TypeOK
<1> QED
  BY <1>5, <1>11, <1>12 DEF Inv

\* A handler that closes the socket: what was under way fails, its errors to be told.
LEMMA ClosesKeeps ==
    ASSUME Inv, NEW h \in {"written", "disconnect", "flush"}, Runs(h), NEW A,
           Adds(Tail(ready), ready', A),
           \A g : g \in A <=> (g = "read_error" /\ reading) \/ (g = "write_error" /\ writing = "pending"),
           socket = "open", socket' = "closed", reading' = FALSE,
           h = "written" => writing' = "idle",
           h # "written" => writing' = IF writing = "pending" THEN "off" ELSE writing,
           flushing' \in BOOLEAN,
           UNCHANGED <<timer, connecting, conn, retry_count, is_shutting_down, process, gave_up,
                       attempts>>
    PROVE  Inv'
<1>1. TypeOK /\ LinkInv
  BY DEF Inv
<1>2. Moves({h}, A)
  BY <1>1, RunMoves
<1>3. Has(ready, {h}) /\ Linked
  <2>1. Has(ready, {h})
    BY <1>2 DEF Moves
  <2> QED
    BY <2>1, SubClass DEF Linked, LinkHandlers
<1>4. AttemptInv' /\ ReportingContinues'
  <2>1. A \subseteq LinkHandlers \ {"report"} /\ {h} \subseteq LinkHandlers \ {"report"}
    BY DEF LinkHandlers, ReadHandlers
  <2> QED
    BY <2>1, <1>2, <1>3, CommKeeps
<1>5. /\ Has(ready', ReadHandlers) <=> Has(ready, ReadHandlers) \/ reading
      /\ Single(ready', ReadHandlers)
  <2>1. {h} \intersect ReadHandlers = {}
    BY DEF ReadHandlers
  <2>2. A \intersect ReadHandlers # {} <=> reading
    BY DEF ReadHandlers
  <2>3. \A f, g \in A : f \in ReadHandlers /\ g \in ReadHandlers => f = g
    BY DEF ReadHandlers
  <2>4. reading => ~Has(ready, ReadHandlers)
    BY <1>1 DEF LinkInv
  <2>5. Single(ready, ReadHandlers)
    BY <1>1 DEF LinkInv
  <2> QED
    BY <2>1, <2>2, <2>3, <2>4, <2>5, <1>2 DEF Moves
<1>6. h = "written" => writing = "done"
  BY <1>1, <1>3 DEF LinkInv
<1>7. /\ h = "written" => ~Has(ready', {"written"})
      /\ h # "written" => (Has(ready', {"written"}) <=> Has(ready, {"written"}))
      /\ Single(ready', {"written"})
  <2>1. Single(ready, {"written"})
    BY <1>1 DEF LinkInv
  <2>2. A \intersect {"written"} = {}
    OBVIOUS
  <2>3. \A f, g \in A : f \in {"written"} /\ g \in {"written"} => f = g
    OBVIOUS
  <2> QED
    BY <2>1, <2>2, <2>3, <1>2 DEF Moves
<1>8. /\ Has(ready', {"write_error"}) <=> Has(ready, {"write_error"}) \/ writing = "pending"
      /\ Single(ready', {"write_error"})
  <2>1. A \intersect {"write_error"} # {} <=> writing = "pending"
    OBVIOUS
  <2>2. \A f, g \in A : f \in {"write_error"} /\ g \in {"write_error"} => f = g
    OBVIOUS
  <2>3. writing = "pending" => ~Has(ready, {"write_error"})
    BY <1>1 DEF LinkInv
  <2>4. Single(ready, {"write_error"}) /\ {h} \intersect {"write_error"} = {}
    BY <1>1 DEF LinkInv
  <2> QED
    BY <2>1, <2>2, <2>3, <2>4, <1>2 DEF Moves
<1>9. LinkInv'
  <2>1. ReadsOver' <=> ReadsOver
    BY <1>5 DEF ReadsOver
  <2>2. WritesOver' <=> WritesOver
    BY <1>6, <1>8 DEF WritesOver
  <2>3. ErrorsTold' = ErrorsTold
    BY <2>1, <2>2 DEF ErrorsTold
  <2>4. /\ timer' = "report" => conn'
        /\ Linked' => attempts' = 0 /\ retry_count' = ErrorsTold' /\ (conn' <=> retry_count' = 0)
    BY <2>3, <1>3, LinkKept
  <2>5. writing' \in {"idle", "done", "off"} /\ (writing' = "done" <=> h # "written" /\ writing = "done")
    BY <1>1, <1>6 DEF TypeOK
  <2>6. Has(ready', {"write_error"}) => writing' = "off"
    BY <1>1, <1>6, <1>8 DEF LinkInv
  <2> QED
    BY <2>4, <2>5, <2>6, <1>1, <1>5, <1>7, <1>8 DEF LinkInv
<1>10. TypeOK'
  <2>1. writing' \in {"idle", "pending", "done", "off"}
    BY <1>1 DEF TypeOK
  <2> QED
    BY <2>1, <1>1, <1>2 DEF TypeOK, Moves
<1> QED
  BY <1>4, <1>9, <1>10 DEF Inv

\* send() starts the write pump, or leaves the frame to the one that runs.
LEMMA RunSendKeeps ==
    ASSUME Inv, RunSend
    PROVE  Inv'
<1>1. CASE writing = "idle"
  BY <1>1, PumpKeeps DEF RunSend
<1>2. CASE writing # "idle"
  <2>1. flushing' \in BOOLEAN
    BY DEF RunSend, Inv, TypeOK
  <2> QED
    BY <1>2, <2>1, QuietKeeps DEF RunSend
<1> QED
  BY <1>1, <1>2

\* disconnect() and flushAndDisconnect() close the socket or leave it to the pump.
LEMMA RunCloseKeeps ==
    ASSUME Inv, NEW h \in {"disconnect", "flush"}, RunClose(h)
    PROVE  Inv'
<1>1. TypeOK
  BY DEF Inv
<1>2. Runs(h) /\ ready # <<>>
  BY DEF RunClose, Runs
<1>3. flushing' \in BOOLEAN
  BY <1>1 DEF RunClose, TypeOK
<1>4. CASE socket = "open" /\ (h = "flush" => writing = "idle")
  <2>1. CloseSocket(Tail(ready))
    BY <1>4 DEF RunClose
  <2>2. reading \in BOOLEAN /\ (writing = "pending") \in BOOLEAN
    BY <1>1 DEF TypeOK
  <2>3. PICK A : /\ Adds(Tail(ready), ready', A)
                 /\ \A g : g \in A <=> (g = "read_error" /\ reading)
                                       \/ (g = "write_error" /\ writing = "pending")
    <3>1. Tail(ready) \in Seq(Handlers)
      BY <1>1, <1>2, TailElements DEF TypeOK
    <3>2. "read_error" \in Handlers /\ "write_error" \in Handlers
      BY DEF Handlers
    <3> DEFINE u == IF reading THEN <<"read_error">> ELSE <<>>
               v == IF writing = "pending" THEN <<"write_error">> ELSE <<>>
    <3>3. u \in {<<>>, <<"read_error">>} /\ v \in {<<>>, <<"write_error">>}
      OBVIOUS
    <3>4. (u = <<"read_error">> <=> reading) /\ (v = <<"write_error">> <=> writing = "pending")
      BY <2>2
    <3>5. ready' = Tail(ready) \o u \o v
      BY <2>1 DEF CloseSocket
    <3> HIDE DEF u, v
    <3> DEFINE A == Among("read_error", u, "write_error", v)
    <3>6. Adds(Tail(ready), ready', A)
      BY <3>1, <3>2, <3>3, <3>5, AddsTwo
    <3>7. \A g : g \in A <=> (g = "read_error" /\ reading) \/ (g = "write_error" /\ writing = "pending")
      BY <3>4 DEF Among
    <3> QED
      BY <3>6, <3>7
  <2>4. /\ socket' = "closed" /\ reading' = FALSE
        /\ writing' = IF writing = "pending" THEN "off" ELSE writing
    BY <2>1 DEF CloseSocket
  <2>5. UNCHANGED <<timer, connecting, conn, retry_count, is_shutting_down, process, gave_up,
                    attempts>>
    BY DEF RunClose
  <2> QED
    BY <2>3, <2>4, <2>5, <1>2, <1>3, <1>4, ClosesKeeps
<1>5. CASE ~(socket = "open" /\ (h = "flush" => writing = "idle"))
  <2>1. ready' = Tail(ready) /\ UNCHANGED <<socket, reading, writing>>
    BY <1>5 DEF RunClose
  <2>2. UNCHANGED <<timer, connecting, conn, retry_count, is_shutting_down, process, gave_up,
                    attempts>>
    BY DEF RunClose
  <2>3. h = "disconnect" => socket # "open"
    BY <1>5
  <2> QED
    BY <2>1, <2>2, <2>3, <1>2, <1>3, QuietKeeps
<1> QED
  BY <1>4, <1>5

\* A finished write is followed by the next one, by closing, or by nothing.
LEMMA RunWrittenKeeps ==
    ASSUME Inv, NEW more \in BOOLEAN, RunWritten(more)
    PROVE  Inv'
<1>1. TypeOK /\ LinkInv
  BY DEF Inv
<1>2. /\ Runs("written") /\ ready # <<>>
      /\ UNCHANGED <<timer, connecting, conn, flushing, retry_count, is_shutting_down, process,
                     gave_up, attempts>>
  BY DEF RunWritten, Runs
<1>3. flushing' \in BOOLEAN
  BY <1>1, <1>2 DEF TypeOK
<1>4. CASE more
  <2>1. WritePump /\ UNCHANGED <<socket, reading>>
    BY <1>4 DEF RunWritten
  <2> QED
    BY <2>1, <1>2, PumpKeeps
<1>5. CASE ~more /\ flushing /\ socket = "open"
  <2>1. /\ writing' = "idle" /\ socket' = "closed" /\ reading' = FALSE
        /\ ready' = Tail(ready) \o (IF reading THEN <<"read_error">> ELSE <<>>)
    BY <1>5 DEF RunWritten
  <2>2. writing # "pending"
    <3>1. Has(ready, {"written"})
      BY <1>1, <1>2, TailClass DEF TypeOK, Runs
    <3> QED
      BY <3>1, <1>1 DEF LinkInv
  <2>3. reading \in BOOLEAN
    BY <1>1 DEF TypeOK
  <2>4. Tail(ready) \in Seq(Handlers) /\ "read_error" \in Handlers
    BY <1>1, <1>2, TailElements DEF TypeOK, Handlers
  <2>5. PICK A : /\ Adds(Tail(ready), ready', A)
                 /\ \A g : g \in A <=> g = "read_error" /\ reading
    <3>1. Adds(Tail(ready), Tail(ready), {})
      BY <2>4, AddsNothing
    <3>2. Adds(Tail(ready), ready', IF reading THEN {} \union {"read_error"} ELSE {})
      BY <3>1, <2>1, <2>3, <2>4, AddsOneIf
    <3> QED
      BY <3>2
  <2>6. \A g : g \in A <=> (g = "read_error" /\ reading) \/ (g = "write_error" /\ writing = "pending")
    BY <2>2, <2>5
  <2> QED
    BY <2>1, <2>5, <2>6, <1>2, <1>3, <1>5, ClosesKeeps
<1>6. CASE ~more /\ ~(flushing /\ socket = "open")
  <2>1. writing' = "idle" /\ ready' = Tail(ready) /\ UNCHANGED <<socket, reading>>
    BY <1>6 DEF RunWritten
  <2> QED
    BY <2>1, <1>2, <1>3, QuietKeeps
<1> QED
  BY <1>4, <1>5, <1>6

\* A message is answered and the next read started; on a closed socket that read fails.
LEMMA RunMessageKeeps ==
    ASSUME Inv, RunMessage
    PROVE  Inv'
<1>1. TypeOK /\ LinkInv
  BY DEF Inv
<1>2. /\ Runs("message") /\ ready # <<>>
      /\ reading' = (socket = "open")
      /\ UNCHANGED <<timer, connecting, conn, socket, writing, flushing, retry_count,
                     is_shutting_down, process, gave_up, attempts>>
  BY DEF RunMessage, Runs
<1>3. PICK A : /\ Adds(Tail(ready), ready', A)
               /\ \A g : g \in A <=> (g = "send" /\ conn) \/ (g = "read_error" /\ socket # "open")
  <2>1. Tail(ready) \in Seq(Handlers)
    BY <1>1, <1>2, TailElements DEF TypeOK
  <2>2. "send" \in Handlers /\ "read_error" \in Handlers
    BY DEF Handlers
  <2>3. conn \in BOOLEAN
    BY <1>1 DEF TypeOK
  <2> DEFINE u == IF conn THEN <<"send">> ELSE <<>>
             v == IF socket = "open" THEN <<>> ELSE <<"read_error">>
  <2>4. u \in {<<>>, <<"send">>} /\ v \in {<<>>, <<"read_error">>}
    OBVIOUS
  <2>5. (u = <<"send">> <=> conn) /\ (v = <<"read_error">> <=> socket # "open")
    BY <2>3
  <2>6. ready' = Tail(ready) \o u \o v
    BY DEF RunMessage
  <2> HIDE DEF u, v
  <2> DEFINE A == Among("send", u, "read_error", v)
  <2>7. Adds(Tail(ready), ready', A)
    BY <2>1, <2>2, <2>4, <2>6, AddsTwo
  <2>8. \A g : g \in A <=> (g = "send" /\ conn) \/ (g = "read_error" /\ socket # "open")
    BY <2>5 DEF Among
  <2> QED
    BY <2>7, <2>8
<1>4. Moves({"message"}, A)
  BY <1>1, <1>2, <1>3, RunMoves
<1>5. Has(ready, ReadHandlers) /\ Linked
  <2>1. Has(ready, ReadHandlers)
    BY <1>4 DEF Moves, ReadHandlers
  <2> QED
    BY <2>1, SubClass DEF Linked
<1>6. AttemptInv' /\ ReportingContinues'
  <2>1. A \subseteq LinkHandlers \ {"report"} /\ {"message"} \subseteq LinkHandlers \ {"report"}
    BY <1>3 DEF LinkHandlers, ReadHandlers
  <2> QED
    BY <2>1, <1>2, <1>4, <1>5, CommKeeps
<1>7. /\ Has(ready', ReadHandlers) <=> socket # "open"
      /\ Single(ready', ReadHandlers)
  <2>1. Single(ready, ReadHandlers) /\ {"message"} \intersect ReadHandlers # {}
    BY <1>1 DEF LinkInv, ReadHandlers
  <2>2. A \intersect ReadHandlers # {} <=> socket # "open"
    BY <1>3 DEF ReadHandlers
  <2>3. \A f, g \in A : f \in ReadHandlers /\ g \in ReadHandlers => f = g
    BY <1>3 DEF ReadHandlers
  <2> QED
    BY <2>1, <2>2, <2>3, <1>4 DEF Moves
<1>8. /\ Has(ready', {"written"}) <=> Has(ready, {"written"})
      /\ Has(ready', {"write_error"}) <=> Has(ready, {"write_error"})
      /\ Has(ready', {"disconnect"}) <=> Has(ready, {"disconnect"})
      /\ Single(ready, {"written"}) => Single(ready', {"written"})
      /\ Single(ready, {"write_error"}) => Single(ready', {"write_error"})
  <2>1. /\ A \intersect {"written"} = {}
        /\ A \intersect {"write_error"} = {}
        /\ A \intersect {"disconnect"} = {}
    BY <1>3
  <2> QED
    BY <2>1, <1>4 DEF Moves
<1>9. LinkInv'
  <2>1. ~ReadsOver /\ ~ReadsOver'
    BY <1>2, <1>5, <1>7 DEF ReadsOver
  <2>2. WritesOver' <=> WritesOver
    BY <1>2, <1>8 DEF WritesOver
  <2>3. ErrorsTold' = ErrorsTold
    BY <2>1, <2>2 DEF ErrorsTold
  <2>4. /\ timer' = "report" => conn'
        /\ Linked' => attempts' = 0 /\ retry_count' = ErrorsTold' /\ (conn' <=> retry_count' = 0)
    BY <2>3, <1>2, <1>5, LinkKept
  <2> QED
    BY <2>4, <1>1, <1>2, <1>7, <1>8 DEF LinkInv
<1>10. TypeOK'
  BY <1>1, <1>2, <1>4 DEF TypeOK, Moves
<1> QED
  BY <1>6, <1>9, <1>10 DEF Inv

\* A read ends with a message or an error, a write with a completion or an error.
LEMMA ReadCompletesKeeps ==
    ASSUME Inv, NEW h \in {"message", "read_error"}, ReadCompletes(h)
    PROVE  Inv'
<1>1. TypeOK /\ LinkInv
  BY DEF Inv
<1>2. /\ reading /\ reading' = FALSE
      /\ ready' = Append(ready, h)
      /\ UNCHANGED <<timer, connecting, conn, socket, writing, flushing, retry_count,
                     is_shutting_down, process, gave_up, attempts>>
  BY DEF ReadCompletes, Completes
<1>3. Moves({}, {h})
  <2>1. ready \in Seq(Handlers) /\ h \in Handlers
    BY <1>1 DEF TypeOK, Handlers
  <2> QED
    BY <2>1, <1>1, <1>2, AddsOne, PostMoves
<1>4. Linked
  BY <1>2 DEF Linked
<1>5. AttemptInv' /\ ReportingContinues'
  <2>1. {h} \subseteq LinkHandlers \ {"report"} /\ {} \subseteq LinkHandlers \ {"report"}
    BY DEF LinkHandlers, ReadHandlers
  <2> QED
    BY <2>1, <1>2, <1>3, <1>4, CommKeeps
<1>6. Has(ready', ReadHandlers) /\ Single(ready', ReadHandlers)
  <2>1. Single(ready, ReadHandlers) /\ ~Has(ready, ReadHandlers)
    BY <1>1, <1>2 DEF LinkInv
  <2>2. {h} \intersect ReadHandlers # {}
    BY DEF ReadHandlers
  <2> QED
    BY <2>1, <2>2, <1>3 DEF Moves
<1>7. /\ Has(ready', {"written"}) <=> Has(ready, {"written"})
      /\ Has(ready', {"write_error"}) <=> Has(ready, {"write_error"})
      /\ Has(ready', {"disconnect"}) <=> Has(ready, {"disconnect"})
      /\ Single(ready, {"written"}) => Single(ready', {"written"})
      /\ Single(ready, {"write_error"}) => Single(ready', {"write_error"})
  BY <1>3 DEF Moves
<1>8. LinkInv'
  <2>1. ~ReadsOver /\ ~ReadsOver'
    BY <1>2, <1>6 DEF ReadsOver
  <2>2. WritesOver' <=> WritesOver
    BY <1>2, <1>7 DEF WritesOver
  <2>3. ErrorsTold' = ErrorsTold
    BY <2>1, <2>2 DEF ErrorsTold
  <2>4. /\ timer' = "report" => conn'
        /\ Linked' => attempts' = 0 /\ retry_count' = ErrorsTold' /\ (conn' <=> retry_count' = 0)
    BY <2>3, <1>2, <1>4, LinkKept
  <2> QED
    BY <2>4, <1>1, <1>2, <1>6, <1>7 DEF LinkInv
<1>9. TypeOK'
  BY <1>1, <1>2, <1>3 DEF TypeOK, Moves
<1> QED
  BY <1>5, <1>8, <1>9 DEF Inv

\* A write that ends leaves its handler in its place.
LEMMA WriteCompletesKeeps ==
    ASSUME Inv, NEW h \in {"written", "write_error"}, WriteCompletes(h)
    PROVE  Inv'
<1>1. TypeOK /\ LinkInv
  BY DEF Inv
<1>2. /\ writing = "pending" /\ writing' = IF h = "written" THEN "done" ELSE "off"
      /\ ready' = Append(ready, h)
      /\ UNCHANGED <<timer, connecting, conn, socket, reading, flushing, retry_count,
                     is_shutting_down, process, gave_up, attempts>>
  BY DEF WriteCompletes, Completes
<1>3. Moves({}, {h})
  <2>1. ready \in Seq(Handlers) /\ h \in Handlers
    BY <1>1 DEF TypeOK, Handlers
  <2> QED
    BY <2>1, <1>1, <1>2, AddsOne, PostMoves
<1>4. Linked
  BY <1>2 DEF Linked
<1>5. AttemptInv' /\ ReportingContinues'
  <2>1. {h} \subseteq LinkHandlers \ {"report"} /\ {} \subseteq LinkHandlers \ {"report"}
    BY DEF LinkHandlers
  <2> QED
    BY <2>1, <1>2, <1>3, <1>4, CommKeeps
<1>6. ~Has(ready, {"written"}) /\ ~Has(ready, {"write_error"})
  BY <1>1, <1>2 DEF LinkInv
<1>7. /\ Has(ready', {"written"}) <=> h = "written"
      /\ Has(ready', {"write_error"}) <=> h = "write_error"
      /\ Has(ready', {"disconnect"}) <=> Has(ready, {"disconnect"})
      /\ Single(ready', {"written"}) /\ Single(ready', {"write_error"})
  BY <1>1, <1>3, <1>6 DEF Moves, LinkInv
<1>8. /\ Has(ready', ReadHandlers) <=> Has(ready, ReadHandlers)
      /\ Single(ready', ReadHandlers)
  <2>1. {h} \intersect ReadHandlers = {}
    BY DEF ReadHandlers
  <2> QED
    BY <2>1, <1>1, <1>3 DEF Moves, LinkInv
<1>9. LinkInv'
  <2>1. ReadsOver' <=> ReadsOver
    BY <1>2, <1>8 DEF ReadsOver
  <2>2. ~WritesOver' /\ ~WritesOver
    BY <1>2, <1>7 DEF WritesOver
  <2>3. ErrorsTold' = ErrorsTold
    BY <2>1, <2>2 DEF ErrorsTold
  <2>4. /\ timer' = "report" => conn'
        /\ Linked' => attempts' = 0 /\ retry_count' = ErrorsTold' /\ (conn' <=> retry_count' = 0)
    BY <2>3, <1>2, <1>4, LinkKept
  <2> QED
    BY <2>4, <1>1, <1>2, <1>7, <1>8 DEF LinkInv
<1>10. TypeOK'
  BY <1>1, <1>2, <1>3 DEF TypeOK, Moves
<1> QED
  BY <1>5, <1>9, <1>10 DEF Inv

-----------------------------------------------------------------------------
(* The steps of the agent keep the invariant.                               *)

\* While an attempt is under way nothing of a connection is queued.
LEMMA NotLinked ==
    ASSUME ~Linked
    PROVE  /\ ~conn /\ socket # "open" /\ ~reading /\ writing \notin {"pending", "done"}
           /\ timer # "report"
           /\ ~Has(ready, LinkHandlers) /\ ~Has(ready, ReadHandlers)
           /\ ~Has(ready, {"written"}) /\ ~Has(ready, {"write_error"})
           /\ ~Has(ready, {"disconnect"}) /\ ~Has(ready, {"report"})
<1>1. /\ "written" \in LinkHandlers /\ "write_error" \in LinkHandlers
      /\ "disconnect" \in LinkHandlers /\ "report" \in LinkHandlers
  BY DEF LinkHandlers
<1> QED
  BY <1>1, SubClass DEF Linked

\* The connect handler: a fresh connection has told no error, and reports.
LEMMA RunConnectedKeeps ==
    ASSUME Inv, RunConnected
    PROVE  Inv'
<1>1. TypeOK /\ AttemptInv /\ LinkInv
  BY DEF Inv
<1>2. /\ Runs("connected") /\ ready # <<>>
      /\ retry_count' = 0 /\ attempts' = 0
      /\ conn' = TRUE
      /\ socket' = "open" /\ reading' = TRUE /\ writing' = "idle" /\ flushing' = FALSE
      /\ ready' = Append(Tail(ready), "send")
      /\ timer' = IF is_shutting_down THEN timer ELSE "report"
      /\ UNCHANGED <<connecting, is_shutting_down, process, gave_up>>
  BY DEF RunConnected, Runs, ResetRetries, ReportsAfterConnecting, StartReporting
<1>3. Moves({"connected"}, {"send"})
  <2>1. Tail(ready) \in Seq(Handlers) /\ "send" \in Handlers
    BY <1>1, <1>2, TailElements DEF TypeOK, Handlers
  <2>2. Adds(Tail(ready), ready', {"send"})
    BY <2>1, <1>2, AddsOne
  <2> QED
    BY <2>2, <1>1, <1>2, RunMoves
<1>4. Has(ready, AttemptHandlers)
  <2>1. {"connected"} \intersect AttemptHandlers # {}
    BY DEF AttemptHandlers
  <2> QED
    BY <2>1, <1>3 DEF Moves
<1>5. Connecting /\ ~Linked /\ timer = "none" /\ ~gave_up /\ ~connecting
  BY <1>1, <1>4 DEF AttemptInv, Connecting
<1>6. ~Has(ready', AttemptHandlers) /\ Single(ready', AttemptHandlers)
  <2>1. {"connected"} \intersect AttemptHandlers # {} /\ {"send"} \intersect AttemptHandlers = {}
    BY DEF AttemptHandlers
  <2>2. Single(ready, AttemptHandlers)
    BY <1>1 DEF AttemptInv
  <2> QED
    BY <2>1, <2>2, <1>3 DEF Moves
<1>7. /\ ~Has(ready', ReadHandlers) /\ Single(ready', ReadHandlers)
      /\ ~Has(ready', {"written"}) /\ Single(ready', {"written"})
      /\ ~Has(ready', {"write_error"}) /\ Single(ready', {"write_error"})
  <2>1. {"connected"} \intersect ReadHandlers = {} /\ {"send"} \intersect ReadHandlers = {}
    BY DEF ReadHandlers
  <2>2. /\ {"connected"} \intersect {"written"} = {} /\ {"send"} \intersect {"written"} = {}
        /\ {"connected"} \intersect {"write_error"} = {} /\ {"send"} \intersect {"write_error"} = {}
    OBVIOUS
  <2>3. ~Has(ready, ReadHandlers) /\ ~Has(ready, {"written"}) /\ ~Has(ready, {"write_error"})
    BY <1>5, NotLinked
  <2>4. Single(ready, ReadHandlers) /\ Single(ready, {"written"}) /\ Single(ready, {"write_error"})
    BY <1>1 DEF LinkInv
  <2> QED
    BY <2>1, <2>2, <2>3, <2>4, <1>3 DEF Moves
<1>8. TypeOK'
  <2>1. retry_count' \in 0..MaxRetries /\ attempts' \in 0..MaxRetries
    BY <1>2, RetriesAssumption
  <2>2. timer' \in {"none", "report", "retry"}
    BY <1>2, <1>5
  <2>3. ready' \in Seq(Handlers)
    BY <1>3 DEF Moves
  <2> QED
    BY <2>1, <2>2, <2>3, <1>1, <1>2 DEF TypeOK
<1>9. AttemptInv'
  <2>1. ~Connecting' /\ ~connecting'
    BY <1>2, <1>5, <1>6 DEF Connecting
  <2>2. ~Has(ready', {"retry"}) /\ ~Has(ready', {"connected", "refused"})
    BY <1>6, SubClass
  <2> QED
    BY <2>1, <2>2, <1>2, <1>5, <1>6 DEF AttemptInv
<1>10. LinkInv'
  <2>1. ErrorsTold' = 0
    BY <1>2 DEF ErrorsTold, ReadsOver, WritesOver
  <2> QED
    BY <2>1, <1>2, <1>7 DEF LinkInv
<1>11. ReportingContinues'
  BY <1>2 DEF ReportingContinues
<1> QED
  BY <1>8, <1>9, <1>10, <1>11 DEF Inv

\* A refused connect: the next retry is armed, or the agent gives up.
LEMMA RefusedKeeps ==
    ASSUME Inv, HandleConnectionError, Runs("refused")
    PROVE  Inv'
<1>1. TypeOK /\ AttemptInv /\ LinkInv
  BY DEF Inv
<1>2. /\ conn' = FALSE
      /\ \/ /\ retry_count < MaxRetries
            /\ retry_count' = retry_count + 1 /\ timer' = "retry" /\ UNCHANGED gave_up
         \/ /\ ~(retry_count < MaxRetries)
            /\ gave_up' = TRUE /\ UNCHANGED <<retry_count, timer>>
      /\ UNCHANGED <<connecting, socket, reading, writing, flushing, is_shutting_down, process,
                     attempts>>
  BY DEF HandleConnectionError, DropConnection, CanRetry, commVars
<1>3. Has(ready, AttemptHandlers) /\ Has(ready, {"connected", "refused"})
  <2>1. \A C : Has(ready, C) <=> "refused" \in C \/ Has(Tail(ready), C)
    BY <1>1, TailClass DEF TypeOK, Runs
  <2> QED
    BY <2>1 DEF AttemptHandlers
<1>4. Connecting /\ ~Linked /\ timer = "none" /\ ~gave_up /\ ~connecting
  BY <1>1, <1>3 DEF AttemptInv, Connecting
<1>5. ~conn /\ socket # "open" /\ ~reading /\ writing \notin {"pending", "done"}
  BY <1>4, NotLinked
<1>6. Moves({"refused"}, {})
  <2>1. ready # <<>> /\ Tail(ready) \in Seq(Handlers)
    BY <1>1, TailElements DEF TypeOK, Runs
  <2>2. ready' = Tail(ready)
    BY <2>1, <1>5, ConcatEmptySeq DEF HandleConnectionError, DropConnection
  <2> QED
    BY <2>1, <2>2, <1>1, AddsNothing, RunMoves
<1>7. ~Has(ready', AttemptHandlers) /\ Single(ready', AttemptHandlers)
  <2>1. {"refused"} \intersect AttemptHandlers # {}
    BY DEF AttemptHandlers
  <2>2. Single(ready, AttemptHandlers)
    BY <1>1 DEF AttemptInv
  <2> QED
    BY <2>1, <2>2, <1>6 DEF Moves
<1>8. ~Linked'
  <2>1. ~Has(ready', LinkHandlers)
    BY <1>4, <1>6, NotLinked DEF Moves
  <2> QED
    BY <2>1, <1>2, <1>4, <1>5 DEF Linked
<1>9. retry_count \in 0..MaxRetries /\ attempts \in 0..MaxRetries
  BY <1>1 DEF TypeOK
<1>10. TypeOK'
  <2>1. retry_count' \in 0..MaxRetries /\ timer' \in {"none", "report", "retry"} /\ gave_up' \in BOOLEAN
    <3>1. CASE retry_count < MaxRetries
      <4>1. retry_count' = retry_count + 1 /\ timer' = "retry" /\ gave_up' = gave_up
        BY <3>1, <1>2
      <4>2. retry_count + 1 \in 0..MaxRetries
        BY <3>1, <1>9, RetriesAssumption
      <4>3. gave_up \in BOOLEAN
        BY <1>1 DEF TypeOK
      <4> QED
        BY <4>1, <4>2, <4>3
    <3>2. CASE ~(retry_count < MaxRetries)
      BY <3>2, <1>2, <1>4, <1>9
    <3> QED
      BY <3>1, <3>2
  <2> QED
    BY <2>1, <1>1, <1>2, <1>6 DEF TypeOK, Moves
<1>11. AttemptInv'
  <2>1. ~Connecting' /\ ~connecting'
    BY <1>2, <1>4, <1>7 DEF Connecting
  <2>2. ~Has(ready', {"retry"}) /\ ~Has(ready', {"connected", "refused"})
    BY <1>7, SubClass
  <2>3. attempts \in {retry_count - 1, retry_count}
    BY <1>1, <1>3 DEF AttemptInv
  <2>4. timer' = "retry" => attempts' \in {retry_count' - 2, retry_count' - 1}
    BY <2>3, <1>2, <1>4, <1>9
  <2>5. gave_up' => timer' = "none" /\ attempts' >= MaxRetries - 1
    <3>1. SUFFICES ASSUME gave_up'
                   PROVE  timer' = "none" /\ attempts' >= MaxRetries - 1
      OBVIOUS
    <3>2. ~(retry_count < MaxRetries) /\ timer' = timer
      BY <3>1, <1>2, <1>4
    <3>3. attempts >= MaxRetries - 1
      BY <3>2, <2>3, <1>9, RetriesAssumption
    <3> QED
      BY <3>2, <3>3, <1>2, <1>4
  <2> QED
    BY <2>1, <2>2, <2>4, <2>5, <1>2, <1>7, <1>8 DEF AttemptInv
<1>12. LinkInv'
  <2>1. /\ ~Has(ready', ReadHandlers) /\ ~Has(ready', {"written"})
        /\ ~Has(ready', {"write_error"})
    <3>1. /\ ~Has(ready, ReadHandlers) /\ ~Has(ready, {"written"})
          /\ ~Has(ready, {"write_error"})
      BY <1>4, NotLinked
    <3> QED
      BY <3>1, <1>6 DEF Moves
  <2>2. /\ Single(ready', ReadHandlers) /\ Single(ready', {"written"})
        /\ Single(ready', {"write_error"})
    BY <2>1 DEF Has, Single
  <2>3. timer' # "report"
    BY <1>2, <1>4
  <2> QED
    BY <2>1, <2>2, <2>3, <1>2, <1>5, <1>8 DEF LinkInv
<1>13. ReportingContinues'
  BY <1>2 DEF ReportingContinues
<1> QED
  BY <1>10, <1>11, <1>12, <1>13 DEF Inv

\* An error of the connection: never the third, so a retry is armed.
LEMMA LostKeeps ==
    ASSUME Inv, HandleConnectionError, NEW h \in {"read_error", "write_error"}, Runs(h)
    PROVE  Inv'
<1>1. TypeOK /\ AttemptInv /\ LinkInv
  BY DEF Inv
<1>2. ready # <<>> /\ Tail(ready) \in Seq(Handlers) /\ conn \in BOOLEAN
  BY <1>1, TailElements DEF TypeOK, Runs
<1> DEFINE A == IF conn THEN {"disconnect"} ELSE {}
<1>3. Moves({h}, A)
  <2>1. Adds(Tail(ready), Tail(ready), {}) /\ "disconnect" \in Handlers
    BY <1>2, AddsNothing DEF Handlers
  <2>2. ready' = Tail(ready) \o (IF conn THEN <<"disconnect">> ELSE <<>>)
    BY DEF HandleConnectionError, DropConnection
  <2>3. Adds(Tail(ready), ready', IF conn THEN {} \union {"disconnect"} ELSE {})
    BY <2>1, <2>2, <1>2, AddsOneIf
  <2>4. Adds(Tail(ready), ready', A)
    BY <2>3
  <2> QED
    BY <2>4, <1>1, RunMoves
<1>4. Has(ready, {h}) /\ Linked
  <2>1. Has(ready, {h})
    BY <1>3 DEF Moves
  <2>2. h \in LinkHandlers
    BY DEF LinkHandlers, ReadHandlers
  <2> QED
    BY <2>1, <2>2, SubClass DEF Linked
<1>5. h = "read_error" => Has(ready, ReadHandlers)
  BY <1>4 DEF Has, ReadHandlers
<1>6. ~Connecting /\ ~gave_up
  BY <1>1, <1>4 DEF AttemptInv
<1>7. attempts = 0 /\ retry_count = ErrorsTold /\ (conn <=> retry_count = 0)
  BY <1>1, <1>4 DEF LinkInv
<1>8. /\ h = "read_error" => ~ReadsOver
      /\ h = "write_error" => ~WritesOver
  BY <1>4, <1>5 DEF ReadsOver, WritesOver
<1>9. ErrorsTold \in {0, 1} /\ retry_count < MaxRetries
  BY <1>7, <1>8, RetriesAssumption DEF ErrorsTold
<1>10. /\ conn' = FALSE
       /\ retry_count' = retry_count + 1 /\ timer' = "retry" /\ UNCHANGED gave_up
       /\ UNCHANGED <<connecting, socket, reading, writing, flushing, is_shutting_down, process,
                      attempts>>
  BY <1>9 DEF HandleConnectionError, DropConnection, CanRetry, commVars
<1>11. /\ h = "read_error" => ~Has(ready', ReadHandlers)
       /\ h # "read_error" => (Has(ready', ReadHandlers) <=> Has(ready, ReadHandlers))
       /\ Single(ready', ReadHandlers)
  <2>1. Single(ready, ReadHandlers) /\ A \intersect ReadHandlers = {}
    BY <1>1 DEF LinkInv, ReadHandlers
  <2>2. {h} \intersect ReadHandlers # {} <=> h = "read_error"
    BY DEF ReadHandlers
  <2> QED
    BY <2>1, <2>2, <1>3 DEF Moves
<1>12. /\ h = "write_error" => ~Has(ready', {"write_error"})
       /\ h # "write_error" => (Has(ready', {"write_error"}) <=> Has(ready, {"write_error"}))
       /\ Single(ready', {"write_error"})
  <2>1. Single(ready, {"write_error"}) /\ A \intersect {"write_error"} = {}
    BY <1>1 DEF LinkInv
  <2>2. {h} \intersect {"write_error"} # {} <=> h = "write_error"
    OBVIOUS
  <2> QED
    BY <2>1, <2>2, <1>3 DEF Moves
<1>13. /\ Has(ready', {"written"}) <=> Has(ready, {"written"})
       /\ Single(ready', {"written"})
       /\ Has(ready', {"disconnect"}) <=> Has(ready, {"disconnect"}) \/ conn
  <2>1. Single(ready, {"written"}) /\ A \intersect {"written"} = {} /\ {h} \intersect {"written"} = {}
    BY <1>1 DEF LinkInv
  <2>2. {h} \intersect {"disconnect"} = {} /\ (A \intersect {"disconnect"} # {} <=> conn)
    OBVIOUS
  <2> QED
    BY <2>1, <2>2, <1>3 DEF Moves
<1>14. ErrorsTold' = ErrorsTold + 1
  <2>1. h = "read_error" => ReadsOver' /\ (WritesOver' <=> WritesOver)
    BY <1>1, <1>5, <1>10, <1>11, <1>12 DEF ReadsOver, WritesOver, LinkInv
  <2>2. h = "write_error" => WritesOver' /\ (ReadsOver' <=> ReadsOver)
    BY <1>1, <1>4, <1>10, <1>11, <1>12 DEF ReadsOver, WritesOver, LinkInv
  <2> QED
    BY <2>1, <2>2, <1>8 DEF ErrorsTold
<1>15. TypeOK'
  <2>1. retry_count' \in 0..MaxRetries
    BY <1>1, <1>9, <1>10, RetriesAssumption DEF TypeOK
  <2> QED
    BY <2>1, <1>1, <1>3, <1>10 DEF TypeOK, Moves
<1>16. AttemptInv'
  <2>1. ~Has(ready', AttemptHandlers) /\ Single(ready', AttemptHandlers)
    <3>1. ~Has(ready, AttemptHandlers) /\ Single(ready, AttemptHandlers)
      BY <1>1, <1>6 DEF AttemptInv, Connecting
    <3>2. A \intersect AttemptHandlers = {} /\ {h} \intersect AttemptHandlers = {}
      BY DEF AttemptHandlers
    <3> QED
      BY <3>1, <3>2, <1>3 DEF Moves
  <2>2. ~Connecting' /\ ~connecting'
    BY <2>1, <1>6, <1>10 DEF Connecting
  <2>3. ~Has(ready', {"retry"}) /\ ~Has(ready', {"connected", "refused"})
    BY <2>1, SubClass
  <2>4. attempts' \in {retry_count' - 2, retry_count' - 1}
    BY <1>7, <1>9, <1>10
  <2> QED
    BY <2>1, <2>2, <2>3, <2>4, <1>6, <1>10 DEF AttemptInv
<1>17. LinkInv'
  <2>1. attempts' = 0 /\ retry_count' = ErrorsTold' /\ (conn' <=> retry_count' = 0)
    BY <1>7, <1>9, <1>10, <1>14
  <2>2. socket' = "open" => conn' \/ Has(ready', {"disconnect"})
    BY <1>1, <1>10, <1>13 DEF LinkInv
  <2>3. reading' => ~Has(ready', ReadHandlers)
    BY <1>1, <1>10, <1>11 DEF LinkInv
  <2> QED
    BY <2>1, <2>2, <2>3, <1>1, <1>10, <1>11, <1>12, <1>13 DEF LinkInv
<1>18. ReportingContinues'
  BY <1>10 DEF ReportingContinues
<1> QED
  BY <1>15, <1>16, <1>17, <1>18 DEF Inv

\* The retry: resolve() throws, or the next attempt begins.
LEMMA RunRetryKeeps ==
    ASSUME Inv, RunRetry
    PROVE  Inv'
<1>1. TypeOK /\ AttemptInv /\ LinkInv
  BY DEF Inv
<1>2. /\ Runs("retry") /\ ready' = Tail(ready)
      /\ \/ process' = "failed" /\ UNCHANGED <<connecting, attempts>>
         \/ connecting' = TRUE /\ attempts' = attempts + 1 /\ UNCHANGED process
      /\ UNCHANGED <<timer, conn, socket, reading, writing, flushing, retry_count,
                     is_shutting_down, gave_up>>
  BY DEF RunRetry, commVars
<1>3. Moves({"retry"}, {})
  <2>1. ready # <<>> /\ Tail(ready) \in Seq(Handlers)
    BY <1>1, <1>2, TailElements DEF TypeOK, Runs
  <2> QED
    BY <2>1, <1>1, <1>2, AddsNothing, RunMoves
<1>4. Has(ready, AttemptHandlers) /\ Has(ready, {"retry"})
  <2>1. {"retry"} \intersect AttemptHandlers # {}
    BY DEF AttemptHandlers
  <2> QED
    BY <2>1, <1>3 DEF Moves
<1>5. Connecting /\ ~Linked /\ timer = "none" /\ ~gave_up /\ ~connecting
  BY <1>1, <1>4 DEF AttemptInv, Connecting
<1>6. ~Has(ready', AttemptHandlers) /\ Single(ready', AttemptHandlers)
  <2>1. {"retry"} \intersect AttemptHandlers # {}
    BY DEF AttemptHandlers
  <2>2. Single(ready, AttemptHandlers)
    BY <1>1 DEF AttemptInv
  <2> QED
    BY <2>1, <2>2, <1>3 DEF Moves
<1>7. ~Linked'
  <2>1. ~Has(ready', LinkHandlers)
    BY <1>3, <1>5, NotLinked DEF Moves
  <2> QED
    BY <2>1, <1>2, <1>5 DEF Linked
<1>8. attempts \in {retry_count - 2, retry_count - 1}
  BY <1>1, <1>4 DEF AttemptInv
<1>9. retry_count \in 0..MaxRetries /\ attempts \in 0..MaxRetries
  BY <1>1 DEF TypeOK
<1>10. connecting' => attempts' \in {retry_count' - 1, retry_count'} /\ attempts' \in 0..MaxRetries
  <2>1. connecting' => attempts' = attempts + 1
    BY <1>2, <1>5
  <2>2. attempts + 1 \in {retry_count - 1, retry_count}
    BY <1>8, <1>9
  <2>3. attempts + 1 \in 0..MaxRetries
    BY <2>2, <1>9, RetriesAssumption
  <2> QED
    BY <2>1, <2>2, <2>3, <1>2
<1>11. TypeOK'
  <2>1. attempts' \in 0..MaxRetries /\ connecting' \in BOOLEAN
    <3>1. attempts' = attempts \/ connecting' = TRUE
      BY <1>2
    <3>2. connecting \in BOOLEAN
      BY <1>1 DEF TypeOK
    <3>3. connecting' \in BOOLEAN
      BY <3>2, <1>2
    <3> QED
      BY <3>1, <3>3, <1>9, <1>10
  <2>2. process' \in {"running", "ended", "failed", "crashed"}
    BY <1>1, <1>2 DEF TypeOK
  <2> QED
    BY <2>1, <2>2, <1>1, <1>2, <1>3 DEF TypeOK, Moves
<1>12. AttemptInv'
  <2>1. ~Has(ready', {"retry"}) /\ ~Has(ready', {"connected", "refused"})
    BY <1>6, SubClass
  <2> QED
    BY <2>1, <1>2, <1>5, <1>6, <1>7, <1>10 DEF AttemptInv
<1>13. LinkInv'
  <2>1. /\ ~Has(ready', ReadHandlers) /\ ~Has(ready', {"written"})
        /\ ~Has(ready', {"write_error"})
    <3>1. /\ ~Has(ready, ReadHandlers) /\ ~Has(ready, {"written"})
          /\ ~Has(ready, {"write_error"})
      BY <1>5, NotLinked
    <3> QED
      BY <3>1, <1>3 DEF Moves
  <2>2. /\ Single(ready', ReadHandlers) /\ Single(ready', {"written"})
        /\ Single(ready', {"write_error"})
    BY <2>1 DEF Has, Single
  <2>3. socket' # "open" /\ ~reading' /\ writing' \notin {"pending", "done"} /\ timer' # "report"
    BY <1>2, <1>5, NotLinked
  <2> QED
    BY <2>1, <2>2, <2>3, <1>7 DEF LinkInv
<1>14. ReportingContinues'
  BY <1>2, <1>5, NotLinked DEF ReportingContinues
<1> QED
  BY <1>11, <1>12, <1>13, <1>14 DEF Inv

\* A report sends through conn_ and waits again; without conn_ the process is over.
LEMMA RunReportKeeps ==
    ASSUME Inv, RunReport
    PROVE  Inv'
<1>1. TypeOK /\ AttemptInv /\ LinkInv
  BY DEF Inv
<1>2. /\ Runs("report")
      /\ conn => /\ ready' = Append(Tail(ready), "send")
                 /\ timer' = IF is_shutting_down THEN timer ELSE "report"
                 /\ UNCHANGED process
      /\ ~conn => ready' = Tail(ready) /\ process' = "crashed" /\ UNCHANGED timer
      /\ UNCHANGED <<connecting, conn, socket, reading, writing, flushing, retry_count,
                     is_shutting_down, gave_up, attempts>>
  BY DEF RunReport, StartReporting, commVars
<1> DEFINE A == IF conn THEN {"send"} ELSE {}
<1>3. Moves({"report"}, A)
  <2>1. ready # <<>> /\ Tail(ready) \in Seq(Handlers) /\ "send" \in Handlers
    BY <1>1, <1>2, TailElements DEF TypeOK, Runs, Handlers
  <2>2. Adds(Tail(ready), ready', A)
    BY <2>1, <1>2, AddsNothing, AddsOne
  <2> QED
    BY <2>2, <1>1, <1>2, RunMoves
<1>4. Linked
  <2>1. Has(ready, {"report"}) /\ "report" \in LinkHandlers
    BY <1>3 DEF Moves, LinkHandlers
  <2> QED
    BY <2>1, SubClass DEF Linked
<1>5. ~Connecting /\ ~gave_up
  BY <1>1, <1>4 DEF AttemptInv
<1>6. /\ Has(ready', ReadHandlers) <=> Has(ready, ReadHandlers)
      /\ Has(ready', {"written"}) <=> Has(ready, {"written"})
      /\ Has(ready', {"write_error"}) <=> Has(ready, {"write_error"})
      /\ Has(ready', {"disconnect"}) <=> Has(ready, {"disconnect"})
      /\ Has(ready', AttemptHandlers) <=> Has(ready, AttemptHandlers)
      /\ Has(ready', {"retry"}) <=> Has(ready, {"retry"})
  <2>1. /\ A \intersect ReadHandlers = {} /\ {"report"} \intersect ReadHandlers = {}
        /\ A \intersect AttemptHandlers = {} /\ {"report"} \intersect AttemptHandlers = {}
    BY DEF ReadHandlers, AttemptHandlers
  <2>2. \A h \in {"written", "write_error", "disconnect", "retry"} :
            A \intersect {h} = {} /\ {"report"} \intersect {h} = {}
    OBVIOUS
  <2> QED
    BY <2>1, <2>2, <1>3 DEF Moves
<1>7. /\ Single(ready', ReadHandlers) /\ Single(ready', {"written"})
      /\ Single(ready', {"write_error"}) /\ Single(ready', AttemptHandlers)
  <2>1. /\ A \intersect ReadHandlers = {} /\ A \intersect AttemptHandlers = {}
        /\ A \intersect {"written"} = {} /\ A \intersect {"write_error"} = {}
    BY DEF ReadHandlers, AttemptHandlers
  <2>2. /\ Single(ready, ReadHandlers) /\ Single(ready, {"written"})
        /\ Single(ready, {"write_error"}) /\ Single(ready, AttemptHandlers)
    BY <1>1 DEF LinkInv, AttemptInv
  <2> QED
    BY <2>1, <2>2, <1>3 DEF Moves
<1>8. /\ timer' \in {"none", "report", "retry"}
      /\ timer' = "report" => conn
      /\ timer' = "retry" => timer = "retry"
      /\ process' \in {"running", "ended", "failed", "crashed"}
  BY <1>1, <1>2 DEF TypeOK, LinkInv
<1>9. TypeOK'
  BY <1>1, <1>2, <1>3, <1>8 DEF TypeOK, Moves
<1>10. AttemptInv'
  <2>1. ~Connecting' /\ ~connecting'
    BY <1>2, <1>5, <1>6 DEF Connecting
  <2>2. ~Has(ready', {"retry"}) /\ ~Has(ready', {"connected", "refused"})
    BY <1>5, <1>6, SubClass DEF Connecting
  <2> QED
    BY <2>1, <2>2, <1>1, <1>2, <1>5, <1>7, <1>8 DEF AttemptInv
<1>11. LinkInv'
  <2>1. ErrorsTold' = ErrorsTold
    BY <1>2, <1>6 DEF ErrorsTold, ReadsOver, WritesOver
  <2>2. attempts' = 0 /\ retry_count' = ErrorsTold' /\ (conn' <=> retry_count' = 0)
    BY <2>1, <1>1, <1>2, <1>4 DEF LinkInv
  <2> QED
    BY <2>2, <1>1, <1>2, <1>6, <1>7, <1>8 DEF LinkInv
<1>12. ReportingContinues'
  BY <1>2 DEF ReportingContinues
<1> QED
  BY <1>9, <1>10, <1>11, <1>12 DEF Inv

\* A signal that arrives, or that is handled: timers go, a connection is flushed, and
\* everything else is where it was.
LEMMA SignalKeeps ==
    ASSUME Inv, NEW H, NEW A, Moves(H, A), H \subseteq {"signal"}, A \subseteq {"signal", "flush"},
           "flush" \in A => conn,
           timer' = timer \/ (timer' = "none" /\ is_shutting_down'),
           is_shutting_down' \in BOOLEAN, is_shutting_down => is_shutting_down',
           UNCHANGED <<connecting, conn, socket, reading, writing, flushing, retry_count, process,
                       gave_up, attempts>>
    PROVE  Inv'
<1>1. TypeOK /\ AttemptInv /\ LinkInv /\ ReportingContinues
  BY DEF Inv
<1>2. \A C : "signal" \notin C /\ "flush" \notin C => H \intersect C = {} /\ A \intersect C = {}
  OBVIOUS
<1>3. \A C : "signal" \notin C /\ "flush" \notin C =>
          /\ Has(ready', C) <=> Has(ready, C)
          /\ Single(ready, C) => Single(ready', C)
  BY <1>2 DEF Moves
<1>4. /\ Has(ready', AttemptHandlers) <=> Has(ready, AttemptHandlers)
      /\ Single(ready, AttemptHandlers) => Single(ready', AttemptHandlers)
      /\ Has(ready', {"connected", "refused"}) <=> Has(ready, {"connected", "refused"})
      /\ Has(ready', {"retry"}) <=> Has(ready, {"retry"})
      /\ Has(ready', {"report"}) <=> Has(ready, {"report"})
  BY <1>3 DEF AttemptHandlers
<1>5. /\ Has(ready', ReadHandlers) <=> Has(ready, ReadHandlers)
      /\ Single(ready, ReadHandlers) => Single(ready', ReadHandlers)
      /\ Has(ready', {"written"}) <=> Has(ready, {"written"})
      /\ Single(ready, {"written"}) => Single(ready', {"written"})
      /\ Has(ready', {"write_error"}) <=> Has(ready, {"write_error"})
      /\ Single(ready, {"write_error"}) => Single(ready', {"write_error"})
      /\ Has(ready', {"disconnect"}) <=> Has(ready, {"disconnect"})
  BY <1>3 DEF ReadHandlers
<1>6. Linked' => Linked
  <2>1. Has(ready', LinkHandlers) => Has(ready, LinkHandlers) \/ conn
    <3>1. A \intersect LinkHandlers # {} => "flush" \in A
      BY DEF LinkHandlers, ReadHandlers
    <3> QED
      BY <3>1 DEF Moves
  <2>2. timer' = "report" => timer = "report"
    OBVIOUS
  <2> QED
    BY <2>1, <2>2 DEF Linked
<1>7. Connecting' <=> Connecting
  BY <1>4 DEF Connecting
<1>8. TypeOK'
  <2>1. timer' \in {"none", "report", "retry"}
    BY <1>1 DEF TypeOK
  <2> QED
    BY <2>1, <1>1 DEF TypeOK, Moves
<1>9. AttemptInv'
  <2>1. timer' = "retry" => timer = "retry"
    OBVIOUS
  <2>2. timer = "none" => timer' = "none"
    OBVIOUS
  <2> QED
    BY <2>1, <2>2, <1>1, <1>4, <1>6, <1>7 DEF AttemptInv
<1>10. LinkInv'
  <2>1. ErrorsTold' = ErrorsTold
    BY <1>5 DEF ErrorsTold, ReadsOver, WritesOver
  <2> QED
    BY <2>1, <1>1, <1>5, <1>6 DEF LinkInv
<1>11. ReportingContinues'
  <2>1. /\ "report" \in Range(ready) <=> Has(ready, {"report"})
        /\ "report" \in Range(ready') <=> Has(ready', {"report"})
    BY <1>1, QueuedClass DEF TypeOK, Moves
  <2>2. ~is_shutting_down' => timer' = timer /\ ~is_shutting_down
    OBVIOUS
  <2> QED
    BY <2>1, <2>2, <1>1, <1>4 DEF ReportingContinues, Queued
<1> QED
  BY <1>8, <1>9, <1>10, <1>11 DEF Inv

\* shutdownAgent() takes the timers and posts the flush of a connection that is set.
LEMMA RunSignalKeeps ==
    ASSUME Inv, RunSignal
    PROVE  Inv'
<1>1. TypeOK
  BY DEF Inv
<1>2. /\ Runs("signal")
      /\ is_shutting_down' = TRUE /\ timer' = "none"
      /\ ready' = Tail(ready) \o (IF conn THEN <<"flush">> ELSE <<>>)
      /\ UNCHANGED <<connecting, conn, socket, reading, writing, flushing, retry_count, process,
                     gave_up, attempts>>
  BY DEF RunSignal, commVars
<1> DEFINE A == IF conn THEN {} \union {"flush"} ELSE {}
<1>3. Moves({"signal"}, A)
  <2>1. Tail(ready) \in Seq(Handlers) /\ "flush" \in Handlers /\ conn \in BOOLEAN
    BY <1>1, <1>2, TailElements DEF TypeOK, Runs, Handlers
  <2>2. Adds(Tail(ready), Tail(ready), {})
    BY <2>1, AddsNothing
  <2>3. Adds(Tail(ready), ready', A)
    BY <2>1, <2>2, <1>2, AddsOneIf
  <2> QED
    BY <2>3, <1>1, <1>2, RunMoves
<1>4. A \subseteq {"signal", "flush"} /\ ("flush" \in A => conn)
  OBVIOUS
<1> HIDE DEF A
<1> QED
  BY <1>2, <1>3, <1>4, SignalKeeps

\* A signal only queues its handler.
LEMMA SignalArrivesKeeps ==
    ASSUME Inv, Signal
    PROVE  Inv'
<1>1. TypeOK
  BY DEF Inv
<1>2. /\ ready' = Append(ready, "signal")
      /\ UNCHANGED <<timer, connecting, conn, socket, reading, writing, flushing, retry_count,
                     is_shutting_down, process, gave_up, attempts>>
  BY DEF Signal, Completes, commVars
<1>3. Moves({}, {"signal"})
  <2>1. ready \in Seq(Handlers) /\ "signal" \in Handlers
    BY <1>1 DEF TypeOK, Handlers
  <2> QED
    BY <2>1, <1>1, <1>2, AddsOne, PostMoves
<1>4. is_shutting_down' \in BOOLEAN
  BY <1>1, <1>2 DEF TypeOK
<1>5. {} \subseteq {"signal"} /\ {"signal"} \subseteq {"signal", "flush"} /\ "flush" \notin {"signal"}
  OBVIOUS
<1> QED
  BY <1>2, <1>3, <1>4, <1>5, SignalKeeps

\* A connect that ends passes the attempt to its handler.
LEMMA ConnectCompletesKeeps ==
    ASSUME Inv, NEW h \in {"connected", "refused"}, ConnectCompletes(h)
    PROVE  Inv'
<1>1. TypeOK /\ AttemptInv /\ LinkInv /\ ReportingContinues
  BY DEF Inv
<1>2. /\ connecting /\ connecting' = FALSE
      /\ ready' = Append(ready, h)
      /\ UNCHANGED <<timer, conn, socket, reading, writing, flushing, retry_count,
                     is_shutting_down, process, gave_up, attempts>>
  BY DEF ConnectCompletes, Completes, commVars
<1>3. Moves({}, {h})
  <2>1. ready \in Seq(Handlers) /\ h \in Handlers
    BY <1>1 DEF TypeOK, Handlers
  <2> QED
    BY <2>1, <1>1, <1>2, AddsOne, PostMoves
<1>4. Connecting /\ ~Linked /\ timer = "none" /\ ~gave_up /\ ~Has(ready, AttemptHandlers)
  BY <1>1, <1>2 DEF AttemptInv, Connecting
<1>5. /\ Has(ready', AttemptHandlers) /\ Single(ready', AttemptHandlers)
      /\ ~Has(ready', {"retry"})
  <2>1. {h} \intersect AttemptHandlers # {} /\ {h} \intersect {"retry"} = {}
    BY DEF AttemptHandlers
  <2>2. Single(ready, AttemptHandlers) /\ ~Has(ready, {"retry"})
    BY <1>1, <1>4, SubClass DEF AttemptInv
  <2> QED
    BY <2>1, <2>2, <1>3, <1>4 DEF Moves
<1>6. ~Linked'
  <2>1. {h} \intersect LinkHandlers = {}
    BY DEF LinkHandlers, ReadHandlers
  <2>2. ~Has(ready', LinkHandlers)
    BY <2>1, <1>3, <1>4, NotLinked DEF Moves
  <2> QED
    BY <2>2, <1>2, <1>4, NotLinked DEF Linked
<1>7. TypeOK'
  BY <1>1, <1>2, <1>3 DEF TypeOK, Moves
<1>8. AttemptInv'
  <2>1. attempts' \in {retry_count' - 1, retry_count'}
    BY <1>1, <1>2 DEF AttemptInv
  <2> QED
    BY <2>1, <1>2, <1>4, <1>5, <1>6 DEF AttemptInv
<1>9. LinkInv'
  <2>1. /\ ~Has(ready', ReadHandlers) /\ ~Has(ready', {"written"})
        /\ ~Has(ready', {"write_error"})
    <3>1. \A g \in {"written", "write_error"} : g \in LinkHandlers
      BY DEF LinkHandlers
    <3>2. ~Has(ready', LinkHandlers)
      BY <1>6 DEF Linked
    <3> QED
      BY <3>1, <3>2, SubClass
  <2>2. /\ Single(ready', ReadHandlers) /\ Single(ready', {"written"})
        /\ Single(ready', {"write_error"})
    BY <2>1 DEF Has, Single
  <2>3. socket' # "open" /\ ~reading' /\ writing' \notin {"pending", "done"} /\ timer' # "report"
    BY <1>2, <1>4, NotLinked
  <2> QED
    BY <2>1, <2>2, <2>3, <1>6 DEF LinkInv
<1>10. ReportingContinues'
  BY <1>2, <1>4, NotLinked DEF ReportingContinues
<1> QED
  BY <1>7, <1>8, <1>9, <1>10 DEF Inv

\* The one-second wait ends: a report is due.
LEMMA ReportDueKeeps ==
    ASSUME Inv, TimerExpires, timer = "report"
    PROVE  Inv'
<1>1. TypeOK /\ AttemptInv /\ LinkInv
  BY DEF Inv
<1>2. /\ timer' = "none"
      /\ ready' = Append(ready, "report")
      /\ UNCHANGED <<connecting, conn, socket, reading, writing, flushing, retry_count,
                     is_shutting_down, process, gave_up, attempts>>
  BY DEF TimerExpires, Completes, commVars
<1>3. Moves({}, {"report"})
  <2>1. ready \in Seq(Handlers) /\ "report" \in Handlers
    BY <1>1 DEF TypeOK, Handlers
  <2> QED
    BY <2>1, <1>1, <1>2, AddsOne, PostMoves
<1>4. Linked /\ ~Connecting /\ ~gave_up
  BY <1>1 DEF Linked, AttemptInv
<1>5. /\ Has(ready', ReadHandlers) <=> Has(ready, ReadHandlers)
      /\ Has(ready', {"written"}) <=> Has(ready, {"written"})
      /\ Has(ready', {"write_error"}) <=> Has(ready, {"write_error"})
      /\ Has(ready', {"disconnect"}) <=> Has(ready, {"disconnect"})
      /\ Has(ready', AttemptHandlers) <=> Has(ready, AttemptHandlers)
      /\ Has(ready', {"report"})
  <2>1. {"report"} \intersect ReadHandlers = {} /\ {"report"} \intersect AttemptHandlers = {}
    BY DEF ReadHandlers, AttemptHandlers
  <2> QED
    BY <2>1, <1>3 DEF Moves
<1>6. /\ Single(ready', ReadHandlers) /\ Single(ready', {"written"})
      /\ Single(ready', {"write_error"}) /\ Single(ready', AttemptHandlers)
  <2>1. {"report"} \intersect ReadHandlers = {} /\ {"report"} \intersect AttemptHandlers = {}
    BY DEF ReadHandlers, AttemptHandlers
  <2>2. /\ Single(ready, ReadHandlers) /\ Single(ready, {"written"})
        /\ Single(ready, {"write_error"}) /\ Single(ready, AttemptHandlers)
    BY <1>1 DEF LinkInv, AttemptInv
  <2> QED
    BY <2>1, <2>2, <1>3 DEF Moves
<1>7. TypeOK'
  BY <1>1, <1>2, <1>3 DEF TypeOK, Moves
<1>8. AttemptInv'
  <2>1. ~Connecting' /\ ~connecting'
    BY <1>2, <1>4, <1>5 DEF Connecting
  <2>2. ~Has(ready', {"retry"}) /\ ~Has(ready', {"connected", "refused"})
    BY <1>4, <1>5, SubClass DEF Connecting
  <2> QED
    BY <2>1, <2>2, <1>2, <1>4, <1>6 DEF AttemptInv
<1>9. LinkInv'
  <2>1. ErrorsTold' = ErrorsTold
    BY <1>2, <1>5 DEF ErrorsTold, ReadsOver, WritesOver
  <2>2. attempts' = 0 /\ retry_count' = ErrorsTold' /\ (conn' <=> retry_count' = 0)
    BY <2>1, <1>1, <1>2, <1>4 DEF LinkInv
  <2> QED
    BY <2>2, <1>1, <1>2, <1>5, <1>6 DEF LinkInv
<1>10. ReportingContinues'
  <2>1. "report" \in Range(ready')
    BY <1>3, <1>5, QueuedClass DEF Moves
  <2> QED
    BY <2>1 DEF ReportingContinues, Queued
<1> QED
  BY <1>7, <1>8, <1>9, <1>10 DEF Inv

\* The five-second wait ends: nothing of the lost connection is left by then.
LEMMA RetryDueKeeps ==
    ASSUME Inv, TimerExpires, timer = "retry"
    PROVE  Inv'
<1>1. TypeOK /\ AttemptInv /\ LinkInv
  BY DEF Inv
<1>2. /\ ready = <<>>
      /\ timer' = "none"
      /\ ready' = Append(ready, "retry")
      /\ UNCHANGED <<connecting, conn, socket, reading, writing, flushing, retry_count,
                     is_shutting_down, process, gave_up, attempts>>
  BY DEF TimerExpires, Completes, commVars
<1>3. Moves({}, {"retry"})
  <2>1. ready \in Seq(Handlers) /\ "retry" \in Handlers
    BY <1>1 DEF TypeOK, Handlers
  <2> QED
    BY <2>1, <1>1, <1>2, AddsOne, PostMoves
<1>4. \A C : ~Has(ready, C) /\ Single(ready, C)
  BY <1>2 DEF Has, Single
<1>5. ~Connecting /\ ~gave_up /\ ~conn /\ attempts \in {retry_count - 2, retry_count - 1}
  BY <1>1 DEF AttemptInv
<1>6. socket # "open" /\ ~reading /\ writing \notin {"pending", "done"}
  BY <1>1, <1>4, <1>5 DEF LinkInv
<1>7. /\ ~Has(ready', LinkHandlers) /\ ~Has(ready', ReadHandlers)
      /\ ~Has(ready', {"written"}) /\ ~Has(ready', {"write_error"})
      /\ ~Has(ready', {"connected", "refused"})
  <2>1. {"retry"} \intersect LinkHandlers = {} /\ {"retry"} \intersect ReadHandlers = {}
    BY DEF LinkHandlers, ReadHandlers
  <2>2. \A C \in {{"written"}, {"write_error"}, {"connected", "refused"}} : {"retry"} \intersect C = {}
    OBVIOUS
  <2> QED
    BY <2>1, <2>2, <1>3, <1>4 DEF Moves
<1>8. Single(ready', AttemptHandlers)
  BY <1>3, <1>4 DEF Moves
<1>9. ~Linked'
  BY <1>2, <1>5, <1>6, <1>7 DEF Linked
<1>10. TypeOK'
  BY <1>1, <1>2, <1>3 DEF TypeOK, Moves
<1>11. AttemptInv'
  <2>1. ~connecting'
    BY <1>2, <1>5 DEF Connecting
  <2> QED
    BY <2>1, <1>2, <1>5, <1>7, <1>8, <1>9 DEF AttemptInv
<1>12. LinkInv'
  <2>1. /\ Single(ready', ReadHandlers) /\ Single(ready', {"written"})
        /\ Single(ready', {"write_error"})
    BY <1>7 DEF Has, Single
  <2> QED
    BY <2>1, <1>2, <1>6, <1>7, <1>9 DEF LinkInv
<1>13. ReportingContinues'
  BY <1>2, <1>5 DEF ReportingContinues
<1> QED
  BY <1>10, <1>11, <1>12, <1>13 DEF Inv

\* Ending, or doing nothing, leaves everything the invariant speaks of.
LEMMA EndKeeps ==
    ASSUME Inv, process' = process \/ process' = "ended",
           UNCHANGED <<ready, timer, connecting, conn, socket, reading, writing, flushing,
                       retry_count, is_shutting_down, gave_up, attempts>>
    PROVE  Inv'
<1>1. TypeOK'
  <2>1. process' \in {"running", "ended", "failed", "crashed"}
    BY DEF Inv, TypeOK
  <2> QED
    BY <2>1 DEF Inv, TypeOK
<1>2. Connecting' = Connecting /\ Linked' = Linked /\ ErrorsTold' = ErrorsTold
  BY DEF Connecting, Linked, ErrorsTold, ReadsOver, WritesOver
<1>3. AttemptInv'
  BY <1>2 DEF Inv, AttemptInv
<1>4. LinkInv'
  BY <1>2 DEF Inv, LinkInv
<1>5. ReportingContinues'
  BY DEF Inv, ReportingContinues, Queued
<1> QED
  BY <1>1, <1>3, <1>4, <1>5 DEF Inv

-----------------------------------------------------------------------------
(* The theorems.                                                            *)

\* The agent starts with one attempt under way and nothing else.
LEMMA InitInv == Init => Inv
<1>1. SUFFICES ASSUME Init PROVE Inv
  OBVIOUS
<1>2. \A C : ~Has(ready, C) /\ Single(ready, C)
  BY <1>1 DEF Init, Has, Single
<1>3. TypeOK
  <2>1. 0 \in 0..MaxRetries
    BY RetriesAssumption
  <2>2. ready \in Seq(Handlers)
    BY <1>1 DEF Init
  <2>3. {connecting, conn, reading, flushing, is_shutting_down, gave_up} \subseteq BOOLEAN
    BY <1>1 DEF Init
  <2> QED
    BY <2>1, <2>2, <2>3, <1>1 DEF Init, TypeOK
<1>4. ~Linked
  BY <1>1, <1>2 DEF Init, Linked
<1>5. AttemptInv
  BY <1>1, <1>2, <1>4 DEF Init, AttemptInv
<1>6. LinkInv
  BY <1>1, <1>2, <1>4 DEF Init, LinkInv
<1>7. ReportingContinues
  BY <1>1 DEF Init, ReportingContinues
<1> QED
  BY <1>3, <1>5, <1>6, <1>7 DEF Inv

\* Every handler and every completion keeps the invariant.
LEMMA NextInv == Inv /\ [Next]_vars => Inv'
<1>1. SUFFICES ASSUME Inv, [Next]_vars PROVE Inv'
  OBVIOUS
<1>2. CASE RunHandler
  <2>1. CASE RunConnected
    BY <2>1, <1>1, RunConnectedKeeps
  <2>2. CASE HandleConnectionError
    <3>1. Runs("refused") \/ \E h \in {"read_error", "write_error"} : Runs(h)
      BY <2>2 DEF HandleConnectionError
    <3> QED
      BY <3>1, <2>2, <1>1, RefusedKeeps, LostKeeps
  <2>3. CASE RunRetry
    BY <2>3, <1>1, RunRetryKeeps
  <2>4. CASE RunReport
    BY <2>4, <1>1, RunReportKeeps
  <2>5. CASE RunMessage
    BY <2>5, <1>1, RunMessageKeeps
  <2>6. CASE RunSignal
    BY <2>6, <1>1, RunSignalKeeps
  <2>7. CASE RunSend
    BY <2>7, <1>1, RunSendKeeps
  <2>8. CASE \E more \in BOOLEAN : RunWritten(more)
    BY <2>8, <1>1, RunWrittenKeeps
  <2>9. CASE \E h \in {"disconnect", "flush"} : RunClose(h)
    BY <2>9, <1>1, RunCloseKeeps
  <2> QED
    BY <1>2, <2>1, <2>2, <2>3, <2>4, <2>5, <2>6, <2>7, <2>8, <2>9 DEF RunHandler
<1>3. CASE \E h \in {"connected", "refused"} : ConnectCompletes(h)
  BY <1>3, <1>1, ConnectCompletesKeeps
<1>4. CASE \E h \in {"message", "read_error"} : ReadCompletes(h)
  BY <1>4, <1>1, ReadCompletesKeeps
<1>5. CASE \E h \in {"written", "write_error"} : WriteCompletes(h)
  BY <1>5, <1>1, WriteCompletesKeeps
<1>6. CASE TimerExpires
  <2>1. timer = "report" \/ timer = "retry"
    BY <1>6, <1>1 DEF TimerExpires, Inv, TypeOK
  <2> QED
    BY <2>1, <1>6, <1>1, ReportDueKeeps, RetryDueKeeps
<1>7. CASE Signal
  BY <1>7, <1>1, SignalArrivesKeeps
<1>8. CASE End
  BY <1>8, <1>1, EndKeeps DEF End, commVars
<1>9. CASE UNCHANGED vars
  BY <1>9, <1>1, EndKeeps DEF vars, commVars
<1> QED
  BY <1>1, <1>2, <1>3, <1>4, <1>5, <1>6, <1>7, <1>8, <1>9 DEF Next

\* Through every order of losing, retrying, reporting and stopping, the agent has one
\* attempt or one connection, and what it has counted and armed agrees with it.
THEOREM Invariance == Spec => []Inv
  BY InitInv, NextInv, PTL DEF Spec

\* The variables keep their types; in particular retry_count_ never passes MAX_RETRIES.
THEOREM TypeCorrect == Spec => []TypeOK
<1>1. Inv => TypeOK
  BY DEF Inv
<1> QED
  BY <1>1, Invariance, PTL

\* However often the connection was lost before, a connected agent that was not told to
\* stop has its next report due or queued.
THEOREM ReportingIsKeptUp == Spec => []ReportingContinues
<1>1. Inv => ReportingContinues
  BY DEF Inv
<1> QED
  BY <1>1, Invariance, PTL

\* start() runs only with conn_ null and the socket of the connection before closed.
THEOREM ConnectionsDoNotOverlap == Spec => []OneConnection
<1>1. Inv => OneConnection
  <2>1. SUFFICES ASSUME Inv, connecting \/ Queued("connected") \/ Queued("retry")
                 PROVE  ~conn /\ socket # "open"
    BY DEF OneConnection
  <2>2. Queued("connected") \/ Queued("retry") => Has(ready, AttemptHandlers)
    BY <2>1, QueuedClass, SubClass DEF Inv, TypeOK, Queued
  <2>3. ~Linked
    BY <2>1, <2>2 DEF Inv, AttemptInv, Connecting
  <2> QED
    BY <2>3 DEF Linked
<1> QED
  BY <1>1, Invariance, PTL

\* An agent that logged "Giving up" tries no more, and has tried MAX_RETRIES times, or
\* once less, since it was last connected.
THEOREM GivesUpForGood == Spec => []GivingUpIsFinal
<1>1. Inv => GivingUpIsFinal
  <2>1. SUFFICES ASSUME Inv, gave_up
                 PROVE  /\ ~connecting /\ timer # "retry" /\ ~Queued("retry")
                        /\ ~Queued("connected")
                        /\ attempts >= MaxRetries - 1
    BY DEF GivingUpIsFinal
  <2>2. ~Connecting /\ timer = "none" /\ attempts >= MaxRetries - 1
    BY <2>1 DEF Inv, AttemptInv
  <2>3. ~connecting /\ ~Has(ready, AttemptHandlers)
    BY <2>2 DEF Connecting
  <2>4. ~Queued("retry") /\ ~Queued("connected")
    BY <2>1, <2>3, QueuedClass, SubClass DEF Inv, TypeOK, Queued
  <2> QED
    BY <2>2, <2>3, <2>4
<1> QED
  BY <1>1, Invariance, PTL
=============================================================================
