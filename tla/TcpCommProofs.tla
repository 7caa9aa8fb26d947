--------------------------- MODULE TcpCommProofs ---------------------------
(***************************************************************************)
(* Proofs about TcpComm, for any number of send() calls, of frames from    *)
(* the peer and of posted handlers.                                        *)
(***************************************************************************)
EXTENDS TcpComm, SequenceTheorems, TLAPS

-----------------------------------------------------------------------------
(* The inductive invariant.                                                 *)

Writes   == {h \in Handler : h.op = "write"}
OkWrites == {h \in Handler : h.op = "write" /\ h.ok}
Reads    == {h \in Handler : h.op \in {"header", "body"}}
Flushes  == {h \in Handler : h.op = "flush"}

\* Some handler, and at most one handler, of the queue q is in C.
Has(q, C)    == \E i \in 1..Len(q) : q[i] \in C
Single(q, C) == \A i, j \in 1..Len(q) : q[i] \in C /\ q[j] \in C => i = j

\* The write chain is in one place: under way, completed and not yet handled, failed
\* for good, or idle with nothing queued.
WriteChain ==
    /\ writing \in {0, 1}
    /\ writing = 1 => open /\ ~Has(ready, Writes)
    /\ Single(ready, Writes)
    /\ write_errors \in {0, 1}
    /\ write_errors = 1 => writing = 0 /\ ~Has(ready, Writes)
    /\ write_queue # <<>> <=> writing = 1 \/ Has(ready, Writes) \/ write_errors = 1

\* So is the read chain; it ends with its first error.
ReadChain ==
    /\ reading # "none" => ~Has(ready, Reads)
    /\ Single(ready, Reads)
    /\ read_errors \in {0, 1}
    /\ read_errors = 1 => reading = "none" /\ ~Has(ready, Reads)

\* The frames written whose completion has run.  The frame of a completion that has
\* not run is on the wire and at the front of write_queue at once.
Popped == IF Has(ready, OkWrites) THEN Len(wire) - 1 ELSE Len(wire)
Queued == Popped + Len(write_queue)

\* The send() closures of q carry exactly the frames lo+1 .. hi, in ascending order.
SendsAre(q, lo, hi) ==
    /\ lo <= hi
    /\ \A i \in 1..Len(q) : q[i].op = "send" => q[i].frame \in (lo + 1)..hi
    /\ \A i, j \in 1..Len(q) :
           i < j /\ q[i].op = "send" /\ q[j].op = "send" => q[i].frame < q[j].frame
    /\ \A n \in (lo + 1)..hi : \E i \in 1..Len(q) : q[i].op = "send" /\ q[i].frame = n

\* Every frame is on the wire, in write_queue or in a posted closure, in this order.
FramesInOrder ==
    /\ Has(ready, OkWrites) => wire # <<>>
    /\ \A k \in 1..Len(wire) : wire[k] = k
    /\ \A k \in 1..Len(write_queue) : write_queue[k] = Popped + k
    /\ SendsAre(ready, Queued, calls)

\* Every posted frame up to f stands before every flush; no posted frame is up to f.
BeforeFlush(q, f) ==
    \A i, j \in 1..Len(q) : q[i].op = "flush" /\ q[j].op = "send" /\ q[j].frame <= f => j < i
NonePosted(q, f) == \A i \in 1..Len(q) : q[i].op = "send" => q[i].frame > f

\* flushAndDisconnect() takes effect behind the frames sent before it.
FlushOrder ==
    /\ calls <= MaxSends
    /\ flush_after \in 0..calls \/ flush_after = NoFlush
    /\ Has(ready, Flushes) \/ is_shutting_down => flush_after # NoFlush
    /\ BeforeFlush(ready, flush_after)
    /\ is_shutting_down => NonePosted(ready, flush_after)

Inv == TypeOK /\ WriteChain /\ ReadChain /\ FramesInOrder /\ FlushOrder

-----------------------------------------------------------------------------
(* The queue of handlers.  A handler takes the head; everything else appends. *)

\* The tail of a queue holds its elements one place further on.
LEMMA TailElements ==
    ASSUME NEW S, NEW q \in Seq(S), q # <<>>
    PROVE  /\ Len(q) \in Nat \ {0}
           /\ Head(q) = q[1] /\ Head(q) \in S
           /\ Tail(q) \in Seq(S)
           /\ Len(Tail(q)) = Len(q) - 1
           /\ \A i \in 1..Len(Tail(q)) : Tail(q)[i] = q[i + 1]
  BY HeadTailProperties, EmptySeq, LenProperties

\* Appending adds one last element and moves none.
LEMMA AppendElements ==
    ASSUME NEW S, NEW q \in Seq(S), NEW e \in S
    PROVE  /\ Len(q) \in Nat
           /\ Append(q, e) \in Seq(S)
           /\ Len(Append(q, e)) = Len(q) + 1
           /\ \A i \in 1..Len(q) : Append(q, e)[i] = q[i]
           /\ Append(q, e)[Len(q) + 1] = e
  BY AppendProperties, LenProperties

\* What running the head leaves of a class of handlers.
LEMMA TailClass ==
    ASSUME NEW S, NEW q \in Seq(S), q # <<>>, NEW C
    PROVE  /\ Has(q, C) <=> Head(q) \in C \/ Has(Tail(q), C)
           /\ Single(q, C) => Single(Tail(q), C)
           /\ Single(q, C) /\ Head(q) \in C => ~Has(Tail(q), C)
<1> DEFINE t == Tail(q)
           n == Len(q)
<1>1. /\ n \in Nat \ {0}
      /\ Head(q) = q[1]
      /\ Len(t) = n - 1
      /\ \A i \in 1..Len(t) : t[i] = q[i + 1]
  BY TailElements
<1> HIDE DEF t, n
<1>2. \A i \in 1..Len(t) : i + 1 \in 1..n /\ i + 1 # 1
  BY <1>1
<1>3. \A i \in 1..n : i = 1 \/ (i - 1 \in 1..Len(t) /\ t[i - 1] = q[i])
  BY <1>1
<1>4. 1 \in 1..n
  BY <1>1
<1>5. Has(t, C) => Has(q, C)
  BY <1>1, <1>2 DEF Has, n
<1>6. Head(q) \in C => Has(q, C)
  BY <1>1, <1>4 DEF Has, n
<1>7. Has(q, C) => Head(q) \in C \/ Has(t, C)
  BY <1>1, <1>3 DEF Has, n
<1>8. Single(q, C) => Single(t, C)
  <2>1. SUFFICES ASSUME Single(q, C), NEW i \in 1..Len(t), NEW j \in 1..Len(t),
                        t[i] \in C, t[j] \in C
                 PROVE  i = j
    BY DEF Single
  <2>2. i + 1 = j + 1
    BY <2>1, <1>1, <1>2 DEF Single, n
  <2> QED
    BY <2>2, <1>1
<1>9. Single(q, C) /\ Head(q) \in C => ~Has(t, C)
  BY <1>1, <1>2, <1>4 DEF Single, Has, n
<1> QED
  BY <1>5, <1>6, <1>7, <1>8, <1>9 DEF t

\* What appending a handler makes of a class of handlers.
LEMMA AppendClass ==
    ASSUME NEW S, NEW q \in Seq(S), NEW e \in S, NEW C
    PROVE  /\ Has(Append(q, e), C) <=> Has(q, C) \/ e \in C
           /\ Single(q, C) /\ (e \notin C \/ ~Has(q, C)) => Single(Append(q, e), C)
<1> DEFINE a == Append(q, e)
           n == Len(q)
<1>1. /\ n \in Nat
      /\ Len(a) = n + 1
      /\ \A i \in 1..n : a[i] = q[i]
      /\ a[n + 1] = e
  BY AppendElements
<1> HIDE DEF a, n
<1>2. \A i \in 1..Len(a) : i \in 1..n \/ i = n + 1
  BY <1>1
<1>3. \A i \in 1..n : i \in 1..Len(a)
  BY <1>1
<1>4. n + 1 \in 1..Len(a)
  BY <1>1
<1>5. Has(a, C) <=> Has(q, C) \/ e \in C
  BY <1>1, <1>2, <1>3, <1>4 DEF Has, n
<1>6. Single(q, C) /\ (e \notin C \/ ~Has(q, C)) => Single(a, C)
  BY <1>1, <1>2, Zenon DEF Single, Has, n
<1> QED
  BY <1>5, <1>6 DEF a

\* Running a handler that is not a send() closure leaves the posted frames alone.
LEMMA SendsAfterOther ==
    ASSUME NEW q \in Seq(Handler), q # <<>>, Head(q).op # "send",
           NEW lo \in Nat, NEW hi \in Nat, SendsAre(q, lo, hi)
    PROVE  SendsAre(Tail(q), lo, hi)
<1> DEFINE t == Tail(q)
           n == Len(q)
<1>1. /\ n \in Nat \ {0}
      /\ Head(q) = q[1]
      /\ Len(t) = n - 1
      /\ \A i \in 1..Len(t) : t[i] = q[i + 1]
  BY TailElements
<1> HIDE DEF t, n
<1>2. \A i \in 1..Len(t) : i + 1 \in 1..n /\ t[i] = q[i + 1]
  BY <1>1
<1>3. \A i \in 1..n : i = 1 \/ (i - 1 \in 1..Len(t) /\ t[i - 1] = q[i])
  BY <1>1
<1>4. \A i \in 1..Len(t) : t[i].op = "send" => t[i].frame \in (lo + 1)..hi
  BY <1>2 DEF SendsAre, n
<1>5. ASSUME NEW i \in 1..Len(t), NEW j \in 1..Len(t), i < j, t[i].op = "send", t[j].op = "send"
      PROVE  t[i].frame < t[j].frame
  <2>1. i + 1 < j + 1
    BY <1>5, <1>1
  <2>2. /\ i + 1 \in 1..n /\ q[i + 1] = t[i]
        /\ j + 1 \in 1..n /\ q[j + 1] = t[j]
    BY <1>2
  <2>3. q[i + 1].frame < q[j + 1].frame
    BY <2>1, <2>2, <1>5 DEF SendsAre, n
  <2> QED
    BY <2>2, <2>3
<1>6. ASSUME NEW m \in (lo + 1)..hi
      PROVE  \E i \in 1..Len(t) : t[i].op = "send" /\ t[i].frame = m
  <2>1. PICK i \in 1..n : q[i].op = "send" /\ q[i].frame = m
    BY DEF SendsAre, n
  <2>2. i # 1
    BY <2>1, <1>1
  <2> QED
    BY <2>1, <2>2, <1>3
<1> QED
  BY <1>4, <1>5, <1>6 DEF SendsAre, t

\* A send() closure at the head carries the oldest posted frame.
LEMMA SendsAfterSend ==
    ASSUME NEW q \in Seq(Handler), q # <<>>, Head(q).op = "send",
           NEW lo \in Nat, NEW hi \in Nat, SendsAre(q, lo, hi)
    PROVE  /\ Head(q).frame = lo + 1
           /\ SendsAre(Tail(q), lo + 1, hi)
<1> DEFINE t == Tail(q)
           n == Len(q)
<1>1. /\ n \in Nat \ {0}
      /\ Head(q) = q[1]
      /\ Len(t) = n - 1
      /\ \A i \in 1..Len(t) : t[i] = q[i + 1]
  BY TailElements
<1> HIDE DEF t, n
<1>2. \A i \in 1..Len(t) : i + 1 \in 1..n /\ t[i] = q[i + 1] /\ 1 < i + 1
  BY <1>1
<1>3. \A i \in 1..n : i = 1 \/ (i - 1 \in 1..Len(t) /\ t[i - 1] = q[i])
  BY <1>1
<1>4. 1 \in 1..n /\ q[1].op = "send"
  BY <1>1
<1>5. q[1].frame \in (lo + 1)..hi
  BY <1>4 DEF SendsAre, n
<1>6. lo + 1 \in (lo + 1)..hi
  BY <1>5
<1>7. PICK f \in 1..n : q[f].op = "send" /\ q[f].frame = lo + 1
  BY <1>6 DEF SendsAre, n
<1>8. f = 1
  <2>1. SUFFICES ASSUME f # 1 PROVE FALSE
    OBVIOUS
  <2>2. 1 < f
    BY <2>1, <1>1
  <2>3. q[1].frame < q[f].frame
    BY <2>2, <1>4, <1>7 DEF SendsAre, n
  <2> QED
    BY <2>3, <1>5, <1>7
<1>9. q[1].frame = lo + 1
  BY <1>7, <1>8
<1>10. \A i \in 1..Len(t) : t[i].op = "send" => t[i].frame \in (lo + 1 + 1)..hi
  <2>1. SUFFICES ASSUME NEW i \in 1..Len(t), t[i].op = "send"
                 PROVE  t[i].frame \in (lo + 1 + 1)..hi
    OBVIOUS
  <2>2. q[1].frame < q[i + 1].frame /\ q[i + 1].frame \in (lo + 1)..hi
    BY <2>1, <1>2, <1>4 DEF SendsAre, n
  <2>3. t[i].frame = q[i + 1].frame
    BY <1>2
  <2> QED
    BY <2>2, <2>3, <1>9
<1>11. ASSUME NEW i \in 1..Len(t), NEW j \in 1..Len(t), i < j, t[i].op = "send", t[j].op = "send"
       PROVE  t[i].frame < t[j].frame
  <2>1. i + 1 < j + 1
    BY <1>11, <1>1
  <2>2. /\ i + 1 \in 1..n /\ q[i + 1] = t[i]
        /\ j + 1 \in 1..n /\ q[j + 1] = t[j]
    BY <1>2
  <2>3. q[i + 1].frame < q[j + 1].frame
    BY <2>1, <2>2, <1>11 DEF SendsAre, n
  <2> QED
    BY <2>2, <2>3
<1>12. ASSUME NEW m \in (lo + 1 + 1)..hi
       PROVE  \E i \in 1..Len(t) : t[i].op = "send" /\ t[i].frame = m
  <2>1. m \in (lo + 1)..hi /\ m # lo + 1
    OBVIOUS
  <2>2. PICK i \in 1..n : q[i].op = "send" /\ q[i].frame = m
    BY <2>1 DEF SendsAre, n
  <2>3. i # 1
    BY <2>1, <2>2, <1>9
  <2> QED
    BY <2>2, <2>3, <1>3
<1>13. lo + 1 <= hi
  BY <1>6
<1> QED
  BY <1>1, <1>9, <1>10, <1>11, <1>12, <1>13 DEF SendsAre, t

\* send() posts the next frame behind all the others.
LEMMA SendsAfterPost ==
    ASSUME NEW q \in Seq(Handler), NEW lo \in Nat, NEW hi \in Nat, SendsAre(q, lo, hi)
    PROVE  SendsAre(Append(q, SendClosure(hi + 1)), lo, hi + 1)
<1> DEFINE e == SendClosure(hi + 1)
           a == Append(q, e)
           n == Len(q)
<1>1. e \in Handler /\ e.op = "send" /\ e.frame = hi + 1
  BY DEF SendClosure, Handler, Ops
<1> HIDE DEF e
<1>2. /\ n \in Nat
      /\ Len(a) = n + 1
      /\ \A i \in 1..n : a[i] = q[i]
      /\ a[n + 1] = e
  BY <1>1, AppendElements
<1> HIDE DEF a, n
<1>3. \A i \in 1..Len(a) : (i \in 1..n /\ a[i] = q[i]) \/ (i = n + 1 /\ a[i] = e)
  BY <1>2
<1>4. \A i \in 1..n : i \in 1..Len(a) /\ a[i] = q[i]
  BY <1>2
<1>5. n + 1 \in 1..Len(a)
  BY <1>2
<1>6. \A i \in 1..n : q[i].op = "send" => q[i].frame \in (lo + 1)..hi
  BY DEF SendsAre, n
<1>7. lo <= hi
  BY DEF SendsAre
<1>8. \A i \in 1..Len(a) : a[i].op = "send" => a[i].frame \in (lo + 1)..(hi + 1)
  BY <1>1, <1>3, <1>6, <1>7
<1>9. ASSUME NEW i \in 1..Len(a), NEW j \in 1..Len(a), i < j, a[i].op = "send", a[j].op = "send"
      PROVE  a[i].frame < a[j].frame
  <2>1. i \in 1..n /\ a[i] = q[i]
    BY <1>9, <1>2, <1>3
  <2>2. CASE j \in 1..n
    BY <2>1, <2>2, <1>4, <1>9 DEF SendsAre, n
  <2>3. CASE j = n + 1
    <3>1. a[j].frame = hi + 1
      BY <2>3, <1>1, <1>2
    <3>2. a[i].frame \in (lo + 1)..hi
      BY <2>1, <1>6, <1>9
    <3> QED
      BY <3>1, <3>2
  <2> QED
    BY <2>2, <2>3, <1>3
<1>10. ASSUME NEW m \in (lo + 1)..(hi + 1)
       PROVE  \E i \in 1..Len(a) : a[i].op = "send" /\ a[i].frame = m
  <2>1. CASE m = hi + 1
    BY <2>1, <1>1, <1>2, <1>5
  <2>2. CASE m \in (lo + 1)..hi
    <3>1. PICK i \in 1..n : q[i].op = "send" /\ q[i].frame = m
      BY <2>2 DEF SendsAre, n
    <3> QED
      BY <3>1, <1>4
  <2> QED
    BY <2>1, <2>2
<1>11. lo <= hi + 1
  BY <1>7
<1> QED
  BY <1>8, <1>9, <1>10, <1>11 DEF SendsAre, a, e

\* A handler that is not a send() closure can be posted without touching the frames.
LEMMA SendsAfterOtherPost ==
    ASSUME NEW q \in Seq(Handler), NEW e \in Handler, e.op # "send",
           NEW lo \in Nat, NEW hi \in Nat, SendsAre(q, lo, hi)
    PROVE  SendsAre(Append(q, e), lo, hi)
<1> DEFINE a == Append(q, e)
           n == Len(q)
<1>1. /\ n \in Nat
      /\ Len(a) = n + 1
      /\ \A i \in 1..n : a[i] = q[i]
      /\ a[n + 1] = e
  BY AppendElements
<1> HIDE DEF a, n
<1>2. \A i \in 1..Len(a) : a[i].op = "send" => i \in 1..n /\ a[i] = q[i]
  BY <1>1
<1>3. \A i \in 1..n : i \in 1..Len(a) /\ a[i] = q[i]
  BY <1>1
<1>4. lo <= hi
  BY DEF SendsAre
<1>5. \A i \in 1..Len(a) : a[i].op = "send" => a[i].frame \in (lo + 1)..hi
  BY <1>2 DEF SendsAre, n
<1>6. \A i, j \in 1..Len(a) :
          i < j /\ a[i].op = "send" /\ a[j].op = "send" => a[i].frame < a[j].frame
  BY <1>2 DEF SendsAre, n
<1>7. ASSUME NEW m \in (lo + 1)..hi
      PROVE  \E i \in 1..Len(a) : a[i].op = "send" /\ a[i].frame = m
  <2>1. PICK i \in 1..n : q[i].op = "send" /\ q[i].frame = m
    BY DEF SendsAre, n
  <2> QED
    BY <2>1, <1>3
<1> QED
  BY <1>4, <1>5, <1>6, <1>7 DEF SendsAre, a

\* Running a handler keeps the order of frames and flushes; a flush that runs first
\* has no frame up to f behind it.
LEMMA FlushAfterRun ==
    ASSUME NEW q \in Seq(Handler), q # <<>>, NEW f \in Nat
    PROVE  /\ BeforeFlush(q, f) => BeforeFlush(Tail(q), f)
           /\ NonePosted(q, f) => NonePosted(Tail(q), f)
           /\ BeforeFlush(q, f) /\ Head(q).op = "flush" => NonePosted(Tail(q), f)
<1> DEFINE t == Tail(q)
           n == Len(q)
<1>1. /\ n \in Nat \ {0}
      /\ Head(q) = q[1]
      /\ Len(t) = n - 1
      /\ \A i \in 1..Len(t) : t[i] = q[i + 1]
      /\ t \in Seq(Handler)
  BY TailElements
<1> HIDE DEF t, n
<1>2. \A i \in 1..Len(t) : i + 1 \in 1..n /\ t[i] = q[i + 1] /\ ~(i + 1 < 1)
  BY <1>1
<1>3. \A i, j \in 1..Len(t) : j + 1 < i + 1 => j < i
  BY <1>1
<1>4. \A i \in 1..Len(t) : t[i] \in Handler
  BY <1>1, ElementOfSeq
<1>5. \A i \in 1..Len(t) : t[i].frame \in Nat
  BY <1>4 DEF Handler
<1>6. 1 \in 1..n
  BY <1>1
<1>7. BeforeFlush(q, f) => BeforeFlush(t, f)
  BY <1>2, <1>3 DEF BeforeFlush, n
<1>8. NonePosted(q, f) => NonePosted(t, f)
  BY <1>2 DEF NonePosted, n
<1>9. BeforeFlush(q, f) /\ Head(q).op = "flush" => NonePosted(t, f)
  <2>1. SUFFICES ASSUME BeforeFlush(q, f), Head(q).op = "flush",
                        NEW i \in 1..Len(t), t[i].op = "send", t[i].frame <= f
                 PROVE  FALSE
    BY <1>5 DEF NonePosted
  <2>2. i + 1 \in 1..n /\ q[i + 1].op = "send" /\ q[i + 1].frame <= f
    BY <2>1, <1>2
  <2>3. i + 1 < 1
    BY <2>1, <2>2, <1>1, <1>6 DEF BeforeFlush, n
  <2> QED
    BY <2>3, <1>2
<1> QED
  BY <1>7, <1>8, <1>9 DEF t

\* Posting keeps the order of frames and flushes, but for a late frame up to f.
LEMMA FlushAfterPost ==
    ASSUME NEW q \in Seq(Handler), NEW e \in Handler, NEW f \in Nat,
           e.op = "send" => e.frame > f
    PROVE  /\ BeforeFlush(q, f) => BeforeFlush(Append(q, e), f)
           /\ NonePosted(q, f) => NonePosted(Append(q, e), f)
           /\ ~Has(q, Flushes) => BeforeFlush(Append(q, e), f)
<1> DEFINE a == Append(q, e)
           n == Len(q)
<1>1. /\ n \in Nat
      /\ Len(a) = n + 1
      /\ \A i \in 1..n : a[i] = q[i]
      /\ a[n + 1] = e
  BY AppendElements
<1> HIDE DEF a, n
<1>2. \A i \in 1..Len(a) : (i \in 1..n /\ a[i] = q[i]) \/ (i = n + 1 /\ a[i] = e)
  BY <1>1
<1>3. e.op = "send" => ~(e.frame <= f)
  BY DEF Handler
<1>4. \A j \in 1..Len(a) : a[j].op = "send" /\ a[j].frame <= f => j \in 1..n /\ a[j] = q[j]
  BY <1>2, <1>3
<1>5. \A j \in 1..n : j < n + 1
  BY <1>1
<1>6. BeforeFlush(q, f) => BeforeFlush(a, f)
  <2>1. SUFFICES ASSUME BeforeFlush(q, f), NEW i \in 1..Len(a), NEW j \in 1..Len(a),
                        a[i].op = "flush", a[j].op = "send", a[j].frame <= f
                 PROVE  j < i
    BY DEF BeforeFlush
  <2>2. j \in 1..n /\ a[j] = q[j]
    BY <2>1, <1>4
  <2>3. CASE i = n + 1
    BY <2>2, <2>3, <1>5
  <2>4. CASE i \in 1..n /\ a[i] = q[i]
    BY <2>1, <2>2, <2>4 DEF BeforeFlush, n
  <2> QED
    BY <2>3, <2>4, <1>2
<1>7. NonePosted(q, f) => NonePosted(a, f)
  BY <1>2 DEF NonePosted, n
<1>8. ~Has(q, Flushes) => BeforeFlush(a, f)
  <2>1. SUFFICES ASSUME ~Has(q, Flushes), NEW i \in 1..Len(a), NEW j \in 1..Len(a),
                        a[i].op = "flush", a[j].op = "send", a[j].frame <= f
                 PROVE  j < i
    BY DEF BeforeFlush
  <2>2. \A k \in 1..n : q[k] \in Handler
    BY ElementOfSeq DEF n
  <2>3. i = n + 1
    BY <2>1, <2>2, <1>2 DEF Has, Flushes, n
  <2> QED
    BY <2>1, <2>3, <1>4, <1>5
<1> QED
  BY <1>6, <1>7, <1>8 DEF a

-----------------------------------------------------------------------------
(* Completions.                                                             *)

\* The queue p is q with completions behind it: a write's if w, a successful one if
\* ok, and a read's if r.  Frames and flushes are where they were.
Adds(q, p, w, ok, r) ==
    /\ p \in Seq(Handler)
    /\ Has(p, Writes) <=> Has(q, Writes) \/ w
    /\ Has(p, OkWrites) <=> Has(q, OkWrites) \/ ok
    /\ Has(p, Reads) <=> Has(q, Reads) \/ r
    /\ Has(p, Flushes) <=> Has(q, Flushes)
    /\ Single(q, Writes) /\ ~(w /\ Has(q, Writes)) => Single(p, Writes)
    /\ Single(q, Reads) /\ ~(r /\ Has(q, Reads)) => Single(p, Reads)
    /\ \A lo, hi \in Nat : SendsAre(q, lo, hi) => SendsAre(p, lo, hi)
    /\ \A f \in Nat : BeforeFlush(q, f) => BeforeFlush(p, f)
    /\ \A f \in Nat : NonePosted(q, f) => NonePosted(p, f)

\* A handler that starts nothing.
LEMMA AddsNothing ==
    ASSUME NEW q \in Seq(Handler)
    PROVE  Adds(q, q, FALSE, FALSE, FALSE)
  BY DEF Adds

\* The completion of a write, or a write started on a closed socket.
LEMMA AddsWrite ==
    ASSUME NEW q \in Seq(Handler), NEW ok \in BOOLEAN
    PROVE  Adds(q, Append(q, Completion("write", ok)), TRUE, ok, FALSE)
<1> DEFINE e == Completion("write", ok)
<1>1. e \in Handler /\ e.op = "write" /\ e.ok = ok
  BY DEF Completion, Handler, Ops
<1> HIDE DEF e
<1>2. /\ e \in Writes
      /\ e \in OkWrites <=> ok
      /\ e \notin Reads
      /\ e \notin Flushes
  BY <1>1 DEF Writes, OkWrites, Reads, Flushes
<1>3. Append(q, e) \in Seq(Handler)
  BY <1>1, AppendElements
<1>4. \A C : /\ Has(Append(q, e), C) <=> Has(q, C) \/ e \in C
             /\ Single(q, C) /\ (e \notin C \/ ~Has(q, C)) => Single(Append(q, e), C)
  BY <1>1, AppendClass
<1>5. \A lo, hi \in Nat : SendsAre(q, lo, hi) => SendsAre(Append(q, e), lo, hi)
  BY <1>1, SendsAfterOtherPost
<1>6. \A f \in Nat : /\ BeforeFlush(q, f) => BeforeFlush(Append(q, e), f)
                     /\ NonePosted(q, f) => NonePosted(Append(q, e), f)
  BY <1>1, FlushAfterPost
<1> QED
  BY <1>2, <1>3, <1>4, <1>5, <1>6 DEF Adds, e

\* The completion of a read, or a read started on a closed socket.
LEMMA AddsRead ==
    ASSUME NEW q \in Seq(Handler), NEW part \in {"header", "body"}, NEW ok \in BOOLEAN
    PROVE  Adds(q, Append(q, Completion(part, ok)), FALSE, FALSE, TRUE)
<1> DEFINE e == Completion(part, ok)
<1>1. e \in Handler /\ e.op = part
  BY DEF Completion, Handler, Ops
<1> HIDE DEF e
<1>2. /\ e \notin Writes
      /\ e \notin OkWrites
      /\ e \in Reads
      /\ e \notin Flushes
  BY <1>1 DEF Writes, OkWrites, Reads, Flushes
<1>3. Append(q, e) \in Seq(Handler)
  BY <1>1, AppendElements
<1>4. \A C : /\ Has(Append(q, e), C) <=> Has(q, C) \/ e \in C
             /\ Single(q, C) /\ (e \notin C \/ ~Has(q, C)) => Single(Append(q, e), C)
  BY <1>1, AppendClass
<1>5. \A lo, hi \in Nat : SendsAre(q, lo, hi) => SendsAre(Append(q, e), lo, hi)
  BY <1>1, SendsAfterOtherPost
<1>6. \A f \in Nat : /\ BeforeFlush(q, f) => BeforeFlush(Append(q, e), f)
                     /\ NonePosted(q, f) => NonePosted(Append(q, e), f)
  BY <1>1, FlushAfterPost
<1> QED
  BY <1>2, <1>3, <1>4, <1>5, <1>6 DEF Adds, e

\* The two ways a sequence of one element is written.
LEMMA OneElement ==
    ASSUME NEW S, NEW e \in S
    PROVE  [i \in 1..1 |-> e] = <<e>>
<1>1. [i \in 1..1 |-> e] \in Seq(S)
  BY IsASeq
<1>2. Len([i \in 1..1 |-> e]) = 1
  BY <1>1, LenProperties
<1>3. <<e>> \in Seq(S) /\ Len(<<e>>) = 1 /\ <<e>>[1] = e
  OBVIOUS
<1>4. \A i \in 1..1 : [k \in 1..1 |-> e][i] = <<e>>[i]
  BY <1>3
<1> QED
  BY <1>1, <1>2, <1>3, <1>4, SeqEqual

\* Closing the socket fails the read and the write that were under way.
LEMMA CloseAdds ==
    ASSUME NEW q \in Seq(Handler), writing \in {0, 1},
           reading \in {"header", "body", "none"}, Close(q)
    PROVE  Adds(q, ready', writing = 1, FALSE, reading # "none")
<1> DEFINE fail == Completion("write", FALSE)
           p == q \o (IF reading # "none" THEN <<Completion(reading, FALSE)>> ELSE <<>>)
<1>1. Adds(q, p, FALSE, FALSE, reading # "none")
  <2>1. CASE reading = "none"
    <3>1. p = q
      BY <2>1, ConcatEmptySeq
    <3> QED
      BY <3>1, <2>1, AddsNothing
  <2>2. CASE reading # "none"
    <3>1. Completion(reading, FALSE) \in Handler /\ reading \in {"header", "body"}
      BY <2>2 DEF Completion, Handler, Ops
    <3>2. p = Append(q, Completion(reading, FALSE))
      BY <3>1, <2>2, AppendIsConcat
    <3>3. Adds(q, Append(q, Completion(reading, FALSE)), FALSE, FALSE, TRUE)
      BY <3>1, AddsRead
    <3> QED
      BY <3>2, <3>3, <2>2
  <2> QED
    BY <2>1, <2>2
<1>2. fail \in Handler
  BY DEF Completion, Handler, Ops
<1>3. ready' = p \o [i \in 1..writing |-> fail]
  BY DEF Close
<1> HIDE DEF p
<1>4. p \in Seq(Handler)
  BY <1>1 DEF Adds
<1>5. CASE writing = 0
  <2>1. [i \in 1..writing |-> fail] = <<>>
    BY <1>5
  <2>2. ready' = p
    BY <2>1, <1>3, <1>4, ConcatEmptySeq
  <2> QED
    BY <2>2, <1>1, <1>5 DEF Adds
<1>6. CASE writing = 1
  <2>1. [i \in 1..writing |-> fail] = <<fail>>
    BY <1>2, <1>6, OneElement
  <2>2. ready' = Append(p, fail)
    BY <2>1, <1>2, <1>3, <1>4, AppendIsConcat
  <2>3. Adds(p, ready', TRUE, FALSE, FALSE)
    BY <2>2, <1>4, AddsWrite
  <2> QED
    BY <2>3, <1>1, <1>6 DEF Adds
<1> QED
  BY <1>5, <1>6

\* What is left of the queue when its head runs.
LEMMA RunHead ==
    ASSUME TypeOK, ready # <<>>
    PROVE  /\ Head(ready) \in Handler
           /\ Tail(ready) \in Seq(Handler)
           /\ Has(ready, Writes) <=> Head(ready).op = "write" \/ Has(Tail(ready), Writes)
           /\ Has(ready, OkWrites) <=> (Head(ready).op = "write" /\ Head(ready).ok) \/ Has(Tail(ready), OkWrites)
           /\ Has(ready, Reads) <=> Head(ready).op \in {"header", "body"} \/ Has(Tail(ready), Reads)
           /\ Has(ready, Flushes) <=> Head(ready).op = "flush" \/ Has(Tail(ready), Flushes)
           /\ Single(ready, Writes) => Single(Tail(ready), Writes)
           /\ Single(ready, Reads) => Single(Tail(ready), Reads)
           /\ Single(ready, Writes) /\ Head(ready).op = "write" => ~Has(Tail(ready), Writes)
           /\ Single(ready, Reads) /\ Head(ready).op \in {"header", "body"} => ~Has(Tail(ready), Reads)
<1>1. ready \in Seq(Handler)
  BY DEF TypeOK
<1>2. Head(ready) \in Handler /\ Tail(ready) \in Seq(Handler)
  BY <1>1, TailElements
<1>3. /\ Head(ready) \in Writes <=> Head(ready).op = "write"
      /\ Head(ready) \in OkWrites <=> Head(ready).op = "write" /\ Head(ready).ok
      /\ Head(ready) \in Reads <=> Head(ready).op \in {"header", "body"}
      /\ Head(ready) \in Flushes <=> Head(ready).op = "flush"
  BY <1>2 DEF Writes, OkWrites, Reads, Flushes
<1>4. \A C : /\ Has(ready, C) <=> Head(ready) \in C \/ Has(Tail(ready), C)
             /\ Single(ready, C) => Single(Tail(ready), C)
             /\ Single(ready, C) /\ Head(ready) \in C => ~Has(Tail(ready), C)
  BY <1>1, TailClass
<1> QED
  BY <1>2, <1>3, <1>4

\* A successful completion is a completion.
LEMMA OkWriteIsWrite ==
    ASSUME NEW q
    PROVE  Has(q, OkWrites) => Has(q, Writes)
  BY DEF Has, OkWrites, Writes

\* The number of frames taken off write_queue is a number.
LEMMA PoppedType ==
    ASSUME TypeOK, FramesInOrder
    PROVE  Popped \in Nat /\ Queued \in Nat /\ Len(wire) \in Nat /\ Len(write_queue) \in Nat
<1>1. Len(wire) \in Nat /\ Len(write_queue) \in Nat
  BY LenProperties DEF TypeOK
<1>2. wire # <<>> => Len(wire) > 0
  BY <1>1, EmptySeq DEF TypeOK
<1>3. Popped \in Nat
  BY <1>1, <1>2 DEF FramesInOrder, Popped
<1> QED
  BY <1>1, <1>3 DEF Queued

\* The queue before a step, without the handler the step runs, if it runs one.
Rest(q) == q = ready \/ (ready # <<>> /\ q = Tail(ready))

\* A step that neither runs send() nor pops or writes a frame keeps the frames in order.
LEMMA FramesKept ==
    ASSUME Inv, NEW q, Rest(q), NEW w \in BOOLEAN, NEW r \in BOOLEAN,
           Adds(q, ready', w, FALSE, r),
           q # ready => Head(ready).op # "send" /\ ~(Head(ready).op = "write" /\ Head(ready).ok),
           UNCHANGED <<wire, write_queue, calls>>
    PROVE  FramesInOrder'
<1>1. TypeOK /\ FramesInOrder
  BY DEF Inv
<1>2. Has(ready', OkWrites) <=> Has(ready, OkWrites)
  BY <1>1, RunHead DEF Adds, Rest
<1>3. Popped' = Popped
  BY <1>2 DEF Popped
<1>4. Queued' = Queued
  BY <1>3 DEF Queued
<1>5. Queued \in Nat /\ calls \in Nat
  BY <1>1, PoppedType DEF TypeOK
<1>6. SendsAre(ready, Queued, calls)
  BY <1>1 DEF FramesInOrder
<1>7. SendsAre(q, Queued, calls)
  BY <1>1, <1>5, <1>6, SendsAfterOther DEF Rest, TypeOK
<1>8. SendsAre(ready', Queued, calls)
  BY <1>5, <1>7 DEF Adds
<1>9. SendsAre(ready', Queued', calls')
  BY <1>4, <1>8
<1> QED
  BY <1>1, <1>2, <1>3, <1>9 DEF FramesInOrder

\* A step that leaves calls and flags alone keeps flushes behind their frames.
LEMMA FlushKept ==
    ASSUME Inv, NEW q, Rest(q), NEW w \in BOOLEAN, NEW ok \in BOOLEAN, NEW r \in BOOLEAN,
           Adds(q, ready', w, ok, r), UNCHANGED <<calls, flush_after, is_shutting_down>>
    PROVE  FlushOrder'
<1>1. TypeOK /\ FlushOrder
  BY DEF Inv
<1>2. flush_after \in Nat /\ ready \in Seq(Handler)
  BY <1>1 DEF TypeOK
<1>3. Has(ready', Flushes) => Has(ready, Flushes)
  BY <1>1, RunHead DEF Adds, Rest
<1>4. BeforeFlush(q, flush_after) /\ (is_shutting_down => NonePosted(q, flush_after))
  BY <1>1, <1>2, FlushAfterRun DEF Rest, FlushOrder
<1>5. BeforeFlush(ready', flush_after) /\ (is_shutting_down => NonePosted(ready', flush_after))
  BY <1>2, <1>4 DEF Adds
<1> QED
  BY <1>1, <1>3, <1>5 DEF FlushOrder

\* The queue p has as many handlers of C as q: none, one or more.
Same(q, p, C) == (Has(p, C) <=> Has(q, C)) /\ (Single(q, C) => Single(p, C))

\* Completions of one direction are nothing to the other.
LEMMA AddsSame ==
    ASSUME NEW q, NEW p, NEW w \in BOOLEAN, NEW ok \in BOOLEAN, NEW r \in BOOLEAN,
           Adds(q, p, w, ok, r)
    PROVE  /\ ~w => Same(q, p, Writes)
           /\ ~r => Same(q, p, Reads)
  BY DEF Adds, Same

\* A step that has nothing to do with writing keeps the write chain.
LEMMA WritesKept ==
    ASSUME Inv, NEW q, Rest(q), Same(q, ready', Writes), q # ready => Head(ready).op # "write",
           UNCHANGED <<open, writing, write_queue, write_errors>>
    PROVE  WriteChain'
<1>1. TypeOK /\ WriteChain
  BY DEF Inv
<1>2. /\ Has(ready', Writes) <=> Has(ready, Writes)
      /\ Single(ready', Writes)
  BY <1>1, RunHead DEF Same, Rest, WriteChain
<1> QED
  BY <1>1, <1>2 DEF WriteChain

\* A step that has nothing to do with reading keeps the read chain.
LEMMA ReadsKept ==
    ASSUME Inv, NEW q, Rest(q), Same(q, ready', Reads),
           q # ready => Head(ready).op \notin {"header", "body"},
           UNCHANGED <<reading, read_errors>>
    PROVE  ReadChain'
<1>1. TypeOK /\ ReadChain
  BY DEF Inv
<1>2. /\ Has(ready', Reads) <=> Has(ready, Reads)
      /\ Single(ready', Reads)
  BY <1>1, RunHead DEF Same, Rest, ReadChain
<1> QED
  BY <1>1, <1>2 DEF ReadChain

\* A posted closure is no completion.
LEMMA PostClosure ==
    ASSUME NEW q \in Seq(Handler), NEW e \in Handler, e.op \in {"send", "disconnect", "flush"}
    PROVE  /\ Append(q, e) \in Seq(Handler)
           /\ Same(q, Append(q, e), Writes)
           /\ Same(q, Append(q, e), Reads)
           /\ Has(Append(q, e), OkWrites) <=> Has(q, OkWrites)
           /\ Has(Append(q, e), Flushes) <=> Has(q, Flushes) \/ e.op = "flush"
<1>1. e \notin Writes /\ e \notin OkWrites /\ e \notin Reads /\ (e \in Flushes <=> e.op = "flush")
  BY DEF Writes, OkWrites, Reads, Flushes
<1>2. Append(q, e) \in Seq(Handler)
  BY AppendElements
<1>3. \A C : /\ Has(Append(q, e), C) <=> Has(q, C) \/ e \in C
             /\ Single(q, C) /\ (e \notin C \/ ~Has(q, C)) => Single(Append(q, e), C)
  BY AppendClass
<1> QED
  BY <1>1, <1>2, <1>3 DEF Same

-----------------------------------------------------------------------------
(* Every step keeps the invariant.                                          *)

\* send(): the new frame is the last one posted.
LEMMA SendKeeps ==
    ASSUME Inv, Send
    PROVE  Inv'
<1> DEFINE e == SendClosure(calls + 1)
<1>1. TypeOK /\ FramesInOrder /\ FlushOrder
  BY DEF Inv
<1>2. /\ ready \in Seq(Handler)
      /\ calls \in Nat
      /\ flush_after \in Nat
  BY <1>1 DEF TypeOK
<1>3. /\ calls < MaxSends
      /\ calls' = calls + 1
      /\ ready' = Append(ready, e)
      /\ UNCHANGED <<open, reading, read_buffer, read_errors, write_queue, writing, write_errors,
                     inbound, peer, is_shutting_down, wire, flush_after>>
  BY DEF Send, readVars, writeVars, peerVars
<1>4. e \in Handler /\ e.op = "send" /\ e.frame = calls + 1
  BY <1>2 DEF SendClosure, Handler, Ops
<1>5. SendsAre(ready, Queued, calls) => SendsAre(Append(ready, e), Queued, calls + 1)
  BY <1>1, <1>2, PoppedType, SendsAfterPost
<1> HIDE DEF e
<1>6. /\ ready' \in Seq(Handler)
      /\ Same(ready, ready', Writes)
      /\ Same(ready, ready', Reads)
      /\ Has(ready', OkWrites) <=> Has(ready, OkWrites)
      /\ Has(ready', Flushes) <=> Has(ready, Flushes)
  BY <1>2, <1>3, <1>4, PostClosure
<1>7. TypeOK'
  BY <1>1, <1>2, <1>3, <1>6 DEF TypeOK
<1>8. WriteChain' /\ ReadChain'
  BY <1>3, <1>6, WritesKept, ReadsKept DEF Rest
<1>9. FramesInOrder'
  <2>1. Popped' = Popped
    BY <1>3, <1>6 DEF Popped
  <2>2. Queued' = Queued
    BY <1>3, <2>1 DEF Queued
  <2>3. SendsAre(ready', Queued', calls')
    BY <1>1, <1>3, <1>5, <2>2 DEF FramesInOrder
  <2> QED
    BY <1>1, <1>3, <1>6, <2>1, <2>3 DEF FramesInOrder
<1>10. FlushOrder'
  <2>1. flush_after # NoFlush => e.frame > flush_after
    BY <1>1, <1>2, <1>4 DEF FlushOrder
  <2>2. flush_after = NoFlush => ~Has(ready, Flushes) /\ ~is_shutting_down
    BY <1>1 DEF FlushOrder
  <2>3. flush_after = NoFlush => BeforeFlush(ready', flush_after)
    <3>1. SUFFICES ASSUME ~Has(ready', Flushes)
                   PROVE  BeforeFlush(ready', flush_after)
      BY <2>2, <1>6
    <3>2. \A i \in 1..Len(ready') : ready'[i] \in Handler
      BY <1>6, ElementOfSeq
    <3> QED
      BY <3>1, <3>2 DEF Has, Flushes, BeforeFlush
  <2>4. flush_after # NoFlush =>
            /\ BeforeFlush(ready', flush_after)
            /\ is_shutting_down => NonePosted(ready', flush_after)
    BY <2>1, <1>1, <1>2, <1>3, <1>4, FlushAfterPost DEF FlushOrder
  <2>5. calls + 1 <= MaxSends
    BY <1>2, <1>3, BoundsAssumption
  <2>6. flush_after \in 0..(calls + 1) \/ flush_after = NoFlush
    BY <1>1, <1>2 DEF FlushOrder
  <2> QED
    BY <1>1, <1>3, <1>6, <2>2, <2>3, <2>4, <2>5, <2>6 DEF FlushOrder
<1> QED
  BY <1>7, <1>8, <1>9, <1>10 DEF Inv

\* disconnect() only posts.
LEMMA DisconnectKeeps ==
    ASSUME Inv, Disconnect
    PROVE  Inv'
<1> DEFINE e == Closure("disconnect")
<1>1. TypeOK /\ ready \in Seq(Handler)
  BY DEF Inv, TypeOK
<1>2. /\ ready' = Append(ready, e)
      /\ UNCHANGED <<open, reading, read_buffer, read_errors, write_queue, writing, write_errors,
                     inbound, peer, is_shutting_down, wire, calls, flush_after>>
  BY DEF Disconnect, readVars, writeVars, peerVars
<1>3. e \in Handler /\ e.op = "disconnect"
  BY DEF Closure, Handler, Ops
<1> HIDE DEF e
<1>4. Adds(ready, ready', FALSE, FALSE, FALSE)
  <2>1. /\ ready' \in Seq(Handler)
        /\ Same(ready, ready', Writes)
        /\ Same(ready, ready', Reads)
        /\ Has(ready', OkWrites) <=> Has(ready, OkWrites)
        /\ Has(ready', Flushes) <=> Has(ready, Flushes)
    BY <1>1, <1>2, <1>3, PostClosure
  <2>2. \A lo, hi \in Nat : SendsAre(ready, lo, hi) => SendsAre(ready', lo, hi)
    BY <1>1, <1>2, <1>3, SendsAfterOtherPost
  <2>3. \A f \in Nat : /\ BeforeFlush(ready, f) => BeforeFlush(ready', f)
                       /\ NonePosted(ready, f) => NonePosted(ready', f)
    BY <1>1, <1>2, <1>3, FlushAfterPost
  <2> QED
    BY <2>1, <2>2, <2>3 DEF Adds, Same
<1>5. TypeOK'
  BY <1>1, <1>2, <1>4 DEF TypeOK, Adds
<1>6. WriteChain' /\ ReadChain'
  BY <1>2, <1>4, AddsSame, WritesKept, ReadsKept DEF Rest
<1>7. FramesInOrder' /\ FlushOrder'
  BY <1>2, <1>4, FramesKept, FlushKept DEF Rest
<1> QED
  BY <1>5, <1>6, <1>7 DEF Inv

\* flushAndDisconnect(): every frame sent so far is posted before the flush.
LEMMA FlushAndDisconnectKeeps ==
    ASSUME Inv, FlushAndDisconnect
    PROVE  Inv'
<1> DEFINE e == Closure("flush")
<1>1. TypeOK /\ FramesInOrder /\ FlushOrder
  BY DEF Inv
<1>2. /\ ready \in Seq(Handler)
      /\ calls \in Nat
      /\ flush_after \in Nat
  BY <1>1 DEF TypeOK
<1>3. /\ ready' = Append(ready, e)
      /\ flush_after' = IF flush_after = NoFlush THEN calls ELSE flush_after
      /\ UNCHANGED <<open, reading, read_buffer, read_errors, write_queue, writing, write_errors,
                     inbound, peer, is_shutting_down, wire, calls>>
  BY DEF FlushAndDisconnect, readVars, writeVars, peerVars
<1>4. e \in Handler /\ e.op = "flush"
  BY DEF Closure, Handler, Ops
<1> HIDE DEF e
<1>5. /\ ready' \in Seq(Handler)
      /\ Same(ready, ready', Writes)
      /\ Same(ready, ready', Reads)
      /\ Has(ready', OkWrites) <=> Has(ready, OkWrites)
  BY <1>2, <1>3, <1>4, PostClosure
<1>6. TypeOK'
  BY <1>1, <1>2, <1>3, <1>5 DEF TypeOK
<1>7. WriteChain' /\ ReadChain'
  BY <1>3, <1>5, WritesKept, ReadsKept DEF Rest
<1>8. FramesInOrder'
  <2>1. Popped' = Popped
    BY <1>3, <1>5 DEF Popped
  <2>2. Queued' = Queued
    BY <1>3, <2>1 DEF Queued
  <2>3. SendsAre(ready', Queued, calls)
    BY <1>1, <1>2, <1>3, <1>4, PoppedType, SendsAfterOtherPost DEF FramesInOrder
  <2>4. SendsAre(ready', Queued', calls')
    BY <1>3, <2>2, <2>3
  <2> QED
    BY <1>1, <1>3, <1>5, <2>1, <2>4 DEF FramesInOrder
<1>9. FlushOrder'
  <2>1. calls <= MaxSends /\ calls # NoFlush
    BY <1>1, <1>2, BoundsAssumption DEF FlushOrder, NoFlush
  <2>2. flush_after' \in 0..calls /\ flush_after' # NoFlush
    BY <1>1, <1>2, <1>3, <2>1 DEF FlushOrder
  <2>3. \A f \in Nat : /\ BeforeFlush(ready, f) => BeforeFlush(ready', f)
                       /\ NonePosted(ready, f) => NonePosted(ready', f)
                       /\ ~Has(ready, Flushes) => BeforeFlush(ready', f)
    BY <1>2, <1>3, <1>4, FlushAfterPost
  <2>4. CASE flush_after = NoFlush
    <3>1. ~Has(ready, Flushes) /\ ~is_shutting_down
      BY <2>4, <1>1 DEF FlushOrder
    <3>2. BeforeFlush(ready', flush_after')
      BY <3>1, <2>3, <2>4, <1>2, <1>3
    <3> QED
      BY <3>1, <3>2, <2>1, <2>2, <1>3 DEF FlushOrder, NoFlush
  <2>5. CASE flush_after # NoFlush
    <3>1. flush_after' = flush_after
      BY <2>5, <1>3
    <3>2. BeforeFlush(ready', flush_after) /\ (is_shutting_down => NonePosted(ready', flush_after))
      BY <1>1, <1>2, <2>3 DEF FlushOrder
    <3> QED
      BY <3>1, <3>2, <2>1, <2>2, <1>3 DEF FlushOrder, NoFlush
  <2> QED
    BY <2>4, <2>5
<1> QED
  BY <1>6, <1>7, <1>8, <1>9 DEF Inv

\* On a closed socket a write or a read fails at once.
LEMMA PumpAdds ==
    ASSUME NEW q \in Seq(Handler), open \in BOOLEAN, WritePump(q)
    PROVE  /\ Adds(q, ready', ~open, FALSE, FALSE)
           /\ writing' = IF open THEN writing + 1 ELSE writing
<1>1. CASE open
  BY <1>1, AddsNothing DEF WritePump, Adds
<1>2. CASE ~open
  <2>1. Adds(q, ready', TRUE, FALSE, FALSE)
    BY <1>2, AddsWrite DEF WritePump
  <2> QED
    BY <2>1, <1>2 DEF WritePump, Adds
<1> QED
  BY <1>1, <1>2

\* The next read is outstanding, or its error is queued.
LEMMA ReadAdds ==
    ASSUME NEW q \in Seq(Handler), open \in BOOLEAN, NEW part \in {"header", "body"},
           StartRead(part, q)
    PROVE  /\ Adds(q, ready', FALSE, FALSE, ~open)
           /\ reading' = IF open THEN part ELSE "none"
<1>1. CASE open
  BY <1>1, AddsNothing DEF StartRead, Adds
<1>2. CASE ~open
  <2>1. Adds(q, ready', FALSE, FALSE, TRUE)
    BY <1>2, AddsRead DEF StartRead
  <2> QED
    BY <2>1, <1>2 DEF StartRead, Adds
<1> QED
  BY <1>1, <1>2

\* The closure of send() queues the oldest posted frame, and starts the pump exactly
\* when the write chain was idle.
LEMMA RunSendKeeps ==
    ASSUME Inv, RunSend
    PROVE  Inv'
<1> DEFINE t == Tail(ready)
           pumps == write_queue = <<>>
<1>1. TypeOK /\ WriteChain /\ FramesInOrder
  BY DEF Inv
<1>2. /\ ready # <<>> /\ Head(ready).op = "send"
      /\ write_queue' = Append(write_queue, Head(ready).frame)
      /\ UNCHANGED <<open, reading, read_buffer, read_errors, write_errors, inbound, peer,
                     is_shutting_down, wire, calls, flush_after>>
  BY DEF RunSend, readVars, peerVars
<1>3. /\ pumps => WritePump(t)
      /\ ~pumps => writing' = writing /\ ready' = t
  BY DEF RunSend
<1>4. /\ t \in Seq(Handler)
      /\ Head(ready) \in Handler
      /\ Has(ready, Writes) <=> Has(t, Writes)
      /\ Has(ready, OkWrites) <=> Has(t, OkWrites)
      /\ Single(ready, Writes) => Single(t, Writes)
  BY <1>1, <1>2, RunHead
<1>5. open \in BOOLEAN /\ writing \in {0, 1} /\ write_queue \in Seq(Nat)
  BY <1>1 DEF TypeOK, WriteChain
<1> HIDE DEF t
<1>6. /\ Adds(t, ready', pumps /\ ~open, FALSE, FALSE)
      /\ writing' = IF pumps /\ open THEN writing + 1 ELSE writing
  <2>1. CASE pumps
    BY <2>1, <1>3, <1>4, <1>5, PumpAdds DEF Adds
  <2>2. CASE ~pumps
    BY <2>2, <1>3, <1>4, AddsNothing DEF Adds
  <2> QED
    BY <2>1, <2>2
<1>7. Head(ready).frame \in Nat
  BY <1>4 DEF Handler
<1>8. write_queue' \in Seq(Nat) /\ write_queue' # <<>>
  BY <1>2, <1>5, <1>7, AppendProperties
<1>9. TypeOK'
  <2>1. ready' \in Seq(Handler) /\ writing' \in Nat
    BY <1>5, <1>6 DEF Adds
  <2> QED
    BY <2>1, <1>1, <1>2, <1>8 DEF TypeOK
<1>10. WriteChain'
  <2>1. /\ Has(ready', Writes) <=> Has(ready, Writes) \/ (pumps /\ ~open)
        /\ Single(ready, Writes) /\ ~(pumps /\ ~open /\ Has(ready, Writes)) => Single(ready', Writes)
    BY <1>4, <1>6 DEF Adds
  <2>2. pumps => writing = 0 /\ ~Has(ready, Writes) /\ write_errors = 0
    BY <1>1 DEF WriteChain
  <2>3. ~pumps => writing = 1 \/ Has(ready, Writes) \/ write_errors = 1
    BY <1>1 DEF WriteChain
  <2> QED
    BY <2>1, <2>2, <2>3, <1>1, <1>2, <1>5, <1>6, <1>8 DEF WriteChain
<1>11. ReadChain'
  BY <1>2, <1>6, AddsSame, ReadsKept DEF Rest, t
<1>12. FramesInOrder'
  <2>1. Has(ready', OkWrites) <=> Has(ready, OkWrites)
    BY <1>4, <1>6 DEF Adds
  <2>2. Popped' = Popped
    BY <1>2, <2>1 DEF Popped
  <2>3. Queued \in Nat /\ calls \in Nat /\ Popped \in Nat /\ Len(write_queue) \in Nat
    BY <1>1, PoppedType DEF TypeOK
  <2>4. Head(ready).frame = Queued + 1 /\ SendsAre(t, Queued + 1, calls)
    BY <1>1, <1>2, <2>3, SendsAfterSend DEF TypeOK, FramesInOrder, t
  <2>5. SendsAre(ready', Queued + 1, calls)
    BY <1>6, <2>3, <2>4 DEF Adds
  <2>6. /\ Len(write_queue') = Len(write_queue) + 1
        /\ \A k \in 1..Len(write_queue) : write_queue'[k] = write_queue[k]
        /\ write_queue'[Len(write_queue) + 1] = Queued + 1
    BY <1>2, <1>5, <1>7, <2>4, AppendElements
  <2>7. Queued' = Queued + 1
    BY <2>2, <2>3, <2>6 DEF Queued
  <2>8. \A k \in 1..Len(write_queue') : write_queue'[k] = Popped + k
    <3>1. \A k \in 1..Len(write_queue') : k \in 1..Len(write_queue) \/ k = Len(write_queue) + 1
      BY <2>3, <2>6
    <3>2. Queued + 1 = Popped + (Len(write_queue) + 1)
      BY <2>3 DEF Queued
    <3> QED
      BY <3>1, <3>2, <2>6, <1>1 DEF FramesInOrder
  <2>9. SendsAre(ready', Queued', calls')
    BY <2>5, <2>7, <1>2
  <2> QED
    BY <1>1, <1>2, <2>1, <2>2, <2>8, <2>9 DEF FramesInOrder
<1>13. FlushOrder'
  <2>1. (pumps /\ ~open) \in BOOLEAN
    OBVIOUS
  <2> QED
    BY <2>1, <1>2, <1>6, FlushKept DEF Rest, t
<1> QED
  BY <1>9, <1>10, <1>11, <1>12, <1>13 DEF Inv

\* A handler that closes the socket if c, and does nothing else with it.
MayClose(c) ==
    IF c THEN Close(Tail(ready))
         ELSE ready' = Tail(ready) /\ UNCHANGED <<open, reading, writing>>

\* Closing queues one error for each operation it aborts.
LEMMA MayCloseAdds ==
    ASSUME TypeOK, WriteChain, ready # <<>>, NEW c \in BOOLEAN, MayClose(c)
    PROVE  /\ Adds(Tail(ready), ready', c /\ writing = 1, FALSE, c /\ reading # "none")
           /\ writing' = IF c THEN 0 ELSE writing
           /\ reading' = IF c THEN "none" ELSE reading
           /\ open' = IF c THEN FALSE ELSE open
<1>1. /\ Tail(ready) \in Seq(Handler)
      /\ writing \in {0, 1}
      /\ reading \in {"header", "body", "none"}
  BY RunHead DEF TypeOK, WriteChain
<1>2. CASE c
  BY <1>1, <1>2, CloseAdds DEF MayClose, Close, Adds
<1>3. CASE ~c
  BY <1>1, <1>3, AddsNothing DEF MayClose, Adds
<1> QED
  BY <1>2, <1>3

\* A handler that may close, and that is neither a send(), a read nor a write, keeps
\* both chains: what was under way is now a failed completion.
LEMMA MayCloseKeeps ==
    ASSUME Inv, ready # <<>>, Head(ready).op \in {"disconnect", "flush"},
           NEW c \in BOOLEAN, MayClose(c),
           UNCHANGED <<write_queue, read_buffer, read_errors, write_errors, inbound, peer,
                       wire, calls, flush_after>>
    PROVE  /\ ready' \in Seq(Handler)
           /\ writing' \in Nat
           /\ reading' \in {"header", "body", "none"}
           /\ open' \in BOOLEAN
           /\ WriteChain' /\ ReadChain' /\ FramesInOrder'
<1>1. TypeOK /\ WriteChain /\ ReadChain
  BY DEF Inv
<1>2. /\ Adds(Tail(ready), ready', c /\ writing = 1, FALSE, c /\ reading # "none")
      /\ writing' = IF c THEN 0 ELSE writing
      /\ reading' = IF c THEN "none" ELSE reading
      /\ open' = IF c THEN FALSE ELSE open
  BY <1>1, MayCloseAdds
<1>3. /\ Has(ready, Writes) <=> Has(Tail(ready), Writes)
      /\ Has(ready, Reads) <=> Has(Tail(ready), Reads)
      /\ Single(ready, Writes) => Single(Tail(ready), Writes)
      /\ Single(ready, Reads) => Single(Tail(ready), Reads)
  BY <1>1, RunHead
<1>4. /\ ready' \in Seq(Handler)
      /\ writing' \in Nat
      /\ reading' \in {"header", "body", "none"}
      /\ open' \in BOOLEAN
  BY <1>1, <1>2 DEF TypeOK, Adds
<1>5. WriteChain'
  <2>1. /\ Has(ready', Writes) <=> Has(ready, Writes) \/ (c /\ writing = 1)
        /\ Single(ready, Writes) /\ ~(c /\ writing = 1 /\ Has(ready, Writes)) => Single(ready', Writes)
    BY <1>2, <1>3 DEF Adds
  <2> QED
    BY <2>1, <1>1, <1>2 DEF WriteChain
<1>6. ReadChain'
  <2>1. /\ Has(ready', Reads) <=> Has(ready, Reads) \/ (c /\ reading # "none")
        /\ Single(ready, Reads) /\ ~(c /\ reading # "none" /\ Has(ready, Reads)) => Single(ready', Reads)
    BY <1>2, <1>3 DEF Adds
  <2> QED
    BY <2>1, <1>1, <1>2 DEF ReadChain
<1>7. FramesInOrder'
  <2>1. (c /\ writing = 1) \in BOOLEAN /\ (c /\ reading # "none") \in BOOLEAN
    OBVIOUS
  <2> QED
    BY <2>1, <1>2, FramesKept DEF Rest
<1> QED
  BY <1>4, <1>5, <1>6, <1>7

\* The closure of disconnect() fails what was under way.
LEMMA RunDisconnectKeeps ==
    ASSUME Inv, RunDisconnect
    PROVE  Inv'
<1>1. TypeOK /\ WriteChain
  BY DEF Inv
<1>2. /\ ready # <<>> /\ Head(ready).op = "disconnect"
      /\ MayClose(open)
      /\ UNCHANGED <<write_queue, read_buffer, read_errors, write_errors, inbound, peer,
                     is_shutting_down, wire, calls, flush_after>>
  BY DEF RunDisconnect, peerVars, MayClose
<1>3. open \in BOOLEAN
  BY <1>1 DEF TypeOK
<1>4. /\ ready' \in Seq(Handler)
      /\ writing' \in Nat
      /\ reading' \in {"header", "body", "none"}
      /\ open' \in BOOLEAN
      /\ WriteChain' /\ ReadChain' /\ FramesInOrder'
  BY <1>2, <1>3, MayCloseKeeps
<1>5. TypeOK'
  BY <1>1, <1>2, <1>4 DEF TypeOK
<1>6. FlushOrder'
  <2>1. Adds(Tail(ready), ready', open /\ writing = 1, FALSE, open /\ reading # "none")
    BY <1>1, <1>2, <1>3, MayCloseAdds
  <2>2. (open /\ writing = 1) \in BOOLEAN /\ (open /\ reading # "none") \in BOOLEAN
    OBVIOUS
  <2> QED
    BY <2>1, <2>2, <1>2, FlushKept DEF Rest
<1> QED
  BY <1>4, <1>5, <1>6 DEF Inv

\* The closure of flushAndDisconnect() runs after every frame sent before it.
LEMMA RunFlushKeeps ==
    ASSUME Inv, RunFlush
    PROVE  Inv'
<1> DEFINE c == write_queue = <<>> /\ open
<1>1. TypeOK /\ WriteChain /\ FlushOrder
  BY DEF Inv
<1>2. /\ ready # <<>> /\ Head(ready).op = "flush"
      /\ MayClose(c)
      /\ is_shutting_down' = TRUE
      /\ UNCHANGED <<write_queue, read_buffer, read_errors, write_errors, inbound, peer,
                     wire, calls, flush_after>>
  BY DEF RunFlush, peerVars, MayClose
<1>3. c \in BOOLEAN
  BY <1>1 DEF TypeOK
<1> HIDE DEF c
<1>4. /\ ready' \in Seq(Handler)
      /\ writing' \in Nat
      /\ reading' \in {"header", "body", "none"}
      /\ open' \in BOOLEAN
      /\ WriteChain' /\ ReadChain' /\ FramesInOrder'
  BY <1>2, <1>3, MayCloseKeeps
<1>5. TypeOK'
  BY <1>1, <1>2, <1>4 DEF TypeOK
<1>6. FlushOrder'
  <2>1. Adds(Tail(ready), ready', c /\ writing = 1, FALSE, c /\ reading # "none")
    BY <1>1, <1>2, <1>3, MayCloseAdds
  <2>2. flush_after \in Nat /\ ready \in Seq(Handler)
    BY <1>1 DEF TypeOK
  <2>3. flush_after # NoFlush
    BY <1>1, <1>2, RunHead DEF FlushOrder
  <2>4. BeforeFlush(Tail(ready), flush_after) /\ NonePosted(Tail(ready), flush_after)
    BY <1>1, <1>2, <2>2, FlushAfterRun DEF FlushOrder
  <2>5. BeforeFlush(ready', flush_after) /\ NonePosted(ready', flush_after)
    BY <2>1, <2>2, <2>4 DEF Adds
  <2> QED
    BY <2>3, <2>5, <1>1, <1>2 DEF FlushOrder, NoFlush
<1> QED
  BY <1>4, <1>5, <1>6 DEF Inv

\* The write completion pops the frame it wrote, then starts the next one or, with a
\* flush waiting and nothing left, closes.
LEMMA RunWriteDoneKeeps ==
    ASSUME Inv, RunWriteDone
    PROVE  Inv'
<1> DEFINE t == Tail(ready)
           more == write_queue' # <<>>
           closes == ~more /\ is_shutting_down /\ open
<1>1. TypeOK /\ WriteChain /\ ReadChain /\ FramesInOrder
  BY DEF Inv
<1>2. /\ ready # <<>> /\ Head(ready).op = "write" /\ Head(ready).ok
      /\ write_queue' = IF write_queue # <<>> THEN Tail(write_queue) ELSE <<>>
      /\ UNCHANGED <<read_buffer, read_errors, write_errors, inbound, peer, is_shutting_down,
                     wire, calls, flush_after>>
  BY DEF RunWriteDone, peerVars
<1>3. /\ more => WritePump(t) /\ UNCHANGED <<open, reading>>
      /\ ~more => MayClose(closes)
  BY DEF RunWriteDone, MayClose
<1>4. /\ t \in Seq(Handler)
      /\ Has(ready, Writes) /\ Has(ready, OkWrites)
      /\ Single(ready, Writes) /\ Single(ready, Reads)
      /\ ~Has(t, Writes)
      /\ Single(t, Writes) /\ Single(t, Reads)
      /\ Has(ready, Reads) <=> Has(t, Reads)
  BY <1>1, <1>2, RunHead DEF WriteChain, ReadChain
<1>5. writing = 0 /\ write_errors = 0 /\ write_queue # <<>>
  BY <1>1, <1>4 DEF WriteChain
<1>6. /\ open \in BOOLEAN
      /\ write_queue \in Seq(Nat)
      /\ reading \in {"header", "body", "none"}
      /\ is_shutting_down \in BOOLEAN
  BY <1>1 DEF TypeOK
<1>7. write_queue' = Tail(write_queue) /\ write_queue' \in Seq(Nat)
  BY <1>2, <1>5, <1>6, TailElements
<1> DEFINE w == more /\ ~open
           r == closes /\ reading # "none"
<1>8. w \in BOOLEAN /\ r \in BOOLEAN
  OBVIOUS
<1>9. /\ Adds(t, ready', w, FALSE, r)
      /\ writing' = IF more /\ open THEN 1 ELSE 0
      /\ reading' = IF closes THEN "none" ELSE reading
      /\ open' = IF closes THEN FALSE ELSE open
  <2>1. CASE more
    <3>1. /\ Adds(t, ready', ~open, FALSE, FALSE)
          /\ writing' = IF open THEN writing + 1 ELSE writing
          /\ UNCHANGED <<open, reading>>
      BY <2>1, <1>3, <1>4, <1>6, PumpAdds
    <3> QED
      BY <3>1, <2>1, <1>5 DEF Adds
  <2>2. CASE ~more
    <3>1. closes \in BOOLEAN /\ MayClose(closes)
      BY <2>2, <1>3
    <3>2. /\ Adds(t, ready', closes /\ writing = 1, FALSE, r)
          /\ writing' = IF closes THEN 0 ELSE writing
          /\ reading' = IF closes THEN "none" ELSE reading
          /\ open' = IF closes THEN FALSE ELSE open
      BY <3>1, <1>1, <1>2, MayCloseAdds
    <3> QED
      BY <3>2, <2>2, <1>5 DEF Adds
  <2> QED
    BY <2>1, <2>2
<1>10. more <=> write_queue' # <<>>
  OBVIOUS
<1>11. closes => ~more /\ open
  OBVIOUS
<1> HIDE DEF t, more, closes
<1>12. TypeOK'
  <2>1. /\ ready' \in Seq(Handler)
        /\ writing' \in Nat
        /\ reading' \in {"header", "body", "none"}
        /\ open' \in BOOLEAN
    BY <1>6, <1>9 DEF Adds
  <2> QED
    BY <2>1, <1>1, <1>2, <1>7 DEF TypeOK
<1>13. WriteChain'
  <2>1. Has(ready', Writes) <=> more /\ ~open
    BY <1>4, <1>9 DEF Adds
  <2>2. Single(ready', Writes)
    BY <1>4, <1>9 DEF Adds
  <2> QED
    BY <2>1, <2>2, <1>2, <1>5, <1>6, <1>9, <1>10, <1>11 DEF WriteChain
<1>14. ReadChain'
  <2>1. Has(ready', Reads) <=> Has(ready, Reads) \/ (closes /\ reading # "none")
    BY <1>4, <1>9 DEF Adds
  <2>2. ~(closes /\ reading # "none" /\ Has(ready, Reads)) => Single(ready', Reads)
    BY <1>4, <1>9 DEF Adds
  <2> QED
    BY <2>1, <2>2, <1>1, <1>2, <1>9 DEF ReadChain
<1>15. FramesInOrder'
  <2>1. ~Has(ready', OkWrites)
    BY <1>4, <1>9, OkWriteIsWrite DEF Adds
  <2>2. Queued \in Nat /\ calls \in Nat /\ Len(wire) \in Nat /\ Len(write_queue) \in Nat
    BY <1>1, PoppedType DEF TypeOK
  <2>3. Popped = Len(wire) - 1 /\ Popped' = Len(wire)
    BY <1>2, <1>4, <2>1 DEF Popped
  <2>4. /\ Len(write_queue') = Len(write_queue) - 1
        /\ \A k \in 1..Len(write_queue') : write_queue'[k] = write_queue[k + 1]
    BY <1>5, <1>6, <1>7, TailElements
  <2>5. \A k \in 1..Len(write_queue') : write_queue'[k] = Popped' + k
    <3>1. \A k \in 1..Len(write_queue') : k + 1 \in 1..Len(write_queue)
      BY <2>2, <2>4
    <3>2. \A k \in 1..Len(write_queue') : write_queue[k + 1] = Popped + (k + 1)
      BY <3>1, <1>1 DEF FramesInOrder
    <3>3. \A k \in 1..Len(write_queue') : Popped + (k + 1) = Popped' + k
      BY <2>2, <2>3, <2>4
    <3> QED
      BY <3>2, <3>3, <2>4
  <2>6. Queued' = Queued
    BY <2>2, <2>3, <2>4 DEF Queued
  <2>7. SendsAre(t, Queued, calls)
    BY <1>1, <1>2, <2>2, SendsAfterOther DEF FramesInOrder, TypeOK, t
  <2>8. SendsAre(ready', Queued', calls')
    BY <1>2, <1>9, <2>2, <2>6, <2>7 DEF Adds
  <2> QED
    BY <1>1, <1>2, <2>1, <2>5, <2>8 DEF FramesInOrder
<1>16. FlushOrder'
  BY <1>2, <1>8, <1>9, FlushKept DEF Rest, t
<1> QED
  BY <1>12, <1>13, <1>14, <1>15, <1>16 DEF Inv

\* A failed write ends the write chain: its frame stays at the front of write_queue.
LEMMA RunWriteFailedKeeps ==
    ASSUME Inv, RunWriteFailed
    PROVE  Inv'
<1>1. TypeOK /\ WriteChain
  BY DEF Inv
<1>2. /\ ready # <<>> /\ Head(ready).op = "write" /\ ~Head(ready).ok
      /\ write_errors' = write_errors + 1
      /\ ready' = Tail(ready)
      /\ UNCHANGED <<open, reading, read_buffer, read_errors, write_queue, writing, inbound, peer,
                     is_shutting_down, wire, calls, flush_after>>
  BY DEF RunWriteFailed, readVars, peerVars
<1>3. /\ Tail(ready) \in Seq(Handler)
      /\ Has(ready, Writes)
      /\ Single(ready, Writes) => Single(Tail(ready), Writes) /\ ~Has(Tail(ready), Writes)
  BY <1>1, <1>2, RunHead
<1>4. Adds(Tail(ready), ready', FALSE, FALSE, FALSE)
  BY <1>2, <1>3, AddsNothing
<1>5. writing = 0 /\ write_errors = 0 /\ write_queue # <<>>
  BY <1>1, <1>3 DEF WriteChain
<1>6. TypeOK'
  BY <1>1, <1>2, <1>3, <1>5 DEF TypeOK
<1>7. WriteChain'
  BY <1>1, <1>2, <1>3, <1>5 DEF WriteChain
<1>8. ReadChain'
  BY <1>2, <1>4, AddsSame, ReadsKept DEF Rest
<1>9. FramesInOrder' /\ FlushOrder'
  BY <1>2, <1>4, FramesKept, FlushKept DEF Rest
<1> QED
  BY <1>6, <1>7, <1>8, <1>9 DEF Inv

\* A read completion that starts the next read hands the chain on.
LEMMA NextReadKeeps ==
    ASSUME Inv, ready # <<>>, Head(ready).op \in {"header", "body"},
           NEW part \in {"header", "body"}, StartRead(part, Tail(ready)),
           UNCHANGED <<open, read_buffer, read_errors, write_queue, writing, write_errors,
                       inbound, peer, is_shutting_down, wire, calls, flush_after>>
    PROVE  Inv'
<1>1. TypeOK /\ ReadChain
  BY DEF Inv
<1>2. /\ Tail(ready) \in Seq(Handler)
      /\ Has(ready, Reads)
      /\ Single(ready, Reads) => Single(Tail(ready), Reads) /\ ~Has(Tail(ready), Reads)
  BY <1>1, RunHead
<1>3. open \in BOOLEAN
  BY <1>1 DEF TypeOK
<1>4. /\ Adds(Tail(ready), ready', FALSE, FALSE, ~open)
      /\ reading' = IF open THEN part ELSE "none"
  BY <1>2, <1>3, ReadAdds
<1>5. reading = "none" /\ read_errors = 0
  BY <1>1, <1>2 DEF ReadChain
<1>6. TypeOK'
  BY <1>1, <1>4 DEF TypeOK, Adds
<1>7. ReadChain'
  <2>1. (Has(ready', Reads) <=> ~open) /\ Single(ready', Reads)
    BY <1>1, <1>2, <1>4 DEF ReadChain, Adds
  <2> QED
    BY <2>1, <1>4, <1>5 DEF ReadChain
<1>8. (~open) \in BOOLEAN
  OBVIOUS
<1>9. WriteChain'
  BY <1>4, <1>8, AddsSame, WritesKept DEF Rest
<1>10. FramesInOrder' /\ FlushOrder'
  BY <1>4, <1>8, FramesKept, FlushKept DEF Rest
<1> QED
  BY <1>6, <1>7, <1>9, <1>10 DEF Inv

\* A read completion that reports an error ends the chain.
LEMMA ReadErrorKeeps ==
    ASSUME Inv, ready # <<>>, Head(ready).op \in {"header", "body"},
           ready' = Tail(ready), read_errors' = read_errors + 1,
           UNCHANGED <<open, reading, read_buffer, write_queue, writing, write_errors,
                       inbound, peer, is_shutting_down, wire, calls, flush_after>>
    PROVE  Inv'
<1>1. TypeOK /\ ReadChain
  BY DEF Inv
<1>2. /\ Tail(ready) \in Seq(Handler)
      /\ Has(ready, Reads)
      /\ Single(ready, Reads) => Single(Tail(ready), Reads) /\ ~Has(Tail(ready), Reads)
  BY <1>1, RunHead
<1>3. Adds(Tail(ready), ready', FALSE, FALSE, FALSE)
  BY <1>2, AddsNothing
<1>4. reading = "none" /\ read_errors = 0
  BY <1>1, <1>2 DEF ReadChain
<1>5. TypeOK'
  BY <1>1, <1>2, <1>4 DEF TypeOK
<1>6. ReadChain'
  BY <1>1, <1>2, <1>4 DEF ReadChain
<1>7. WriteChain'
  BY <1>3, AddsSame, WritesKept DEF Rest
<1>8. FramesInOrder' /\ FlushOrder'
  BY <1>3, FramesKept, FlushKept DEF Rest
<1> QED
  BY <1>5, <1>6, <1>7, <1>8 DEF Inv

\* The three read completions.
LEMMA RunReadKeeps ==
    ASSUME Inv, RunHeaderRead \/ RunBodyRead \/ RunReadFailed
    PROVE  Inv'
<1>1. CASE RunHeaderRead
  <2>1. /\ ready # <<>> /\ Head(ready).op \in {"header", "body"}
        /\ StartRead("body", Tail(ready))
        /\ UNCHANGED <<open, read_buffer, read_errors, write_queue, writing, write_errors,
                       inbound, peer, is_shutting_down, wire, calls, flush_after>>
    BY <1>1 DEF RunHeaderRead, writeVars, peerVars
  <2> QED
    BY <2>1, NextReadKeeps
<1>2. CASE RunBodyRead
  <2>1. /\ ready # <<>> /\ Head(ready).op \in {"header", "body"}
        /\ UNCHANGED <<open, read_buffer, write_queue, writing, write_errors,
                       inbound, peer, is_shutting_down, wire, calls, flush_after>>
    BY <1>2 DEF RunBodyRead, writeVars, peerVars
  <2>2. CASE read_buffer = "throws"
    <3>1. ready' = Tail(ready) /\ read_errors' = read_errors + 1 /\ UNCHANGED reading
      BY <1>2, <2>2 DEF RunBodyRead
    <3> QED
      BY <3>1, <2>1, ReadErrorKeeps
  <2>3. CASE read_buffer # "throws"
    <3>1. StartRead("header", Tail(ready)) /\ UNCHANGED read_errors
      BY <1>2, <2>3 DEF RunBodyRead
    <3> QED
      BY <3>1, <2>1, NextReadKeeps
  <2> QED
    BY <2>2, <2>3
<1>3. CASE RunReadFailed
  <2>1. /\ ready # <<>> /\ Head(ready).op \in {"header", "body"}
        /\ ready' = Tail(ready) /\ read_errors' = read_errors + 1
        /\ UNCHANGED <<open, reading, read_buffer, write_queue, writing, write_errors,
                       inbound, peer, is_shutting_down, wire, calls, flush_after>>
    BY <1>3 DEF RunReadFailed, writeVars, peerVars
  <2> QED
    BY <2>1, ReadErrorKeeps
<1> QED
  BY <1>1, <1>2, <1>3

\* A write that finishes puts the front of write_queue on the wire, and that is the
\* next frame.
LEMMA WriteCompletesKeeps ==
    ASSUME Inv, NEW ok \in BOOLEAN, WriteCompletes(ok)
    PROVE  /\ Inv'
           /\ ok => open /\ Len(wire) < calls /\ wire' = Append(wire, Len(wire) + 1)
<1>1. TypeOK /\ WriteChain /\ FramesInOrder
  BY DEF Inv
<1>2. /\ writing > 0
      /\ writing' = writing - 1
      /\ wire' = IF ok THEN Append(wire, Front) ELSE wire
      /\ ready' = Append(ready, Completion("write", ok))
      /\ UNCHANGED <<open, reading, read_buffer, read_errors, write_queue, write_errors,
                     inbound, peer, is_shutting_down, calls, flush_after>>
  BY DEF WriteCompletes, readVars, peerVars
<1>3. /\ ready \in Seq(Handler)
      /\ write_queue \in Seq(Nat)
      /\ wire \in Seq(Nat \ {0})
      /\ calls \in Nat
  BY <1>1 DEF TypeOK
<1>4. /\ writing = 1 /\ writing' = 0
      /\ open
      /\ ~Has(ready, Writes)
      /\ write_queue # <<>>
      /\ write_errors = 0
  BY <1>1, <1>2 DEF WriteChain
<1>5. Adds(ready, ready', TRUE, ok, FALSE)
  BY <1>2, <1>3, AddsWrite
<1>6. Popped \in Nat /\ Queued \in Nat /\ Len(wire) \in Nat /\ Len(write_queue) \in Nat
  BY <1>1, PoppedType
<1>7. ~Has(ready, OkWrites)
  BY <1>4, OkWriteIsWrite
<1>8. Popped = Len(wire)
  BY <1>7 DEF Popped
<1>9. Len(write_queue) > 0 /\ Head(write_queue) = write_queue[1]
  BY <1>3, <1>4, TailElements
<1>10. Front = Len(wire) + 1
  BY <1>1, <1>4, <1>6, <1>8, <1>9 DEF FramesInOrder, Front
<1>11. Len(wire) < calls
  BY <1>1, <1>3, <1>6, <1>8, <1>9 DEF FramesInOrder, SendsAre, Queued
<1>12. wire' = IF ok THEN Append(wire, Len(wire) + 1) ELSE wire
  BY <1>2, <1>10
<1>13. /\ wire' \in Seq(Nat \ {0})
       /\ ok => /\ Len(wire') = Len(wire) + 1
                /\ \A k \in 1..Len(wire) : wire'[k] = wire[k]
                /\ wire'[Len(wire) + 1] = Len(wire) + 1
       /\ ok => wire' # <<>>
  <2>1. CASE ok
    <3>1. Len(wire) + 1 \in Nat \ {0}
      BY <1>6
    <3>2. wire' = Append(wire, Len(wire) + 1)
      BY <2>1, <1>12
    <3> QED
      BY <3>1, <3>2, <1>3, AppendProperties, AppendElements
  <2>2. CASE ~ok
    BY <2>2, <1>3, <1>12
  <2> QED
    BY <2>1, <2>2
<1>14. TypeOK'
  <2>1. ready' \in Seq(Handler)
    BY <1>5 DEF Adds
  <2> QED
    BY <2>1, <1>1, <1>2, <1>4, <1>13 DEF TypeOK
<1>15. WriteChain'
  <2>1. Has(ready', Writes) /\ Single(ready', Writes)
    BY <1>1, <1>4, <1>5 DEF WriteChain, Adds
  <2> QED
    BY <2>1, <1>1, <1>2, <1>4 DEF WriteChain
<1>16. ReadChain'
  BY <1>2, <1>5, AddsSame, ReadsKept DEF Rest
<1>17. FramesInOrder'
  <2>1. Has(ready', OkWrites) <=> ok
    BY <1>5, <1>7 DEF Adds
  <2>2. Popped' = Popped
    BY <2>1, <1>2, <1>6, <1>8, <1>13 DEF Popped
  <2>3. Queued' = Queued
    BY <2>2, <1>2 DEF Queued
  <2>4. \A k \in 1..Len(wire') : wire'[k] = k
    <3>1. CASE ok
      <4>1. \A k \in 1..Len(wire') : k \in 1..Len(wire) \/ k = Len(wire) + 1
        BY <3>1, <1>6, <1>13
      <4> QED
        BY <4>1, <3>1, <1>1, <1>13 DEF FramesInOrder
    <3>2. CASE ~ok
      BY <3>2, <1>1, <1>2 DEF FramesInOrder
    <3> QED
      BY <3>1, <3>2
  <2>5. SendsAre(ready', Queued', calls')
    BY <2>3, <1>1, <1>2, <1>3, <1>5, <1>6 DEF FramesInOrder, Adds
  <2> QED
    BY <2>1, <2>2, <2>4, <2>5, <1>1, <1>2, <1>13 DEF FramesInOrder
<1>18. FlushOrder'
  BY <1>2, <1>5, FlushKept DEF Rest
<1> QED
  BY <1>4, <1>11, <1>12, <1>14, <1>15, <1>16, <1>17, <1>18 DEF Inv

\* A read that finishes passes the chain to its completion.
LEMMA ReadCompletesKeeps ==
    ASSUME Inv, NEW ok \in BOOLEAN, ReadCompletes(ok)
    PROVE  Inv'
<1>1. TypeOK /\ ReadChain
  BY DEF Inv
<1>2. /\ reading # "none"
      /\ ok => inbound # <<>>
      /\ reading' = "none"
      /\ ready' = Append(ready, Completion(reading, ok))
      /\ \/ read_buffer' = Head(inbound) /\ inbound' = Tail(inbound) /\ inbound # <<>>
         \/ UNCHANGED <<read_buffer, inbound>>
      /\ UNCHANGED <<open, read_errors, write_queue, writing, write_errors, peer,
                     is_shutting_down, wire, calls, flush_after>>
  BY DEF ReadCompletes, writeVars
<1>3. ready \in Seq(Handler) /\ reading \in {"header", "body"} /\ inbound \in Seq(Parse)
  BY <1>1, <1>2 DEF TypeOK
<1>4. Adds(ready, ready', FALSE, FALSE, TRUE)
  BY <1>2, <1>3, AddsRead
<1>5. TypeOK'
  <2>1. read_buffer' \in Parse /\ inbound' \in Seq(Parse)
    <3>1. inbound # <<>> => Head(inbound) \in Parse /\ Tail(inbound) \in Seq(Parse)
      BY <1>3, TailElements
    <3>2. read_buffer \in Parse
      BY <1>1 DEF TypeOK
    <3> QED
      BY <3>1, <3>2, <1>2, <1>3
  <2>2. ready' \in Seq(Handler)
    BY <1>4 DEF Adds
  <2> QED
    BY <2>1, <2>2, <1>1, <1>2 DEF TypeOK
<1>6. ReadChain'
  <2>1. ~Has(ready, Reads) /\ read_errors = 0
    BY <1>1, <1>2 DEF ReadChain
  <2>2. Single(ready', Reads)
    BY <2>1, <1>1, <1>4 DEF ReadChain, Adds
  <2> QED
    BY <2>1, <2>2, <1>2 DEF ReadChain
<1>7. WriteChain'
  BY <1>2, <1>4, AddsSame, WritesKept DEF Rest
<1>8. FramesInOrder' /\ FlushOrder'
  BY <1>2, <1>4, FramesKept, FlushKept DEF Rest
<1> QED
  BY <1>5, <1>6, <1>7, <1>8 DEF Inv

\* What the peer does leaves the connection's own state alone; so does a stutter.
LEMMA PeerKeeps ==
    ASSUME Inv, PeerSends \/ PeerLeaves \/ UNCHANGED vars
    PROVE  Inv'
<1>1. TypeOK /\ WriteChain /\ ReadChain /\ FramesInOrder /\ FlushOrder
  BY DEF Inv
<1>2. UNCHANGED <<ready, open, reading, read_buffer, read_errors, write_queue, writing,
                  write_errors, is_shutting_down, wire, calls, flush_after>>
  BY DEF PeerSends, PeerLeaves, vars, readVars, writeVars
<1>3. inbound' \in Seq(Parse) /\ peer' \in {"up", "gone"}
  <2>1. CASE PeerSends
    BY <2>1, <1>1, AppendProperties DEF PeerSends, TypeOK
  <2>2. CASE PeerLeaves
    BY <2>2, <1>1 DEF PeerLeaves, TypeOK
  <2>3. CASE UNCHANGED vars
    BY <2>3, <1>1 DEF vars, TypeOK
  <2> QED
    BY <2>1, <2>2, <2>3
<1>4. TypeOK'
  BY <1>1, <1>2, <1>3 DEF TypeOK
<1>5. WriteChain' /\ ReadChain'
  BY <1>1, <1>2 DEF WriteChain, ReadChain
<1>6. FramesInOrder' /\ FlushOrder'
  BY <1>1, <1>2 DEF FramesInOrder, FlushOrder, Popped, Queued
<1> QED
  BY <1>4, <1>5, <1>6 DEF Inv

-----------------------------------------------------------------------------
(* The results.                                                             *)

\* A new connection satisfies the invariant.
LEMMA InitInv == Init => Inv
<1> SUFFICES ASSUME Init PROVE Inv
  OBVIOUS
<1> USE DEF Init
<1>1. TypeOK
  <2>1. NoFlush \in Nat
    BY BoundsAssumption DEF NoFlush
  <2>2. \A S : <<>> \in Seq(S)
    BY EmptySeq
  <2>3. "handled" \in Parse
    BY DEF Parse
  <2> QED
    BY <2>1, <2>2, <2>3 DEF TypeOK
<1>2. \A C : ~Has(ready, C) /\ Single(ready, C)
  BY DEF Has, Single
<1>3. WriteChain /\ ReadChain
  BY <1>2 DEF WriteChain, ReadChain
<1>4. Popped = 0 /\ Queued = 0
  BY <1>2 DEF Popped, Queued
<1>5. SendsAre(ready, 0, 0)
  BY DEF SendsAre
<1>6. FramesInOrder
  BY <1>2, <1>4, <1>5 DEF FramesInOrder
<1>7. FlushOrder
  BY <1>2, BoundsAssumption DEF FlushOrder, BeforeFlush
<1> QED
  BY <1>1, <1>3, <1>6, <1>7 DEF Inv

\* Every handler, method call and event of the socket keeps it.
LEMMA NextInv == Inv /\ [Next]_vars => Inv'
<1> SUFFICES ASSUME Inv, [Next]_vars PROVE Inv'
  OBVIOUS
<1>1. CASE Send
  BY <1>1, SendKeeps
<1>2. CASE Disconnect
  BY <1>2, DisconnectKeeps
<1>3. CASE FlushAndDisconnect
  BY <1>3, FlushAndDisconnectKeeps
<1>4. CASE RunSend
  BY <1>4, RunSendKeeps
<1>5. CASE RunDisconnect
  BY <1>5, RunDisconnectKeeps
<1>6. CASE RunFlush
  BY <1>6, RunFlushKeeps
<1>7. CASE RunWriteDone
  BY <1>7, RunWriteDoneKeeps
<1>8. CASE RunWriteFailed
  BY <1>8, RunWriteFailedKeeps
<1>9. CASE RunHeaderRead \/ RunBodyRead \/ RunReadFailed
  BY <1>9, RunReadKeeps
<1>10. ASSUME NEW ok \in BOOLEAN, WriteCompletes(ok) \/ ReadCompletes(ok)
       PROVE  Inv'
  BY <1>10, WriteCompletesKeeps, ReadCompletesKeeps
<1>11. CASE PeerSends \/ PeerLeaves \/ UNCHANGED vars
  BY <1>11, PeerKeeps
<1> QED
  BY <1>1, <1>2, <1>3, <1>4, <1>5, <1>6, <1>7, <1>8, <1>9, <1>10, <1>11 DEF Next

\* The invariant holds in every state of a connection.
THEOREM Invariance == Spec => []Inv
  BY InitInv, NextInv, PTL DEF Spec

\* The sets of completions that the properties name are the classes of the invariant.
LEMMA CompletionClasses ==
    ASSUME TypeOK
    PROVE  /\ WritesDone = {} <=> ~Has(ready, Writes)
           /\ ReadsDone = {} <=> ~Has(ready, Reads)
           /\ Single(ready, Writes) => \A i, j \in WritesDone : i = j
<1>1. \A i \in 1..Len(ready) : ready[i] \in Handler
  BY ElementOfSeq DEF TypeOK
<1> QED
  BY <1>1 DEF WritesDone, ReadsDone, Has, Single, Writes, Reads

\* The state of a connection has its types: no queue ever holds anything but handlers,
\* frames and parse results.
THEOREM TypeCorrect == Spec => []TypeOK
<1>1. Inv => TypeOK
  BY DEF Inv
<1> QED
  BY <1>1, Invariance, PTL

\* At most one async_write is under way or completed and not yet handled, and its
\* frame stays at the front of write_queue_.
THEOREM WritesDoNotOverlap == Spec => []OneWriteAtATime
<1>1. Inv => OneWriteAtATime
  <2>1. SUFFICES ASSUME Inv PROVE OneWriteAtATime
    OBVIOUS
  <2>2. TypeOK /\ WriteChain
    BY <2>1 DEF Inv
  <2> QED
    BY <2>2, CompletionClasses DEF WriteChain, OneWriteAtATime
<1> QED
  BY <1>1, Invariance, PTL

\* send() and the write completion never leave a queued frame without a write.
THEOREM PumpIsNeverLost == Spec => []PumpNeverStalls
<1>1. Inv => PumpNeverStalls
  <2>1. SUFFICES ASSUME Inv PROVE PumpNeverStalls
    OBVIOUS
  <2>2. TypeOK /\ WriteChain
    BY <2>1 DEF Inv
  <2> QED
    BY <2>2, CompletionClasses DEF WriteChain, PumpNeverStalls
<1> QED
  BY <1>1, Invariance, PTL

\* err_handler_ is called at most once by the reads and at most once by the writes.
THEOREM ErrorsOncePerDirection == Spec => []OneErrorPerDirection
<1>1. Inv => OneErrorPerDirection
  BY DEF Inv, WriteChain, ReadChain, OneErrorPerDirection
<1> QED
  BY <1>1, Invariance, PTL

\* After the read chain's error nothing of it is left that could call msg_handler_.
THEOREM NoReadAfterError == Spec => []ReadErrorIsFinal
<1>1. Inv => ReadErrorIsFinal
  <2>1. SUFFICES ASSUME Inv PROVE ReadErrorIsFinal
    OBVIOUS
  <2>2. TypeOK /\ ReadChain
    BY <2>1 DEF Inv
  <2> QED
    BY <2>2, CompletionClasses DEF ReadChain, ReadErrorIsFinal
<1> QED
  BY <1>1, Invariance, PTL

\* With no posted frame up to f and none queued, all frames up to f are written.
LEMMA AllWritten ==
    ASSUME Inv, NEW f \in 0..calls, NEW q \in Seq(Handler),
           SendsAre(q, Queued, calls), NonePosted(q, f)
    PROVE  f <= Queued
<1>1. TypeOK /\ FramesInOrder
  BY DEF Inv
<1>2. Queued \in Nat /\ calls \in Nat
  BY <1>1, PoppedType DEF TypeOK
<1>3. SUFFICES ASSUME Queued < f PROVE FALSE
  BY <1>2
<1>4. f \in (Queued + 1)..calls
  BY <1>2, <1>3
<1>5. PICK i \in 1..Len(q) : q[i].op = "send" /\ q[i].frame = f
  BY <1>4 DEF SendsAre
<1>6. f > f
  BY <1>5 DEF NonePosted
<1> QED
  BY <1>2, <1>6

\* A socket that flushAndDisconnect() closes has carried every frame sent before it.
THEOREM FlushIsComplete == Spec => FlushWritesEverything
<1>1. ASSUME Inv, [Next]_vars, open, ~open', Head(ready).op # "disconnect"
      PROVE  flush_after # NoFlush /\ Len(wire) >= flush_after
  <2>1. TypeOK /\ WriteChain /\ FramesInOrder /\ FlushOrder
    BY <1>1 DEF Inv
  <2>2. /\ ready \in Seq(Handler)
        /\ calls \in Nat
        /\ flush_after \in Nat
        /\ Queued \in Nat /\ Popped \in Nat
        /\ Len(wire) \in Nat /\ Len(write_queue) \in Nat
    BY <2>1, PoppedType DEF TypeOK
  <2>3. Popped <= Len(wire)
    BY <2>2 DEF Popped
  <2>4. RunFlush \/ RunWriteDone
    BY <1>1 DEF Next, vars, Send, Disconnect, FlushAndDisconnect, RunSend, RunDisconnect,
                RunWriteFailed, RunHeaderRead, RunBodyRead, RunReadFailed, WriteCompletes,
                ReadCompletes, PeerSends, PeerLeaves
  <2>5. ready # <<>> /\ Head(ready).op # "send"
    BY <2>4 DEF RunFlush, RunWriteDone
  <2>6. Tail(ready) \in Seq(Handler)
    BY <2>2, <2>5, TailElements
  <2>7. SendsAre(Tail(ready), Queued, calls)
    BY <2>1, <2>2, <2>5, SendsAfterOther DEF FramesInOrder
  <2>8. CASE RunFlush
    <3>1. Head(ready).op = "flush" /\ write_queue = <<>>
      BY <2>8, <1>1 DEF RunFlush
    <3>2. flush_after # NoFlush /\ flush_after \in 0..calls
      BY <3>1, <2>1, <2>5, RunHead DEF FlushOrder
    <3>3. NonePosted(Tail(ready), flush_after)
      BY <3>1, <2>1, <2>2, <2>5, FlushAfterRun DEF FlushOrder
    <3>4. flush_after <= Queued
      BY <3>2, <3>3, <2>6, <2>7, <1>1, AllWritten
    <3>5. Queued = Popped
      BY <3>1, <2>2 DEF Queued
    <3> QED
      BY <3>2, <3>4, <3>5, <2>2, <2>3
  <2>9. CASE RunWriteDone
    <3>1. /\ Head(ready).op = "write" /\ Head(ready).ok
          /\ is_shutting_down
          /\ write_queue' = <<>>
          /\ write_queue' = IF write_queue # <<>> THEN Tail(write_queue) ELSE <<>>
      BY <2>9, <1>1 DEF RunWriteDone
    <3>2. flush_after # NoFlush /\ flush_after \in 0..calls
      BY <3>1, <2>1 DEF FlushOrder
    <3>3. NonePosted(Tail(ready), flush_after)
      BY <3>1, <2>1, <2>2, <2>5, FlushAfterRun DEF FlushOrder
    <3>4. flush_after <= Queued
      BY <3>2, <3>3, <2>6, <2>7, <1>1, AllWritten
    <3>5. Has(ready, OkWrites) /\ Has(ready, Writes)
      BY <3>1, <2>1, <2>5, RunHead
    <3>6. write_queue # <<>> /\ write_queue \in Seq(Nat)
      BY <3>5, <2>1 DEF WriteChain, TypeOK
    <3>7. Len(write_queue) = 1
      <4>1. Len(Tail(write_queue)) = Len(write_queue) - 1
        BY <3>6, TailElements
      <4>2. Tail(write_queue) = <<>>
        BY <3>1, <3>6
      <4>3. Len(Tail(write_queue)) = 0
        BY <4>2, EmptySeq
      <4> QED
        BY <4>1, <4>3, <2>2
    <3>8. Queued = Len(wire)
      BY <3>5, <3>7, <2>2 DEF Queued, Popped
    <3> QED
      BY <3>2, <3>4, <3>8, <2>2
  <2> QED
    BY <2>4, <2>8, <2>9
<1>2. Inv /\ [Next]_vars =>
          [open /\ ~open' /\ Head(ready).op # "disconnect"
              => flush_after # NoFlush /\ Len(wire) >= flush_after]_vars
  BY <1>1
<1> QED
  BY <1>2, Invariance, PTL DEF Spec, FlushWritesEverything

\* TcpComm implements OrderedLink: a finished write is the link's next frame, send()
\* offers one, closing takes the link down, and nothing else is visible.
THEOREM LinkRefinement == Spec => ImplementsLink
<1>1. Init => Link!LinkInit
  BY DEF Init, Link!LinkInit
<1>2. ASSUME Inv, [Next]_vars
      PROVE  [Link!LinkNext]_(Link!linkVars)
  <2> USE DEF Link!LinkNext, Link!linkVars
  <2>1. CASE Send
    BY <2>1 DEF Send, Link!Offer
  <2>2. ASSUME NEW ok \in BOOLEAN, WriteCompletes(ok)
        PROVE  [Link!LinkNext]_(Link!linkVars)
    <3>1. UNCHANGED <<open, calls>> /\ (~ok => wire' = wire)
      BY <2>2 DEF WriteCompletes
    <3>2. ok => open /\ Len(wire) < calls /\ wire' = Append(wire, Len(wire) + 1)
      BY <2>2, <1>2, WriteCompletesKeeps
    <3> QED
      BY <3>1, <3>2 DEF Link!Carry
  <2>3. CASE RunDisconnect \/ RunFlush \/ RunWriteDone
    <3>1. UNCHANGED <<wire, calls>>
      BY <2>3 DEF RunDisconnect, RunFlush, RunWriteDone
    <3>2. open' = open \/ (open /\ open' = FALSE)
      BY <2>3 DEF RunDisconnect, RunFlush, RunWriteDone, Close
    <3> QED
      BY <3>1, <3>2 DEF Link!GoDown
  <2>4. CASE \/ Disconnect \/ FlushAndDisconnect \/ RunSend \/ RunWriteFailed
             \/ RunHeaderRead \/ RunBodyRead \/ RunReadFailed
             \/ (\E ok \in BOOLEAN : ReadCompletes(ok))
             \/ PeerSends \/ PeerLeaves \/ UNCHANGED vars
    <3>1. UNCHANGED <<calls, wire, open>>
      BY <2>4 DEF vars, Disconnect, FlushAndDisconnect, RunSend, RunWriteFailed, RunHeaderRead,
                  RunBodyRead, RunReadFailed, ReadCompletes, PeerSends, PeerLeaves
    <3> QED
      BY <3>1
  <2> QED
    BY <2>1, <2>2, <2>3, <2>4, <1>2 DEF Next
<1> QED
  BY <1>1, <1>2, Invariance, PTL DEF Spec, ImplementsLink, Link!LinkSpec
=============================================================================
