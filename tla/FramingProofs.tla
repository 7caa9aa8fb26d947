--------------------------- MODULE FramingProofs ----------------------------
(***************************************************************************)
(* Proofs about Framing, for frames of every size, every width of the      *)
(* parser's lengths, every first size of the buffer and any number of      *)
(* frames and damages.                                                     *)
(***************************************************************************)
EXTENDS Framing, SequenceTheorems, TLAPS

-----------------------------------------------------------------------------
(* The inductive invariant.                                                 *)

Bytes  == Nat \X Nat
Frames == [size : 0..(W - 1), len : 0..(W - 1), damaged : BOOLEAN]

\* The size of frame f of those in s.
FrameSize(s, f) == HeaderSize + s[f].size + TrailerSize

\* Frames read to their end; the next one is current.
Done    == Len(delivered) + Len(dropped)
Current == Done + 1

Types ==
    /\ sent \in Seq(Frames)
    /\ stream \in Seq(Bytes)
    /\ read_buffer \in Seq(Bytes) /\ HeaderSize <= Len(read_buffer)
    /\ delivered \in Seq(Nat) /\ dropped \in Seq(Nat)
    /\ reading \in {"header", "body", "stopped"}

\* Only damage makes a header state another length than its payload's.
Honest == \A f \in 1..Len(sent) : ~sent[f].damaged => sent[f].len = sent[f].size

\* A stream q of the ends of the frames in s, in their order: a byte is followed by the
\* rest of its frame, a frame by the next one, and the last frame is complete.
Blocks(q, s) ==
    /\ \A i \in 1..Len(q) : q[i][1] \in 1..Len(s) /\ q[i][2] \in 1..FrameSize(s, q[i][1])
    /\ \A i \in 1..Len(q) : \A d \in 0..(FrameSize(s, q[i][1]) - q[i][2]) :
          i + d <= Len(q) /\ q[i + d] = <<q[i][1], q[i][2] + d>>
    /\ \A i \in 1..Len(q) : q[i][2] = FrameSize(s, q[i][1]) =>
          IF i = Len(q) THEN q[i][1] = Len(s) ELSE q[i + 1] = <<q[i][1] + 1, 1>>
    /\ \A i, j \in 1..Len(q) : i <= j => q[i][1] <= q[j][1]

\* Where the reader is.  In a frame's body it has that frame's header and length.
Place ==
    /\ Done <= Len(sent)
    /\ \A i \in 1..Len(stream) : stream[i][1] > Done
    /\ reading = "header" =>
          IF stream = <<>> THEN Done = Len(sent) ELSE stream[1] = <<Current, 1>>
    /\ reading = "body" =>
          /\ stream # <<>> /\ stream[1] = <<Current, HeaderSize + 1>>
          /\ stated = sent[Current].len
          /\ total_size = TotalSize(stated) /\ total_size <= Len(read_buffer)
          /\ \A i \in 1..HeaderSize : read_buffer[i] = <<Current, i>>

Inv == /\ Types /\ Honest /\ Blocks(stream, sent) /\ Place
       /\ NoStaleBytes /\ RefusalMeansDamage /\ HandledInOrder

-----------------------------------------------------------------------------
(* Streams.                                                                 *)

\* The frames of z begin with those of s, in their sizes.
SameSizes(z, s) == \A f \in 1..Len(s) : FrameSize(z, f) = FrameSize(s, f)

\* The m bytes b of frame c.
FrameBytes(b, c, m) == b \in Seq(Bytes) /\ Len(b) = m /\ \A i \in 1..m : b[i] = <<c, i>>

\* t is what is left of q behind its first n bytes.
Rest(t, q, n) ==
    /\ t \in Seq(Bytes) /\ Len(t) = Len(q) - n
    /\ \A i \in 1..Len(t) : i + n \in 1..Len(q) /\ t[i] = q[i + n]

\* The constants as the proofs use them.
LEMMA Constants ==
    /\ HeaderSize \in Nat \ {0} /\ TrailerSize \in Nat \ {0} /\ W \in Nat \ {0}
    /\ InitialBuffer \in Nat /\ HeaderSize <= InitialBuffer
    /\ \A size \in Sizes : size \in 0..(W - 1)
  BY FramingAssumption

\* What is left of a stream behind its first n bytes.
LEMMA Suffix ==
    ASSUME NEW S, NEW q \in Seq(S), NEW n \in 0..Len(q), NEW t, t = SubSeq(q, n + 1, Len(q))
    PROVE  /\ t \in Seq(S)
           /\ Len(t) = Len(q) - n
           /\ \A i \in 1..Len(t) : i + n \in 1..Len(q) /\ t[i] = q[i + n]
<1>1. Len(q) \in Nat /\ n \in Nat /\ n <= Len(q)
  BY LenProperties
<1>2. \A i \in (n + 1)..Len(q) : q[i] \in S
  BY <1>1, ElementOfSeq
<1>3. n + 1 \in 1..(Len(q) + 1) /\ Len(q) \in n..Len(q)
  BY <1>1
<1>4. t = [i \in 1..(Len(q) - n) |-> q[i + n]]
  <2>1. t = [i \in 1..(Len(q) - (n + 1) + 1) |-> q[i + (n + 1) - 1]]
    BY <1>1
  <2> QED
    BY <2>1, <1>1
<1>5. Len(q) - n \in Nat /\ \A i \in 1..(Len(q) - n) : i + n \in 1..Len(q) /\ q[i + n] \in S
  BY <1>1, <1>2
<1>6. t \in Seq(S) /\ Len(t) = Len(q) - n
  BY <1>4, <1>5
<1> QED
  BY <1>4, <1>5, <1>6

\* Reading leaves a stream of the same frames.
LEMMA SuffixBlocks ==
    ASSUME NEW q \in Seq(Bytes), NEW s, Blocks(q, s), NEW n \in 0..Len(q),
           NEW t, t = SubSeq(q, n + 1, Len(q))
    PROVE  Blocks(t, s)
<1>1. /\ Len(q) \in Nat /\ n \in Nat /\ Len(t) = Len(q) - n
      /\ \A i \in 1..Len(t) : i + n \in 1..Len(q) /\ t[i] = q[i + n]
  BY Suffix, LenProperties
<1> HIDE DEF Blocks
<1>2. ASSUME NEW i \in 1..Len(t)
      PROVE  t[i][1] \in 1..Len(s) /\ t[i][2] \in 1..FrameSize(s, t[i][1])
  BY <1>1 DEF Blocks
<1>3. ASSUME NEW i \in 1..Len(t), NEW d \in 0..(FrameSize(s, t[i][1]) - t[i][2])
      PROVE  i + d <= Len(t) /\ t[i + d] = <<t[i][1], t[i][2] + d>>
  <2>1. i + n \in 1..Len(q) /\ t[i] = q[i + n]
    BY <1>1
  <2>2. d \in 0..(FrameSize(s, q[i + n][1]) - q[i + n][2]) /\ d \in Nat
    BY <2>1
  <2>3. (i + n) + d <= Len(q) /\ q[(i + n) + d] = <<q[i + n][1], q[i + n][2] + d>>
    BY <2>1, <2>2 DEF Blocks
  <2>4. i + d \in 1..Len(t) /\ (i + d) + n = (i + n) + d
    <3>1. /\ Len(q) \in Nat /\ n \in Nat /\ Len(t) = Len(q) - n /\ d \in Nat
          /\ (i + n) + d <= Len(q)
      BY <2>2, <2>3, <1>1
    <3>2. i \in Nat /\ i >= 1
      BY <3>1
    <3> QED
      BY <3>1, <3>2
  <2>5. t[i + d] = q[(i + n) + d]
    BY <2>4, <1>1
  <2>6. t[i + d] = <<t[i][1], t[i][2] + d>>
    BY <2>1, <2>3, <2>5
  <2>7. i + d <= Len(t)
    BY <2>4
  <2> QED
    BY <2>6, <2>7
<1>4. ASSUME NEW i \in 1..Len(t), t[i][2] = FrameSize(s, t[i][1])
      PROVE  IF i = Len(t) THEN t[i][1] = Len(s) ELSE t[i + 1] = <<t[i][1] + 1, 1>>
  <2>1. i + n \in 1..Len(q) /\ t[i] = q[i + n]
    BY <1>1
  <2>2. IF i + n = Len(q) THEN q[i + n][1] = Len(s)
                          ELSE q[(i + n) + 1] = <<q[i + n][1] + 1, 1>>
    <3>1. q[i + n][2] = FrameSize(s, q[i + n][1])
      BY <2>1, <1>4
    <3> QED
      BY <3>1, <2>1 DEF Blocks
  <2>3. CASE i = Len(t)
    <3>1. i + n = Len(q)
      BY <2>3, <1>1
    <3>2. q[i + n][1] = Len(s)
      BY <3>1, <2>2
    <3> QED
      BY <3>2, <2>1, <2>3
  <2>4. CASE i # Len(t)
    <3>1. i + 1 \in 1..Len(t) /\ i + n # Len(q) /\ (i + 1) + n = (i + n) + 1
      BY <2>4, <1>1
    <3>2. t[i + 1] = q[(i + n) + 1]
      BY <3>1, <1>1
    <3> QED
      BY <3>1, <3>2, <2>1, <2>2, <2>4
  <2> QED
    BY <2>3, <2>4
<1>5. ASSUME NEW i \in 1..Len(t), NEW j \in 1..Len(t), i <= j PROVE t[i][1] <= t[j][1]
  <2>1. i + n \in 1..Len(q) /\ j + n \in 1..Len(q) /\ i + n <= j + n
    BY <1>1, <1>5
  <2> QED
    BY <2>1, <1>1 DEF Blocks
<1> QED
  BY <1>2, <1>3, <1>4, <1>5 DEF Blocks

\* The size of a frame.
LEMMA FrameSizes ==
    ASSUME NEW s \in Seq(Frames)
    PROVE  \A f \in 1..Len(s) : FrameSize(s, f) \in Nat /\ FrameSize(s, f) > HeaderSize
<1>1. SUFFICES ASSUME NEW f \in 1..Len(s)
               PROVE  FrameSize(s, f) \in Nat /\ FrameSize(s, f) > HeaderSize
  OBVIOUS
<1>2. s[f] \in Frames
  BY ElementOfSeq
<1>3. s[f].size \in Nat
  BY <1>2, Constants DEF Frames
<1> QED
  BY <1>3, Constants DEF FrameSize

\* send() adds a frame, with the bytes b, behind the others.
LEMMA AppendBlocks ==
    ASSUME NEW q \in Seq(Bytes), NEW s \in Seq(Frames), Blocks(q, s),
           NEW z, NEW c, c = Len(z), c = Len(s) + 1,
           NEW m \in Nat \ {0}, FrameSize(z, c) = m, SameSizes(z, s),
           NEW b, FrameBytes(b, c, m), NEW t, t = q \o b
    PROVE  t \in Seq(Bytes) /\ Blocks(t, z)
<1> DEFINE n == Len(q)
<1>1. Len(s) \in Nat /\ c \in Nat /\ n \in Nat
  BY LenProperties
<1>2. /\ t \in Seq(Bytes) /\ Len(t) = n + m
      /\ \A i \in 1..(n + m) : t[i] = IF i <= n THEN q[i] ELSE b[i - n]
  <2>1. b \in Seq(Bytes) /\ Len(b) = m
    BY DEF FrameBytes
  <2>2. /\ q \o b \in Seq(Bytes) /\ Len(q \o b) = Len(q) + Len(b)
        /\ \A i \in 1..(Len(q) + Len(b)) :
              (q \o b)[i] = IF i <= Len(q) THEN q[i] ELSE b[i - Len(q)]
    BY <2>1, ConcatProperties
  <2> QED
    BY <2>1, <2>2
<1> HIDE DEF n
<1>3. \A i \in (n + 1)..(n + m) : ~(i <= n) /\ i \in 1..(n + m) /\ i - n \in 1..m
  BY <1>1
<1>4. /\ t \in Seq(Bytes) /\ Len(t) = n + m
      /\ \A i \in 1..n : t[i] = q[i]
      /\ \A i \in (n + 1)..(n + m) : t[i] = b[i - n]
  <2>1. \A i \in 1..n : i <= n /\ i \in 1..(n + m)
    BY <1>1
  <2> QED
    BY <2>1, <1>2, <1>3
<1>5. \A i \in (n + 1)..(n + m) :
          i - n \in 1..m /\ t[i] = <<c, i - n>> /\ t[i][1] = c /\ t[i][2] = i - n
  <2>1. \A i \in (n + 1)..(n + m) : i - n \in 1..m /\ t[i] = <<c, i - n>>
    BY <1>3, <1>4 DEF FrameBytes
  <2>2. ASSUME NEW i \in (n + 1)..(n + m) PROVE t[i][1] = c /\ t[i][2] = i - n
    <3>1. t[i] = <<c, i - n>>
      BY <2>1
    <3> QED
      BY <3>1
  <2> QED
    BY <2>1, <2>2
<1>6. \A i \in 1..(n + m) : i \in 1..n \/ i \in (n + 1)..(n + m)
  BY <1>1
<1>7. \A i \in 1..n : /\ q[i][1] \in 1..Len(s) /\ q[i][2] \in 1..FrameSize(s, q[i][1])
                      /\ t[i] = q[i] /\ FrameSize(z, q[i][1]) = FrameSize(s, q[i][1])
  BY <1>4 DEF Blocks, SameSizes, n
<1>8. ASSUME NEW i \in 1..Len(t)
      PROVE  t[i][1] \in 1..Len(z) /\ t[i][2] \in 1..FrameSize(z, t[i][1])
  <2>1. CASE i \in 1..n
    <3>1. /\ t[i][1] \in 1..Len(s) /\ t[i][2] \in 1..FrameSize(s, t[i][1])
          /\ FrameSize(z, t[i][1]) = FrameSize(s, t[i][1])
      BY <2>1, <1>7
    <3>2. t[i][1] \in 1..Len(z)
      BY <3>1, <1>1
    <3> QED
      BY <3>1, <3>2
  <2>2. CASE i \in (n + 1)..(n + m)
    <3>1. t[i][1] = c /\ t[i][2] = i - n /\ i - n \in 1..m
      BY <2>2, <1>5
    <3> QED
      BY <3>1, <1>1
  <2> QED
    BY <2>1, <2>2, <1>4, <1>6
<1>9. ASSUME NEW i \in 1..Len(t), NEW d \in 0..(FrameSize(z, t[i][1]) - t[i][2])
      PROVE  i + d <= Len(t) /\ t[i + d] = <<t[i][1], t[i][2] + d>>
  <2>1. CASE i \in 1..n
    <3>1. d \in 0..(FrameSize(s, q[i][1]) - q[i][2]) /\ t[i] = q[i]
      BY <2>1, <1>7
    <3>2. i + d <= Len(q) /\ q[i + d] = <<q[i][1], q[i][2] + d>>
      BY <2>1, <3>1 DEF Blocks, n
    <3>3. d \in Nat /\ i + d \in 1..n
      BY <2>1, <3>1, <3>2, <1>1 DEF n
    <3>4. t[i + d] = q[i + d]
      BY <3>3, <1>4
    <3>5. i + d <= Len(t)
      <4>1. i + d \in 1..n /\ n \in Nat /\ Len(t) = n + m
        BY <3>3, <1>1, <1>4
      <4> QED
        BY <4>1
    <3> QED
      BY <3>1, <3>2, <3>4, <3>5
  <2>2. CASE i \in (n + 1)..(n + m)
    <3>1. t[i][1] = c /\ t[i][2] = i - n
      BY <2>2, <1>5
    <3>2. d \in 0..(m - (i - n))
      BY <3>1, <1>1
    <3>3. i + d \in (n + 1)..(n + m) /\ (i + d) - n = (i - n) + d
      BY <2>2, <3>2, <1>1
    <3>4. t[i + d] = <<c, (i - n) + d>>
      BY <3>3, <1>5
    <3>5. i + d <= Len(t)
      BY <3>3, <1>1, <1>4
    <3> QED
      BY <3>1, <3>4, <3>5
  <2> QED
    BY <2>1, <2>2, <1>4, <1>6
<1>10. ASSUME NEW i \in 1..Len(t), t[i][2] = FrameSize(z, t[i][1])
       PROVE  IF i = Len(t) THEN t[i][1] = Len(z) ELSE t[i + 1] = <<t[i][1] + 1, 1>>
  <2>1. CASE i \in 1..n
    <3>1. t[i] = q[i] /\ q[i][2] = FrameSize(s, q[i][1])
      BY <2>1, <1>7, <1>10
    <3>2. IF i = n THEN q[i][1] = Len(s) ELSE q[i + 1] = <<q[i][1] + 1, 1>>
      BY <2>1, <3>1 DEF Blocks, n
    <3>3. i # Len(t)
      BY <2>1, <1>1, <1>4
    <3>4. CASE i = n
      <4>1. n + 1 \in (n + 1)..(n + m) /\ (n + 1) - n = 1
        BY <1>1
      <4>2. t[n + 1] = <<c, 1>>
        BY <4>1, <1>5
      <4> QED
        BY <3>1, <3>2, <3>3, <3>4, <4>2, <1>1
    <3>5. CASE i # n
      <4>1. i + 1 \in 1..n
        BY <2>1, <3>5, <1>1
      <4> QED
        BY <3>1, <3>2, <3>3, <3>5, <4>1, <1>4
    <3> QED
      BY <3>4, <3>5
  <2>2. CASE i \in (n + 1)..(n + m)
    <3>1. t[i][1] = c /\ t[i][2] = i - n
      BY <2>2, <1>5
    <3>2. i - n = m
      BY <3>1, <1>1, <1>10
    <3>3. i = Len(t)
      BY <2>2, <3>2, <1>1, <1>4
    <3> QED
      BY <3>1, <3>3
  <2> QED
    BY <2>1, <2>2, <1>4, <1>6
<1>11. ASSUME NEW i \in 1..Len(t), NEW j \in 1..Len(t), i <= j PROVE t[i][1] <= t[j][1]
  <2>1. CASE i \in 1..n /\ j \in 1..n
    BY <2>1, <1>7, <1>11 DEF Blocks, n
  <2>2. CASE i \in 1..n /\ j \in (n + 1)..(n + m)
    <3>1. t[i][1] \in 1..Len(s)
      BY <2>2, <1>7
    <3>2. t[j][1] = c
      BY <2>2, <1>5
    <3>3. c \in Nat /\ \A f \in 1..Len(s) : f <= c
      BY <1>1
    <3> QED
      BY <3>1, <3>2, <3>3
  <2>3. CASE i \in (n + 1)..(n + m) /\ j \in (n + 1)..(n + m)
    <3>1. t[i][1] = c /\ t[j][1] = c
      BY <2>3, <1>5
    <3>2. c <= c
      BY <1>1
    <3> QED
      BY <3>1, <3>2
  <2>4. ~(i \in (n + 1)..(n + m) /\ j \in 1..n)
    BY <1>1, <1>11
  <2>5. (i \in 1..n \/ i \in (n + 1)..(n + m)) /\ (j \in 1..n \/ j \in (n + 1)..(n + m))
    BY <1>4, <1>6
  <2> QED
    BY <2>1, <2>2, <2>3, <2>4, <2>5
<1>12. Blocks(t, z)
  BY <1>8, <1>9, <1>10, <1>11 DEF Blocks
<1> QED
  BY <1>4, <1>12

\* Damage changes no frame's size.
LEMMA DamageBlocks ==
    ASSUME NEW q, NEW s, NEW z, Blocks(q, s), Len(z) = Len(s),
           \A f \in 1..Len(s) : z[f].size = s[f].size
    PROVE  Blocks(q, z)
<1>1. \A i \in 1..Len(q) : FrameSize(z, q[i][1]) = FrameSize(s, q[i][1])
  BY DEF Blocks, FrameSize
<1> QED
  BY <1>1 DEF Blocks

-----------------------------------------------------------------------------
(* The steps.                                                               *)

\* The counts of frames, and the frame the reader is in.
LEMMA Counts ==
    ASSUME Types
    PROVE  /\ Len(sent) \in Nat /\ DOMAIN sent = 1..Len(sent)
           /\ Len(stream) \in Nat /\ DOMAIN stream = 1..Len(stream)
           /\ Len(delivered) \in Nat /\ Len(dropped) \in Nat /\ Done \in Nat /\ Current \in Nat
           /\ stream # <<>> => 1 \in 1..Len(stream)
           /\ stream = <<>> => Len(stream) = 0
<1>1. /\ Len(sent) \in Nat /\ DOMAIN sent = 1..Len(sent)
      /\ Len(stream) \in Nat /\ DOMAIN stream = 1..Len(stream)
      /\ Len(delivered) \in Nat /\ Len(dropped) \in Nat
  BY LenProperties DEF Types
<1>2. stream = <<>> <=> Len(stream) = 0
  BY EmptySeq DEF Types
<1> QED
  BY <1>1, <1>2 DEF Done, Current

\* In a frame's body the rest of that frame is next, and its first byte is gone.
LEMMA InBody ==
    ASSUME Types, Blocks(stream, sent), Place, reading = "body"
    PROVE  /\ Current \in 1..Len(sent)
           /\ FrameSize(sent, Current) \in Nat /\ FrameSize(sent, Current) > HeaderSize
           /\ \A k \in 1..(FrameSize(sent, Current) - HeaderSize) :
                 k \in 1..Len(stream) /\ stream[k] = <<Current, HeaderSize + k>>
           /\ \A i \in 1..Len(stream) : stream[i] # <<Current, 1>>
<1> DEFINE c == Current
           s == FrameSize(sent, c)
<1>1. c \in Nat /\ Len(stream) \in Nat
  BY Counts
<1>2. 1 \in 1..Len(stream) /\ stream[1] = <<c, HeaderSize + 1>>
  BY Counts DEF Place
<1> HIDE DEF c
<1>3. stream[1][1] = c /\ stream[1][2] = HeaderSize + 1
  BY <1>2
<1>4. c \in 1..Len(sent)
  BY <1>2, <1>3 DEF Blocks
<1>5. s \in Nat /\ s > HeaderSize
  BY <1>4, FrameSizes DEF Types
<1> HIDE DEF s
<1>6. ASSUME NEW k \in 1..(s - HeaderSize)
      PROVE  k \in 1..Len(stream) /\ stream[k] = <<c, HeaderSize + k>>
  <2>1. k - 1 \in 0..(s - (HeaderSize + 1)) /\ 1 + (k - 1) = k
        /\ (HeaderSize + 1) + (k - 1) = HeaderSize + k
    BY <1>5, Constants
  <2>2. k - 1 \in 0..(FrameSize(sent, stream[1][1]) - stream[1][2])
    BY <2>1, <1>3 DEF s
  <2>3. 1 + (k - 1) <= Len(stream) /\ stream[1 + (k - 1)] = <<stream[1][1], stream[1][2] + (k - 1)>>
    BY <2>2, <1>2 DEF Blocks
  <2>4. k <= Len(stream) /\ stream[k] = <<c, HeaderSize + k>>
    BY <2>1, <2>3, <1>3
  <2> QED
    BY <2>4, <1>1
<1>7. ASSUME NEW i \in 1..Len(stream), stream[i] = <<c, 1>> PROVE FALSE
  <2>1. CASE i \in 1..(s - HeaderSize)
    <3>1. <<c, 1>> = <<c, HeaderSize + i>>
      BY <2>1, <1>6, <1>7
    <3>2. 1 = HeaderSize + i
      BY <3>1
    <3> QED
      BY <3>2, Constants
  <2>2. CASE ~(i \in 1..(s - HeaderSize))
    <3> DEFINE e == s - HeaderSize
    <3>1. e \in 1..(s - HeaderSize) /\ HeaderSize + e = s /\ e \in Nat
      BY <1>5, Constants
    <3>2. i > e
      BY <2>2, <3>1
    <3> HIDE DEF e
    <3>3. e \in 1..Len(stream) /\ stream[e] = <<c, s>>
      BY <3>1, <1>6
    <3>4. stream[e][1] = c /\ stream[e][2] = s
      BY <3>3
    <3>5. e # Len(stream) /\ e + 1 \in 1..Len(stream) /\ e + 1 <= i
      BY <3>2, <3>3, <1>1
    <3>6. stream[e + 1] = <<stream[e][1] + 1, 1>>
      BY <3>3, <3>4, <3>5 DEF Blocks, s
    <3>7. stream[e + 1][1] = c + 1
      BY <3>4, <3>6
    <3>8. stream[e + 1][1] <= stream[i][1]
      BY <3>5 DEF Blocks
    <3>9. stream[i][1] = c
      BY <1>7
    <3> QED
      BY <3>7, <3>8, <3>9, <1>1
  <2> QED
    BY <2>1, <2>2
<1> QED
  BY <1>4, <1>5, <1>6, <1>7 DEF c, s

\* A frame that may be damaged was not read, and the reader is not in it.
LEMMA DamagedLater ==
    ASSUME Types, Blocks(stream, sent), Place, NEW f \in 1..Len(sent), <<f, 1>> \in Range(stream)
    PROVE  f > Done /\ (reading = "body" => f # Current)
<1>1. PICK i \in 1..Len(stream) : stream[i] = <<f, 1>>
  BY Counts DEF Range
<1>2. stream[i][1] = f
  BY <1>1
<1>3. f > Done
  BY <1>2 DEF Place
<1>4. reading = "body" => f # Current
  BY <1>1, InBody
<1> QED
  BY <1>3, <1>4

\* What was handled stays right while its frames are left alone.
LEMMA HandledKept ==
    ASSUME HandledInOrder, UNCHANGED <<delivered, dropped>>,
           \A f \in 1..Done : sent'[f].damaged = sent[f].damaged /\ sent'[f].size = sent[f].size
    PROVE  HandledInOrder'
<1> DEFINE S == {f \in 1..Done : ~sent[f].damaged /\ TotalSize(sent[f].size) < W}
           Z == {f \in 1..Done : ~sent'[f].damaged /\ TotalSize(sent'[f].size) < W}
<1>1. Z = S
  OBVIOUS
<1>2. Range(delivered) = S
  BY DEF HandledInOrder, Done
<1>3. Range(delivered)' = Range(delivered)
  BY DEF Range
<1>4. Range(delivered)' = Z
  BY <1>1, <1>2, <1>3
<1>5. \A i, j \in DOMAIN delivered' : i < j => delivered'[i] < delivered'[j]
  BY DEF HandledInOrder
<1> QED
  BY <1>4, <1>5 DEF HandledInOrder, Done

\* send() adds an honest frame behind the others and does not touch the reader.
LEMMA SendKeeps ==
    ASSUME Inv, NEW size \in Sizes, Send(size)
    PROVE  Inv'
<1> DEFINE fr == [size |-> size, len |-> size, damaged |-> FALSE]
           c  == Len(sent')
           m  == HeaderSize + size + TrailerSize
           b  == [i \in 1..m |-> <<c, i>>]
<1>1. /\ Types /\ Honest /\ Blocks(stream, sent) /\ Place
      /\ NoStaleBytes /\ RefusalMeansDamage /\ HandledInOrder
  BY DEF Inv
<1>2. size \in 0..(W - 1) /\ size \in Nat /\ fr \in Frames /\ m \in Nat \ {0}
  BY Constants DEF Frames
<1>3. /\ sent' = Append(sent, fr) /\ stream' = stream \o b
      /\ UNCHANGED <<read_buffer, reading, stated, total_size, parsed, delivered, dropped, threw>>
  BY DEF Send, Length
<1>4. /\ sent' \in Seq(Frames) /\ Len(sent') = Len(sent) + 1 /\ Len(sent) \in Nat
      /\ sent'[Len(sent')] = fr /\ FrameSize(sent', Len(sent')) = m
      /\ \A f \in 1..Len(sent) : sent'[f] = sent[f] /\ FrameSize(sent', f) = FrameSize(sent, f)
  <2>1. /\ sent' \in Seq(Frames) /\ Len(sent') = Len(sent) + 1 /\ Len(sent) \in Nat
        /\ sent'[Len(sent')] = fr
        /\ FrameSize(sent', Len(sent')) = HeaderSize + fr.size + TrailerSize
        /\ \A f \in 1..Len(sent) : sent'[f] = sent[f] /\ FrameSize(sent', f) = FrameSize(sent, f)
    <3>1. sent \in Seq(Frames) /\ fr \in Frames /\ sent' = Append(sent, fr)
      BY <1>1, <1>2, <1>3 DEF Types
    <3> HIDE DEF fr
    <3>2. /\ sent' \in Seq(Frames) /\ Len(sent') = Len(sent) + 1 /\ Len(sent) \in Nat
          /\ sent'[Len(sent')] = fr
          /\ \A f \in 1..Len(sent) : sent'[f] = sent[f]
      BY <3>1, AppendProperties, LenProperties
    <3> QED
      BY <3>2 DEF FrameSize
  <2> QED
    BY <2>1
<1>5. /\ Done' = Done /\ Current' = Current
      /\ Done \in Nat /\ Done <= Len(sent) /\ Current = Done + 1
  BY <1>1, <1>3, Counts DEF Done, Current, Place
<1>6. b \in Seq(Bytes) /\ Len(b) = m /\ \A i \in 1..m : b[i] = <<c, i>>
  <2>1. c \in Nat /\ \A i \in 1..m : i \in Nat
    BY <1>2, <1>4
  <2>2. \A i \in 1..m : <<c, i>> \in Bytes
    BY <2>1 DEF Bytes
  <2> HIDE DEF c, m
  <2> QED
    BY <1>2, <2>2
<1> HIDE DEF fr, c, m, b
<1>7. stream' \in Seq(Bytes) /\ Blocks(stream', sent')
  <2>1. stream \in Seq(Bytes) /\ sent \in Seq(Frames) /\ Blocks(stream, sent)
    BY <1>1 DEF Types
  <2>2. /\ c = Len(sent') /\ c = Len(sent) + 1 /\ m \in Nat \ {0} /\ FrameSize(sent', c) = m
        /\ SameSizes(sent', sent)
    BY <1>2, <1>4 DEF SameSizes, c
  <2>3. FrameBytes(b, c, m) /\ stream' = stream \o b
    BY <1>3, <1>6 DEF FrameBytes
  <2> QED
    BY <2>1, <2>2, <2>3, AppendBlocks
<1>8. Types'
  BY <1>1, <1>3, <1>4, <1>7 DEF Types
<1>9. Honest'
  <2>1. ASSUME NEW f \in 1..Len(sent'), ~sent'[f].damaged PROVE sent'[f].len = sent'[f].size
    <3>1. CASE f = Len(sent')
      BY <3>1, <1>4 DEF fr
    <3>2. CASE f # Len(sent')
      <4>1. f \in 1..Len(sent)
        BY <3>2, <1>4
      <4> QED
        BY <4>1, <2>1, <1>1, <1>4 DEF Honest
    <3> QED
      BY <3>1, <3>2
  <2> QED
    BY <2>1 DEF Honest
<1>10. /\ Len(stream) \in Nat /\ Len(stream') = Len(stream) + m
       /\ \A i \in 1..Len(stream) : stream'[i] = stream[i]
       /\ \A i \in 1..Len(stream') : i \notin 1..Len(stream) => stream'[i] = <<c, i - Len(stream)>>
       /\ stream' # <<>>
  <2>1. Len(stream) \in Nat /\ stream \in Seq(Bytes)
    BY <1>1, Counts DEF Types
  <2>2. /\ Len(stream \o b) = Len(stream) + Len(b)
        /\ \A i \in 1..(Len(stream) + Len(b)) :
              (stream \o b)[i] = IF i <= Len(stream) THEN stream[i] ELSE b[i - Len(stream)]
    BY <2>1, <1>6, ConcatProperties
  <2>3. /\ Len(stream') = Len(stream) + m
        /\ \A i \in 1..(Len(stream) + m) :
              stream'[i] = IF i <= Len(stream) THEN stream[i] ELSE b[i - Len(stream)]
    BY <2>2, <1>3, <1>6
  <2>4. \A i \in 1..Len(stream) : i \in 1..(Len(stream) + m) /\ i <= Len(stream)
    BY <2>1, <1>2
  <2>5. \A i \in 1..(Len(stream) + m) :
            i \notin 1..Len(stream) => ~(i <= Len(stream)) /\ i - Len(stream) \in 1..m
    BY <2>1, <1>2
  <2>6. stream' # <<>>
    <3>1. Len(stream') # 0
      BY <2>1, <2>3, <1>2
    <3> QED
      BY <3>1, <1>7, EmptySeq
  <2> QED
    BY <2>1, <2>3, <2>4, <2>5, <2>6, <1>6
<1>11. Place'
  <2>1. Done' <= Len(sent')
    BY <1>4, <1>5
  <2>2. ASSUME NEW i \in 1..Len(stream') PROVE stream'[i][1] > Done'
    <3>1. CASE i \in 1..Len(stream)
      <4>1. stream[i][1] > Done
        BY <3>1, <1>1 DEF Place
      <4> QED
        BY <4>1, <3>1, <1>5, <1>10
    <3>2. CASE i \notin 1..Len(stream)
      <4>1. stream'[i] = <<c, i - Len(stream)>>
        BY <3>2, <1>10
      <4>2. stream'[i][1] = c
        BY <4>1
      <4> QED
        BY <4>2, <1>4, <1>5 DEF c
    <3> QED
      BY <3>1, <3>2
  <2>3. ASSUME reading' = "header" PROVE stream'[1] = <<Current', 1>>
    <3>1. reading = "header"
      BY <2>3, <1>3
    <3>2. CASE stream = <<>>
      <4>1. Done = Len(sent) /\ Len(stream) = 0
        BY <3>1, <3>2, <1>1, Counts DEF Place
      <4>2. 1 \in 1..Len(stream') /\ 1 \notin 1..Len(stream) /\ 1 - Len(stream) = 1
        BY <4>1, <1>2, <1>10
      <4>3. stream'[1] = <<c, 1>>
        BY <4>2, <1>10
      <4> QED
        BY <4>1, <4>3, <1>4, <1>5 DEF c
    <3>3. CASE stream # <<>>
      BY <3>1, <3>3, <1>1, <1>5, <1>10, Counts DEF Place
    <3> QED
      BY <3>2, <3>3
  <2>4. ASSUME reading' = "body"
        PROVE  /\ stream' # <<>> /\ stream'[1] = <<Current', HeaderSize + 1>>
               /\ stated' = sent'[Current'].len
               /\ total_size' = TotalSize(stated') /\ total_size' <= Len(read_buffer')
               /\ \A i \in 1..HeaderSize : read_buffer'[i] = <<Current', i>>
    <3>1. reading = "body"
      BY <2>4, <1>3
    <3>2. Current \in 1..Len(sent)
      BY <3>1, <1>1, InBody
    <3>3. sent'[Current'] = sent[Current]
      BY <3>2, <1>4, <1>5
    <3>4. stream'[1] = stream[1]
      BY <3>1, <1>1, <1>10, Counts DEF Place
    <3> QED
      BY <3>1, <3>3, <3>4, <1>1, <1>3, <1>5, <1>10 DEF Place
  <2> QED
    BY <2>1, <2>2, <2>3, <2>4, <1>10 DEF Place, TotalSize
<1>12. NoStaleBytes'
  BY <1>1, <1>3 DEF NoStaleBytes
<1>13. RefusalMeansDamage'
  <2>1. ASSUME threw' PROVE \E f \in DOMAIN sent' : sent'[f].damaged
    <3>1. PICK f \in DOMAIN sent : sent[f].damaged
      BY <2>1, <1>1, <1>3 DEF RefusalMeansDamage
    <3>2. f \in 1..Len(sent) /\ DOMAIN sent' = 1..Len(sent')
      BY <3>1, <1>1, <1>4, Counts, LenProperties
    <3>3. f \in DOMAIN sent'
      BY <3>2, <1>4
    <3> QED
      BY <3>1, <3>2, <3>3, <1>4
  <2> QED
    BY <2>1 DEF RefusalMeansDamage
<1>14. HandledInOrder'
  <2>1. \A f \in 1..Done : f \in 1..Len(sent)
    BY <1>4, <1>5
  <2>2. \A f \in 1..Done : sent'[f].damaged = sent[f].damaged /\ sent'[f].size = sent[f].size
    BY <2>1, <1>4
  <2> QED
    BY <2>2, <1>1, <1>3, HandledKept
<1> QED
  BY <1>7, <1>8, <1>9, <1>11, <1>12, <1>13, <1>14 DEF Inv

\* A damaged frame.
LEMMA DamagedFrame ==
    ASSUME NEW r \in Frames, NEW len, NEW d
    PROVE  [[r EXCEPT !.damaged = d] EXCEPT !.len = len]
              = [size |-> r.size, len |-> len, damaged |-> d]
<1> DEFINE F == {"size", "len", "damaged"}
           e == [[r EXCEPT !.damaged = d] EXCEPT !.len = len]
<1>1. r = [size |-> r.size, len |-> r.len, damaged |-> r.damaged]
  BY DEF Frames
<1>2. DOMAIN r = F
  BY <1>1
<1>3. e = [k \in F |-> IF k = "len" THEN len ELSE IF k = "damaged" THEN d ELSE r[k]]
  BY <1>2, Zenon
<1> QED
  BY <1>3

\* Damage reaches only frames the reader has not begun.
LEMMA DamageKeeps ==
    ASSUME Inv, NEW f \in DOMAIN sent, NEW len \in 0..(W - 1), Damage(f, len)
    PROVE  Inv'
<1>1. /\ Types /\ Honest /\ Blocks(stream, sent) /\ Place
      /\ NoStaleBytes /\ RefusalMeansDamage /\ HandledInOrder
  BY DEF Inv
<1>2. /\ <<f, 1>> \in Range(stream)
      /\ sent' = [sent EXCEPT ![f].damaged = TRUE, ![f].len = len]
      /\ UNCHANGED <<stream, read_buffer, reading, stated, total_size, parsed,
                     delivered, dropped, threw>>
  BY DEF Damage
<1>3. Len(sent) \in Nat /\ DOMAIN sent = 1..Len(sent) /\ sent \in Seq(Frames)
  BY <1>1, Counts DEF Types
<1>4. /\ \A g \in DOMAIN sent : sent[g] \in Frames
      /\ sent[f] = [size |-> sent[f].size, len |-> sent[f].len, damaged |-> sent[f].damaged]
      /\ sent[f].size \in 0..(W - 1)
  <2>1. \A g \in DOMAIN sent : sent[g] \in Frames
    BY <1>3, ElementOfSeq
  <2> QED
    BY <2>1 DEF Frames
<1>5. /\ sent' \in Seq(Frames) /\ Len(sent') = Len(sent)
      /\ \A g \in 1..Len(sent) : g # f => sent'[g] = sent[g]
      /\ sent'[f].size = sent[f].size /\ sent'[f].damaged
  <2> DEFINE fr == [size |-> sent[f].size, len |-> len, damaged |-> TRUE]
  <2>1. sent' = [g \in DOMAIN sent |-> IF g = f THEN fr ELSE sent[g]]
    <3>1. [[sent[f] EXCEPT !.damaged = TRUE] EXCEPT !.len = len] = fr
      <4>1. sent[f] \in Frames
        BY <1>4
      <4> QED
        BY <4>1, DamagedFrame, Zenon
    <3>2. ASSUME NEW g \in DOMAIN sent
          PROVE  sent'[g] = IF g = f THEN fr ELSE sent[g]
      <4>1. CASE g = f
        <5>1. sent'[f] = [[sent[f] EXCEPT !.damaged = TRUE] EXCEPT !.len = len]
          BY <1>2
        <5> HIDE DEF fr
        <5> QED
          BY <5>1, <3>1, <4>1
      <4>2. CASE g # f
        BY <4>2, <1>2
      <4> QED
        BY <4>1, <4>2
    <3>3. sent' = [g \in DOMAIN sent' |-> sent'[g]] /\ DOMAIN sent' = DOMAIN sent
      BY <1>2
    <3> HIDE DEF fr
    <3> QED
      BY <3>2, <3>3, Zenon
  <2>2. fr \in Frames /\ fr.size = sent[f].size /\ fr.damaged
    BY <1>4 DEF Frames
  <2> HIDE DEF fr
  <2>3. sent' = [g \in 1..Len(sent) |-> IF g = f THEN fr ELSE sent[g]]
    BY <2>1, <1>3
  <2>4. \A g \in 1..Len(sent) : (IF g = f THEN fr ELSE sent[g]) \in Frames
    BY <2>2, <1>3, <1>4
  <2>5. sent' \in Seq(Frames) /\ Len(sent') = Len(sent)
    BY <2>3, <2>4, <1>3
  <2>6. f \in 1..Len(sent)
    BY <1>3
  <2> QED
    BY <2>2, <2>3, <2>5, <2>6
<1>6. f > Done /\ (reading = "body" => f # Current)
  BY <1>1, <1>2, <1>3, DamagedLater
<1>7. Done' = Done /\ Current' = Current /\ Done \in Nat /\ Done <= Len(sent)
  BY <1>1, <1>2, Counts DEF Done, Current, Place
<1>8. Types'
  BY <1>1, <1>2, <1>5 DEF Types
<1>9. Honest'
  BY <1>1, <1>5 DEF Honest
<1>10. Blocks(stream', sent')
  <2>1. \A g \in 1..Len(sent) : sent'[g].size = sent[g].size
    BY <1>5
  <2>2. Blocks(stream, sent')
    BY <2>1, <1>1, <1>5, DamageBlocks
  <2> QED
    BY <2>2, <1>2
<1>11. Place'
  <2>1. ASSUME reading = "body" PROVE sent'[Current] = sent[Current]
    BY <2>1, <1>1, <1>5, <1>6, InBody
  <2>2. /\ Done <= Len(sent')
        /\ \A i \in 1..Len(stream) : stream[i][1] > Done
    BY <1>1, <1>5 DEF Place
  <2>3. reading = "header" =>
            IF stream = <<>> THEN Done = Len(sent') ELSE stream[1] = <<Current, 1>>
    BY <1>1, <1>5 DEF Place
  <2>4. reading = "body" =>
            /\ stream # <<>> /\ stream[1] = <<Current, HeaderSize + 1>>
            /\ stated = sent'[Current].len
            /\ total_size = TotalSize(stated) /\ total_size <= Len(read_buffer)
            /\ \A i \in 1..HeaderSize : read_buffer[i] = <<Current, i>>
    BY <2>1, <1>1 DEF Place
  <2> QED
    BY <2>2, <2>3, <2>4, <1>2, <1>7 DEF Place, TotalSize
<1>12. NoStaleBytes'
  BY <1>1, <1>2 DEF NoStaleBytes
<1>13. RefusalMeansDamage'
  <2>1. f \in DOMAIN sent'
    BY <1>3, <1>5, LenProperties
  <2> QED
    BY <2>1, <1>5 DEF RefusalMeansDamage
<1>14. HandledInOrder'
  <2>1. \A g \in 1..Done : g \in 1..Len(sent) /\ g # f
    BY <1>3, <1>6, <1>7
  <2>2. \A g \in 1..Done : sent'[g].damaged = sent[g].damaged /\ sent'[g].size = sent[g].size
    BY <2>1, <1>5
  <2> QED
    BY <2>2, <1>1, <1>2, HandledKept
<1> QED
  BY <1>8, <1>9, <1>10, <1>11, <1>12, <1>13, <1>14 DEF Inv

\* What async_read leaves in the buffer.
LEMMA FilledBuffer ==
    ASSUME Types, NEW at \in Nat, NEW n \in Nat, n <= Len(stream)
    PROVE  /\ Filled(at, n) \in Seq(Bytes) /\ Len(Filled(at, n)) = Len(read_buffer)
           /\ \A i \in 1..Len(read_buffer) :
                 Filled(at, n)[i] = IF i - at \in 1..n THEN stream[i - at] ELSE read_buffer[i]
<1>1. /\ Len(read_buffer) \in Nat /\ DOMAIN read_buffer = 1..Len(read_buffer)
      /\ \A i \in 1..Len(read_buffer) : read_buffer[i] \in Bytes
  BY LenProperties, ElementOfSeq DEF Types
<1>2. \A k \in 1..n : stream[k] \in Bytes
  BY Counts, ElementOfSeq DEF Types
<1>3. Filled(at, n) = [i \in 1..Len(read_buffer) |->
                          IF i - at \in 1..n THEN stream[i - at] ELSE read_buffer[i]]
  BY <1>1 DEF Filled
<1>4. \A i \in 1..Len(read_buffer) :
          (IF i - at \in 1..n THEN stream[i - at] ELSE read_buffer[i]) \in Bytes
  BY <1>1, <1>2
<1> QED
  BY <1>1, <1>3, <1>4

\* A longer buffer has what it had, and room.
LEMMA ResizedBuffer ==
    ASSUME NEW buffer \in Seq(Bytes), NEW n \in Nat
    PROVE  /\ Resized(buffer, n) \in Seq(Bytes)
           /\ Len(Resized(buffer, n)) >= n /\ Len(Resized(buffer, n)) >= Len(buffer)
           /\ \A i \in 1..Len(buffer) : Resized(buffer, n)[i] = buffer[i]
<1> DEFINE m == IF n > Len(buffer) THEN n ELSE Len(buffer)
<1>1. /\ Len(buffer) \in Nat /\ DOMAIN buffer = 1..Len(buffer)
      /\ \A i \in 1..Len(buffer) : buffer[i] \in Bytes
  BY LenProperties, ElementOfSeq
<1>2. m \in Nat /\ m >= n /\ m >= Len(buffer) /\ \A i \in 1..Len(buffer) : i \in 1..m
  BY <1>1
<1>3. Resized(buffer, n) = [i \in 1..m |-> IF i \in 1..Len(buffer) THEN buffer[i] ELSE Outside]
  BY <1>1 DEF Resized
<1>4. \A i \in 1..m : (IF i \in 1..Len(buffer) THEN buffer[i] ELSE Outside) \in Bytes
  BY <1>1 DEF Outside, Bytes
<1> HIDE DEF m
<1>5. Resized(buffer, n) \in Seq(Bytes) /\ Len(Resized(buffer, n)) = m
  BY <1>2, <1>3, <1>4
<1> QED
  BY <1>2, <1>3, <1>5

\* readHeader() takes the current frame's header and finds its length there.
LEMMA HeaderReadKeeps ==
    ASSUME Inv, NEW len \in 0..(W - 1), HeaderRead(len)
    PROVE  Inv'
<1> DEFINE c == Current
           buffer == Filled(0, HeaderSize)
<1>1. /\ Types /\ Honest /\ Blocks(stream, sent) /\ Place
      /\ NoStaleBytes /\ RefusalMeansDamage /\ HandledInOrder
  BY DEF Inv
<1>2. /\ reading = "header" /\ HeaderSize <= Len(stream)
      /\ stream[1][2] = 1 => len = sent[stream[1][1]].len
      /\ stated' = len /\ total_size' = TotalSize(len)
      /\ read_buffer' = Resized(buffer, total_size')
      /\ stream' = SubSeq(stream, HeaderSize + 1, Len(stream))
      /\ reading' = "body"
      /\ UNCHANGED <<sent, parsed, delivered, dropped, threw>>
  BY DEF HeaderRead
<1>3. /\ Done' = Done /\ Current' = c /\ c = Done + 1 /\ c \in Nat /\ Done \in Nat
      /\ Done <= Len(sent) /\ Len(stream) \in Nat
  BY <1>1, <1>2, Counts DEF Done, Current, Place
<1>4. 1 \in 1..Len(stream) /\ stream[1] = <<c, 1>>
  <2>1. Len(stream) # 0
    BY <1>2, <1>3, Constants
  <2> QED
    BY <2>1, <1>1, <1>2, Counts DEF Place
<1> HIDE DEF c, buffer
<1>5. stream[1][1] = c /\ stream[1][2] = 1
  BY <1>4
<1>6. c \in 1..Len(sent) /\ len = sent[c].len
  BY <1>1, <1>2, <1>4, <1>5 DEF Blocks
<1>7. FrameSize(sent, c) \in Nat /\ FrameSize(sent, c) > HeaderSize
  BY <1>1, <1>6, FrameSizes DEF Types
<1>8. \A i \in 1..(HeaderSize + 1) : i \in 1..Len(stream) /\ stream[i] = <<c, i>>
  <2>1. SUFFICES ASSUME NEW i \in 1..(HeaderSize + 1)
                 PROVE  i \in 1..Len(stream) /\ stream[i] = <<c, i>>
    OBVIOUS
  <2>2. i - 1 \in 0..(FrameSize(sent, c) - 1) /\ 1 + (i - 1) = i
    BY <1>7, Constants
  <2>3. 1 + (i - 1) <= Len(stream) /\ stream[1 + (i - 1)] = <<stream[1][1], stream[1][2] + (i - 1)>>
    BY <2>2, <1>1, <1>4, <1>5 DEF Blocks
  <2> QED
    BY <2>2, <2>3, <1>3, <1>5
<1>9. /\ buffer \in Seq(Bytes) /\ Len(buffer) = Len(read_buffer)
      /\ \A i \in 1..HeaderSize : i \in 1..Len(buffer) /\ buffer[i] = <<c, i>>
  <2>1. /\ buffer \in Seq(Bytes) /\ Len(buffer) = Len(read_buffer)
        /\ \A i \in 1..Len(read_buffer) :
              buffer[i] = IF i - 0 \in 1..HeaderSize THEN stream[i - 0] ELSE read_buffer[i]
    BY <1>1, <1>2, Constants, FilledBuffer DEF buffer
  <2>2. Len(read_buffer) \in Nat /\ HeaderSize <= Len(read_buffer)
    BY <1>1, LenProperties DEF Types
  <2>3. \A i \in 1..HeaderSize :
            i \in 1..Len(read_buffer) /\ i - 0 = i /\ i \in 1..(HeaderSize + 1)
    BY <2>2, Constants
  <2> QED
    BY <2>1, <2>3, <1>8
<1>10. TotalSize(len) \in Nat
  BY Constants DEF TotalSize
<1>11. /\ read_buffer' \in Seq(Bytes)
       /\ Len(read_buffer') >= total_size' /\ Len(read_buffer') >= Len(read_buffer)
       /\ \A i \in 1..HeaderSize : read_buffer'[i] = <<c, i>>
  BY <1>2, <1>9, <1>10, ResizedBuffer
<1>12. HeaderSize \in 0..Len(stream) /\ stream \in Seq(Bytes)
  BY <1>1, <1>2, <1>3, Constants DEF Types
<1>13. /\ stream' \in Seq(Bytes) /\ Len(stream') = Len(stream) - HeaderSize
       /\ \A i \in 1..Len(stream') :
             i + HeaderSize \in 1..Len(stream) /\ stream'[i] = stream[i + HeaderSize]
  BY <1>2, <1>12, Suffix
<1>14. Blocks(stream', sent')
  <2>1. Blocks(stream', sent)
    BY <1>1, <1>2, <1>12, SuffixBlocks
  <2> QED
    BY <2>1, <1>2
<1>15. Types'
  <2>1. HeaderSize <= Len(read_buffer')
    BY <1>1, <1>11, Constants, LenProperties DEF Types
  <2> QED
    BY <2>1, <1>1, <1>2, <1>11, <1>13 DEF Types
<1>16. Honest'
  BY <1>1, <1>2 DEF Honest
<1>17. Place'
  <2>1. Done' <= Len(sent')
    BY <1>2, <1>3
  <2>2. \A i \in 1..Len(stream') : stream'[i][1] > Done'
    BY <1>1, <1>3, <1>13 DEF Place
  <2>3. 1 \in 1..Len(stream') /\ stream'[1] = <<c, HeaderSize + 1>>
    <3>1. HeaderSize + 1 \in 1..(HeaderSize + 1) /\ 1 + HeaderSize = HeaderSize + 1
      BY Constants
    <3>2. HeaderSize + 1 \in 1..Len(stream) /\ stream[HeaderSize + 1] = <<c, HeaderSize + 1>>
      BY <3>1, <1>8
    <3>3. 1 \in 1..Len(stream')
      BY <3>2, <1>3, <1>13, Constants
    <3> QED
      BY <3>1, <3>2, <3>3, <1>13
  <2>4. stream' # <<>>
    BY <2>3
  <2>5. stated' = sent'[Current'].len
    BY <1>2, <1>3, <1>6
  <2>6. total_size' = TotalSize(stated') /\ total_size' <= Len(read_buffer')
    <3>1. Len(read_buffer') \in Nat /\ total_size' \in Nat
      BY <1>2, <1>10, <1>11, LenProperties
    <3> QED
      BY <3>1, <1>2, <1>11
  <2> QED
    BY <2>1, <2>2, <2>3, <2>4, <2>5, <2>6, <1>2, <1>3, <1>11 DEF Place, TotalSize
<1>18. NoStaleBytes'
  BY <1>1, <1>2 DEF NoStaleBytes
<1>19. RefusalMeansDamage'
  BY <1>1, <1>2 DEF RefusalMeansDamage
<1>20. HandledInOrder'
  BY <1>1, <1>2, HandledKept
<1> QED
  BY <1>14, <1>15, <1>16, <1>17, <1>18, <1>19, <1>20 DEF Inv

\* A failed read ends the reading and changes nothing else.
LEMMA ReadFailsKeeps ==
    ASSUME Inv, ReadFails
    PROVE  Inv'
<1>1. /\ reading' = "stopped"
      /\ UNCHANGED <<sent, stream, read_buffer, stated, total_size, parsed,
                     delivered, dropped, threw>>
  BY DEF ReadFails
<1>2. Types' /\ Honest' /\ Blocks(stream', sent')
  BY <1>1 DEF Inv, Types, Honest
<1>3. Place'
  BY <1>1 DEF Inv, Place, Done
<1>4. NoStaleBytes' /\ RefusalMeansDamage'
  BY <1>1 DEF Inv, NoStaleBytes, RefusalMeansDamage
<1>5. HandledInOrder'
  BY <1>1, HandledKept DEF Inv
<1> QED
  BY <1>2, <1>3, <1>4, <1>5 DEF Inv

\* A step that changes nothing keeps the invariant.
LEMMA StutterKeeps ==
    ASSUME Inv, UNCHANGED vars
    PROVE  Inv'
<1>1. UNCHANGED <<sent, stream, read_buffer, reading, stated, total_size, parsed,
                  delivered, dropped, threw>>
  BY DEF vars
<1>2. Types' /\ Honest' /\ Blocks(stream', sent')
  BY <1>1 DEF Inv, Types, Honest
<1>3. Place'
  BY <1>1 DEF Inv, Place, Done, Current, TotalSize
<1>4. NoStaleBytes' /\ RefusalMeansDamage'
  BY <1>1 DEF Inv, NoStaleBytes, RefusalMeansDamage
<1>5. HandledInOrder'
  BY <1>1, HandledKept DEF Inv
<1> QED
  BY <1>2, <1>3, <1>4, <1>5 DEF Inv

\* Nothing is sent, read or handled at first.
LEMMA InitInv == Init => Inv
<1> SUFFICES ASSUME Init PROVE Inv
  OBVIOUS
<1>1. /\ sent = <<>> /\ stream = <<>> /\ delivered = <<>> /\ dropped = <<>> /\ parsed = <<>>
      /\ reading = "header" /\ threw = FALSE
      /\ read_buffer = [i \in 1..InitialBuffer |-> Outside]
  BY DEF Init
<1>2. read_buffer \in Seq(Bytes) /\ Len(read_buffer) = InitialBuffer
  BY <1>1, Constants DEF Outside, Bytes
<1>3. Types
  BY <1>1, <1>2, Constants DEF Types
<1>4. Len(sent) = 0 /\ Len(stream) = 0 /\ Len(delivered) = 0 /\ Len(dropped) = 0
  BY <1>1
<1>5. 1..0 = {}
  OBVIOUS
<1>6. Honest /\ Blocks(stream, sent)
  BY <1>4, <1>5 DEF Honest, Blocks
<1>7. Place
  BY <1>1, <1>4, <1>5 DEF Place, Done
<1>8. NoStaleBytes /\ RefusalMeansDamage
  BY <1>1 DEF NoStaleBytes, RefusalMeansDamage
<1>9. HandledInOrder
  <2>1. DOMAIN delivered = {} /\ Len(delivered) + Len(dropped) = 0
    BY <1>1, <1>4
  <2> QED
    BY <2>1, <1>5 DEF HandledInOrder, Range
<1> QED
  BY <1>3, <1>6, <1>7, <1>8, <1>9 DEF Inv

\* A length is its own remainder when it fits.
LEMMA Fits == ASSUME NEW n \in Nat PROVE n % W = n <=> n < W
<1>1. W \in Nat /\ W > 0
  BY Constants
<1>2. n % W \in 0..(W - 1)
  BY <1>1
<1>3. n < W => n % W = n
  BY <1>1
<1> QED
  BY <1>1, <1>2, <1>3

\* What deserialize is given in readBody's completion: the current frame's header and what
\* came behind it.  The CRC is right exactly when the frame is not damaged.
LEMMA BodyBytes ==
    ASSUME Types, Honest, Blocks(stream, sent), Place, BodyRead
    PROVE  /\ total_size \in Nat /\ total_size > HeaderSize
           /\ total_size = HeaderSize + stated + TrailerSize
           /\ total_size - HeaderSize \in 0..Len(stream)
           /\ read_buffer' \in Seq(Bytes) /\ Len(read_buffer') = Len(read_buffer)
           /\ DOMAIN parsed' = 1..total_size
           /\ \A i \in 1..HeaderSize : i \in 1..total_size /\ parsed'[i] = <<Current, i>>
           /\ \A i \in 1..total_size : i \notin 1..HeaderSize =>
                 i - HeaderSize \in 1..Len(stream) /\ parsed'[i] = stream[i - HeaderSize]
           /\ CrcMatches(parsed') <=> ~sent[Current].damaged
           /\ ~sent[Current].damaged => total_size = FrameSize(sent, Current)
<1> DEFINE c == Current
           n == total_size - HeaderSize
<1>1. reading = "body" /\ n <= Len(stream) /\ read_buffer' = Filled(HeaderSize, n)
      /\ parsed' = FrameIn(read_buffer')
  BY DEF BodyRead
<1>2. /\ c \in 1..Len(sent)
      /\ FrameSize(sent, c) \in Nat /\ FrameSize(sent, c) > HeaderSize
      /\ \A k \in 1..(FrameSize(sent, c) - HeaderSize) : stream[k] = <<c, HeaderSize + k>>
  BY <1>1, InBody
<1>3. /\ stated = sent[c].len
      /\ total_size = HeaderSize + stated + TrailerSize /\ total_size <= Len(read_buffer)
      /\ \A i \in 1..HeaderSize : read_buffer[i] = <<c, i>>
  BY <1>1 DEF Place, TotalSize
<1> HIDE DEF c
<1>4. sent[c] \in Frames
  BY <1>2, ElementOfSeq DEF Types
<1>5. stated \in Nat /\ sent[c].size \in Nat
  BY <1>3, <1>4, Constants DEF Frames
<1>6. /\ total_size \in Nat /\ total_size > HeaderSize /\ n \in Nat /\ n \in 0..Len(stream)
      /\ HeaderSize \in Nat /\ Len(stream) \in Nat /\ Len(read_buffer) \in Nat
  <2>1. Len(stream) \in Nat /\ Len(read_buffer) \in Nat
    BY Counts, LenProperties DEF Types
  <2>2. total_size \in Nat /\ total_size > HeaderSize /\ n \in Nat /\ HeaderSize \in Nat
    <3>1. /\ total_size = HeaderSize + stated + TrailerSize /\ stated \in Nat
          /\ HeaderSize \in Nat /\ TrailerSize \in Nat /\ TrailerSize > 0
      BY <1>3, <1>5, Constants
    <3>2. total_size \in Nat /\ total_size > HeaderSize
      BY <3>1
    <3>3. n \in Nat
      BY <3>1, <3>2
    <3> QED
      BY <3>1, <3>2, <3>3
  <2>3. n \in 0..Len(stream)
    BY <2>1, <2>2, <1>1
  <2> QED
    BY <2>1, <2>2, <2>3
<1> HIDE DEF n
<1>7. /\ read_buffer' \in Seq(Bytes) /\ Len(read_buffer') = Len(read_buffer)
      /\ \A i \in 1..Len(read_buffer) :
            read_buffer'[i] = IF i - HeaderSize \in 1..n THEN stream[i - HeaderSize] ELSE read_buffer[i]
  BY <1>1, <1>6, FilledBuffer
<1>8. DOMAIN read_buffer' = 1..Len(read_buffer)
  BY <1>7, LenProperties
<1>9. \A i \in 1..total_size : i \in 1..Len(read_buffer)
  BY <1>3, <1>6
<1>10. DOMAIN parsed' = 1..total_size /\ \A i \in 1..total_size : parsed'[i] = read_buffer'[i]
  <2>1. FrameIn(read_buffer') = [i \in 1..(HeaderSize + stated + TrailerSize) |->
                IF i \in DOMAIN read_buffer' THEN read_buffer'[i] ELSE Outside]
    BY DEF FrameIn
  <2>2. parsed' = [i \in 1..total_size |->
                IF i \in DOMAIN read_buffer' THEN read_buffer'[i] ELSE Outside]
    BY <2>1, <1>1, <1>3
  <2> QED
    BY <2>2, <1>8, <1>9
<1>11. \A i \in 1..HeaderSize : i \in 1..total_size /\ parsed'[i] = <<c, i>>
  <2>1. \A i \in 1..HeaderSize : i \in 1..total_size /\ i - HeaderSize \notin 1..n
    BY <1>6
  <2> QED
    BY <2>1, <1>3, <1>7, <1>9, <1>10
<1>12. \A i \in 1..total_size : i \notin 1..HeaderSize =>
          i - HeaderSize \in 1..Len(stream) /\ parsed'[i] = stream[i - HeaderSize]
  <2>1. \A i \in 1..total_size : i \notin 1..HeaderSize =>
            i - HeaderSize \in 1..n /\ i - HeaderSize \in 1..Len(stream)
    BY <1>6 DEF n
  <2> QED
    BY <2>1, <1>7, <1>9, <1>10
<1>13. parsed'[1][1] = c
  <2>1. 1 \in 1..HeaderSize
    BY Constants
  <2>2. parsed'[1] = <<c, 1>>
    BY <2>1, <1>11
  <2> QED
    BY <2>2
<1>14. ~sent[c].damaged => total_size = FrameSize(sent, c)
  BY <1>2, <1>3 DEF Honest, FrameSize
<1>15. ASSUME ~sent[c].damaged
       PROVE  parsed' = [i \in 1..(HeaderSize + sent[c].size + TrailerSize) |-> <<c, i>>]
  <2>1. total_size = FrameSize(sent, c) /\ FrameSize(sent, c) = HeaderSize + sent[c].size + TrailerSize
    BY <1>14, <1>15 DEF FrameSize
  <2>2. ASSUME NEW i \in 1..total_size PROVE parsed'[i] = <<c, i>>
    <3>1. CASE i \in 1..HeaderSize
      BY <3>1, <1>11
    <3>2. CASE i \notin 1..HeaderSize
      <4>1. /\ i - HeaderSize \in 1..(FrameSize(sent, c) - HeaderSize)
            /\ HeaderSize + (i - HeaderSize) = i
        BY <3>2, <2>1, <1>6
      <4>2. stream[i - HeaderSize] = <<c, i>>
        BY <4>1, <1>2
      <4> QED
        BY <3>2, <4>2, <1>12
    <3> QED
      BY <3>1, <3>2
  <2>3. parsed' = [i \in DOMAIN parsed' |-> parsed'[i]]
    BY <1>1 DEF FrameIn
  <2>4. parsed' = [i \in 1..total_size |-> <<c, i>>]
    BY <2>2, <2>3, <1>10
  <2> QED
    BY <2>1, <2>4
<1>16. CrcMatches(parsed') <=> ~sent[c].damaged
  BY <1>13, <1>15 DEF CrcMatches
<1> QED
  BY <1>3, <1>6, <1>7, <1>10, <1>11, <1>12, <1>14, <1>16 DEF c, n

\* What is behind a whole frame: nothing, when it was the last one sent, or the next frame.
LEMMA BehindFrame ==
    ASSUME Types, Blocks(stream, sent), Place, reading = "body",
           NEW n, n = FrameSize(sent, Current) - HeaderSize,
           NEW t, Rest(t, stream, n)
    PROVE  /\ IF t = <<>> THEN Current = Len(sent) ELSE t[1] = <<Current + 1, 1>>
           /\ \A i \in 1..Len(t) : t[i][1] > Current
<1> DEFINE c == Current
<1>1. /\ c \in 1..Len(sent)
      /\ FrameSize(sent, c) \in Nat /\ FrameSize(sent, c) > HeaderSize
      /\ \A k \in 1..n : k \in 1..Len(stream) /\ stream[k] = <<c, HeaderSize + k>>
  BY InBody
<1> HIDE DEF c
<1>2. n \in Nat /\ n \in 1..n /\ HeaderSize + n = FrameSize(sent, c)
  <2>1. /\ FrameSize(sent, c) \in Nat /\ FrameSize(sent, c) > HeaderSize
        /\ n = FrameSize(sent, c) - HeaderSize /\ HeaderSize \in Nat
    BY <1>1, Constants DEF c
  <2>2. n \in Nat /\ n > 0 /\ HeaderSize + n = FrameSize(sent, c)
    BY <2>1
  <2> QED
    BY <2>2
<1>3. n \in 1..Len(stream) /\ stream[n] = <<c, FrameSize(sent, c)>>
  BY <1>1, <1>2
<1>4. stream[n][1] = c /\ stream[n][2] = FrameSize(sent, c)
  BY <1>3
<1>5. IF n = Len(stream) THEN c = Len(sent) ELSE stream[n + 1] = <<c + 1, 1>>
  BY <1>3, <1>4 DEF Blocks
<1>6. Len(stream) \in Nat /\ c \in Nat /\ n \in 0..Len(stream) /\ stream \in Seq(Bytes)
  BY <1>2, <1>3, Counts DEF Types, c
<1>7. /\ t \in Seq(Bytes) /\ Len(t) = Len(stream) - n
      /\ \A i \in 1..Len(t) : i + n \in 1..Len(stream) /\ t[i] = stream[i + n]
  BY DEF Rest
<1>8. t = <<>> <=> Len(t) = 0
  BY <1>7, EmptySeq
<1>9. CASE n = Len(stream)
  <2>1. Len(t) = 0
    BY <1>6, <1>7, <1>9
  <2>2. 1..Len(t) = {}
    BY <2>1
  <2> QED
    BY <2>1, <2>2, <1>5, <1>8, <1>9 DEF c
<1>10. CASE n # Len(stream)
  <2>1. Len(t) # 0 /\ 1 \in 1..Len(t) /\ 1 + n = n + 1 /\ n + 1 \in 1..Len(stream)
    BY <1>2, <1>3, <1>6, <1>7, <1>10
  <2>2. stream[n + 1] = <<c + 1, 1>> /\ t[1] = stream[n + 1]
    BY <2>1, <1>5, <1>7, <1>10
  <2>3. stream[n + 1][1] = c + 1
    BY <2>2
  <2>4. ASSUME NEW i \in 1..Len(t) PROVE t[i][1] > c
    <3>1. i + n \in 1..Len(stream) /\ t[i] = stream[i + n]
      BY <1>7
    <3>2. n + 1 <= i + n
      BY <1>2, <1>6, <1>7
    <3>3. stream[n + 1][1] <= stream[i + n][1]
      BY <2>1, <3>1, <3>2 DEF Blocks
    <3>4. stream[i + n][1] \in 1..Len(sent)
      BY <3>1 DEF Blocks
    <3>5. stream[i + n][1] \in Nat
      <4>1. Len(sent) \in Nat
        BY Counts
      <4> HIDE DEF Blocks
      <4> QED
        BY <3>4, <4>1
    <3>6. c + 1 <= stream[i + n][1]
      BY <3>3, <2>3
    <3>7. stream[i + n][1] > c
      BY <3>5, <3>6, <1>6
    <3> QED
      BY <3>1, <3>7
  <2> QED
    BY <2>1, <2>2, <2>4, <1>8 DEF c
<1> QED
  BY <1>9, <1>10

\* A frame that is handled is behind the ones handled before.
LEMMA HandleOne ==
    ASSUME Types, HandledInOrder, Current \in 1..Len(sent), ~sent[Current].damaged,
           TotalSize(sent[Current].size) < W,
           sent' = sent, dropped' = dropped, delivered' = Append(delivered, Current)
    PROVE  HandledInOrder'
<1> DEFINE c == Current
           ok(f) == ~sent[f].damaged /\ TotalSize(sent[f].size) < W
<1>1. /\ Len(delivered) \in Nat /\ Len(dropped) \in Nat /\ c \in Nat
      /\ c = Len(delivered) + Len(dropped) + 1
      /\ delivered \in Seq(Nat) /\ DOMAIN delivered = 1..Len(delivered)
  BY Counts, LenProperties DEF Types, Current, Done
<1> HIDE DEF c
<1>2. /\ Len(delivered') = Len(delivered) + 1
      /\ DOMAIN delivered' = 1..(Len(delivered) + 1)
      /\ \A i \in 1..Len(delivered) : delivered'[i] = delivered[i]
      /\ delivered'[Len(delivered) + 1] = c
  <2>1. delivered' = Append(delivered, c)
    BY DEF c
  <2>2. /\ delivered' \in Seq(Nat) /\ Len(delivered') = Len(delivered) + 1
        /\ \A i \in 1..Len(delivered) : delivered'[i] = delivered[i]
        /\ delivered'[Len(delivered) + 1] = c
    BY <2>1, <1>1, AppendProperties
  <2> QED
    BY <2>2, LenProperties
<1>3. Range(delivered) = {f \in 1..(c - 1) : ok(f)}
  <2>1. Len(delivered) + Len(dropped) = c - 1
    BY <1>1
  <2> QED
    BY <2>1 DEF HandledInOrder
<1>4. \A i \in 1..Len(delivered) : delivered[i] \in Range(delivered)
  BY <1>1 DEF Range
<1>5. \A i \in 1..(Len(delivered) + 1) : i \in 1..Len(delivered) \/ i = Len(delivered) + 1
  BY <1>1
<1>6. Range(delivered)' = Range(delivered) \cup {c}
  <2>1. Range(delivered)' = {delivered'[i] : i \in 1..(Len(delivered) + 1)}
    BY <1>2 DEF Range
  <2>2. Range(delivered) = {delivered[i] : i \in 1..Len(delivered)}
    BY <1>1 DEF Range
  <2>3. \A i \in 1..Len(delivered) : i \in 1..(Len(delivered) + 1)
    BY <1>1
  <2>4. Len(delivered) + 1 \in 1..(Len(delivered) + 1)
    BY <1>1
  <2> QED
    BY <2>1, <2>2, <2>3, <2>4, <1>2, <1>5
<1>7. {f \in 1..c : ok(f)} = {f \in 1..(c - 1) : ok(f)} \cup {c}
  <2>1. \A f : f \in 1..c <=> f \in 1..(c - 1) \/ f = c
    BY <1>1
  <2>2. ok(c)
    BY DEF c
  <2> HIDE DEF ok
  <2> QED
    BY <2>1, <2>2
<1>8. Range(delivered)' = {f \in 1..(Len(delivered') + Len(dropped')) : ok(f)}
  <2>1. Len(delivered') + Len(dropped') = c
    BY <1>1, <1>2
  <2> HIDE DEF ok
  <2> QED
    BY <2>1, <1>3, <1>6, <1>7
<1>9. ASSUME NEW i \in DOMAIN delivered', NEW j \in DOMAIN delivered', i < j
      PROVE  delivered'[i] < delivered'[j]
  <2>1. i \in 1..Len(delivered)
    BY <1>1, <1>2, <1>9
  <2>2. CASE j \in 1..Len(delivered)
    BY <2>1, <2>2, <1>1, <1>2, <1>9 DEF HandledInOrder
  <2>3. CASE j = Len(delivered) + 1
    <3>1. delivered[i] \in 1..(c - 1)
      BY <2>1, <1>3, <1>4
    <3>2. delivered[i] < c
      BY <3>1, <1>1
    <3> QED
      BY <3>2, <2>1, <2>3, <1>2
  <2> QED
    BY <2>2, <2>3, <1>2, <1>5
<1>10. {f \in 1..(Len(delivered') + Len(dropped')) : ok(f)}
         = {f \in 1..(Len(delivered') + Len(dropped')) :
                ~sent'[f].damaged /\ TotalSize(sent'[f].size) < W}
  OBVIOUS
<1> QED
  BY <1>8, <1>9, <1>10 DEF HandledInOrder, TotalSize

\* A frame that is left out is not among the ones to handle.
LEMMA DropOne ==
    ASSUME Types, HandledInOrder, Current \in 1..Len(sent),
           ~(TotalSize(sent[Current].size) < W),
           sent' = sent, delivered' = delivered, Len(dropped') = Len(dropped) + 1
    PROVE  HandledInOrder'
<1> DEFINE c == Current
           ok(f) == ~sent[f].damaged /\ TotalSize(sent[f].size) < W
<1>1. /\ Len(delivered) \in Nat /\ Len(dropped) \in Nat /\ c \in Nat
      /\ c = Len(delivered) + Len(dropped) + 1
  BY Counts DEF Types, Current, Done
<1> HIDE DEF c
<1>2. Range(delivered) = {f \in 1..(c - 1) : ok(f)}
  <2>1. Len(delivered) + Len(dropped) = c - 1
    BY <1>1
  <2> QED
    BY <2>1 DEF HandledInOrder
<1>3. {f \in 1..c : ok(f)} = {f \in 1..(c - 1) : ok(f)}
  <2>1. \A f : f \in 1..c <=> f \in 1..(c - 1) \/ f = c
    BY <1>1
  <2>2. ~ok(c)
    BY DEF c
  <2> HIDE DEF ok
  <2> QED
    BY <2>1, <2>2
<1>4. Range(delivered)' = {f \in 1..(Len(delivered') + Len(dropped')) : ok(f)}
  <2>1. Len(delivered') + Len(dropped') = c
    BY <1>1
  <2>2. Range(delivered)' = Range(delivered)
    BY DEF Range
  <2> HIDE DEF ok
  <2> QED
    BY <2>1, <2>2, <1>2, <1>3
<1>5. \A i, j \in DOMAIN delivered' : i < j => delivered'[i] < delivered'[j]
  BY DEF HandledInOrder
<1>6. {f \in 1..(Len(delivered') + Len(dropped')) : ok(f)}
         = {f \in 1..(Len(delivered') + Len(dropped')) :
                ~sent'[f].damaged /\ TotalSize(sent'[f].size) < W}
  OBVIOUS
<1> QED
  BY <1>4, <1>5, <1>6 DEF HandledInOrder, TotalSize

\* readBody()'s completion ends the current frame, or the reading with a damaged frame.
LEMMA BodyReadKeeps ==
    ASSUME Inv, BodyRead
    PROVE  Inv'
<1> DEFINE c == Current
           n == total_size - HeaderSize
<1>1. /\ Types /\ Honest /\ Blocks(stream, sent) /\ Place
      /\ NoStaleBytes /\ RefusalMeansDamage /\ HandledInOrder
  BY DEF Inv
<1>2. /\ reading = "body" /\ stream' = SubSeq(stream, n + 1, Len(stream))
      /\ UNCHANGED <<sent, stated, total_size>>
  BY DEF BodyRead
<1>3. /\ total_size \in Nat /\ total_size > HeaderSize
      /\ total_size = HeaderSize + stated + TrailerSize
      /\ n \in 0..Len(stream)
      /\ read_buffer' \in Seq(Bytes) /\ Len(read_buffer') = Len(read_buffer)
      /\ DOMAIN parsed' = 1..total_size
      /\ \A i \in 1..HeaderSize : i \in 1..total_size /\ parsed'[i] = <<c, i>>
      /\ \A i \in 1..total_size : i \notin 1..HeaderSize =>
            i - HeaderSize \in 1..Len(stream) /\ parsed'[i] = stream[i - HeaderSize]
      /\ CrcMatches(parsed') <=> ~sent[c].damaged
      /\ ~sent[c].damaged => total_size = FrameSize(sent, c)
  BY <1>1, BodyBytes
<1>4. parsed'[1] = <<c, 1>>
  <2>1. 1 \in 1..HeaderSize
    BY Constants
  <2> QED
    BY <2>1, <1>3
<1>5. c \in 1..Len(sent) /\ c = Done + 1 /\ Done \in Nat /\ c \in Nat /\ Len(sent) \in Nat
  BY <1>1, <1>2, InBody, Counts DEF Current
<1> HIDE DEF c, n
<1>6. parsed'[1][1] = c
  BY <1>4
<1>7. \A i \in 1..Len(stream) : stream[i][1] \in Nat /\ stream[i][1] >= c
  <2>1. SUFFICES ASSUME NEW i \in 1..Len(stream)
                 PROVE  stream[i][1] \in Nat /\ stream[i][1] >= c
    OBVIOUS
  <2>2. stream[i][1] \in 1..Len(sent)
    BY <1>1 DEF Blocks
  <2>3. stream[i][1] > Done
    BY <1>1 DEF Place
  <2> QED
    BY <2>2, <2>3, <1>5
<1>8. NoStaleBytes'
  <2>1. ASSUME NEW i \in 1..total_size PROVE parsed'[i][1] >= c
    <3>1. CASE i \in 1..HeaderSize
      <4>1. parsed'[i] = <<c, i>>
        BY <3>1, <1>3
      <4>2. parsed'[i][1] = c
        BY <4>1
      <4> QED
        BY <4>2, <1>5
    <3>2. CASE i \notin 1..HeaderSize
      BY <3>2, <1>3, <1>7
    <3> QED
      BY <3>1, <3>2
  <2>2. Outside[1] = 0 /\ ~(0 >= c)
    BY <1>5 DEF Outside
  <2> QED
    BY <2>1, <2>2, <1>3, <1>6 DEF NoStaleBytes
<1>9. /\ stream' \in Seq(Bytes) /\ Len(stream') = Len(stream) - n
      /\ \A i \in 1..Len(stream') : i + n \in 1..Len(stream) /\ stream'[i] = stream[i + n]
      /\ Blocks(stream', sent')
  <2>1. stream \in Seq(Bytes) /\ n \in 0..Len(stream) /\ Blocks(stream, sent)
        /\ stream' = SubSeq(stream, n + 1, Len(stream))
    BY <1>1, <1>2, <1>3 DEF Types
  <2>2. /\ stream' \in Seq(Bytes) /\ Len(stream') = Len(stream) - n
        /\ \A i \in 1..Len(stream') : i + n \in 1..Len(stream) /\ stream'[i] = stream[i + n]
    BY <2>1, Suffix
  <2>3. Blocks(stream', sent)
    BY <2>1, SuffixBlocks
  <2> QED
    BY <2>2, <2>3, <1>2
<1>10. Honest'
  BY <1>1, <1>2 DEF Honest
<1>11. CASE ~CrcMatches(parsed')
  <2>1. threw' = TRUE /\ reading' = "stopped" /\ UNCHANGED <<delivered, dropped>>
    BY <1>11 DEF BodyRead
  <2>2. Types'
    BY <2>1, <1>1, <1>2, <1>3, <1>9 DEF Types
  <2>3. Place'
    <3>1. Done' = Done
      BY <2>1 DEF Done
    <3>2. Done' <= Len(sent') /\ \A i \in 1..Len(stream') : stream'[i][1] > Done'
      BY <3>1, <1>1, <1>2, <1>9 DEF Place
    <3> QED
      BY <3>2, <2>1 DEF Place
  <2>4. RefusalMeansDamage'
    <3>1. sent[c].damaged
      BY <1>3, <1>11
    <3>2. c \in DOMAIN sent
      BY <1>1, <1>5, Counts
    <3> QED
      BY <3>1, <3>2, <1>2 DEF RefusalMeansDamage
  <2>5. HandledInOrder'
    BY <2>1, <1>1, <1>2, HandledKept
  <2> QED
    BY <2>2, <2>3, <2>4, <2>5, <1>8, <1>9, <1>10 DEF Inv
<1>12. CASE CrcMatches(parsed')
  <2>1. ~sent[c].damaged /\ total_size = FrameSize(sent, c)
    BY <1>3, <1>12
  <2>2. total_size = TotalSize(sent[c].size)
    BY <2>1 DEF FrameSize, TotalSize
  <2>3. total_size % W = total_size <=> TotalSize(sent[c].size) < W
    BY <2>2, <1>3, Fits
  <2>4. /\ reading' = "header" /\ threw' = threw
        /\ \/ /\ total_size % W = total_size
              /\ delivered' = Append(delivered, c) /\ dropped' = dropped
           \/ /\ total_size % W # total_size
              /\ dropped' = Append(dropped, c) /\ delivered' = delivered
    BY <1>3, <1>6, <1>12 DEF BodyRead
  <2>5. /\ delivered \in Seq(Nat) /\ Len(delivered) \in Nat
        /\ dropped \in Seq(Nat) /\ Len(dropped) \in Nat
    BY <1>1, LenProperties DEF Types
  <2>6. /\ delivered' \in Seq(Nat) /\ dropped' \in Seq(Nat)
        /\ Len(delivered') + Len(dropped') = Len(delivered) + Len(dropped) + 1
    <3>1. CASE delivered' = Append(delivered, c) /\ dropped' = dropped
      <4>1. delivered' \in Seq(Nat) /\ Len(delivered') = Len(delivered) + 1
        BY <3>1, <2>5, <1>5, AppendProperties
      <4> QED
        BY <4>1, <3>1, <2>5
    <3>2. CASE dropped' = Append(dropped, c) /\ delivered' = delivered
      <4>1. dropped' \in Seq(Nat) /\ Len(dropped') = Len(dropped) + 1
        BY <3>2, <2>5, <1>5, AppendProperties
      <4> QED
        BY <4>1, <3>2, <2>5
    <3> QED
      BY <3>1, <3>2, <2>4
  <2>7. Done' = c /\ Current' = c + 1
    BY <2>5, <2>6 DEF Done, Current, c
  <2>8. Types'
    BY <2>4, <2>6, <1>1, <1>2, <1>3, <1>9 DEF Types
  <2>9. Place'
    <3>1. n = FrameSize(sent, Current) - HeaderSize
      BY <2>1 DEF n, c
    <3>2. /\ IF stream' = <<>> THEN Current = Len(sent) ELSE stream'[1] = <<Current + 1, 1>>
          /\ \A i \in 1..Len(stream') : stream'[i][1] > Current
      <4>1. Rest(stream', stream, n)
        BY <1>9 DEF Rest
      <4> QED
        BY <3>1, <4>1, <1>1, <1>2, BehindFrame
    <3>3. /\ IF stream' = <<>> THEN c = Len(sent) ELSE stream'[1] = <<c + 1, 1>>
          /\ \A i \in 1..Len(stream') : stream'[i][1] > c
      BY <3>2 DEF c
    <3>4. Done' <= Len(sent')
      BY <2>7, <1>2, <1>5
    <3> QED
      BY <3>3, <3>4, <2>4, <2>7, <1>2 DEF Place
  <2>10. RefusalMeansDamage'
    BY <2>4, <1>1, <1>2 DEF RefusalMeansDamage
  <2>11. HandledInOrder'
    <3>1. CASE total_size % W = total_size
      <4>1. delivered' = Append(delivered, c) /\ dropped' = dropped
        BY <2>4, <3>1
      <4> QED
        BY <4>1, <3>1, <2>1, <2>3, <1>1, <1>2, <1>5, HandleOne DEF c
    <3>2. CASE total_size % W # total_size
      <4>1. dropped' = Append(dropped, c) /\ delivered' = delivered
        BY <2>4, <3>2
      <4>2. Len(dropped') = Len(dropped) + 1
        BY <4>1, <2>5, <1>5, AppendProperties
      <4> QED
        BY <4>1, <4>2, <3>2, <2>3, <1>1, <1>2, <1>5, DropOne DEF c
    <3> QED
      BY <3>1, <3>2
  <2> QED
    BY <2>8, <2>9, <2>10, <2>11, <1>8, <1>9, <1>10 DEF Inv
<1> QED
  BY <1>11, <1>12

\* Every step keeps the invariant.
LEMMA NextInv == Inv /\ [Next]_vars => Inv'
<1> SUFFICES ASSUME Inv, [Next]_vars PROVE Inv'
  OBVIOUS
<1>1. ASSUME NEW size \in Sizes, Send(size) PROVE Inv'
  BY <1>1, SendKeeps
<1>2. ASSUME NEW f \in DOMAIN sent, NEW len \in 0..(W - 1), Damage(f, len) PROVE Inv'
  BY <1>2, DamageKeeps
<1>3. ASSUME NEW len \in 0..(W - 1), HeaderRead(len) PROVE Inv'
  BY <1>3, HeaderReadKeeps
<1>4. CASE BodyRead
  BY <1>4, BodyReadKeeps
<1>5. CASE ReadFails
  BY <1>5, ReadFailsKeeps
<1>6. CASE UNCHANGED vars
  BY <1>6, StutterKeeps
<1> QED
  BY <1>1, <1>2, <1>3, <1>4, <1>5, <1>6 DEF Next

-----------------------------------------------------------------------------
(* The theorems.                                                            *)

\* The invariant holds in every state.
THEOREM Invariance == Spec => []Inv
<1> QED
  BY InitInv, NextInv, PTL DEF Spec

\* deserialize() never takes a byte of an earlier frame, or one that was not received, for
\* part of the message, although read_buffer_ is never cleared.
THEOREM BufferIsFresh == Spec => []NoStaleBytes
<1>1. Inv => NoStaleBytes
  BY DEF Inv
<1> QED
  BY <1>1, Invariance, PTL

\* readHeader() always starts at a frame's first byte.
THEOREM ReaderStaysInSync == Spec => []InSync
<1>1. Inv => InSync
  <2>1. ASSUME Inv, reading = "header", stream # <<>> PROVE stream[1][2] = 1
    <3>1. stream[1] = <<Current, 1>>
      BY <2>1 DEF Inv, Place
    <3> QED
      BY <3>1
  <2> QED
    BY <2>1 DEF InSync
<1> QED
  BY <1>1, Invariance, PTL

\* deserialize() refuses only damaged frames.
THEOREM OnlyDamageIsRefused == Spec => []RefusalMeansDamage
<1>1. Inv => RefusalMeansDamage
  BY DEF Inv
<1> QED
  BY <1>1, Invariance, PTL

\* msg_handler_ gets every frame that was read once and in the order they were sent, except
\* those whose size does not fit the parser's uint32_t.
THEOREM FramesAreHandled == Spec => []HandledInOrder
<1>1. Inv => HandledInOrder
  BY DEF Inv
<1> QED
  BY <1>1, Invariance, PTL
=============================================================================
