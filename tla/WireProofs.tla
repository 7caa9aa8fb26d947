----------------------------- MODULE WireProofs -----------------------------
(***************************************************************************)
(* What ByteSerializer writes it reads back, for every value of the width, *)
(* and what serialize writes deserialize reads, for every message.         *)
(* compute_crc32 is the CRC-32 of the standards, for all bytes, and tells  *)
(* apart what differs in four consecutive bytes.                           *)
(***************************************************************************)
EXTENDS Wire, SequenceTheorems, WellFoundedInduction, TLAPS

\* Shifting a byte out of a word and back leaves the word's bits of that byte.
LEMMA ByteOfWord ==
    ASSUME NEW v \in SUBSET Nat, NEW n \in Nat
    PROVE  Left(Byte(Right(v, n)), n) = v \intersect (n..(n + 7))
<1>1. ASSUME NEW b \in v \intersect (n..(n + 7)) PROVE b \in Left(Byte(Right(v, n)), n)
  <2>1. b \in Nat /\ b >= n /\ b - n \in 0..7 /\ (b - n) + n = b
    BY <1>1
  <2>2. b - n \in Right(v, n)
    BY <1>1, <2>1 DEF Right
  <2>3. b - n \in Byte(Right(v, n))
    BY <2>1, <2>2 DEF Byte, Bits
  <2> QED
    BY <2>1, <2>3 DEF Left
<1>2. ASSUME NEW b \in Left(Byte(Right(v, n)), n) PROVE b \in v \intersect (n..(n + 7))
  <2>1. PICK c \in Byte(Right(v, n)) : b = c + n
    BY <1>2 DEF Left
  <2>2. c \in 0..7 /\ c \in Right(v, n)
    BY <2>1 DEF Byte, Bits
  <2>3. PICK d \in v : d >= n /\ c = d - n
    BY <2>2 DEF Right
  <2> QED
    BY <2>1, <2>2, <2>3
<1> QED
  BY <1>1, <1>2

\* The lowest byte, which is not shifted.
LEMMA LowByteOfWord ==
    ASSUME NEW v \in SUBSET Nat
    PROVE  Byte(v) = v \intersect (0..7)
  BY DEF Byte, Bits

\* write_u16_be and read_u16_be.
THEOREM U16RoundTrip == \A v \in SUBSET Bits(16) : read_u16_be(write_u16_be(v), 0) = v
<1> SUFFICES ASSUME NEW v \in SUBSET Bits(16) PROVE read_u16_be(write_u16_be(v), 0) = v
  OBVIOUS
<1>1. v \in SUBSET Nat /\ v \subseteq 0..15
  BY DEF Bits
<1>2. read_u16_be(write_u16_be(v), 0) = Left(Byte(Right(v, 8)), 8) \union Byte(v)
  BY DEF read_u16_be, write_u16_be
<1>3. Left(Byte(Right(v, 8)), 8) = v \intersect (8..15)
  BY <1>1, ByteOfWord
<1>4. Byte(v) = v \intersect (0..7)
  BY <1>1, LowByteOfWord
<1>5. \A b \in v : b \in 0..7 \/ b \in 8..15
  BY <1>1
<1> QED
  BY <1>2, <1>3, <1>4, <1>5

\* write_u32_be and read_u32_be: the lengths, ids, modes and, by their bits, floats.
THEOREM U32RoundTrip == \A v \in SUBSET Bits(32) : read_u32_be(write_u32_be(v), 0) = v
<1> SUFFICES ASSUME NEW v \in SUBSET Bits(32) PROVE read_u32_be(write_u32_be(v), 0) = v
  OBVIOUS
<1>1. v \in SUBSET Nat /\ v \subseteq 0..31
  BY DEF Bits
<1>2. read_u32_be(write_u32_be(v), 0)
        = Left(Byte(Right(v, 24)), 24) \union Left(Byte(Right(v, 16)), 16)
              \union Left(Byte(Right(v, 8)), 8) \union Byte(v)
  BY DEF read_u32_be, write_u32_be
<1>3. /\ Left(Byte(Right(v, 24)), 24) = v \intersect (24..31)
      /\ Left(Byte(Right(v, 16)), 16) = v \intersect (16..23)
      /\ Left(Byte(Right(v, 8)), 8) = v \intersect (8..15)
  BY <1>1, ByteOfWord
<1>4. Byte(v) = v \intersect (0..7)
  BY <1>1, LowByteOfWord
<1>5. \A b \in v : b \in 0..7 \/ b \in 8..15 \/ b \in 16..23 \/ b \in 24..31
  BY <1>1
<1> QED
  BY <1>2, <1>3, <1>4, <1>5

-----------------------------------------------------------------------------
(* Parts of a buffer.                                                       *)

Bytes == SUBSET Bits(8)

\* The buffer q has the bytes t at offset n.
At(q, n, t) == n + Len(t) <= Len(q) /\ \A i \in 1..Len(t) : q[n + i] = t[i]

\* Writing t behind p leaves p where it is.
LEMMA Behind ==
    ASSUME NEW S, NEW p \in Seq(S), NEW t \in Seq(S)
    PROVE  /\ p \o t \in Seq(S) /\ Len(p \o t) = Len(p) + Len(t)
           /\ Len(p) \in Nat /\ Len(t) \in Nat
           /\ \A i \in 1..Len(p) : (p \o t)[i] = p[i]
           /\ \A i \in 1..Len(t) : (p \o t)[Len(p) + i] = t[i]
<1>1. Len(p) \in Nat /\ Len(t) \in Nat
  BY LenProperties
<1>2. /\ p \o t \in Seq(S) /\ Len(p \o t) = Len(p) + Len(t)
      /\ \A i \in 1..(Len(p) + Len(t)) :
            (p \o t)[i] = IF i <= Len(p) THEN p[i] ELSE t[i - Len(p)]
  BY ConcatProperties
<1>3. \A i \in 1..Len(p) : i \in 1..(Len(p) + Len(t)) /\ i <= Len(p)
  BY <1>1
<1>4. \A i \in 1..Len(t) : /\ Len(p) + i \in 1..(Len(p) + Len(t))
                           /\ ~(Len(p) + i <= Len(p)) /\ (Len(p) + i) - Len(p) = i
  BY <1>1
<1> QED
  BY <1>1, <1>2, <1>3, <1>4

\* The part written last.
LEMMA Written ==
    ASSUME NEW p \in Seq(Bytes), NEW t \in Seq(Bytes)
    PROVE  /\ p \o t \in Seq(Bytes) /\ Len(p \o t) = Len(p) + Len(t)
           /\ At(p \o t, Len(p), t)
<1> DEFINE q == p \o t
<1>1. /\ q \in Seq(Bytes) /\ Len(q) = Len(p) + Len(t)
      /\ Len(p) \in Nat /\ Len(t) \in Nat
      /\ \A i \in 1..Len(t) : q[Len(p) + i] = t[i]
  BY Behind
<1> HIDE DEF q
<1>2. At(q, Len(p), t)
  BY <1>1 DEF At
<1> QED
  BY <1>1, <1>2 DEF q

\* A part written before.
LEMMA Stays ==
    ASSUME NEW p \in Seq(Bytes), NEW t \in Seq(Bytes),
           NEW s \in Seq(Bytes), NEW n \in Nat, At(p, n, s)
    PROVE  At(p \o t, n, s)
<1> DEFINE q == p \o t
<1>1. /\ Len(q) = Len(p) + Len(t)
      /\ Len(p) \in Nat /\ Len(t) \in Nat
      /\ \A i \in 1..Len(p) : q[i] = p[i]
  BY Behind
<1> HIDE DEF q
<1>2. Len(s) \in Nat /\ n + Len(s) <= Len(p)
  BY LenProperties DEF At
<1>3. \A i \in 1..Len(s) : n + i \in 1..Len(p)
  BY <1>1, <1>2
<1>4. n + Len(s) <= Len(q)
  BY <1>1, <1>2
<1>5. At(q, n, s)
  BY <1>1, <1>3, <1>4 DEF At
<1> QED
  BY <1>5 DEF q

\* A part that is a whole prefix.
LEMMA AtStart ==
    ASSUME NEW q \in Seq(Bytes)
    PROVE  At(q, 0, q)
<1>1. Len(q) \in Nat /\ \A i \in 1..Len(q) : 0 + i = i
  BY LenProperties
<1> QED
  BY <1>1 DEF At

\* SubSeq cuts a part out.
LEMMA Cut ==
    ASSUME NEW q \in Seq(Bytes), NEW n \in Nat, NEW t \in Seq(Bytes), At(q, n, t)
    PROVE  SubSeq(q, n + 1, n + Len(t)) = t
<1>1. Len(q) \in Nat /\ Len(t) \in Nat /\ n + Len(t) <= Len(q)
  BY LenProperties DEF At
<1>2. SubSeq(q, n + 1, n + Len(t)) = [i \in 1..Len(t) |-> q[n + i]]
  <2>1. SubSeq(q, n + 1, n + Len(t))
          = [i \in 1..((n + Len(t)) - (n + 1) + 1) |-> q[i + (n + 1) - 1]]
    BY <1>1
  <2>2. (n + Len(t)) - (n + 1) + 1 = Len(t) /\ \A i \in 1..Len(t) : i + (n + 1) - 1 = n + i
    BY <1>1
  <2> QED
    BY <2>1, <2>2
<1>3. t = [i \in 1..Len(t) |-> t[i]]
  BY LenProperties
<1> QED
  BY <1>2, <1>3 DEF At

-----------------------------------------------------------------------------
(* Words.                                                                   *)

\* What write_u16_be and write_u32_be append.
LEMMA WordBytes ==
    ASSUME NEW v
    PROVE  /\ write_u16_be(v) \in Seq(Bytes) /\ Len(write_u16_be(v)) = 2
           /\ write_u32_be(v) \in Seq(Bytes) /\ Len(write_u32_be(v)) = 4
<1>1. \A w : Byte(w) \in Bytes
  BY DEF Byte, Bytes
<1> HIDE DEF Bytes
<1>2. write_u16_be(v) \in Seq(Bytes) /\ Len(write_u16_be(v)) = 2
  BY <1>1 DEF write_u16_be
<1>3. write_u32_be(v) \in Seq(Bytes) /\ Len(write_u32_be(v)) = 4
  BY <1>1 DEF write_u32_be
<1> QED
  BY <1>2, <1>3

\* read_u16_be at the offset where write_u16_be wrote.
LEMMA ReadU16 ==
    ASSUME NEW q, NEW n \in Nat, NEW v \in SUBSET Bits(16), At(q, n, write_u16_be(v))
    PROVE  read_u16_be(q, n) = v
<1> DEFINE t == write_u16_be(v)
<1>1. \A i \in 1..2 : q[n + i] = t[i]
  BY WordBytes DEF At
<1>2. q[n + 1] = t[1] /\ q[n + 2] = t[2]
  BY <1>1
<1>3. t[0 + 1] = t[1] /\ t[0 + 2] = t[2]
  OBVIOUS
<1> HIDE DEF t
<1>4. read_u16_be(q, n) = read_u16_be(t, 0)
  BY <1>2, <1>3 DEF read_u16_be
<1> QED
  BY <1>4, U16RoundTrip DEF t

\* read_u32_be at the offset where write_u32_be wrote.
LEMMA ReadU32 ==
    ASSUME NEW q, NEW n \in Nat, NEW v \in SUBSET Bits(32), At(q, n, write_u32_be(v))
    PROVE  read_u32_be(q, n) = v
<1> DEFINE t == write_u32_be(v)
<1>1. \A i \in 1..4 : q[n + i] = t[i]
  BY WordBytes DEF At
<1>2. q[n + 1] = t[1] /\ q[n + 2] = t[2] /\ q[n + 3] = t[3] /\ q[n + 4] = t[4]
  BY <1>1
<1>3. t[0 + 1] = t[1] /\ t[0 + 2] = t[2] /\ t[0 + 3] = t[3] /\ t[0 + 4] = t[4]
  OBVIOUS
<1> HIDE DEF t
<1>4. read_u32_be(q, n) = read_u32_be(t, 0)
  BY <1>2, <1>3 DEF read_u32_be
<1> QED
  BY <1>4, U32RoundTrip DEF t

\* What write_u64_be appends: the high word, then the low one.
LEMMA LongBytes ==
    ASSUME NEW v
    PROVE  write_u64_be(v) \in Seq(Bytes) /\ Len(write_u64_be(v)) = 8
<1> DEFINE h == write_u32_be(Right(v, 32))
           l == write_u32_be(v \intersect Bits(32))
<1>1. h \in Seq(Bytes) /\ Len(h) = 4 /\ l \in Seq(Bytes) /\ Len(l) = 4
  BY WordBytes
<1>2. write_u64_be(v) = h \o l
  BY DEF write_u64_be
<1> HIDE DEF h, l
<1>3. h \o l \in Seq(Bytes) /\ Len(h \o l) = Len(h) + Len(l)
  BY <1>1, ConcatProperties
<1> QED
  BY <1>1, <1>2, <1>3

\* read_u64_be at the offset where write_u64_be wrote.
LEMMA ReadU64 ==
    ASSUME NEW q \in Seq(Bytes), NEW n \in Nat, NEW v \in SUBSET Bits(64),
           At(q, n, write_u64_be(v))
    PROVE  read_u64_be(q, n) = v
<1> DEFINE high == Right(v, 32)
           low  == v \intersect Bits(32)
           h == write_u32_be(high)
           l == write_u32_be(low)
<1>1. high \in SUBSET Bits(32) /\ low \in SUBSET Bits(32) /\ Left(high, 32) \union low = v
  <2>1. \A b \in v : b \in 0..63
    BY DEF Bits
  <2>2. high \in SUBSET Bits(32)
    <3>1. ASSUME NEW c \in high PROVE c \in 0..31
      <4>1. PICK d \in v : d >= 32 /\ c = d - 32
        BY DEF Right
      <4>2. d \in 0..63
        BY <2>1
      <4> QED
        BY <4>1, <4>2
    <3>2. Bits(32) = 0..31
      BY DEF Bits
    <3> HIDE DEF high
    <3> QED
      BY <3>1, <3>2
  <2>3. ASSUME NEW b \in Left(high, 32) PROVE b \in v
    <3>1. PICK c \in high : b = c + 32
      BY DEF Left
    <3>2. PICK d \in v : d >= 32 /\ c = d - 32
      BY <3>1 DEF Right
    <3>3. d \in 0..63
      BY <2>1
    <3>4. b = d
      BY <3>1, <3>2, <3>3
    <3> QED
      BY <3>4
  <2>4. ASSUME NEW b \in v, b \notin low PROVE b \in Left(high, 32)
    <3>1. b \in Nat /\ b >= 32 /\ (b - 32) + 32 = b
      BY <2>1, <2>4 DEF Bits
    <3>2. b - 32 \in high
      BY <3>1 DEF Right
    <3> QED
      BY <3>1, <3>2 DEF Left
  <2> QED
    BY <2>2, <2>3, <2>4
<1>2. /\ h \in Seq(Bytes) /\ Len(h) = 4 /\ l \in Seq(Bytes) /\ Len(l) = 4
  BY WordBytes
<1> HIDE DEF h, l, high, low
<1>3. /\ Len(h \o l) = 8 /\ \A i \in 1..4 : (h \o l)[i] = h[i]
      /\ \A i \in 1..4 : (h \o l)[4 + i] = l[i]
  <2>1. /\ Len(h \o l) = Len(h) + Len(l)
        /\ \A i \in 1..Len(h) : (h \o l)[i] = h[i]
        /\ \A i \in 1..Len(l) : (h \o l)[Len(h) + i] = l[i]
    <3>1. h \in Seq(Bytes) /\ l \in Seq(Bytes)
      BY <1>2
    <3> QED
      BY <3>1, Behind
  <2> QED
    BY <1>2, <2>1
<1>4. n + 8 <= Len(q) /\ \A i \in 1..8 : q[n + i] = (h \o l)[i]
  <2>1. write_u64_be(v) = h \o l
    BY DEF write_u64_be, h, l, high, low
  <2> QED
    BY <2>1, <1>3 DEF At
<1>5. Len(q) \in Nat
  BY LenProperties
<1>6. At(q, n, h)
  <2>1. \A i \in 1..4 : i \in 1..8
    OBVIOUS
  <2>2. n + 4 <= Len(q)
    BY <1>4, <1>5
  <2> QED
    BY <2>1, <2>2, <1>2, <1>3, <1>4 DEF At
<1>7. At(q, n + 4, l)
  <2>1. \A i \in 1..4 : 4 + i \in 1..8 /\ (n + 4) + i = n + (4 + i)
    OBVIOUS
  <2>2. (n + 4) + 4 <= Len(q)
    BY <1>4, <1>5
  <2>3. ASSUME NEW i \in 1..4 PROVE q[(n + 4) + i] = l[i]
    <3>1. q[n + (4 + i)] = (h \o l)[4 + i]
      BY <2>1, <1>4
    <3>2. (h \o l)[4 + i] = l[i]
      BY <1>3
    <3> QED
      BY <2>1, <3>1, <3>2
  <2> QED
    BY <2>2, <2>3, <1>2 DEF At
<1>8. read_u32_be(q, n) = high
  BY <1>1, <1>6, ReadU32 DEF h
<1>9. read_u32_be(q, n + 4) = low
  BY <1>1, <1>7, ReadU32 DEF l
<1> QED
  BY <1>1, <1>8, <1>9 DEF read_u64_be

-----------------------------------------------------------------------------
(* Recursion.                                                               *)

\* Induction over the naturals, for a set: its complement would have a least element.
LEMMA NatSetInduction ==
    ASSUME NEW S, 0 \in S, \A n \in Nat : n \in S => n + 1 \in S
    PROVE  Nat \subseteq S
<1> DEFINE T == Nat \ S
<1>1. SUFFICES ASSUME T # {} PROVE FALSE
  OBVIOUS
<1>2. IsWellFoundedOn(OpToRel(<, Nat), Nat)
  BY NatLessThanWellFounded
<1>3. T \subseteq Nat
  OBVIOUS
<1>4. \E x \in T : \A y \in T : ~(<<y, x>> \in OpToRel(<, Nat))
  BY <1>1, <1>2, <1>3, WFMin
<1>5. \E x \in T : \A y \in T : ~(y < x)
  BY <1>3, <1>4 DEF OpToRel
<1>6. PICK x \in T : \A y \in T : ~(y < x)
  BY <1>5
<1>7. x \in Nat /\ x # 0
  BY <1>6
<1>8. x - 1 \in Nat /\ x - 1 < x /\ (x - 1) + 1 = x
  BY <1>7
<1>9. x - 1 \in S
  BY <1>6, <1>8
<1> QED
  BY <1>6, <1>8, <1>9

\* What the steps F make of a, one after the other.
Chains(S, a, n, F) == {s \in [0..n -> S] : s[0] = a /\ \A i \in 1..n : s[i] = F[i][s[i - 1]]}

\* There are such values, however many steps there are.
LEMMA ChainsExist ==
    ASSUME NEW S, NEW a \in S, NEW n \in Nat, NEW F \in [1..n -> [S -> S]]
    PROVE  \E s : s \in Chains(S, a, n, F)
<1> DEFINE Has(m) == \E s : s \in Chains(S, a, m, F)
           T == {m \in Nat : m <= n => Has(m)}
<1>1. Has(0)
  <2> DEFINE s == [k \in 0..0 |-> a]
  <2>1. s \in Chains(S, a, 0, F)
    BY DEF Chains
  <2> QED
    BY <2>1
<1>2. ASSUME NEW m \in Nat, m + 1 <= n, Has(m) PROVE Has(m + 1)
  <2>1. PICK s : s \in Chains(S, a, m, F)
    BY <1>2
  <2>2. s \in [0..m -> S] /\ s[0] = a /\ \A k \in 1..m : s[k] = F[k][s[k - 1]]
    BY <2>1 DEF Chains
  <2>3. m + 1 \in 1..n /\ m \in 0..m
    BY <1>2
  <2>4. F[m + 1] \in [S -> S] /\ s[m] \in S
    BY <2>2, <2>3
  <2>5. F[m + 1][s[m]] \in S
    BY <2>4
  <2> DEFINE t == [k \in 0..(m + 1) |-> IF k = m + 1 THEN F[m + 1][s[m]] ELSE s[k]]
  <2>6. \A k \in 0..(m + 1) : k = m + 1 \/ k \in 0..m
    OBVIOUS
  <2>7. t \in [0..(m + 1) -> S]
    BY <2>2, <2>5, <2>6
  <2>8. t[0] = a
    BY <2>2
  <2>9. ASSUME NEW k \in 1..(m + 1) PROVE t[k] = F[k][t[k - 1]]
    <3>1. k \in 0..(m + 1) /\ k - 1 \in 0..(m + 1) /\ k - 1 # m + 1
      OBVIOUS
    <3>2. t[k - 1] = s[k - 1]
      BY <3>1
    <3>3. CASE k = m + 1
      <4>1. k - 1 = m
        BY <3>3
      <4>2. t[k] = F[k][s[m]]
        BY <3>1, <3>3
      <4> QED
        BY <4>1, <4>2, <3>2
    <3>4. CASE k # m + 1
      <4>1. k \in 1..m
        BY <3>4
      <4>2. t[k] = s[k]
        BY <3>1, <3>4
      <4> QED
        BY <4>1, <4>2, <3>2, <2>2
    <3> QED
      BY <3>3, <3>4
  <2> HIDE DEF t
  <2>10. t \in Chains(S, a, m + 1, F)
    BY <2>7, <2>8, <2>9 DEF Chains
  <2> QED
    BY <2>10
<1> HIDE DEF Has
<1>3. 0 \in T
  BY <1>1
<1>4. ASSUME NEW m \in Nat, m \in T PROVE m + 1 \in T
  <2>1. m + 1 <= n => m <= n
    OBVIOUS
  <2> QED
    BY <1>2, <1>4, <2>1
<1> HIDE DEF T
<1>5. Nat \subseteq T
  BY <1>3, <1>4, NatSetInduction
<1>6. Has(n)
  BY <1>5 DEF T
<1> QED
  BY <1>6 DEF Has

-----------------------------------------------------------------------------
(* Lengths.                                                                 *)

\* What bit k adds to the length, and the sums of the bits below each of 0..m.
BitOf(v, k) == IF k \in v THEN 2 ^ k ELSE 0

Sums(v, m) ==
    {s \in [0..m -> Int] : s[0] = 0 /\ \A k \in 1..m : s[k] = s[k - 1] + BitOf(v, k - 1)}

\* Powers of two are numbers.
LEMMA BitIsNumber ==
    ASSUME NEW v, NEW k \in 0..15
    PROVE  BitOf(v, k) \in Int
<1>1. 2 ^ k \in Int
  <2>1. CASE k \in 0..3
    <3>1. k = 0 \/ k = 1 \/ k = 2 \/ k = 3
      BY <2>1
    <3> QED
      BY <3>1
  <2>2. CASE k \in 4..7
    <3>1. k = 4 \/ k = 5 \/ k = 6 \/ k = 7
      BY <2>2
    <3> QED
      BY <3>1
  <2>3. CASE k \in 8..11
    <3>1. k = 8 \/ k = 9 \/ k = 10 \/ k = 11
      BY <2>3
    <3> QED
      BY <3>1
  <2>4. CASE k \in 12..15
    <3>1. k = 12 \/ k = 13 \/ k = 14 \/ k = 15
      BY <2>4
    <3> QED
      BY <3>1
  <2> QED
    BY <2>1, <2>2, <2>3, <2>4
<1> QED
  BY <1>1 DEF BitOf

\* There are such sums.
LEMMA SumsExist ==
    ASSUME NEW v
    PROVE  \E s : s \in Sums(v, 16)
<1> DEFINE F == [k \in 1..16 |-> [x \in Int |-> x + BitOf(v, k - 1)]]
<1>1. ASSUME NEW k \in 1..16 PROVE BitOf(v, k - 1) \in Int
  <2>1. k - 1 \in 0..15
    OBVIOUS
  <2> QED
    BY <2>1, BitIsNumber
<1>2. F \in [1..16 -> [Int -> Int]]
  BY <1>1
<1>3. \A k \in 1..16 : \A x \in Int : F[k][x] = x + BitOf(v, k - 1)
  OBVIOUS
<1> HIDE DEF F
<1>4. PICK s : s \in Chains(Int, 0, 16, F)
  <2>1. 0 \in Int /\ 16 \in Nat
    OBVIOUS
  <2> QED
    BY <1>2, <2>1, ChainsExist, Zenon
<1>5. s \in [0..16 -> Int] /\ s[0] = 0 /\ \A k \in 1..16 : s[k] = F[k][s[k - 1]]
  BY <1>4 DEF Chains
<1>6. \A k \in 1..16 : k - 1 \in 0..16
  OBVIOUS
<1>7. \A k \in 1..16 : s[k - 1] \in Int
  BY <1>5, <1>6
<1>8. s \in Sums(v, 16)
  BY <1>3, <1>5, <1>7 DEF Sums
<1> QED
  BY <1>8

\* LengthOf is the last of these sums.
LEMMA LengthIsSum ==
    ASSUME NEW v, v \subseteq Bits(16)
    PROVE  \E s \in Sums(v, 16) : LengthOf(v) = s[16]
<1> DEFINE Body(g) ==
        [b \in 0..16 |->
            IF b = 0 THEN 0 ELSE g[b - 1] + (IF b - 1 \in v THEN 2 ^ (b - 1) ELSE 0)]
    sum == CHOOSE g : g = Body(g)
<1>1. LengthOf(v) = sum[16]
  BY DEF LengthOf
<1>2. \A g : Body(g) = [b \in 0..16 |-> IF b = 0 THEN 0 ELSE g[b - 1] + BitOf(v, b - 1)]
  BY DEF BitOf
<1> HIDE DEF Body
<1>3. PICK s : s \in Sums(v, 16)
  BY SumsExist
<1>4. s = Body(s)
  <2>1. s \in [0..16 -> Int] /\ s[0] = 0 /\ \A k \in 1..16 : s[k] = s[k - 1] + BitOf(v, k - 1)
    BY <1>3 DEF Sums
  <2>2. \A b \in 0..16 : b = 0 \/ b \in 1..16
    OBVIOUS
  <2>3. s = [b \in 0..16 |-> s[b]]
    BY <2>1
  <2>4. \A b \in 0..16 : s[b] = IF b = 0 THEN 0 ELSE s[b - 1] + BitOf(v, b - 1)
    BY <2>1, <2>2
  <2> QED
    BY <2>3, <2>4, <1>2
<1>5. sum = Body(sum)
  BY <1>4
<1> HIDE DEF sum
<1>6. /\ sum = [b \in 0..16 |-> sum[b]]
      /\ sum[0] = 0
      /\ \A k \in 1..16 : sum[k] = sum[k - 1] + BitOf(v, k - 1)
  BY <1>5, <1>2
<1>7. \A k \in 1..16 : sum[k - 1] \in Int => sum[k] \in Int
  BY <1>6, BitIsNumber
<1> DEFINE T == {b \in Nat : b <= 16 => sum[b] \in Int}
<1>8. \A b \in 0..16 : sum[b] \in Int
  <2>1. 0 \in T
    BY <1>6
  <2>2. ASSUME NEW b \in Nat, b \in T PROVE b + 1 \in T
    <3>1. b + 1 <= 16 => b + 1 \in 1..16 /\ (b + 1) - 1 = b /\ b <= 16
      OBVIOUS
    <3> QED
      BY <2>2, <3>1, <1>7
  <2> HIDE DEF T
  <2>3. Nat \subseteq T
    BY <2>1, <2>2, NatSetInduction
  <2> QED
    BY <2>3 DEF T
<1>9. sum \in Sums(v, 16)
  BY <1>6, <1>8 DEF Sums
<1> QED
  BY <1>1, <1>9

\* deserialize reads back the length that serialize writes.
LEMMA LengthRoundTrip ==
    ASSUME NEW n \in Nat, n < MaxLength
    PROVE  OfLength(n) \in SUBSET Bits(16) /\ LengthOf(OfLength(n)) = n
<1> DEFINE v == OfLength(n)
<1>1. v \in SUBSET Bits(16)
  BY DEF OfLength
<1>2. PICK s \in Sums(v, 16) : LengthOf(v) = s[16]
  BY <1>1, LengthIsSum
<1>3. s[0] = 0 /\ \A k \in 1..16 : s[k] = s[k - 1] + BitOf(v, k - 1)
  BY <1>2 DEF Sums
<1>4. \A b \in 0..15 : b \in v <=> (n \div (2 ^ b)) % 2 = 1
  BY DEF OfLength, Bits
<1> HIDE DEF v
<1>5. s[1] = n % 2
  <2>1. BitOf(v, 0) = IF (n \div 1) % 2 = 1 THEN 1 ELSE 0
    BY <1>4 DEF BitOf
  <2>2. s[1] = s[0] + BitOf(v, 0)
    BY <1>3
  <2> QED
    BY <2>1, <2>2, <1>3
<1>6. s[2] = n % 4
  <2>1. BitOf(v, 1) = IF (n \div 2) % 2 = 1 THEN 2 ELSE 0
    BY <1>4 DEF BitOf
  <2>2. s[2] = s[1] + BitOf(v, 1)
    BY <1>3
  <2> QED
    BY <2>1, <2>2, <1>5
<1>7. s[3] = n % 8
  <2>1. BitOf(v, 2) = IF (n \div 4) % 2 = 1 THEN 4 ELSE 0
    BY <1>4 DEF BitOf
  <2>2. s[3] = s[2] + BitOf(v, 2)
    BY <1>3
  <2> QED
    BY <2>1, <2>2, <1>6
<1>8. s[4] = n % 16
  <2>1. BitOf(v, 3) = IF (n \div 8) % 2 = 1 THEN 8 ELSE 0
    BY <1>4 DEF BitOf
  <2>2. s[4] = s[3] + BitOf(v, 3)
    BY <1>3
  <2> QED
    BY <2>1, <2>2, <1>7
<1>9. s[5] = n % 32
  <2>1. BitOf(v, 4) = IF (n \div 16) % 2 = 1 THEN 16 ELSE 0
    BY <1>4 DEF BitOf
  <2>2. s[5] = s[4] + BitOf(v, 4)
    BY <1>3
  <2> QED
    BY <2>1, <2>2, <1>8
<1>10. s[6] = n % 64
  <2>1. BitOf(v, 5) = IF (n \div 32) % 2 = 1 THEN 32 ELSE 0
    BY <1>4 DEF BitOf
  <2>2. s[6] = s[5] + BitOf(v, 5)
    BY <1>3
  <2> QED
    BY <2>1, <2>2, <1>9
<1>11. s[7] = n % 128
  <2>1. BitOf(v, 6) = IF (n \div 64) % 2 = 1 THEN 64 ELSE 0
    BY <1>4 DEF BitOf
  <2>2. s[7] = s[6] + BitOf(v, 6)
    BY <1>3
  <2> QED
    BY <2>1, <2>2, <1>10
<1>12. s[8] = n % 256
  <2>1. BitOf(v, 7) = IF (n \div 128) % 2 = 1 THEN 128 ELSE 0
    BY <1>4 DEF BitOf
  <2>2. s[8] = s[7] + BitOf(v, 7)
    BY <1>3
  <2> QED
    BY <2>1, <2>2, <1>11
<1>13. s[9] = n % 512
  <2>1. BitOf(v, 8) = IF (n \div 256) % 2 = 1 THEN 256 ELSE 0
    BY <1>4 DEF BitOf
  <2>2. s[9] = s[8] + BitOf(v, 8)
    BY <1>3
  <2> QED
    BY <2>1, <2>2, <1>12
<1>14. s[10] = n % 1024
  <2>1. BitOf(v, 9) = IF (n \div 512) % 2 = 1 THEN 512 ELSE 0
    BY <1>4 DEF BitOf
  <2>2. s[10] = s[9] + BitOf(v, 9)
    BY <1>3
  <2> QED
    BY <2>1, <2>2, <1>13
<1>15. s[11] = n % 2048
  <2>1. BitOf(v, 10) = IF (n \div 1024) % 2 = 1 THEN 1024 ELSE 0
    BY <1>4 DEF BitOf
  <2>2. s[11] = s[10] + BitOf(v, 10)
    BY <1>3
  <2> QED
    BY <2>1, <2>2, <1>14
<1>16. s[12] = n % 4096
  <2>1. BitOf(v, 11) = IF (n \div 2048) % 2 = 1 THEN 2048 ELSE 0
    BY <1>4 DEF BitOf
  <2>2. s[12] = s[11] + BitOf(v, 11)
    BY <1>3
  <2> QED
    BY <2>1, <2>2, <1>15
<1>17. s[13] = n % 8192
  <2>1. BitOf(v, 12) = IF (n \div 4096) % 2 = 1 THEN 4096 ELSE 0
    BY <1>4 DEF BitOf
  <2>2. s[13] = s[12] + BitOf(v, 12)
    BY <1>3
  <2> QED
    BY <2>1, <2>2, <1>16
<1>18. s[14] = n % 16384
  <2>1. BitOf(v, 13) = IF (n \div 8192) % 2 = 1 THEN 8192 ELSE 0
    BY <1>4 DEF BitOf
  <2>2. s[14] = s[13] + BitOf(v, 13)
    BY <1>3
  <2> QED
    BY <2>1, <2>2, <1>17
<1>19. s[15] = n % 32768
  <2>1. BitOf(v, 14) = IF (n \div 16384) % 2 = 1 THEN 16384 ELSE 0
    BY <1>4 DEF BitOf
  <2>2. s[15] = s[14] + BitOf(v, 14)
    BY <1>3
  <2> QED
    BY <2>1, <2>2, <1>18
<1>20. s[16] = n % 65536
  <2>1. BitOf(v, 15) = IF (n \div 32768) % 2 = 1 THEN 32768 ELSE 0
    BY <1>4 DEF BitOf
  <2>2. s[16] = s[15] + BitOf(v, 15)
    BY <1>3
  <2> QED
    BY <2>1, <2>2, <1>19
<1> QED
  BY <1>1, <1>2, <1>20 DEF MaxLength, v

-----------------------------------------------------------------------------
(* Payloads.                                                                *)

\* A payload's bytes p are a buffer of at most 2^16 bytes from which the body is read back.
Readable(type, body) ==
    LET p == SerializePayload(type, body)
    IN  p \in Seq(Bytes) /\ Len(p) < MaxLength /\ DeserializePayload(type, p) = body

\* HELLO: two words.
LEMMA HelloReadable ==
    ASSUME NEW body \in Payload("HELLO")
    PROVE  Readable("HELLO", body)
<1> DEFINE a == write_u32_be(body.agent_id)
           b == write_u32_be(body.version)
           p == a \o b
<1>1. body \in [agent_id : U32, version : U32]
  BY DEF Payload, HelloPayload
<1>2. body.agent_id \in U32 /\ body.version \in U32
  BY <1>1
<1>3. a \in Seq(Bytes) /\ Len(a) = 4 /\ b \in Seq(Bytes) /\ Len(b) = 4
  BY WordBytes
<1>4. SerializePayload("HELLO", body) = p
  BY DEF SerializePayload, HelloSerialize
<1> HIDE DEF a, b
<1>5. At(a, 0, a)
  BY <1>3, AtStart
<1>6. p \in Seq(Bytes) /\ Len(p) = 8 /\ At(p, 0, a) /\ At(p, 4, b)
  <2>1. a \in Seq(Bytes) /\ b \in Seq(Bytes)
    BY <1>3
  <2>2. a \o b \in Seq(Bytes) /\ Len(a \o b) = Len(a) + Len(b) /\ At(a \o b, Len(a), b)
    BY <2>1, Written
  <2>3. At(a \o b, 0, a)
    BY <2>1, <1>5, Stays
  <2> QED
    BY <2>2, <2>3, <1>3
<1> HIDE DEF p
<1>7. read_u32_be(p, 0) = body.agent_id
  BY <1>2, <1>6, ReadU32 DEF a, U32
<1>8. read_u32_be(p, 4) = body.version
  BY <1>2, <1>6, ReadU32 DEF b, U32
<1>9. HelloDeserialize(p) = [agent_id |-> body.agent_id, version |-> body.version]
  BY <1>6, <1>7, <1>8 DEF HelloDeserialize
<1>10. HelloDeserialize(p) = body
  BY <1>1, <1>9
<1>11. DeserializePayload("HELLO", p) = HelloDeserialize(p)
  BY DEF DeserializePayload
<1> QED
  <2>1. Len(p) < MaxLength
    BY <1>6 DEF MaxLength
  <2> QED
    BY <1>4, <1>6, <1>10, <1>11, <2>1 DEF Readable

\* HEARTBEAT: nothing.
LEMMA HeartbeatReadable ==
    ASSUME NEW body \in Payload("HEARTBEAT")
    PROVE  Readable("HEARTBEAT", body)
<1>1. body \in [empty : {TRUE}]
  BY DEF Payload, HeartbeatPayload
<1>2. body = [empty |-> TRUE]
  BY <1>1, Zenon
<1>3. SerializePayload("HEARTBEAT", body) = <<>>
  BY DEF SerializePayload, HeartbeatSerialize
<1>4. DeserializePayload("HEARTBEAT", <<>>) = [empty |-> TRUE]
  BY Zenon DEF DeserializePayload, HeartbeatDeserialize
<1>5. <<>> \in Seq(Bytes) /\ Len(<<>>) < MaxLength
  BY DEF MaxLength
<1> QED
  BY <1>2, <1>3, <1>4, <1>5, Zenon DEF Readable

\* STATE: two words around two floats.
LEMMA StateReadable ==
    ASSUME NEW body \in Payload("STATE")
    PROVE  Readable("STATE", body)
<1> DEFINE a == write_u32_be(body.mode)
           b == write_u32_be(body.load)
           c == write_u32_be(body.temp)
           d == write_u32_be(body.last_rc)
           ab == a \o b
           abc == ab \o c
           p == abc \o d
<1>1. body \in [mode : U32, load : U32, temp : U32, last_rc : U32]
  BY DEF Payload, StatePayload
<1>2. body.mode \in U32 /\ body.load \in U32 /\ body.temp \in U32 /\ body.last_rc \in U32
  BY <1>1
<1>3. /\ a \in Seq(Bytes) /\ Len(a) = 4 /\ b \in Seq(Bytes) /\ Len(b) = 4
      /\ c \in Seq(Bytes) /\ Len(c) = 4 /\ d \in Seq(Bytes) /\ Len(d) = 4
  BY WordBytes
<1>4. SerializePayload("STATE", body) = p
  BY DEF SerializePayload, StateSerialize, write_float_be
<1> HIDE DEF a, b, c, d
<1>5. At(a, 0, a)
  BY <1>3, AtStart
<1>6. ab \in Seq(Bytes) /\ Len(ab) = 8 /\ At(ab, 0, a) /\ At(ab, 4, b)
  <2>1. a \in Seq(Bytes) /\ b \in Seq(Bytes)
    BY <1>3
  <2>2. a \o b \in Seq(Bytes) /\ Len(a \o b) = Len(a) + Len(b) /\ At(a \o b, Len(a), b)
    BY <2>1, Written
  <2>3. At(a \o b, 0, a)
    BY <2>1, <1>5, Stays
  <2> QED
    BY <2>2, <2>3, <1>3
<1> HIDE DEF ab
<1>7. abc \in Seq(Bytes) /\ Len(abc) = 12 /\ At(abc, 0, a) /\ At(abc, 4, b) /\ At(abc, 8, c)
  <2>1. ab \in Seq(Bytes) /\ a \in Seq(Bytes) /\ b \in Seq(Bytes) /\ c \in Seq(Bytes)
    BY <1>3, <1>6
  <2>2. ab \o c \in Seq(Bytes) /\ Len(ab \o c) = Len(ab) + Len(c) /\ At(ab \o c, Len(ab), c)
    BY <2>1, Written
  <2>3. At(ab \o c, 0, a) /\ At(ab \o c, 4, b)
    BY <2>1, <1>6, Stays
  <2> QED
    BY <2>2, <2>3, <1>3, <1>6
<1> HIDE DEF abc
<1>8. /\ p \in Seq(Bytes) /\ Len(p) = 16
      /\ At(p, 0, a) /\ At(p, 4, b) /\ At(p, 8, c) /\ At(p, 12, d)
  <2>1. /\ abc \in Seq(Bytes) /\ a \in Seq(Bytes) /\ b \in Seq(Bytes)
        /\ c \in Seq(Bytes) /\ d \in Seq(Bytes)
    BY <1>3, <1>7
  <2>2. /\ abc \o d \in Seq(Bytes) /\ Len(abc \o d) = Len(abc) + Len(d)
        /\ At(abc \o d, Len(abc), d)
    BY <2>1, Written
  <2>3. At(abc \o d, 0, a) /\ At(abc \o d, 4, b) /\ At(abc \o d, 8, c)
    BY <2>1, <1>7, Stays
  <2> QED
    BY <2>2, <2>3, <1>3, <1>7
<1> HIDE DEF p
<1>9. read_u32_be(p, 0) = body.mode
  BY <1>2, <1>8, ReadU32 DEF a, U32
<1>10. read_float_be(p, 4) = body.load
  BY <1>2, <1>8, ReadU32 DEF b, read_float_be, U32
<1>11. read_float_be(p, 8) = body.temp
  BY <1>2, <1>8, ReadU32 DEF c, read_float_be, U32
<1>12. read_u32_be(p, 12) = body.last_rc
  BY <1>2, <1>8, ReadU32 DEF d, U32
<1>13. StateDeserialize(p) = [mode |-> body.mode, load |-> body.load, temp |-> body.temp,
                              last_rc |-> body.last_rc]
  BY <1>8, <1>9, <1>10, <1>11, <1>12 DEF StateDeserialize
<1>14. StateDeserialize(p) = body
  BY <1>1, <1>13
<1>15. DeserializePayload("STATE", p) = StateDeserialize(p)
  BY DEF DeserializePayload
<1> QED
  <2>1. Len(p) < MaxLength
    BY <1>8 DEF MaxLength
  <2> QED
    BY <1>4, <1>8, <1>14, <1>15, <2>1 DEF Readable

\* ACK: the id of the command.
LEMMA AckReadable ==
    ASSUME NEW body \in Payload("ACK")
    PROVE  Readable("ACK", body)
<1> DEFINE p == write_u32_be(body.cmd_id)
<1>1. body \in [cmd_id : SUBSET Bits(32)]
  BY DEF Payload, AckPayload, U32
<1>2. body.cmd_id \in SUBSET Bits(32)
  BY <1>1
<1>3. SerializePayload("ACK", body) = p
  BY DEF SerializePayload, AckSerialize
<1>4. p \in Seq(Bytes) /\ Len(p) = 4
  BY WordBytes
<1>5. At(p, 0, p)
  BY <1>4, AtStart
<1>6. read_u32_be(p, 0) = body.cmd_id
  BY <1>2, <1>5, ReadU32
<1> HIDE DEF p
<1>7. AckDeserialize(p) = [cmd_id |-> body.cmd_id]
  BY <1>4, <1>6 DEF AckDeserialize
<1>8. AckDeserialize(p) = body
  BY <1>1, <1>7
<1>9. DeserializePayload("ACK", p) = AckDeserialize(p)
  BY DEF DeserializePayload
<1> QED
  <2>1. Len(p) < MaxLength
    BY <1>4 DEF MaxLength
  <2> QED
    BY <1>3, <1>4, <1>8, <1>9, <2>1 DEF Readable

\* CMD_SET_MODE: the mode.
LEMMA CmdSetModeReadable ==
    ASSUME NEW body \in Payload("CMD_SET_MODE")
    PROVE  Readable("CMD_SET_MODE", body)
<1> DEFINE p == write_u32_be(body.mode)
<1>1. body \in [mode : SUBSET Bits(32)]
  BY DEF Payload, CmdSetModePayload, U32
<1>2. body.mode \in SUBSET Bits(32)
  BY <1>1
<1>3. SerializePayload("CMD_SET_MODE", body) = p
  BY DEF SerializePayload, CmdSetModeSerialize
<1>4. p \in Seq(Bytes) /\ Len(p) = 4
  BY WordBytes
<1>5. At(p, 0, p)
  BY <1>4, AtStart
<1>6. read_u32_be(p, 0) = body.mode
  BY <1>2, <1>5, ReadU32
<1> HIDE DEF p
<1>7. CmdSetModeDeserialize(p) = [mode |-> body.mode]
  BY <1>4, <1>6 DEF CmdSetModeDeserialize
<1>8. CmdSetModeDeserialize(p) = body
  BY <1>1, <1>7
<1>9. DeserializePayload("CMD_SET_MODE", p) = CmdSetModeDeserialize(p)
  BY DEF DeserializePayload
<1> QED
  <2>1. Len(p) < MaxLength
    BY <1>4 DEF MaxLength
  <2> QED
    BY <1>3, <1>4, <1>8, <1>9, <2>1 DEF Readable

\* NACK: the id of the command and the bytes of the reason, which go to the end.
LEMMA NackReadable ==
    ASSUME NEW body \in Payload("NACK")
    PROVE  Readable("NACK", body)
<1> DEFINE a == write_u32_be(body.cmd_id)
           r == body.reason
           p == a \o r
<1>1. /\ body \in [cmd_id : SUBSET Bits(32), reason : Seq(Bytes)]
      /\ Len(body.reason) + 4 < MaxLength
  BY DEF Payload, NackPayload, U32, Bytes
<1>2. body.cmd_id \in SUBSET Bits(32) /\ r \in Seq(Bytes) /\ Len(r) + 4 < MaxLength
  BY <1>1
<1>3. a \in Seq(Bytes) /\ Len(a) = 4 /\ Len(r) \in Nat
  BY <1>2, WordBytes, LenProperties
<1>4. SerializePayload("NACK", body) = p
  BY DEF SerializePayload, NackSerialize
<1> HIDE DEF a, r
<1>5. At(a, 0, a)
  BY <1>3, AtStart
<1>6. p \in Seq(Bytes) /\ Len(p) = 4 + Len(r) /\ At(p, 0, a) /\ At(p, 4, r)
  <2>1. a \in Seq(Bytes) /\ r \in Seq(Bytes)
    BY <1>2, <1>3
  <2>2. a \o r \in Seq(Bytes) /\ Len(a \o r) = Len(a) + Len(r) /\ At(a \o r, Len(a), r)
    BY <2>1, Written
  <2>3. At(a \o r, 0, a)
    BY <2>1, <1>5, Stays
  <2> QED
    BY <2>2, <2>3, <1>3
<1> HIDE DEF p
<1>7. read_u32_be(p, 0) = body.cmd_id
  BY <1>2, <1>6, ReadU32 DEF a
<1>8. SubSeq(p, 5, Len(p)) = r
  <2>1. SubSeq(p, 4 + 1, 4 + Len(r)) = r
    BY <1>2, <1>6, Cut
  <2> QED
    BY <2>1, <1>6
<1>9. NackDeserialize(p) = [cmd_id |-> body.cmd_id, reason |-> body.reason]
  <2>1. ~(Len(p) < 4)
    BY <1>3, <1>6
  <2>2. NackDeserialize(p) = [cmd_id |-> read_u32_be(p, 0), reason |-> SubSeq(p, 5, Len(p))]
    BY <2>1 DEF NackDeserialize
  <2> QED
    BY <2>2, <1>7, <1>8 DEF r
<1>10. NackDeserialize(p) = body
  BY <1>1, <1>9
<1>11. DeserializePayload("NACK", p) = NackDeserialize(p)
  BY DEF DeserializePayload
<1>12. Len(p) < MaxLength
  BY <1>2, <1>3, <1>6 DEF MaxLength
<1> QED
  BY <1>4, <1>6, <1>10, <1>11, <1>12 DEF Readable

\* The payload of every message.
LEMMA PayloadReadable ==
    ASSUME NEW m \in Messages
    PROVE  Readable(m.type, m.body)
<1>1. /\ m.type \in {"HELLO", "HEARTBEAT", "STATE", "ACK", "NACK", "CMD_SET_MODE"}
      /\ m.body \in Payload(m.type)
  BY MessagesAssumption
<1> QED
  BY <1>1, HelloReadable, HeartbeatReadable, StateReadable, AckReadable, NackReadable,
     CmdSetModeReadable, Zenon

-----------------------------------------------------------------------------
(* The shift register.                                                      *)

\* The bits of a word are numbered from 0.
LEMMA WordIsNaturals == \A c \in U32 : c \in SUBSET Nat
  BY DEF U32, Bits

\* And those of a byte.
LEMMA ByteIsNaturals == \A b \in Bytes : b \in SUBSET (0..7)
  BY DEF Bytes, Bits

\* A word stays one when it is shifted.
LEMMA ShiftIsWord == \A c \in U32 : CrcShift(c) \in U32
<1> SUFFICES ASSUME NEW c \in U32 PROVE CrcShift(c) \in U32
  OBVIOUS
<1>1. ASSUME NEW b \in Right(c, 1) PROVE b \in 0..31
  <2>1. PICK d \in c : d >= 1 /\ b = d - 1
    BY DEF Right
  <2>2. d \in 0..31
    BY DEF U32, Bits
  <2> QED
    BY <2>1, <2>2
<1>2. Polynomial \subseteq 0..31
  BY DEF Polynomial
<1>3. CrcShift(c) \subseteq Right(c, 1) \union Polynomial
  <2>1. \A v, w : Xor(v, w) \subseteq v \union w
    BY DEF Xor
  <2>2. CrcShift(c) \in {Xor(Right(c, 1), Polynomial), Right(c, 1)}
    BY DEF CrcShift
  <2> QED
    BY <2>1, <2>2
<1>4. U32 = SUBSET (0..31)
  BY DEF U32, Bits
<1> QED
  BY <1>1, <1>2, <1>3, <1>4

\* The eight shifts, one after the other.
LEMMA ByteIsEightShifts ==
    \A c \in U32 :
        /\ CrcByte[c] = CrcShift(CrcShift(CrcShift(CrcShift(
                            CrcShift(CrcShift(CrcShift(CrcShift(c))))))))
        /\ CrcByte[c] \in U32
<1>1. \A c \in U32 : CrcByte[c] = CrcShift(CrcShift(CrcShift(CrcShift(
                                    CrcShift(CrcShift(CrcShift(CrcShift(c))))))))
  BY DEF CrcByte, U32
<1> QED
  BY <1>1, ShiftIsWord

\* A byte brought in changes a word to a word.
LEMMA XorIsWord == \A c \in U32 : \A b \in Bytes : Xor(c, b) \in U32
<1>1. Bytes = SUBSET (0..7) /\ U32 = SUBSET (0..31)
  BY DEF Bytes, U32, Bits
<1>2. \A b \in SUBSET (0..7) : b \in SUBSET (0..31)
  OBVIOUS
<1> QED
  BY <1>1, <1>2 DEF Xor

\* The contents of the register before the first byte of buf and after each.
Registers(buf) ==
    {s \in [0..Len(buf) -> U32] :
        s[0] = Bits(32) /\ \A i \in 1..Len(buf) : s[i] = CrcByte[Xor(s[i - 1], buf[i])]}

\* compute_crc32 is the complement of the last of them.
LEMMA CrcIsRegister ==
    ASSUME NEW buf \in Seq(Bytes)
    PROVE  \E s \in Registers(buf) : compute_crc32(buf) = Bits(32) \ s[Len(buf)]
<1> DEFINE n == Len(buf)
           Body(g) == [i \in 0..n |-> IF i = 0 THEN Bits(32) ELSE CrcByte[Xor(g[i - 1], buf[i])]]
           crc == CHOOSE g : g = Body(g)
           F == [i \in 1..n |-> [c \in U32 |-> CrcByte[Xor(c, buf[i])]]]
<1>1. n \in Nat /\ \A i \in 1..n : buf[i] \in Bytes
  BY LenProperties, ElementOfSeq
<1>2. compute_crc32(buf) = Bits(32) \ crc[n]
  BY DEF compute_crc32
<1>3. \A c \in U32 : \A i \in 1..n : CrcByte[Xor(c, buf[i])] \in U32
  BY <1>1, XorIsWord, ByteIsEightShifts
<1>4. Bits(32) \in U32
  BY DEF U32
<1>5. F \in [1..n -> [U32 -> U32]]
  BY <1>3
<1>6. \A i \in 1..n : \A c \in U32 : F[i][c] = CrcByte[Xor(c, buf[i])]
  OBVIOUS
<1>7. \A g : /\ Body(g) = [i \in 0..n |-> Body(g)[i]]
             /\ Body(g)[0] = Bits(32)
             /\ \A i \in 1..n : Body(g)[i] = CrcByte[Xor(g[i - 1], buf[i])]
  BY <1>1
<1>8. \A i \in 0..n : i = 0 \/ i \in 1..n
  BY <1>1
<1> HIDE DEF n, F
<1>9. PICK s : s \in Chains(U32, Bits(32), n, F)
  BY <1>1, <1>4, <1>5, ChainsExist
<1>10. /\ s \in [0..n -> U32] /\ s[0] = Bits(32)
       /\ \A i \in 1..n : s[i] = CrcByte[Xor(s[i - 1], buf[i])]
  <2>1. s \in [0..n -> U32] /\ s[0] = Bits(32) /\ \A i \in 1..n : s[i] = F[i][s[i - 1]]
    BY <1>9 DEF Chains
  <2>2. \A i \in 1..n : i - 1 \in 0..n
    BY <1>1
  <2>3. \A i \in 1..n : s[i - 1] \in U32
    BY <2>1, <2>2
  <2> QED
    BY <2>1, <2>3, <1>6
<1> HIDE DEF Body
<1>11. s = Body(s)
  <2>1. \A i \in 0..n : s[i] = Body(s)[i]
    BY <1>7, <1>8, <1>10
  <2>2. s = [i \in 0..n |-> s[i]]
    BY <1>10
  <2> QED
    BY <2>1, <2>2, <1>7
<1>12. crc = Body(crc)
  BY <1>11
<1> HIDE DEF crc
<1>13. /\ crc = [i \in 0..n |-> crc[i]] /\ crc[0] = Bits(32)
       /\ \A i \in 1..n : crc[i] = CrcByte[Xor(crc[i - 1], buf[i])]
  BY <1>7, <1>12
<1> DEFINE T == {i \in Nat : i <= n => crc[i] \in U32}
<1>14. 0 \in T
  BY <1>4, <1>13
<1>15. ASSUME NEW i \in Nat, i \in T PROVE i + 1 \in T
  <2>1. SUFFICES ASSUME i + 1 <= n PROVE crc[i + 1] \in U32
    OBVIOUS
  <2>2. i + 1 \in 1..n /\ (i + 1) - 1 = i /\ i <= n
    BY <2>1, <1>1
  <2>3. crc[i] \in U32
    BY <1>15, <2>2
  <2>4. crc[i + 1] = CrcByte[Xor(crc[i], buf[i + 1])]
    BY <1>13, <2>2
  <2> QED
    BY <2>2, <2>3, <2>4, <1>3
<1> HIDE DEF T
<1>16. Nat \subseteq T
  BY <1>14, <1>15, NatSetInduction
<1>17. \A i \in 0..n : crc[i] \in U32
  BY <1>1, <1>16 DEF T
<1>18. crc \in Registers(buf)
  <2>1. crc \in [0..n -> U32]
    BY <1>13, <1>17
  <2> QED
    BY <2>1, <1>13 DEF Registers, n
<1> QED
  BY <1>2, <1>18 DEF n

-----------------------------------------------------------------------------
(* The register and the long division.                                      *)

\* The polynomial by which the standards divide.
Divisor == {32} \union {31 - b : b \in Polynomial}

\* The register c as exponents: its bit 0, which is shifted out next, at t.
Mirror(c, t) == {t - b : b \in c}

\* Which exponents these are.
LEMMA MirrorHas ==
    ASSUME NEW c \in SUBSET Nat, NEW t \in Int, NEW e \in Int
    PROVE  e \in Mirror(c, t) <=> t - e \in c
<1>1. ASSUME t - e \in c PROVE e \in Mirror(c, t)
  <2>1. e = t - (t - e)
    OBVIOUS
  <2> QED
    BY <1>1, <2>1 DEF Mirror
<1>2. ASSUME e \in Mirror(c, t) PROVE t - e \in c
  <2>1. PICK b \in c : e = t - b
    BY <1>2 DEF Mirror
  <2>2. t - e = b
    BY <2>1
  <2> QED
    BY <2>2
<1> QED
  BY <1>1, <1>2

\* They are integers.
LEMMA MirrorIsInt == \A c \in SUBSET Nat : \A t \in Int : Mirror(c, t) \subseteq Int
  BY DEF Mirror

\* Those of a word are not negative when there is room for it below t.
LEMMA WordMirror ==
    ASSUME NEW c \in U32, NEW t \in Nat, t >= 31
    PROVE  Mirror(c, t) \subseteq Nat
<1>1. c \in SUBSET (0..31)
  BY DEF U32, Bits
<1>2. \A b \in 0..31 : t - b \in Nat
  OBVIOUS
<1> QED
  BY <1>1, <1>2 DEF Mirror

\* Exponents are combined as the bits are.
LEMMA MirrorXor ==
    ASSUME NEW c \in SUBSET Nat, NEW d \in SUBSET Nat, NEW t \in Int
    PROVE  Mirror(Xor(c, d), t) = Xor(Mirror(c, t), Mirror(d, t))
<1> DEFINE A == Mirror(Xor(c, d), t)
           B == Xor(Mirror(c, t), Mirror(d, t))
<1>1. Xor(c, d) \in SUBSET Nat
  BY DEF Xor
<1>2. A \subseteq Int /\ Mirror(c, t) \subseteq Int /\ Mirror(d, t) \subseteq Int
  BY <1>1, MirrorIsInt
<1>3. B \subseteq Int
  BY <1>2 DEF Xor
<1>4. ASSUME NEW e \in Int PROVE e \in A <=> e \in B
  <2>1. e \in A <=> t - e \in Xor(c, d)
    BY <1>1, MirrorHas
  <2>2. (e \in Mirror(c, t) <=> t - e \in c) /\ (e \in Mirror(d, t) <=> t - e \in d)
    BY MirrorHas
  <2> HIDE DEF A
  <2> QED
    BY <2>1, <2>2 DEF Xor
<1> HIDE DEF A, B
<1>5. A = B
  BY <1>2, <1>3, <1>4
<1> QED
  BY <1>5 DEF A, B

\* Shifting out bit 0 leaves the other exponents where they are.
LEMMA MirrorShifts ==
    ASSUME NEW c \in SUBSET Nat, NEW t \in Int
    PROVE  /\ Right(c, 1) \in SUBSET Nat
           /\ t \notin Mirror(Right(c, 1), t - 1)
           /\ 0 \in c => Mirror(c, t) = {t} \union Mirror(Right(c, 1), t - 1)
           /\ 0 \notin c => Mirror(c, t) = Mirror(Right(c, 1), t - 1)
<1> DEFINE A == Mirror(c, t)
           B == Mirror(Right(c, 1), t - 1)
<1>1. Right(c, 1) \in SUBSET Nat
  BY DEF Right
<1>2. A \subseteq Int /\ B \subseteq Int
  BY <1>1, MirrorIsInt
<1>3. ASSUME NEW e \in Int PROVE e \in B <=> e \in A /\ e # t
  <2>1. e \in B <=> (t - 1) - e \in Right(c, 1)
    BY <1>1, MirrorHas
  <2>2. e \in A <=> t - e \in c
    BY MirrorHas
  <2>3. ASSUME (t - 1) - e \in Right(c, 1) PROVE t - e \in c /\ e # t
    <3>1. PICK b \in c : b >= 1 /\ (t - 1) - e = b - 1
      BY <2>3 DEF Right
    <3>2. t - e = b
      BY <3>1
    <3> QED
      BY <3>1, <3>2
  <2>4. ASSUME t - e \in c, e # t PROVE (t - 1) - e \in Right(c, 1)
    <3>1. t - e \in Nat /\ t - e >= 1 /\ (t - e) - 1 = (t - 1) - e
      BY <2>4
    <3> QED
      BY <3>1, <2>4 DEF Right
  <2> HIDE DEF A, B
  <2> QED
    BY <2>1, <2>2, <2>3, <2>4
<1>4. t \in A <=> 0 \in c
  <2>1. t - t = 0
    OBVIOUS
  <2> QED
    BY <2>1, MirrorHas
<1> HIDE DEF A, B
<1>5. t \notin B /\ (0 \in c => A = {t} \union B) /\ (0 \notin c => A = B)
  BY <1>2, <1>3, <1>4
<1> QED
  BY <1>1, <1>5 DEF A, B

\* The multiple of the divisor that removes the exponent t is the polynomial that the
\* register is combined with when bit 0 is set.
LEMMA DivisorIsPolynomial ==
    ASSUME NEW t \in Int
    PROVE  {e + t - 32 : e \in Divisor} = {t} \union Mirror(Polynomial, t - 1)
<1> DEFINE A == {e + t - 32 : e \in Divisor}
           B == {t} \union Mirror(Polynomial, t - 1)
<1>1. Polynomial \in SUBSET Nat
  BY DEF Polynomial
<1>2. ASSUME NEW x \in A PROVE x \in B
  <2>1. PICK e \in Divisor : x = e + t - 32
    OBVIOUS
  <2>2. CASE e = 32
    BY <2>1, <2>2
  <2>3. CASE e # 32
    <3>1. PICK b \in Polynomial : e = 31 - b
      BY <2>3 DEF Divisor
    <3>2. x = (t - 1) - b
      BY <2>1, <3>1, <1>1
    <3> QED
      BY <3>2 DEF Mirror
  <2> QED
    BY <2>2, <2>3
<1>3. ASSUME NEW x \in B PROVE x \in A
  <2>1. CASE x = t
    <3>1. 32 \in Divisor /\ t = 32 + t - 32
      BY DEF Divisor
    <3> QED
      BY <2>1, <3>1
  <2>2. CASE x # t
    <3>1. PICK b \in Polynomial : x = (t - 1) - b
      BY <2>2 DEF Mirror
    <3>2. 31 - b \in Divisor
      BY DEF Divisor
    <3>3. x = (31 - b) + t - 32
      BY <3>1, <1>1
    <3> QED
      BY <3>2, <3>3
  <2> QED
    BY <2>1, <2>2
<1> HIDE DEF A, B
<1>4. A = B
  BY <1>2, <1>3
<1> QED
  BY <1>4 DEF A, B

\* Xor with two sets that share t removes it.
LEMMA XorRemoves ==
    ASSUME NEW t, NEW A, NEW P, NEW M, t \notin A, t \notin P, t \notin M
    PROVE  Xor(Xor({t} \union A, M), {t} \union P) = Xor(Xor(A, P), M)
  BY DEF Xor

\* One shift of the register is one step of the division; M is the rest of the message.
LEMMA ShiftDivides ==
    ASSUME NEW c \in U32, NEW t \in Int, NEW M, t \notin M
    PROVE  Reduce(Xor(Mirror(c, t), M), Divisor, t) = Xor(Mirror(CrcShift(c), t - 1), M)
<1> DEFINE A == Mirror(Right(c, 1), t - 1)
           P == Mirror(Polynomial, t - 1)
           q == Xor(Mirror(c, t), M)
           D == {e + t - 32 : e \in Divisor}
           C == Mirror(CrcShift(c), t - 1)
<1>1. c \in SUBSET Nat /\ Polynomial \in SUBSET Nat /\ t - 1 \in Int
  BY DEF U32, Bits, Polynomial
<1>2. /\ Right(c, 1) \in SUBSET Nat
      /\ t \notin A
      /\ 0 \in c => Mirror(c, t) = {t} \union A
      /\ 0 \notin c => Mirror(c, t) = A
  BY <1>1, MirrorShifts
<1>3. D = {t} \union P
  BY DivisorIsPolynomial
<1>4. t \notin P
  <2>1. (t - 1) - t = -1
    OBVIOUS
  <2>2. (t - 1) - t \notin Polynomial
    BY <2>1, <1>1
  <2> QED
    BY <1>1, <2>2, MirrorHas
<1>5. Reduce(q, Divisor, t) = IF t \in q THEN Xor(q, D) ELSE q
  BY DEF Reduce
<1>6. Mirror(Xor(Right(c, 1), Polynomial), t - 1) = Xor(A, P)
  BY <1>1, <1>2, MirrorXor
<1>7. CASE 0 \in c
  <2>1. C = Xor(A, P)
    BY <1>6, <1>7 DEF CrcShift
  <2>2. q = Xor({t} \union A, M)
    BY <1>2, <1>7
  <2> HIDE DEF A, P, q, D, C
  <2>3. t \in q
    BY <2>2 DEF Xor
  <2>4. Xor(Xor({t} \union A, M), {t} \union P) = Xor(Xor(A, P), M)
    BY <1>2, <1>4, XorRemoves
  <2>5. Reduce(q, Divisor, t) = Xor(C, M)
    BY <1>3, <1>5, <2>1, <2>2, <2>3, <2>4
  <2> QED
    BY <2>5 DEF q, C
<1>8. CASE 0 \notin c
  <2>1. C = A
    BY <1>8 DEF CrcShift
  <2>2. q = Xor(A, M)
    BY <1>2, <1>8
  <2> HIDE DEF A, P, q, D, C
  <2>3. t \notin q
    BY <2>2, <1>2 DEF Xor
  <2>4. Reduce(q, Divisor, t) = Xor(C, M)
    BY <1>5, <2>1, <2>2, <2>3
  <2> QED
    BY <2>4 DEF q, C
<1> QED
  BY <1>7, <1>8

\* Eight steps of the division, from the exponent t down.
Eight(q, t) ==
    Reduce(Reduce(Reduce(Reduce(Reduce(Reduce(Reduce(Reduce(q, Divisor, t),
        Divisor, t - 1), Divisor, t - 2), Divisor, t - 3), Divisor, t - 4),
        Divisor, t - 5), Divisor, t - 6), Divisor, t - 7)

\* The eight shifts are eight such steps.
LEMMA ByteDivides ==
    ASSUME NEW c \in U32, NEW t \in Int, NEW M \in SUBSET Int, \A e \in M : e < t - 7
    PROVE  Eight(Xor(Mirror(c, t), M), t) = Xor(Mirror(CrcByte[c], t - 8), M)
<1> DEFINE q(d, k) == Xor(Mirror(d, t - k), M)
<1>1. ASSUME NEW d \in U32, NEW k \in 0..7
      PROVE  Reduce(q(d, k), Divisor, t - k) = q(CrcShift(d), k + 1)
  <2>1. t - k \in Int /\ t - k \notin M /\ (t - k) - 1 = t - (k + 1)
    OBVIOUS
  <2> QED
    BY <2>1, ShiftDivides
<1>2. \A d \in U32 : CrcShift(d) \in U32
  BY ShiftIsWord
<1>3. \A k \in 0..7 : k + 1 \in 0..8
  OBVIOUS
<1> DEFINE c1 == CrcShift(c)   c2 == CrcShift(c1)   c3 == CrcShift(c2)   c4 == CrcShift(c3)
           c5 == CrcShift(c4)  c6 == CrcShift(c5)   c7 == CrcShift(c6)   c8 == CrcShift(c7)
<1>4. c8 = CrcByte[c]
  BY ByteIsEightShifts
<1>5. Xor(Mirror(c, t), M) = q(c, 0) /\ t - 0 = t
  OBVIOUS
<1>6. q(c8, 8) = Xor(Mirror(CrcByte[c], t - 8), M)
  BY <1>4
<1> HIDE DEF q
<1>7. /\ c1 \in U32 /\ c2 \in U32 /\ c3 \in U32 /\ c4 \in U32
      /\ c5 \in U32 /\ c6 \in U32 /\ c7 \in U32
  BY <1>2
<1>8. Reduce(q(c, 0), Divisor, t) = q(c1, 1)
  BY <1>1, <1>5
<1> HIDE DEF c1, c2, c3, c4, c5, c6, c7, c8
<1>9. Reduce(q(c1, 1), Divisor, t - 1) = q(c2, 2)
  BY <1>1, <1>7 DEF c2
<1>10. Reduce(q(c2, 2), Divisor, t - 2) = q(c3, 3)
  BY <1>1, <1>7 DEF c3
<1>11. Reduce(q(c3, 3), Divisor, t - 3) = q(c4, 4)
  BY <1>1, <1>7 DEF c4
<1>12. Reduce(q(c4, 4), Divisor, t - 4) = q(c5, 5)
  BY <1>1, <1>7 DEF c5
<1>13. Reduce(q(c5, 5), Divisor, t - 5) = q(c6, 6)
  BY <1>1, <1>7 DEF c6
<1>14. Reduce(q(c6, 6), Divisor, t - 6) = q(c7, 7)
  BY <1>1, <1>7 DEF c7
<1>15. Reduce(q(c7, 7), Divisor, t - 7) = q(c8, 8)
  BY <1>1, <1>7 DEF c8
<1>16. Eight(q(c, 0), t) = q(c8, 8)
  BY <1>8, <1>9, <1>10, <1>11, <1>12, <1>13, <1>14, <1>15 DEF Eight
<1> QED
  BY <1>5, <1>6, <1>16

\* A step of the division leaves a polynomial.
LEMMA ReduceIsPolynomial ==
    ASSUME NEW q \in SUBSET Nat, NEW t \in Nat, t >= 32
    PROVE  Reduce(q, Divisor, t) \in SUBSET Nat
<1> t \in Int
  OBVIOUS
<1> DEFINE D == {e + t - 32 : e \in Divisor}
<1>1. D = {t} \union Mirror(Polynomial, t - 1)
  BY DivisorIsPolynomial
<1>2. \A b \in Polynomial : (t - 1) - b \in Nat
  BY DEF Polynomial
<1>3. Mirror(Polynomial, t - 1) \subseteq Nat
  BY <1>2 DEF Mirror
<1>4. Reduce(q, Divisor, t) = IF t \in q THEN Xor(q, D) ELSE q
  BY DEF Reduce
<1> HIDE DEF D
<1>5. D \subseteq Nat
  BY <1>1, <1>3
<1>6. Xor(q, D) \subseteq Nat
  BY <1>5 DEF Xor
<1> QED
  BY <1>4, <1>6

\* And so do eight.
LEMMA EightIsPolynomial ==
    ASSUME NEW q \in SUBSET Nat, NEW t \in Nat, t >= 39
    PROVE  Eight(q, t) \in SUBSET Nat
<1> DEFINE R(p, k) == Reduce(p, Divisor, t - k)
<1>1. ASSUME NEW p \in SUBSET Nat, NEW k \in 0..7 PROVE R(p, k) \in SUBSET Nat
  <2>1. t - k \in Nat /\ t - k >= 32
    OBVIOUS
  <2> QED
    BY <2>1, ReduceIsPolynomial
<1>2. Eight(q, t) = R(R(R(R(R(R(R(R(q, 0), 1), 2), 3), 4), 5), 6), 7)
  <2>1. t - 0 = t
    OBVIOUS
  <2> QED
    BY <2>1 DEF Eight
<1> HIDE DEF R
<1>3. R(R(R(R(q, 0), 1), 2), 3) \in SUBSET Nat
  BY <1>1
<1> QED
  BY <1>1, <1>2, <1>3

\* Remainder divides step by step.
LEMMA RemainderSteps ==
    ASSUME NEW n \in Nat, NEW p \in SUBSET Nat
    PROVE  \E r : /\ r[0] = p
                  /\ \A i \in 1..n :
                        r[i - 1] \in SUBSET Nat => r[i] = Eight(r[i - 1], 8 * (n - i) + 39)
                  /\ Remainder(p, Divisor, n) = r[n]
<1> DEFINE two(q, top)  == Reduce(Reduce(q, Divisor, top), Divisor, top - 1)
           four(q, top) == two(two(q, top), top - 2)
           eight(top)   == [q \in SUBSET Nat |-> four(four(q, top), top - 4)]
           Body(g) == [i \in 0..n |-> IF i = 0 THEN p ELSE eight(8 * (n - i) + 39)[g[i - 1]]]
           rest == CHOOSE g : g = Body(g)
           F == [i \in 1..n |-> [q \in SUBSET Nat |-> eight(8 * (n - i) + 39)[q]]]
<1>1. Remainder(p, Divisor, n) = rest[n]
  BY DEF Remainder
<1>2. ASSUME NEW q \in SUBSET Nat, NEW t \in Nat PROVE eight(t)[q] = Eight(q, t)
  <2>1. /\ (t - 2) - 1 = t - 3 /\ (t - 4) - 1 = t - 5 /\ (t - 4) - 2 = t - 6
        /\ ((t - 4) - 2) - 1 = t - 7
    OBVIOUS
  <2>2. eight(t)[q] = four(four(q, t), t - 4)
    OBVIOUS
  <2>3. four(four(q, t), t - 4) = Eight(q, t)
    BY <2>1 DEF Eight
  <2> QED
    BY <2>2, <2>3
<1>3. \A i \in 1..n : 8 * (n - i) + 39 \in Nat /\ 8 * (n - i) + 39 >= 39
  OBVIOUS
<1>4. \A g : /\ Body(g) = [i \in 0..n |-> Body(g)[i]]
             /\ Body(g)[0] = p
             /\ \A i \in 1..n : Body(g)[i] = eight(8 * (n - i) + 39)[g[i - 1]]
  OBVIOUS
<1> HIDE DEF eight
<1>5. \A i \in 1..n : \A q \in SUBSET Nat :
         eight(8 * (n - i) + 39)[q] \in SUBSET Nat
  BY <1>2, <1>3, EightIsPolynomial
<1>6. F \in [1..n -> [SUBSET Nat -> SUBSET Nat]]
  BY <1>5
<1>7. \A i \in 1..n : \A q \in SUBSET Nat : F[i][q] = eight(8 * (n - i) + 39)[q]
  OBVIOUS
<1>8. \A i \in 0..n : i = 0 \/ i \in 1..n
  OBVIOUS
<1> HIDE DEF F, Body
<1>9. PICK s : s \in Chains(SUBSET Nat, p, n, F)
  BY <1>6, ChainsExist
<1>10. /\ s \in [0..n -> SUBSET Nat] /\ s[0] = p
       /\ \A i \in 1..n : s[i] = eight(8 * (n - i) + 39)[s[i - 1]]
  <2>1. s \in [0..n -> SUBSET Nat] /\ s[0] = p /\ \A i \in 1..n : s[i] = F[i][s[i - 1]]
    BY <1>9 DEF Chains
  <2>2. \A i \in 1..n : i - 1 \in 0..n
    OBVIOUS
  <2>3. \A i \in 1..n : s[i - 1] \in SUBSET Nat
    BY <2>1, <2>2
  <2> QED
    BY <2>1, <2>3, <1>7
<1>11. s = Body(s)
  <2>1. \A i \in 0..n : s[i] = Body(s)[i]
    BY <1>4, <1>8, <1>10
  <2>2. s = [i \in 0..n |-> s[i]]
    BY <1>10
  <2> QED
    BY <2>1, <2>2, <1>4
<1>12. rest = Body(rest)
  BY <1>11
<1> HIDE DEF rest
<1>13. rest[0] = p /\ \A i \in 1..n : rest[i] = eight(8 * (n - i) + 39)[rest[i - 1]]
  BY <1>4, <1>12
<1>14. \A i \in 1..n :
          rest[i - 1] \in SUBSET Nat => rest[i] = Eight(rest[i - 1], 8 * (n - i) + 39)
  BY <1>2, <1>3, <1>13
<1> QED
  BY <1>1, <1>13, <1>14

\* The message as a polynomial, and what is left of it after i bytes.
Dividend(buf) ==
    {8 * Len(buf) + 31 - k :
        k \in {j \in Bits(8 * Len(buf)) : (j % 8) \in buf[(j \div 8) + 1]}}

Ahead(buf, i) == {e \in Dividend(buf) : e <= 8 * (Len(buf) - i) + 31}

\* Which exponents the polynomial has.
LEMMA DividendHas ==
    ASSUME NEW buf \in Seq(Bytes), NEW e \in Int
    PROVE  e \in Dividend(buf) <=>
              LET k == 8 * Len(buf) + 31 - e
              IN  k \in 0..(8 * Len(buf) - 1) /\ (k % 8) \in buf[(k \div 8) + 1]
<1> DEFINE n == 8 * Len(buf)
           k == n + 31 - e
           Has(j) == (j % 8) \in buf[(j \div 8) + 1]
<1>1. n \in Nat
  BY LenProperties
<1>2. Dividend(buf) = {n + 31 - j : j \in {i \in 0..(n - 1) : Has(i)}}
  BY DEF Dividend, Bits
<1> HIDE DEF n, Has
<1>3. ASSUME k \in 0..(n - 1), Has(k) PROVE e \in Dividend(buf)
  <2>1. e = n + 31 - k
    BY <1>1
  <2> QED
    BY <1>2, <1>3, <2>1
<1>4. ASSUME e \in Dividend(buf) PROVE k \in 0..(n - 1) /\ Has(k)
  <2>1. PICK j \in 0..(n - 1) : Has(j) /\ e = n + 31 - j
    BY <1>2, <1>4
  <2>2. k = j
    BY <1>1, <2>1
  <2> QED
    BY <2>1, <2>2
<1> QED
  BY <1>3, <1>4 DEF n, Has

\* Its exponents are those from 32 up; the first byte is the highest eight.
LEMMA DividendIsPolynomial ==
    ASSUME NEW buf \in Seq(Bytes), NEW e \in Dividend(buf)
    PROVE  e \in 32..(8 * Len(buf) + 31)
<1> DEFINE n == 8 * Len(buf)
<1>1. n \in Nat
  BY LenProperties
<1>2. PICK j \in 0..(n - 1) : e = n + 31 - j
  BY DEF Dividend, Bits
<1> HIDE DEF n
<1>3. e \in 32..(n + 31)
  BY <1>1, <1>2
<1> QED
  BY <1>3 DEF n

\* The next eight exponents are the next byte.
LEMMA NextByte ==
    ASSUME NEW buf \in Seq(Bytes), NEW i \in 1..Len(buf)
    PROVE  Ahead(buf, i - 1) = Mirror(buf[i], 8 * (Len(buf) - i) + 39) \union Ahead(buf, i)
<1> DEFINE L == Len(buf)
           t == 8 * (L - i) + 39
           A == Ahead(buf, i - 1)
           B == Mirror(buf[i], t)
           C == Ahead(buf, i)
<1>1. L \in Nat /\ i \in Int /\ i >= 1 /\ i <= L /\ t \in Int
  BY LenProperties
<1>2. buf[i] \in SUBSET (0..7) /\ buf[i] \in SUBSET Nat
  BY ElementOfSeq, ByteIsNaturals
<1>3. Dividend(buf) \subseteq Int
  BY DividendIsPolynomial
<1>4. A = {e \in Dividend(buf) : e <= t} /\ C = {e \in Dividend(buf) : e <= t - 8}
  <2>1. 8 * (L - (i - 1)) + 31 = t /\ 8 * (L - i) + 31 = t - 8
    BY <1>1
  <2> QED
    BY <2>1 DEF Ahead
<1>5. B \subseteq Int
  BY <1>1, <1>2, MirrorIsInt
<1>6. ASSUME NEW e \in Int PROVE e \in B <=> t - e \in buf[i]
  BY <1>1, <1>2, MirrorHas
<1>7. ASSUME NEW e \in Int, e <= t, ~(e <= t - 8)
      PROVE  e \in Dividend(buf) <=> t - e \in buf[i]
  <2> DEFINE b == t - e
             k == 8 * L + 31 - e
  <2>1. b \in 0..7
    BY <1>1, <1>7
  <2>2. k = 8 * (i - 1) + b
    BY <1>1
  <2> HIDE DEF b
  <2>3. k % 8 = b /\ (k \div 8) + 1 = i
    BY <1>1, <2>1, <2>2
  <2>4. k \in 0..(8 * L - 1)
    BY <1>1, <2>1, <2>2
  <2>5. e \in Dividend(buf) <=> k \in 0..(8 * L - 1) /\ (k % 8) \in buf[(k \div 8) + 1]
    BY DividendHas
  <2> HIDE DEF k
  <2>6. e \in Dividend(buf) <=> b \in buf[i]
    BY <2>3, <2>4, <2>5
  <2> QED
    BY <2>6 DEF b
<1>8. ASSUME NEW e \in Int, t - e \in buf[i] PROVE e <= t /\ ~(e <= t - 8)
  <2>1. t - e \in 0..7
    BY <1>2, <1>8
  <2> QED
    BY <1>1, <2>1
<1>9. \A e \in Int : e <= t - 8 => e <= t
  BY <1>1
<1> HIDE DEF t, A, B, C
<1>10. A = B \union C
  BY <1>3, <1>4, <1>5, <1>6, <1>7, <1>8, <1>9
<1> QED
  BY <1>10 DEF t, A, B, C

\* Xor with two sets that share nothing is Xor with one and then the other.
LEMMA XorSplits ==
    ASSUME NEW A, NEW B, NEW C, B \intersect C = {}
    PROVE  Xor(A, B \union C) = Xor(Xor(A, B), C)
  BY DEF Xor

\* Taking in a byte: the register with the byte, and the message without it, make the
\* same polynomial as before.
LEMMA TakeByte ==
    ASSUME NEW buf \in Seq(Bytes), NEW i \in 1..Len(buf), NEW c \in U32
    PROVE  LET t == 8 * (Len(buf) - i) + 39
           IN  /\ Xor(Mirror(c, t), Ahead(buf, i - 1))
                     = Xor(Mirror(Xor(c, buf[i]), t), Ahead(buf, i))
               /\ \A e \in Ahead(buf, i) : e \in Int /\ e < t - 7
<1> DEFINE t == 8 * (Len(buf) - i) + 39
           B == Mirror(buf[i], t)
           C == Ahead(buf, i)
<1>1. Len(buf) \in Nat /\ t \in Int
  BY LenProperties
<1>2. buf[i] \in Bytes /\ buf[i] \in SUBSET (0..7) /\ c \in SUBSET Nat
  BY ElementOfSeq, ByteIsNaturals, WordIsNaturals
<1> buf[i] \in SUBSET Nat
  BY <1>2
<1>3. \A e \in C : e \in Int /\ e < t - 7
  <2>1. \A e \in C : e \in Int /\ e <= 8 * (Len(buf) - i) + 31
    BY DividendIsPolynomial DEF Ahead
  <2> QED
    BY <1>1, <2>1
<1>4. \A e \in B : e >= t - 7
  <2>1. \A e \in B : \E b \in buf[i] : e = t - b
    BY DEF Mirror
  <2>2. \A b \in 0..7 : t - b >= t - 7
    BY <1>1
  <2> QED
    BY <1>2, <2>1, <2>2
<1>5. Ahead(buf, i - 1) = B \union C
  BY NextByte
<1>6. Mirror(Xor(c, buf[i]), t) = Xor(Mirror(c, t), B)
  BY <1>1, <1>2, MirrorXor
<1> HIDE DEF t, B, C
<1>7. B \intersect C = {}
  <2>1. \A e \in C : ~(e >= t - 7)
    BY <1>1, <1>3
  <2> QED
    BY <1>4, <2>1
<1>8. Xor(Mirror(c, t), B \union C) = Xor(Xor(Mirror(c, t), B), C)
  BY <1>7, XorSplits
<1> QED
  BY <1>3, <1>5, <1>6, <1>8 DEF t, C

\* After every byte, what the division has left is the register and the message ahead.
LEMMA DivisionIsRegister ==
    ASSUME NEW buf \in Seq(Bytes), NEW s \in Registers(buf), NEW r,
           r[0] = Xor(Mirror(s[0], 8 * Len(buf) + 31), Ahead(buf, 0)),
           \A i \in 1..Len(buf) :
              r[i - 1] \in SUBSET Nat => r[i] = Eight(r[i - 1], 8 * (Len(buf) - i) + 39)
    PROVE  \A i \in 0..Len(buf) :
              r[i] = Xor(Mirror(s[i], 8 * (Len(buf) - i) + 31), Ahead(buf, i))
<1> DEFINE L == Len(buf)
           Is(i) == r[i] = Xor(Mirror(s[i], 8 * (L - i) + 31), Ahead(buf, i))
           T == {i \in Nat : i <= L => Is(i)}
<1>1. L \in Nat
  BY LenProperties
<1>2. /\ \A i \in 0..L : s[i] \in U32
      /\ \A i \in 1..L : s[i] = CrcByte[Xor(s[i - 1], buf[i])]
  BY DEF Registers
<1>3. \A i \in 1..L : buf[i] \in Bytes
  BY ElementOfSeq
<1>4. Is(0)
  <2>1. 8 * (L - 0) + 31 = 8 * L + 31
    BY <1>1
  <2> QED
    BY <2>1
<1>5. ASSUME NEW i \in 1..L, Is(i - 1) PROVE Is(i)
  <2> DEFINE t == 8 * (L - i) + 39
             c == s[i - 1]
             d == Xor(c, buf[i])
             M == Ahead(buf, i)
  <2>1. i - 1 \in 0..L /\ t \in Nat /\ t >= 39 /\ 8 * (L - (i - 1)) + 31 = t
        /\ 8 * (L - i) + 31 = t - 8
    BY <1>1
  <2>2. c \in U32 /\ d \in U32 /\ buf[i] \in Bytes
    BY <1>2, <1>3, <2>1, XorIsWord
  <2>3. /\ Xor(Mirror(c, t), Ahead(buf, i - 1)) = Xor(Mirror(d, t), M)
        /\ \A e \in M : e \in Int /\ e < t - 7
    BY <2>2, TakeByte
  <2>4. s[i] = CrcByte[d]
    BY <1>2
  <2>5. r[i - 1] \in SUBSET Nat => r[i] = Eight(r[i - 1], t)
    OBVIOUS
  <2>6. r[i - 1] = Xor(Mirror(c, t), Ahead(buf, i - 1))
    BY <1>5, <2>1
  <2>7. M \subseteq Nat
    BY DividendIsPolynomial, <1>1 DEF Ahead
  <2> HIDE DEF t, M
  <2>8. Mirror(d, t) \subseteq Nat
    <3>1. t \in Nat /\ t >= 31
      BY <2>1
    <3> HIDE DEF d
    <3> QED
      BY <3>1, <2>2, WordMirror
  <2> HIDE DEF c, d
  <2>9. r[i - 1] \in SUBSET Nat
    BY <2>3, <2>6, <2>7, <2>8 DEF Xor
  <2>10. t \in Int /\ M \in SUBSET Int /\ \A e \in M : e < t - 7
    BY <2>1, <2>3
  <2>11. Eight(Xor(Mirror(d, t), M), t) = Xor(Mirror(CrcByte[d], t - 8), M)
    BY <2>2, <2>10, ByteDivides
  <2>12. r[i] = Xor(Mirror(s[i], t - 8), M)
    BY <2>3, <2>4, <2>5, <2>6, <2>9, <2>11
  <2> QED
    BY <2>1, <2>12 DEF M
<1> HIDE DEF Is
<1>6. 0 \in T
  BY <1>4
<1>7. ASSUME NEW i \in Nat, i \in T PROVE i + 1 \in T
  <2>1. SUFFICES ASSUME i + 1 <= L PROVE Is(i + 1)
    OBVIOUS
  <2>2. i + 1 \in 1..L /\ (i + 1) - 1 = i /\ i <= L
    BY <1>1, <2>1
  <2>3. Is((i + 1) - 1)
    BY <1>7, <2>2
  <2> QED
    BY <1>5, <2>2, <2>3
<1> HIDE DEF T
<1>8. Nat \subseteq T
  BY <1>6, <1>7, NatSetInduction
<1>9. \A i \in 0..L : Is(i)
  BY <1>1, <1>8 DEF T
<1> QED
  BY <1>9 DEF Is

\* compute_crc32 of any bytes is their CRC-32.
LEMMA CrcOfBytes ==
    ASSUME NEW buf \in Seq(Bytes)
    PROVE  compute_crc32(buf) = StandardCrc32(buf)
<1> DEFINE L == Len(buf)
           p == Xor(Dividend(buf), (8 * L)..(8 * L + 31))
           rem == Remainder(p, Divisor, L)
<1>1. L \in Nat
  BY LenProperties
<1>2. StandardCrc32(buf) = Bits(32) \ {31 - e : e \in rem}
  BY DEF StandardCrc32, Dividend, Divisor
<1>3. PICK s \in Registers(buf) : compute_crc32(buf) = Bits(32) \ s[L]
  BY CrcIsRegister
<1>4. s[0] = Bits(32) /\ s[L] \in U32
  BY <1>1, <1>3 DEF Registers
<1>5. Dividend(buf) \subseteq Nat /\ \A e \in Dividend(buf) : e <= 8 * L + 31 /\ ~(e <= 31)
  BY DividendIsPolynomial, <1>1
<1>6. p \in SUBSET Nat
  BY <1>1, <1>5 DEF Xor
<1>7. p = Xor(Mirror(s[0], 8 * L + 31), Ahead(buf, 0))
  <2>1. Ahead(buf, 0) = Dividend(buf)
    <3>1. 8 * (L - 0) + 31 = 8 * L + 31
      BY <1>1
    <3> QED
      BY <1>5, <3>1 DEF Ahead
  <2>2. Mirror(s[0], 8 * L + 31) = (8 * L)..(8 * L + 31)
    <3> DEFINE n == 8 * L
    <3>1. n \in Nat /\ n + 31 \in Int /\ 0..31 \in SUBSET Nat
      BY <1>1
    <3> HIDE DEF n
    <3>2. \A e \in Int : e \in Mirror(0..31, n + 31) <=> (n + 31) - e \in 0..31
      BY <3>1, MirrorHas
    <3>3. \A e \in Int : (n + 31) - e \in 0..31 <=> e \in n..(n + 31)
      BY <3>1
    <3>4. Mirror(0..31, n + 31) \subseteq Int
      BY <3>1, MirrorIsInt
    <3> DEFINE A == Mirror(0..31, n + 31)
               B == n..(n + 31)
    <3>5. A \subseteq Int /\ B \subseteq Int /\ \A e \in Int : e \in A <=> e \in B
      BY <3>1, <3>2, <3>3, <3>4
    <3> HIDE DEF A, B
    <3>6. A = B
      BY <3>5
    <3>7. s[0] = 0..31
      BY <1>4 DEF Bits
    <3> QED
      BY <3>6, <3>7 DEF n, A, B
  <2> QED
    BY <2>1, <2>2 DEF Xor
<1> HIDE DEF p
<1>8. PICK r : /\ r[0] = p
               /\ \A i \in 1..L :
                     r[i - 1] \in SUBSET Nat => r[i] = Eight(r[i - 1], 8 * (L - i) + 39)
               /\ rem = r[L]
  BY <1>1, <1>6, RemainderSteps
<1>9. \A i \in 0..L : r[i] = Xor(Mirror(s[i], 8 * (L - i) + 31), Ahead(buf, i))
  BY <1>3, <1>7, <1>8, DivisionIsRegister
<1>10. rem = Mirror(s[L], 31)
  <2>1. L \in 0..L /\ 8 * (L - L) + 31 = 31
    BY <1>1
  <2>2. Ahead(buf, L) = {}
    BY <1>5, <2>1 DEF Ahead
  <2>3. rem = Xor(Mirror(s[L], 31), {})
    BY <1>8, <1>9, <2>1, <2>2
  <2> HIDE DEF rem, L
  <2> QED
    BY <2>3 DEF Xor
<1> HIDE DEF rem, L
<1>11. {31 - e : e \in Mirror(s[L], 31)} = s[L]
  <2>1. s[L] \in SUBSET Nat
    BY <1>4, WordIsNaturals
  <2> DEFINE c == s[L]
             A == {31 - e : e \in Mirror(c, 31)}
  <2> HIDE DEF c
  <2>2. ASSUME NEW b \in c PROVE b \in A
    <3>1. b = 31 - (31 - b)
      BY <2>1 DEF c
    <3>2. 31 - b \in Mirror(c, 31)
      BY DEF Mirror
    <3> QED
      BY <3>1, <3>2
  <2>3. ASSUME NEW b \in A PROVE b \in c
    <3>1. PICK d \in c : b = 31 - (31 - d)
      BY DEF Mirror
    <3>2. b = d
      BY <3>1, <2>1 DEF c
    <3> QED
      BY <3>2
  <2> HIDE DEF A
  <2>4. A = c
    BY <2>2, <2>3
  <2> QED
    BY <2>4 DEF A, c
<1> QED
  BY <1>2, <1>3, <1>10, <1>11

-----------------------------------------------------------------------------
(* What the CRC tells apart.                                                *)

\* The register before a shift can be told from the register after it: bit 31 says
\* whether the polynomial was combined with it.
LEMMA ShiftIsInjective ==
    ASSUME NEW c \in U32, NEW d \in U32, CrcShift(c) = CrcShift(d)
    PROVE  c = d
<1> DEFINE R(w) == Right(w, 1)
<1>1. ASSUME NEW w \in U32
      PROVE  /\ 31 \notin R(w)
             /\ \A b \in Nat : b \in R(w) <=> b + 1 \in w
  <2>1. w \in SUBSET (0..31) /\ w \in SUBSET Nat
    BY DEF U32, Bits
  <2>2. ASSUME NEW b \in R(w) PROVE b + 1 \in w /\ b + 1 \in 0..31
    <3>1. PICK e \in w : e >= 1 /\ b = e - 1
      BY DEF Right
    <3>2. b + 1 = e
      BY <3>1, <2>1
    <3> QED
      BY <3>2, <2>1
  <2>3. ASSUME NEW b \in Nat, b + 1 \in w PROVE b \in R(w)
    <3>1. b + 1 >= 1 /\ b = (b + 1) - 1
      OBVIOUS
    <3> QED
      BY <2>3, <3>1 DEF Right
  <2> HIDE DEF R
  <2>4. 31 + 1 \notin 0..31
    OBVIOUS
  <2> QED
    BY <2>2, <2>3, <2>4
<1>2. \A w \in U32 : CrcShift(w) = IF 0 \in w THEN Xor(R(w), Polynomial) ELSE R(w)
  BY DEF CrcShift
<1>3. 31 \in Polynomial
  BY DEF Polynomial
<1> HIDE DEF R
<1>4. 0 \in c <=> 0 \in d
  BY <1>1, <1>2, <1>3 DEF Xor
<1>5. R(c) = R(d)
  BY <1>2, <1>4 DEF Xor
<1>6. \A b \in Nat : b + 1 \in c <=> b + 1 \in d
  BY <1>1, <1>5
<1>7. \A b \in Nat : b \in c <=> b \in d
  <2> SUFFICES ASSUME NEW b \in Nat PROVE b \in c <=> b \in d
    OBVIOUS
  <2>1. CASE b = 0
    BY <2>1, <1>4
  <2>2. CASE b # 0
    <3>1. b - 1 \in Nat /\ (b - 1) + 1 = b
      BY <2>2
    <3> QED
      BY <1>6, <3>1
  <2> QED
    BY <2>1, <2>2
<1>8. c \in SUBSET Nat /\ d \in SUBSET Nat
  BY WordIsNaturals
<1> QED
  BY <1>7, <1>8

\* And so before eight shifts.
LEMMA ByteIsInjective ==
    ASSUME NEW c \in U32, NEW d \in U32, CrcByte[c] = CrcByte[d]
    PROVE  c = d
<1>1. \A w \in U32 : CrcShift(w) \in U32
  BY ShiftIsWord
<1>2. \A v, w \in U32 : CrcShift(v) = CrcShift(w) => v = w
  BY ShiftIsInjective
<1> DEFINE S(w) == CrcShift(CrcShift(CrcShift(CrcShift(w))))
<1>3. \A w \in U32 : S(w) \in U32
  BY <1>1
<1>4. \A v, w \in U32 : S(v) = S(w) => v = w
  <2> SUFFICES ASSUME NEW v \in U32, NEW w \in U32, S(v) = S(w) PROVE v = w
    OBVIOUS
  <2>1. CrcShift(CrcShift(CrcShift(v))) = CrcShift(CrcShift(CrcShift(w)))
    BY <1>1, <1>2
  <2>2. CrcShift(CrcShift(v)) = CrcShift(CrcShift(w))
    BY <1>1, <1>2, <2>1
  <2> QED
    BY <1>1, <1>2, <2>2
<1>5. \A w \in U32 : CrcByte[w] = S(S(w))
  BY ByteIsEightShifts
<1> HIDE DEF S
<1> QED
  BY <1>3, <1>4, <1>5

\* The order in which words are combined does not matter.
LEMMA XorCommutes ==
    ASSUME NEW A, NEW B, NEW C
    PROVE  Xor(Xor(A, B), C) = Xor(Xor(A, C), B)
  BY DEF Xor

\* Bits above bit 0 can be combined with the register before a shift or after it.
LEMMA ShiftCarries ==
    ASSUME NEW c \in U32, NEW v \in SUBSET Nat
    PROVE  CrcShift(Xor(c, Left(v, 1))) = Xor(CrcShift(c), v)
<1> DEFINE w == Left(v, 1)
           x == Xor(c, w)
<1>1. c \in SUBSET Nat
  BY WordIsNaturals
<1>2. \A b \in Nat : b + 1 \in w <=> b \in v
  BY DEF Left
<1>3. w \in SUBSET Nat /\ 0 \notin w
  BY DEF Left
<1>4. x \in SUBSET Nat /\ (0 \in x <=> 0 \in c)
  BY <1>1, <1>3 DEF Xor
<1>5. ASSUME NEW y \in SUBSET Nat
      PROVE  Right(y, 1) \subseteq Nat /\ \A b \in Nat : b \in Right(y, 1) <=> b + 1 \in y
  <2>1. ASSUME NEW b \in Right(y, 1) PROVE b \in Nat /\ b + 1 \in y
    <3>1. PICK e \in y : e >= 1 /\ b = e - 1
      BY DEF Right
    <3>2. b + 1 = e /\ b \in Nat
      BY <3>1
    <3> QED
      BY <3>2
  <2>2. ASSUME NEW b \in Nat, b + 1 \in y PROVE b \in Right(y, 1)
    <3>1. b + 1 >= 1 /\ b = (b + 1) - 1
      OBVIOUS
    <3> QED
      BY <2>2, <3>1 DEF Right
  <2> QED
    BY <2>1, <2>2
<1>6. Right(x, 1) = Xor(Right(c, 1), v)
  <2>1. \A b \in Nat : b \in Right(x, 1) <=> b \in Xor(Right(c, 1), v)
    <3> SUFFICES ASSUME NEW b \in Nat PROVE b \in Right(x, 1) <=> b \in Xor(Right(c, 1), v)
      OBVIOUS
    <3>1. b \in Right(x, 1) <=> b + 1 \in x
      BY <1>4, <1>5
    <3>2. b \in Right(c, 1) <=> b + 1 \in c
      BY <1>1, <1>5
    <3> HIDE DEF w
    <3> QED
      BY <3>1, <3>2, <1>2 DEF Xor
  <2>2. Right(x, 1) \subseteq Nat /\ Right(c, 1) \subseteq Nat
    BY <1>1, <1>4, <1>5
  <2> HIDE DEF x
  <2> QED
    BY <2>1, <2>2 DEF Xor
<1> HIDE DEF x
<1>7. CrcShift(x) = IF 0 \in c THEN Xor(Xor(Right(c, 1), v), Polynomial) ELSE Xor(Right(c, 1), v)
  BY <1>4, <1>6 DEF CrcShift
<1>8. CrcShift(c) = IF 0 \in c THEN Xor(Right(c, 1), Polynomial) ELSE Right(c, 1)
  BY DEF CrcShift
<1>9. Xor(Xor(Right(c, 1), v), Polynomial) = Xor(Xor(Right(c, 1), Polynomial), v)
  BY XorCommutes
<1>10. CrcShift(x) = Xor(CrcShift(c), v)
  BY <1>7, <1>8, <1>9
<1> QED
  BY <1>10 DEF x

\* So a byte can be taken in before the eight shifts that precede it.
LEMMA ByteCarries ==
    ASSUME NEW c \in U32, NEW v \in SUBSET (0..23)
    PROVE  /\ Xor(c, Left(v, 8)) \in U32
           /\ CrcByte[Xor(c, Left(v, 8))] = Xor(CrcByte[c], v)
<1> DEFINE q(d, k) == Xor(d, Left(v, k))
<1>1. q(c, 8) \in U32
  <2>1. Left(v, 8) \subseteq 0..31
    BY DEF Left
  <2>2. U32 = SUBSET (0..31)
    BY DEF U32, Bits
  <2> QED
    BY <2>1, <2>2 DEF Xor
<1>2. ASSUME NEW d \in U32, NEW k \in Nat PROVE CrcShift(q(d, k + 1)) = q(CrcShift(d), k)
  <2> DEFINE w == Left(v, k)
  <2>1. w \in SUBSET Nat
    BY DEF Left
  <2>2. Left(w, 1) = Left(v, k + 1)
    <3>1. \A b \in v : (b + k) + 1 = b + (k + 1)
      OBVIOUS
    <3> QED
      BY <3>1 DEF Left
  <2> HIDE DEF w
  <2>3. CrcShift(Xor(d, Left(w, 1))) = Xor(CrcShift(d), w)
    BY <2>1, ShiftCarries
  <2> QED
    BY <2>2, <2>3 DEF w
<1>3. \A d : q(d, 0) = Xor(d, v)
  <2>1. Left(v, 0) = v
    <3>1. \A b \in v : b + 0 = b
      OBVIOUS
    <3> QED
      BY <3>1 DEF Left
  <2> QED
    BY <2>1
<1>4. \A d \in U32 : CrcShift(d) \in U32
  BY ShiftIsWord
<1> DEFINE c1 == CrcShift(c)   c2 == CrcShift(c1)   c3 == CrcShift(c2)   c4 == CrcShift(c3)
           c5 == CrcShift(c4)  c6 == CrcShift(c5)   c7 == CrcShift(c6)   c8 == CrcShift(c7)
<1>5. c8 = CrcByte[c]
  BY ByteIsEightShifts
<1> HIDE DEF q
<1>6. CrcByte[q(c, 8)] = CrcShift(CrcShift(CrcShift(CrcShift(
                           CrcShift(CrcShift(CrcShift(CrcShift(q(c, 8)))))))))
  BY <1>1, ByteIsEightShifts
<1>7. /\ c1 \in U32 /\ c2 \in U32 /\ c3 \in U32 /\ c4 \in U32
      /\ c5 \in U32 /\ c6 \in U32 /\ c7 \in U32
  BY <1>4
<1>8. /\ CrcShift(q(c, 7 + 1)) = q(c1, 7)   /\ CrcShift(q(c1, 6 + 1)) = q(c2, 6)
      /\ CrcShift(q(c2, 5 + 1)) = q(c3, 5)  /\ CrcShift(q(c3, 4 + 1)) = q(c4, 4)
  <2> HIDE DEF c5, c6, c7, c8
  <2>1. 7 \in Nat /\ 6 \in Nat /\ 5 \in Nat /\ 4 \in Nat
    OBVIOUS
  <2> QED
    BY <1>2, <1>7, <2>1, Zenon
<1>9. /\ CrcShift(q(c4, 3 + 1)) = q(c5, 3)  /\ CrcShift(q(c5, 2 + 1)) = q(c6, 2)
      /\ CrcShift(q(c6, 1 + 1)) = q(c7, 1)  /\ CrcShift(q(c7, 0 + 1)) = q(c8, 0)
  <2> HIDE DEF c1, c2, c3, c4
  <2>1. 3 \in Nat /\ 2 \in Nat /\ 1 \in Nat /\ 0 \in Nat
    OBVIOUS
  <2> QED
    BY <1>2, <1>7, <2>1, Zenon
<1> HIDE DEF c1, c2, c3, c4, c5, c6, c7, c8
<1>10. CrcByte[q(c, 8)] = q(c8, 0)
  <2>1. /\ 7 + 1 = 8 /\ 6 + 1 = 7 /\ 5 + 1 = 6 /\ 4 + 1 = 5
        /\ 3 + 1 = 4 /\ 2 + 1 = 3 /\ 1 + 1 = 2 /\ 0 + 1 = 1
    OBVIOUS
  <2> QED
    BY <1>6, <1>8, <1>9, <2>1
<1>11. CrcByte[q(c, 8)] = Xor(CrcByte[c], v)
  BY <1>3, <1>5, <1>10
<1> QED
  BY <1>1, <1>11 DEF q

\* Two registers that a byte, and v and w, bring together were apart by what those say.
LEMMA StepBack ==
    ASSUME NEW c \in U32, NEW d \in U32, NEW a \in Bytes, NEW b \in Bytes,
           NEW v \in SUBSET (0..23), NEW w \in SUBSET (0..23),
           Xor(CrcByte[Xor(c, a)], v) = Xor(CrcByte[Xor(d, b)], w)
    PROVE  Xor(c, Xor(a, Left(v, 8))) = Xor(d, Xor(b, Left(w, 8)))
<1> DEFINE x == Xor(c, a)
           y == Xor(d, b)
<1>1. x \in U32 /\ y \in U32
  BY XorIsWord
<1>2. Xor(x, Left(v, 8)) = Xor(c, Xor(a, Left(v, 8)))
  BY DEF Xor
<1>3. Xor(y, Left(w, 8)) = Xor(d, Xor(b, Left(w, 8)))
  BY DEF Xor
<1> HIDE DEF x, y
<1>4. /\ Xor(x, Left(v, 8)) \in U32 /\ CrcByte[Xor(x, Left(v, 8))] = Xor(CrcByte[x], v)
      /\ Xor(y, Left(w, 8)) \in U32 /\ CrcByte[Xor(y, Left(w, 8))] = Xor(CrcByte[y], w)
  BY <1>1, ByteCarries
<1>5. CrcByte[Xor(x, Left(v, 8))] = CrcByte[Xor(y, Left(w, 8))]
  BY <1>4 DEF x, y
<1>6. Xor(x, Left(v, 8)) = Xor(y, Left(w, 8))
  BY <1>4, <1>5, ByteIsInjective
<1> QED
  BY <1>2, <1>3, <1>6

\* A byte and what is above it can be taken apart.
LEMMA Unpack ==
    ASSUME NEW a \in Bytes, NEW b \in Bytes, NEW v \in SUBSET Nat, NEW w \in SUBSET Nat,
           Xor(a, Left(v, 8)) = Xor(b, Left(w, 8))
    PROVE  a = b /\ v = w
<1>1. \A e \in Nat : e + 8 \notin a /\ e + 8 \notin b
  BY DEF Bytes, Bits
<1>2. ASSUME NEW x \in SUBSET Nat
      PROVE  /\ \A e \in 0..7 : e \notin Left(x, 8)
             /\ \A e \in Nat : e + 8 \in Left(x, 8) <=> e \in x
  BY DEF Left
<1>3. a \in SUBSET (0..7) /\ b \in SUBSET (0..7)
  BY DEF Bytes, Bits
<1>4. \A e \in 0..7 : e \in a <=> e \in b
  BY <1>2 DEF Xor
<1>5. a = b
  BY <1>3, <1>4
<1>6. ASSUME NEW e \in Nat PROVE e \in v <=> e \in w
  <2>1. e + 8 \in Xor(a, Left(v, 8)) <=> e \in v
    BY <1>1, <1>2 DEF Xor
  <2>2. e + 8 \in Xor(b, Left(w, 8)) <=> e \in w
    BY <1>1, <1>2 DEF Xor
  <2> QED
    BY <2>1, <2>2
<1>7. v = w
  BY <1>6
<1> QED
  BY <1>5, <1>7

\* A byte in front of up to two bytes.
LEMMA Pack ==
    ASSUME NEW a \in Bytes, NEW n \in {7, 15}, NEW v \in SUBSET (0..n)
    PROVE  Xor(a, Left(v, 8)) \in SUBSET (0..(n + 8))
<1>1. a \subseteq 0..(n + 8)
  BY DEF Bytes, Bits
<1>2. Left(v, 8) \subseteq 0..(n + 8)
  BY DEF Left
<1> QED
  BY <1>1, <1>2 DEF Xor

\* The register after one more byte.
After(c, b) == CrcByte[Xor(c, b)]

After4(c, b) == After(After(After(After(c, b[1]), b[2]), b[3]), b[4])

\* Four bytes are told apart by what they make of a register.
LEMMA FourBytes ==
    ASSUME NEW c \in U32, NEW a \in [1..4 -> Bytes], NEW b \in [1..4 -> Bytes],
           After4(c, a) = After4(c, b)
    PROVE  a[1] = b[1] /\ a[2] = b[2] /\ a[3] = b[3] /\ a[4] = b[4]
<1> DEFINE a1 == a[1]   a2 == a[2]   a3 == a[3]   a4 == a[4]
           b1 == b[1]   b2 == b[2]   b3 == b[3]   b4 == b[4]
<1> /\ a1 \in Bytes /\ a2 \in Bytes /\ a3 \in Bytes /\ a4 \in Bytes
    /\ b1 \in Bytes /\ b2 \in Bytes /\ b3 \in Bytes /\ b4 \in Bytes
  OBVIOUS
<1> After(After(After(After(c, a1), a2), a3), a4) = After(After(After(After(c, b1), b2), b3), b4)
  BY DEF After4
<1> HIDE DEF a1, a2, a3, a4, b1, b2, b3, b4
<1> DEFINE x1 == After(c, a1)   x2 == After(x1, a2)   x3 == After(x2, a3)
           y1 == After(c, b1)   y2 == After(y1, b2)   y3 == After(y2, b3)
           v2 == Xor(a3, Left(a4, 8))   v3 == Xor(a2, Left(v2, 8))
           w2 == Xor(b3, Left(b4, 8))   w3 == Xor(b2, Left(w2, 8))
<1>1. \A d \in U32 : \A z \in Bytes : After(d, z) \in U32
  BY XorIsWord, ByteIsEightShifts DEF After
<1>2. /\ x1 \in U32 /\ x2 \in U32 /\ x3 \in U32
      /\ y1 \in U32 /\ y2 \in U32 /\ y3 \in U32
  BY <1>1
<1>3. After(x3, a4) = After(y3, b4)
  OBVIOUS
<1> HIDE DEF x3, y3
<1>4. Xor(x3, a4) = Xor(y3, b4)
  <2>1. Xor(x3, a4) \in U32 /\ Xor(y3, b4) \in U32
    BY <1>2, XorIsWord
  <2> QED
    BY <2>1, <1>3, ByteIsInjective DEF After
<1>5. a4 \in SUBSET (0..7) /\ b4 \in SUBSET (0..7)
  BY DEF Bytes, Bits
<1>6. v2 \in SUBSET (0..15) /\ w2 \in SUBSET (0..15)
  <2>1. 7 \in {7, 15} /\ 7 + 8 = 15
    OBVIOUS
  <2> QED
    BY <1>5, <2>1, Pack
<1>7. v3 \in SUBSET (0..23) /\ w3 \in SUBSET (0..23)
  <2>1. 15 \in {7, 15} /\ 15 + 8 = 23
    OBVIOUS
  <2> HIDE DEF v2, w2
  <2> QED
    BY <1>6, <2>1, Pack
<1>8. \A v \in SUBSET (0..7) : v \in SUBSET (0..23)
  OBVIOUS
<1>9. \A v \in SUBSET (0..15) : v \in SUBSET (0..23)
  OBVIOUS
<1> HIDE DEF x2, y2
<1>10. Xor(x2, v2) = Xor(y2, w2)
  <2>1. Xor(CrcByte[Xor(x2, a3)], a4) = Xor(CrcByte[Xor(y2, b3)], b4)
    BY <1>4 DEF x3, y3, After
  <2> QED
    BY <2>1, <1>2, <1>5, <1>8, StepBack
<1> HIDE DEF x1, y1, v2, w2
<1>11. Xor(x1, v3) = Xor(y1, w3)
  <2>1. Xor(CrcByte[Xor(x1, a2)], v2) = Xor(CrcByte[Xor(y1, b2)], w2)
    BY <1>10 DEF x2, y2, After
  <2> QED
    BY <2>1, <1>2, <1>6, <1>9, StepBack
<1> HIDE DEF v3, w3
<1>12. Xor(c, Xor(a1, Left(v3, 8))) = Xor(c, Xor(b1, Left(w3, 8)))
  <2>1. Xor(CrcByte[Xor(c, a1)], v3) = Xor(CrcByte[Xor(c, b1)], w3)
    BY <1>11 DEF x1, y1, After
  <2> QED
    BY <2>1, <1>7, StepBack
<1>13. \A v, w : Xor(c, v) = Xor(c, w) => v = w
  BY DEF Xor
<1>14. Xor(a1, Left(v3, 8)) = Xor(b1, Left(w3, 8))
  BY <1>12, <1>13
<1>15. v2 \in SUBSET Nat /\ w2 \in SUBSET Nat /\ v3 \in SUBSET Nat /\ w3 \in SUBSET Nat
       /\ a4 \in SUBSET Nat /\ b4 \in SUBSET Nat
  BY <1>5, <1>6, <1>7
<1>16. a1 = b1 /\ v3 = w3
  BY <1>14, <1>15, Unpack
<1>17. a2 = b2 /\ v2 = w2
  <2>1. Xor(a2, Left(v2, 8)) = Xor(b2, Left(w2, 8))
    BY <1>16 DEF v3, w3
  <2> QED
    BY <2>1, <1>15, Unpack
<1>18. a3 = b3 /\ a4 = b4
  <2>1. Xor(a3, Left(a4, 8)) = Xor(b3, Left(b4, 8))
    BY <1>17 DEF v2, w2
  <2> QED
    BY <2>1, <1>15, Unpack
<1> QED
  BY <1>16, <1>17, <1>18 DEF a1, a2, a3, a4, b1, b2, b3, b4

\* One byte further.
LEMMA RegisterStep ==
    ASSUME NEW buf \in Seq(Bytes), NEW s \in Registers(buf), NEW i \in 0..(Len(buf) - 1)
    PROVE  /\ s[i] \in U32 /\ s[i + 1] \in U32 /\ buf[i + 1] \in Bytes
           /\ s[i + 1] = After(s[i], buf[i + 1])
<1>1. Len(buf) \in Nat
  BY LenProperties
<1>2. i \in 0..Len(buf) /\ i + 1 \in 0..Len(buf) /\ i + 1 \in 1..Len(buf) /\ (i + 1) - 1 = i
  BY <1>1
<1>3. s[i] \in U32 /\ s[i + 1] \in U32 /\ s[i + 1] = CrcByte[Xor(s[(i + 1) - 1], buf[i + 1])]
  BY <1>2 DEF Registers
<1>4. buf[i + 1] \in Bytes
  BY <1>2, ElementOfSeq
<1> QED
  BY <1>2, <1>3, <1>4 DEF After

\* As long as the bytes are equal, so are the registers.
LEMMA Together ==
    ASSUME NEW p \in Seq(Bytes), NEW q \in Seq(Bytes), Len(p) = Len(q),
           NEW s \in Registers(p), NEW t \in Registers(q),
           NEW k \in 0..Len(p), \A i \in 1..k : p[i] = q[i]
    PROVE  s[k] = t[k]
<1> DEFINE T == {i \in Nat : i <= k => s[i] = t[i]}
<1>1. Len(p) \in Nat /\ k \in Nat
  BY LenProperties
<1>2. 0 \in T
  BY DEF Registers
<1>3. ASSUME NEW i \in Nat, i \in T PROVE i + 1 \in T
  <2>1. SUFFICES ASSUME i + 1 <= k PROVE s[i + 1] = t[i + 1]
    OBVIOUS
  <2>2. i \in 0..(Len(p) - 1) /\ i + 1 \in 1..k /\ i <= k
    BY <1>1, <2>1
  <2>3. s[i + 1] = After(s[i], p[i + 1]) /\ t[i + 1] = After(t[i], q[i + 1])
    BY <2>2, RegisterStep
  <2>4. s[i] = t[i]
    BY <1>3, <2>2
  <2> QED
    BY <2>2, <2>3, <2>4
<1> HIDE DEF T
<1>4. Nat \subseteq T
  BY <1>2, <1>3, NatSetInduction
<1> QED
  BY <1>1, <1>4 DEF T

\* Registers that differ keep apart as long as the bytes are equal.
LEMMA Apart ==
    ASSUME NEW p \in Seq(Bytes), NEW q \in Seq(Bytes), Len(p) = Len(q),
           NEW s \in Registers(p), NEW t \in Registers(q),
           NEW k \in 0..Len(p), s[k] # t[k], \A i \in (k + 1)..Len(p) : p[i] = q[i]
    PROVE  s[Len(p)] # t[Len(p)]
<1> DEFINE L == Len(p)
           T == {i \in Nat : k <= i /\ i <= L => s[i] # t[i]}
<1>1. L \in Nat /\ k \in Nat /\ k <= L
  BY LenProperties
<1>2. 0 \in T
  BY <1>1
<1>3. ASSUME NEW i \in Nat, i \in T PROVE i + 1 \in T
  <2>1. SUFFICES ASSUME k <= i + 1, i + 1 <= L PROVE s[i + 1] # t[i + 1]
    OBVIOUS
  <2>2. CASE k = i + 1
    BY <2>2
  <2>3. CASE k # i + 1
    <3>1. i \in 0..(L - 1) /\ i + 1 \in (k + 1)..L /\ k <= i /\ i <= L
      BY <1>1, <2>1, <2>3
    <3>2. /\ s[i] \in U32 /\ p[i + 1] \in Bytes /\ s[i + 1] = After(s[i], p[i + 1])
          /\ t[i] \in U32 /\ t[i + 1] = After(t[i], q[i + 1])
      BY <3>1, RegisterStep
    <3>3. p[i + 1] = q[i + 1] /\ s[i] # t[i]
      BY <1>3, <3>1
    <3>4. Xor(s[i], p[i + 1]) # Xor(t[i], p[i + 1])
      BY <3>3 DEF Xor
    <3>5. Xor(s[i], p[i + 1]) \in U32 /\ Xor(t[i], p[i + 1]) \in U32
      BY <3>2, XorIsWord
    <3>6. After(s[i], p[i + 1]) # After(t[i], p[i + 1])
      BY <3>4, <3>5, ByteIsInjective DEF After
    <3> QED
      BY <3>2, <3>3, <3>6
  <2> QED
    BY <2>2, <2>3
<1> HIDE DEF T
<1>4. Nat \subseteq T
  BY <1>2, <1>3, NatSetInduction
<1> QED
  BY <1>1, <1>4 DEF T

\* compute_crc32 tells any two buffers apart that differ in four consecutive bytes only.
THEOREM BurstChangesCrc ==
    ASSUME NEW p \in Seq(Bytes), NEW q \in Seq(Bytes), Len(p) = Len(q), p # q,
           NEW k \in Nat, k + 4 <= Len(p),
           \A i \in 1..Len(p) : p[i] # q[i] => i \in (k + 1)..(k + 4)
    PROVE  compute_crc32(p) # compute_crc32(q)
<1> DEFINE L == Len(p)
<1>1. L \in Nat
  BY LenProperties
<1>2. PICK s \in Registers(p) : compute_crc32(p) = Bits(32) \ s[L]
  BY CrcIsRegister
<1>3. PICK t \in Registers(q) : compute_crc32(q) = Bits(32) \ t[L]
  BY CrcIsRegister
<1>4. k \in 0..L /\ k + 4 \in 0..L /\ k \in 0..(L - 1) /\ k + 1 \in 0..(L - 1)
      /\ k + 2 \in 0..(L - 1) /\ k + 3 \in 0..(L - 1)
  BY <1>1
<1>5. s[k] = t[k]
  <2>1. \A i \in 1..k : i \in 1..L /\ i \notin (k + 1)..(k + 4)
    BY <1>4
  <2>2. \A i \in 1..k : p[i] = q[i]
    BY <2>1
  <2> QED
    BY <1>4, <2>2, Together
<1>6. (k + 1) + 1 = k + 2 /\ (k + 2) + 1 = k + 3 /\ (k + 3) + 1 = k + 4
  OBVIOUS
<1>7. /\ s[k] \in U32 /\ s[k + 1] = After(s[k], p[k + 1]) /\ s[k + 2] = After(s[k + 1], p[k + 2])
      /\ s[k + 3] = After(s[k + 2], p[k + 3]) /\ s[k + 4] = After(s[k + 3], p[k + 4])
      /\ p[k + 1] \in Bytes /\ p[k + 2] \in Bytes /\ p[k + 3] \in Bytes /\ p[k + 4] \in Bytes
  BY <1>2, <1>4, <1>6, RegisterStep
<1>8. /\ t[k + 1] = After(t[k], q[k + 1]) /\ t[k + 2] = After(t[k + 1], q[k + 2])
      /\ t[k + 3] = After(t[k + 2], q[k + 3]) /\ t[k + 4] = After(t[k + 3], q[k + 4])
      /\ q[k + 1] \in Bytes /\ q[k + 2] \in Bytes /\ q[k + 3] \in Bytes /\ q[k + 4] \in Bytes
  BY <1>3, <1>4, <1>6, RegisterStep
<1>9. \E i \in (k + 1)..(k + 4) : p[i] # q[i]
  <2>1. \E i \in 1..L : p[i] # q[i]
    BY SeqEqual
  <2> QED
    BY <2>1
<1>10. p[k + 1] # q[k + 1] \/ p[k + 2] # q[k + 2] \/ p[k + 3] # q[k + 3] \/ p[k + 4] # q[k + 4]
  <2>1. \A i \in (k + 1)..(k + 4) : i = k + 1 \/ i = k + 2 \/ i = k + 3 \/ i = k + 4
    OBVIOUS
  <2> QED
    BY <1>9, <2>1
<1>11. s[k + 4] # t[k + 4]
  <2>1. SUFFICES ASSUME s[k + 4] = t[k + 4] PROVE FALSE
    OBVIOUS
  <2> DEFINE a == [i \in 1..4 |-> p[k + i]]
             b == [i \in 1..4 |-> q[k + i]]
  <2>2. \A i \in 1..4 : i = 1 \/ i = 2 \/ i = 3 \/ i = 4
    OBVIOUS
  <2>3. a \in [1..4 -> Bytes] /\ b \in [1..4 -> Bytes]
    BY <1>7, <1>8, <2>2
  <2>4. /\ a[1] = p[k + 1] /\ a[2] = p[k + 2] /\ a[3] = p[k + 3] /\ a[4] = p[k + 4]
        /\ b[1] = q[k + 1] /\ b[2] = q[k + 2] /\ b[3] = q[k + 3] /\ b[4] = q[k + 4]
    OBVIOUS
  <2> HIDE DEF a, b
  <2>5. After4(s[k], a) = After4(s[k], b)
    BY <1>5, <1>7, <1>8, <2>1, <2>4 DEF After4
  <2>6. a[1] = b[1] /\ a[2] = b[2] /\ a[3] = b[3] /\ a[4] = b[4]
    BY <1>7, <2>3, <2>5, FourBytes
  <2> QED
    BY <1>10, <2>4, <2>6
<1>12. s[L] # t[L]
  <2>1. \A i \in ((k + 4) + 1)..L : i \in 1..L /\ i \notin (k + 1)..(k + 4)
    BY <1>1
  <2>2. \A i \in ((k + 4) + 1)..L : p[i] = q[i]
    BY <2>1
  <2> QED
    BY <1>4, <1>11, <2>2, Apart
<1>13. s[L] \in U32 /\ t[L] \in U32
  BY <1>1 DEF Registers
<1> QED
  BY <1>2, <1>3, <1>12, <1>13 DEF U32

-----------------------------------------------------------------------------
(* Frames.                                                                  *)

\* The CRC is a word, whatever the bytes.
LEMMA CrcIsWord ==
    ASSUME NEW q
    PROVE  compute_crc32(q) \in SUBSET Bits(32)
<1> DEFINE crc[i \in 0..Len(q)] ==
               IF i = 0 THEN Bits(32) ELSE CrcByte[Xor(crc[i - 1], q[i])]
           last == crc[Len(q)]
<1>1. compute_crc32(q) = Bits(32) \ last
  BY DEF compute_crc32
<1> HIDE DEF last
<1> QED
  BY <1>1

\* The code of a type is a word of 16 bits.
LEMMA CodeIsWord ==
    ASSUME NEW type \in {"HELLO", "HEARTBEAT", "STATE", "ACK", "NACK", "CMD_SET_MODE"}
    PROVE  MessageType(type) \in SUBSET Bits(16)
<1>1. \A k \in {0, 1, 12, 13} : k \in Bits(16)
  BY DEF Bits
<1>2. MessageType(type) \subseteq {0, 1, 12, 13}
  BY DEF MessageType
<1> QED
  BY <1>1, <1>2

\* One part behind a buffer of n bytes.
LEMMA AppendPart ==
    ASSUME NEW p \in Seq(Bytes), NEW n \in Nat, Len(p) = n, NEW t \in Seq(Bytes)
    PROVE  p \o t \in Seq(Bytes) /\ Len(p \o t) = n + Len(t) /\ At(p \o t, n, t)
  BY Written

\* The header and the payload as serialize writes them.
Framed(l, c, flags, agent, header, time, payload) ==
    write_u32_be(l) \o write_u16_be(c) \o <<flags>> \o write_u32_be(agent)
        \o write_u32_be(header) \o write_u64_be(time) \o payload

\* Where each field of them is.
Parts(q, l, c, flags, agent, header, time, payload) ==
    /\ q \in Seq(Bytes) /\ Len(q) = 23 + Len(payload)
    /\ At(q, 0, write_u32_be(l)) /\ At(q, 4, write_u16_be(c)) /\ At(q, 6, <<flags>>)
    /\ At(q, 7, write_u32_be(agent)) /\ At(q, 11, write_u32_be(header))
    /\ At(q, 15, write_u64_be(time)) /\ At(q, 23, payload)

\* Each field is written behind those before it.
LEMMA FramedParts ==
    ASSUME NEW l, NEW c, NEW flags \in Bytes, NEW agent, NEW header, NEW time,
           NEW payload \in Seq(Bytes)
    PROVE  Parts(Framed(l, c, flags, agent, header, time, payload),
                 l, c, flags, agent, header, time, payload)
<1> DEFINE t1 == write_u32_be(l)
           t2 == write_u16_be(c)
           t3 == <<flags>>
           t4 == write_u32_be(agent)
           t5 == write_u32_be(header)
           t6 == write_u64_be(time)
           f2 == t1 \o t2
           f3 == f2 \o t3
           f4 == f3 \o t4
           f5 == f4 \o t5
           f6 == f5 \o t6
           f7 == f6 \o payload
<1>1. /\ t1 \in Seq(Bytes) /\ t2 \in Seq(Bytes) /\ t4 \in Seq(Bytes)
      /\ t5 \in Seq(Bytes) /\ t6 \in Seq(Bytes)
      /\ Len(t1) = 4 /\ Len(t2) = 2 /\ Len(t4) = 4 /\ Len(t5) = 4 /\ Len(t6) = 8
  BY WordBytes, LongBytes
<1>2. t3 \in Seq(Bytes) /\ Len(t3) = 1
  OBVIOUS
<1>3. Framed(l, c, flags, agent, header, time, payload) = f7
  BY DEF Framed
<1> HIDE DEF t1, t2, t3, t4, t5, t6
<1>4. At(t1, 0, t1)
  BY <1>1, AtStart
<1>5. f2 \in Seq(Bytes) /\ Len(f2) = 6 /\ At(f2, 4, t2)
  <2>1. t1 \in Seq(Bytes) /\ t2 \in Seq(Bytes) /\ Len(t1) = 4
    BY <1>1
  <2>2. f2 \in Seq(Bytes) /\ Len(f2) = 4 + Len(t2) /\ At(f2, 4, t2)
    BY <2>1, AppendPart
  <2> QED
    BY <2>2, <1>1
<1>6. At(f2, 0, t1)
  BY <1>1, <1>4, Stays
<1> HIDE DEF f2
<1>7. f3 \in Seq(Bytes) /\ Len(f3) = 7 /\ At(f3, 6, t3)
  <2>1. f3 \in Seq(Bytes) /\ Len(f3) = 6 + Len(t3) /\ At(f3, 6, t3)
    BY <1>2, <1>5, AppendPart
  <2> QED
    BY <2>1, <1>2
<1>8. At(f3, 0, t1) /\ At(f3, 4, t2)
  BY <1>1, <1>2, <1>5, <1>6, Stays
<1> HIDE DEF f3
<1>9. f4 \in Seq(Bytes) /\ Len(f4) = 11 /\ At(f4, 7, t4)
  <2>1. f4 \in Seq(Bytes) /\ Len(f4) = 7 + Len(t4) /\ At(f4, 7, t4)
    BY <1>1, <1>7, AppendPart
  <2> QED
    BY <2>1, <1>1
<1>10. At(f4, 0, t1) /\ At(f4, 4, t2) /\ At(f4, 6, t3)
  BY <1>1, <1>2, <1>7, <1>8, Stays
<1> HIDE DEF f4
<1>11. f5 \in Seq(Bytes) /\ Len(f5) = 15 /\ At(f5, 11, t5)
  <2>1. f5 \in Seq(Bytes) /\ Len(f5) = 11 + Len(t5) /\ At(f5, 11, t5)
    BY <1>1, <1>9, AppendPart
  <2> QED
    BY <2>1, <1>1
<1>12. At(f5, 0, t1) /\ At(f5, 4, t2) /\ At(f5, 6, t3) /\ At(f5, 7, t4)
  BY <1>1, <1>2, <1>9, <1>10, Stays
<1> HIDE DEF f5
<1>13. f6 \in Seq(Bytes) /\ Len(f6) = 23 /\ At(f6, 15, t6)
  <2>1. f6 \in Seq(Bytes) /\ Len(f6) = 15 + Len(t6) /\ At(f6, 15, t6)
    BY <1>1, <1>11, AppendPart
  <2> QED
    BY <2>1, <1>1
<1>14. At(f6, 0, t1) /\ At(f6, 4, t2) /\ At(f6, 6, t3) /\ At(f6, 7, t4) /\ At(f6, 11, t5)
  BY <1>1, <1>2, <1>11, <1>12, Stays
<1> HIDE DEF f6
<1>15. f7 \in Seq(Bytes) /\ Len(f7) = 23 + Len(payload) /\ At(f7, 23, payload)
  BY <1>13, AppendPart
<1>16. /\ At(f7, 0, t1) /\ At(f7, 4, t2) /\ At(f7, 6, t3) /\ At(f7, 7, t4)
       /\ At(f7, 11, t5) /\ At(f7, 15, t6)
  BY <1>1, <1>2, <1>13, <1>14, Stays
<1> HIDE DEF f7
<1> QED
  BY <1>3, <1>15, <1>16 DEF Parts, t1, t2, t3, t4, t5, t6

\* What the reader makes of an undamaged frame.
Message(m) ==
    [result |-> "message", type |-> MessageType(m.type), flags |-> m.flags,
     agent_id |-> m.agent_id, header_id |-> m.header_id, timestamp |-> m.timestamp,
     payload |-> SerializePayload(m.type, m.body)]

\* The parser's sum of the sizes is the reader's for every length below 2^31.
LEMMA SumDoesNotWrap ==
    ASSUME NEW v, 31 \notin v
    PROVE  total_frame_size(v) = HeaderSize + LengthOf(v) + 4
<1>1. 31 \in 5..31
  OBVIOUS
<1>2. ~(5..31 \subseteq v)
  BY <1>1
<1> QED
  BY <1>2 DEF total_frame_size

\* The reader calls deserialize, which finds every field, the payload and the CRC where
\* serialize put them.
LEMMA FrameIsRead ==
    ASSUME NEW m \in Messages
    PROVE  readFrame(serialize(m)) = Message(m) /\ serialize(m) # <<>>
<1> DEFINE payload == SerializePayload(m.type, m.body)
           l == OfLength(Len(payload))
           c == MessageType(m.type)
           framed == write_u32_be(l) \o write_u16_be(c) \o <<m.flags>>
                         \o write_u32_be(m.agent_id) \o write_u32_be(m.header_id)
                         \o write_u64_be(m.timestamp) \o payload
           crc == compute_crc32(framed)
           buf == framed \o write_u32_be(crc)
           n == 23 + Len(payload)
<1>1. serialize(m) = buf
  BY DEF serialize
<1>2. /\ m.flags \in Bytes /\ m.agent_id \in SUBSET Bits(32) /\ m.header_id \in SUBSET Bits(32)
      /\ m.timestamp \in SUBSET Bits(64)
  BY MessagesAssumption DEF Bytes, U32
<1>3. c \in SUBSET Bits(16)
  <2>1. m.type \in {"HELLO", "HEARTBEAT", "STATE", "ACK", "NACK", "CMD_SET_MODE"}
    BY MessagesAssumption
  <2> QED
    BY <2>1, CodeIsWord
<1>4. payload \in Seq(Bytes) /\ Len(payload) < MaxLength
  BY PayloadReadable DEF Readable
<1> HIDE DEF payload
<1>5. Len(payload) \in Nat
  BY <1>4, LenProperties
<1>6. l \in SUBSET Bits(32) /\ LengthOf(l) = Len(payload) /\ 31 \notin l
  <2>1. l \in SUBSET Bits(16) /\ LengthOf(l) = Len(payload)
    BY <1>4, <1>5, LengthRoundTrip
  <2>2. Bits(16) \subseteq Bits(32) /\ 31 \notin Bits(16)
    BY DEF Bits
  <2> QED
    BY <2>1, <2>2
<1> HIDE DEF l, c
<1>7. crc \in SUBSET Bits(32)
  BY CrcIsWord
<1> DEFINE t1 == write_u32_be(l)
           t2 == write_u16_be(c)
           t3 == <<m.flags>>
           t4 == write_u32_be(m.agent_id)
           t5 == write_u32_be(m.header_id)
           t6 == write_u64_be(m.timestamp)
           t8 == write_u32_be(crc)
<1>8. /\ framed \in Seq(Bytes) /\ Len(framed) = n
      /\ At(framed, 0, t1) /\ At(framed, 4, t2) /\ At(framed, 6, t3)
      /\ At(framed, 7, t4) /\ At(framed, 11, t5) /\ At(framed, 15, t6)
      /\ At(framed, 23, payload)
  <2>1. framed = Framed(l, c, m.flags, m.agent_id, m.header_id, m.timestamp, payload)
    BY DEF Framed
  <2> HIDE DEF framed
  <2>2. m.flags \in Bytes /\ payload \in Seq(Bytes)
    BY <1>2, <1>4
  <2> QED
    <3>1. Parts(framed, l, c, m.flags, m.agent_id, m.header_id, m.timestamp, payload)
      BY <2>1, <2>2, FramedParts, Zenon
    <3> QED
      BY <3>1 DEF Parts
<1> HIDE DEF framed
<1>9. /\ t1 \in Seq(Bytes) /\ t2 \in Seq(Bytes) /\ t4 \in Seq(Bytes) /\ t5 \in Seq(Bytes)
      /\ t6 \in Seq(Bytes) /\ t8 \in Seq(Bytes) /\ Len(t8) = 4
  BY WordBytes, LongBytes
<1>10. t3 \in Seq(Bytes) /\ Len(t3) = 1 /\ t3[1] = m.flags
  BY <1>2
<1> HIDE DEF t1, t2, t3, t4, t5, t6, t8, crc
<1>11. n \in Nat
  BY <1>5
<1> HIDE DEF n
<1>12. framed \o t8 \in Seq(Bytes) /\ Len(framed \o t8) = n + 4 /\ At(framed \o t8, n, t8)
  <2>1. framed \in Seq(Bytes) /\ t8 \in Seq(Bytes) /\ Len(framed) = n
    BY <1>8, <1>9
  <2>2. framed \o t8 \in Seq(Bytes) /\ Len(framed \o t8) = n + Len(t8) /\ At(framed \o t8, n, t8)
    BY <2>1, <1>11, AppendPart
  <2> QED
    BY <2>2, <1>9
<1>13. /\ At(framed \o t8, 0, t1) /\ At(framed \o t8, 4, t2) /\ At(framed \o t8, 6, t3)
       /\ At(framed \o t8, 7, t4) /\ At(framed \o t8, 11, t5) /\ At(framed \o t8, 15, t6)
       /\ At(framed \o t8, 23, payload)
  <2>1. /\ At(framed \o t8, 0, t1) /\ At(framed \o t8, 4, t2) /\ At(framed \o t8, 6, t3)
        /\ At(framed \o t8, 7, t4)
    BY <1>8, <1>9, <1>10, Stays
  <2>2. /\ At(framed \o t8, 11, t5) /\ At(framed \o t8, 15, t6)
        /\ At(framed \o t8, 23, payload)
    BY <1>4, <1>8, <1>9, <1>10, Stays
  <2> QED
    BY <2>1, <2>2
<1>14. At(framed \o t8, 0, framed)
  BY <1>8, <1>9, AtStart, Stays
<1>15. buf = framed \o t8
  BY DEF t8
<1> HIDE DEF buf
<1>16. read_u32_be(buf, 0) = l
  BY <1>6, <1>13, <1>15, ReadU32 DEF t1
<1>17. read_u16_be(buf, 4) = c
  BY <1>3, <1>13, <1>15, ReadU16 DEF t2
<1>18. buf[7] = m.flags
  <2>1. \A i \in 1..1 : buf[6 + i] = t3[i]
    BY <1>10, <1>13, <1>15 DEF At
  <2> QED
    BY <2>1, <1>10
<1>19. read_u32_be(buf, 7) = m.agent_id
  BY <1>2, <1>13, <1>15, ReadU32 DEF t4
<1>20. read_u32_be(buf, 11) = m.header_id
  BY <1>2, <1>13, <1>15, ReadU32 DEF t5
<1>21. read_u64_be(buf, 15) = m.timestamp
  BY <1>2, <1>12, <1>13, <1>15, ReadU64 DEF t6
<1>22. SubSeq(buf, 24, n) = payload
  <2>1. buf \in Seq(Bytes) /\ At(buf, 23, payload)
    BY <1>12, <1>13, <1>15
  <2>2. SubSeq(buf, 23 + 1, 23 + Len(payload)) = payload
    BY <2>1, <1>4, Cut
  <2> QED
    BY <2>2 DEF n
<1>23. SubSeq(buf, 1, n) = framed
  <2>1. buf \in Seq(Bytes) /\ At(buf, 0, framed) /\ framed \in Seq(Bytes)
    BY <1>8, <1>12, <1>14, <1>15
  <2>2. SubSeq(buf, 0 + 1, 0 + Len(framed)) = framed
    BY <2>1, Cut
  <2> QED
    BY <2>2, <1>8, <1>11
<1>24. read_u32_be(buf, n) = crc
  BY <1>7, <1>11, <1>12, <1>15, ReadU32 DEF t8
<1>25. crcMatches(buf, n)
  BY <1>23, <1>24 DEF crcMatches, crc
<1>26. Len(buf) = n + 4 /\ HeaderSize = 23
  BY <1>12, <1>15 DEF HeaderSize
<1>27. /\ ~(Len(buf) < HeaderSize \/ Len(buf) < total_frame_size(read_u32_be(buf, 0)))
       /\ ~(Len(buf) < (HeaderSize + LengthOf(read_u32_be(buf, 0))) + 4)
       /\ ~(Len(buf) < total_size(buf))
       /\ HeaderSize + LengthOf(read_u32_be(buf, 0)) = n /\ HeaderSize + 1 = 24
  <2>1. total_frame_size(read_u32_be(buf, 0)) = HeaderSize + LengthOf(read_u32_be(buf, 0)) + 4
    BY <1>6, <1>16, SumDoesNotWrap
  <2>2. HeaderSize + LengthOf(read_u32_be(buf, 0)) = n /\ n >= 23 /\ n \in Nat
    BY <1>5, <1>6, <1>16, <1>26 DEF n
  <2> QED
    BY <2>1, <2>2, <1>26 DEF total_size
<1>28. deserialize(buf) =
         [result |-> "message", type |-> read_u16_be(buf, 4), flags |-> buf[7],
          agent_id |-> read_u32_be(buf, 7), header_id |-> read_u32_be(buf, 11),
          timestamp |-> read_u64_be(buf, 15), payload |-> SubSeq(buf, 24, n)]
  BY <1>25, <1>27, Zenon DEF deserialize
<1>29. readFrame(buf) = Message(m)
  <2>1. deserialize(buf) = Message(m)
    BY <1>17, <1>18, <1>19, <1>20, <1>21, <1>22, <1>28, Zenon DEF Message, c, payload
  <2> QED
    BY <2>1, <1>27, Zenon DEF readFrame
<1>30. buf # <<>>
  BY <1>11, <1>26
<1> QED
  BY <1>1, <1>29, <1>30

\* The header and the payload of m, in front of the CRC.
FramedOf(m) ==
    LET payload == SerializePayload(m.type, m.body)
    IN  Framed(OfLength(Len(payload)), MessageType(m.type), m.flags, m.agent_id, m.header_id,
               m.timestamp, payload)

\* The frame of m: n bytes, and their CRC behind them.
Frame(m, n) ==
    /\ n \in Nat /\ n >= 23
    /\ FramedOf(m) \in Seq(Bytes) /\ Len(FramedOf(m)) = n
    /\ serialize(m) \in Seq(Bytes) /\ Len(serialize(m)) = n + 4
    /\ \A i \in 1..n : serialize(m)[i] = FramedOf(m)[i]
    /\ read_u32_be(serialize(m), n) = compute_crc32(FramedOf(m))

\* Every message has one.
LEMMA FrameExists ==
    ASSUME NEW m \in Messages
    PROVE  \E n : Frame(m, n)
<1> DEFINE payload == SerializePayload(m.type, m.body)
           f == FramedOf(m)
           crc == compute_crc32(f)
           t == write_u32_be(crc)
           n == 23 + Len(payload)
<1>1. m.flags \in Bytes
  BY MessagesAssumption DEF Bytes
<1>2. payload \in Seq(Bytes)
  BY PayloadReadable DEF Readable
<1>3. serialize(m) = f \o t
  BY DEF serialize, FramedOf, Framed
<1>4. Parts(f, OfLength(Len(payload)), MessageType(m.type), m.flags, m.agent_id,
            m.header_id, m.timestamp, payload)
  <2> DEFINE l == OfLength(Len(payload))
             c == MessageType(m.type)
  <2>1. f = Framed(l, c, m.flags, m.agent_id, m.header_id, m.timestamp, payload)
    BY DEF FramedOf
  <2> HIDE DEF f, l, c, payload
  <2>2. Parts(f, l, c, m.flags, m.agent_id, m.header_id, m.timestamp, payload)
    BY <1>1, <1>2, <2>1, FramedParts, Zenon
  <2> QED
    BY <2>2 DEF l, c
<1> HIDE DEF f, payload
<1>5. f \in Seq(Bytes) /\ Len(f) = n
  BY <1>4 DEF Parts
<1>6. n \in Nat /\ n >= 23
  BY <1>2, LenProperties
<1>7. crc \in SUBSET Bits(32)
  BY CrcIsWord
<1>8. t \in Seq(Bytes) /\ Len(t) = 4
  BY WordBytes
<1> HIDE DEF n, crc
<1>9. /\ f \o t \in Seq(Bytes) /\ Len(f \o t) = n + 4
      /\ \A i \in 1..n : (f \o t)[i] = f[i]
  <2> HIDE DEF t
  <2>1. /\ f \o t \in Seq(Bytes) /\ Len(f \o t) = Len(f) + Len(t)
        /\ \A i \in 1..Len(f) : (f \o t)[i] = f[i]
    <3>1. f \in Seq(Bytes) /\ t \in Seq(Bytes)
      BY <1>5, <1>8
    <3> QED
      BY <3>1, Behind, Zenon
  <2> QED
    BY <1>5, <1>8, <2>1
<1>10. At(f \o t, n, t)
  <2> HIDE DEF t
  <2> QED
    BY <1>5, <1>8, Written
<1>11. read_u32_be(f \o t, n) = crc
  BY <1>6, <1>7, <1>10, ReadU32
<1> HIDE DEF t
<1>12. Frame(m, n)
  BY <1>3, <1>5, <1>6, <1>9, <1>11 DEF Frame, f, crc
<1> QED
  BY <1>12

\* The first n bytes of a buffer.
LEMMA Prefix ==
    ASSUME NEW q \in Seq(Bytes), NEW n \in Nat, n <= Len(q)
    PROVE  /\ SubSeq(q, 1, n) \in Seq(Bytes) /\ Len(SubSeq(q, 1, n)) = n
           /\ \A i \in 1..n : SubSeq(q, 1, n)[i] = q[i]
<1>1. Len(q) \in Nat /\ \A i \in 1..n : i \in 1..Len(q)
  BY LenProperties
<1>2. \A i \in 1..n : q[i] \in Bytes
  BY <1>1, ElementOfSeq
<1>3. SubSeq(q, 1, n) = [i \in 1..n |-> q[i]]
  <2>1. SubSeq(q, 1, n) = [i \in 1..((n - 1) + 1) |-> q[i + 1 - 1]]
    OBVIOUS
  <2>2. (n - 1) + 1 = n /\ \A i \in 1..n : i + 1 - 1 = i
    OBVIOUS
  <2> QED
    BY <2>1, <2>2
<1> DEFINE p == [i \in 1..n |-> q[i]]
<1>4. p \in [1..n -> Bytes]
  BY <1>2
<1>5. p \in Seq(Bytes) /\ Len(p) = n
  BY <1>4
<1>6. \A i \in 1..n : p[i] = q[i]
  OBVIOUS
<1> QED
  BY <1>3, <1>5, <1>6

-----------------------------------------------------------------------------
(* Damage.                                                                  *)

\* q is p with at most four consecutive bytes changed, and one at least.
Burst(q, p) ==
    /\ q \in Seq(Bytes) /\ Len(q) = Len(p) /\ q # p
    /\ \E k \in Nat : /\ k + 4 <= Len(p)
                      /\ \A i \in 1..Len(p) : p[i] # q[i] => i \in (k + 1)..(k + 4)

\* Damage changes a frame so.
LEMMA DamageIsBurst ==
    ASSUME NEW p \in Seq(Bytes), Len(p) >= 4, NEW d \in Damages, NEW at \in 0..Len(p),
           at + Len(d) <= Len(p), NEW q,
           q = [i \in DOMAIN p |-> IF i - at \in DOMAIN d THEN Xor(p[i], d[i - at]) ELSE p[i]]
    PROVE  Burst(q, p)
<1> DEFINE L == Len(p)
<1>1. L \in Nat /\ DOMAIN p = 1..L /\ \A i \in 1..L : p[i] \in Bytes
  BY LenProperties, ElementOfSeq
<1>2. d \in Seq(Bytes) /\ Len(d) <= 4 /\ \E j \in 1..Len(d) : d[j] # {}
  BY DamagesAssumption DEF Bytes
<1>3. Len(d) \in Nat /\ DOMAIN d = 1..Len(d) /\ \A j \in 1..Len(d) : d[j] \in Bytes
  BY <1>2, LenProperties, ElementOfSeq
<1>4. \A i \in 1..L : q[i] = IF i - at \in 1..Len(d) THEN Xor(p[i], d[i - at]) ELSE p[i]
  BY <1>1, <1>3
<1>5. \A b, c \in Bytes : Xor(b, c) \in Bytes
  BY DEF Xor, Bytes
<1>6. q \in Seq(Bytes) /\ Len(q) = L
  <2>1. \A i \in 1..L : q[i] \in Bytes
    BY <1>1, <1>3, <1>4, <1>5
  <2>2. q = [i \in 1..L |-> q[i]]
    BY <1>1
  <2>3. q \in [1..L -> Bytes]
    BY <2>1, <2>2
  <2> QED
    BY <1>1, <2>3
<1>7. q # p
  <2>1. PICK j \in 1..Len(d) : d[j] # {}
    BY <1>2
  <2>2. at + j \in 1..L /\ (at + j) - at = j
    BY <1>1, <1>3
  <2>3. q[at + j] = Xor(p[at + j], d[j])
    BY <1>4, <2>2
  <2>4. Xor(p[at + j], d[j]) # p[at + j]
    BY <2>1 DEF Xor
  <2> QED
    BY <2>3, <2>4
<1>8. \A i \in 1..L : p[i] # q[i] => i \in (at + 1)..(at + 4)
  <2> SUFFICES ASSUME NEW i \in 1..L, p[i] # q[i] PROVE i \in (at + 1)..(at + 4)
    OBVIOUS
  <2>1. i - at \in 1..Len(d)
    BY <1>4
  <2> QED
    BY <1>2, <1>3, <2>1
<1> DEFINE k == IF at + 4 <= L THEN at ELSE L - 4
<1>9. k \in Nat /\ k + 4 <= L
  BY <1>1
<1>10. \A i \in 1..L : i \in (at + 1)..(at + 4) => i \in (k + 1)..(k + 4)
  BY <1>1
<1> HIDE DEF k
<1>11. \A i \in 1..L : p[i] # q[i] => i \in (k + 1)..(k + 4)
  BY <1>8, <1>10
<1> QED
  BY <1>6, <1>7, <1>9, <1>11 DEF Burst

\* Which bits of a word are which of its bytes'.
Made(w, b1, b2, b3, b4) ==
    \A e \in 0..7 : /\ e + 24 \in w <=> e \in b1
                    /\ e + 16 \in w <=> e \in b2
                    /\ e + 8 \in w <=> e \in b3
                    /\ e \in w <=> e \in b4

\* Those of a word put together from four bytes.
LEMMA WordIsMade ==
    ASSUME NEW b1 \in SUBSET (0..7), NEW b2 \in SUBSET (0..7),
           NEW b3 \in SUBSET (0..7), NEW b4 \in SUBSET (0..7)
    PROVE  Made(Left(b1, 24) \union Left(b2, 16) \union Left(b3, 8) \union b4, b1, b2, b3, b4)
<1> DEFINE w == Left(b1, 24) \union Left(b2, 16) \union Left(b3, 8) \union b4
<1>1. \A e \in w : \/ \E b \in b1 : e = b + 24
                   \/ \E b \in b2 : e = b + 16
                   \/ \E b \in b3 : e = b + 8
                   \/ e \in b4
  BY DEF Left
<1>2. /\ \A b \in b1 : b + 24 \in w
      /\ \A b \in b2 : b + 16 \in w
      /\ \A b \in b3 : b + 8 \in w
      /\ \A b \in b4 : b \in w
  BY DEF Left
<1> HIDE DEF w
<1>3. /\ \A b \in b1 : b \in 0..7
      /\ \A b \in b2 : b \in 0..7
      /\ \A b \in b3 : b \in 0..7
      /\ \A b \in b4 : b \in 0..7
  OBVIOUS
<1>4. ASSUME NEW e \in 0..7, e + 24 \in w PROVE e \in b1
  BY <1>1, <1>3, <1>4
<1>5. ASSUME NEW e \in 0..7, e + 16 \in w PROVE e \in b2
  BY <1>1, <1>3, <1>5
<1>6. ASSUME NEW e \in 0..7, e + 8 \in w PROVE e \in b3
  BY <1>1, <1>3, <1>6
<1>7. ASSUME NEW e \in 0..7, e \in w PROVE e \in b4
  BY <1>1, <1>3, <1>7
<1>8. Made(w, b1, b2, b3, b4)
  BY <1>2, <1>4, <1>5, <1>6, <1>7 DEF Made
<1> QED
  BY <1>8 DEF w

\* The words of four bytes are told apart by each of them.
LEMMA WordsDiffer ==
    ASSUME NEW p \in Seq(Bytes), NEW q \in Seq(Bytes), NEW n \in Nat,
           n + 4 <= Len(p), n + 4 <= Len(q), read_u32_be(p, n) = read_u32_be(q, n)
    PROVE  \A i \in (n + 1)..(n + 4) : p[i] = q[i]
<1> DEFINE word(b) == Left(b[n + 1], 24) \union Left(b[n + 2], 16) \union Left(b[n + 3], 8)
                          \union b[n + 4]
<1>1. word(p) = word(q)
  BY DEF read_u32_be
<1>2. Len(p) \in Nat /\ Len(q) \in Nat
  BY LenProperties
<1>3. \A i \in (n + 1)..(n + 4) : i \in 1..Len(p) /\ i \in 1..Len(q)
  BY <1>2
<1>4. \A i \in (n + 1)..(n + 4) : p[i] \in SUBSET (0..7) /\ q[i] \in SUBSET (0..7)
  BY <1>3, ElementOfSeq, ByteIsNaturals
<1>5. n + 1 \in (n + 1)..(n + 4) /\ n + 2 \in (n + 1)..(n + 4)
      /\ n + 3 \in (n + 1)..(n + 4) /\ n + 4 \in (n + 1)..(n + 4)
  OBVIOUS
<1>6. /\ p[n + 1] = q[n + 1] /\ p[n + 2] = q[n + 2]
      /\ p[n + 3] = q[n + 3] /\ p[n + 4] = q[n + 4]
  <2> DEFINE w == word(p)
             Is(b) == Made(w, b[n + 1], b[n + 2], b[n + 3], b[n + 4])
  <2>1. Made(word(p), p[n + 1], p[n + 2], p[n + 3], p[n + 4])
    BY <1>4, <1>5, WordIsMade
  <2>2. Made(word(q), q[n + 1], q[n + 2], q[n + 3], q[n + 4])
    BY <1>4, <1>5, WordIsMade
  <2>3. Is(p) /\ Is(q)
    BY <1>1, <2>1, <2>2
  <2> HIDE DEF w
  <2>4. \A e \in 0..7 : /\ e \in p[n + 1] <=> e \in q[n + 1]
                        /\ e \in p[n + 2] <=> e \in q[n + 2]
                        /\ e \in p[n + 3] <=> e \in q[n + 3]
                        /\ e \in p[n + 4] <=> e \in q[n + 4]
    BY <2>3 DEF Made
  <2>5. \A a, b \in SUBSET (0..7) : (\A e \in 0..7 : e \in a <=> e \in b) => a = b
    OBVIOUS
  <2> QED
    BY <1>4, <1>5, <2>4, <2>5
<1>7. \A i \in (n + 1)..(n + 4) : i = n + 1 \/ i = n + 2 \/ i = n + 3 \/ i = n + 4
  OBVIOUS
<1> QED
  BY <1>6, <1>7

\* The length read from four bytes is a number.
LEMMA LengthIsNumber == \A v : LengthOf(v) \in Int
<1> SUFFICES ASSUME NEW v PROVE LengthOf(v) \in Int
  OBVIOUS
<1>1. CASE v \subseteq Bits(16)
  <2>1. PICK s \in Sums(v, 16) : LengthOf(v) = s[16]
    BY <1>1, LengthIsSum
  <2>2. s[16] \in Int
    BY <2>1 DEF Sums
  <2> QED
    BY <2>1, <2>2
<1>2. CASE ~(v \subseteq Bits(16))
  <2>1. LengthOf(v) = MaxLength
    BY <1>2, Zenon DEF LengthOf
  <2> QED
    BY <2>1 DEF MaxLength
<1> QED
  BY <1>1, <1>2

\* The frame q that arrives for m states no smaller length than m's, and it was changed in
\* front of the CRC or in the CRC, not in both.
Detectable(q, m) ==
    LET n == Len(serialize(m)) - 4
    IN  /\ HeaderSize + LengthOf(read_u32_be(q, 0)) >= n
        /\ \/ \A i \in 1..n : q[i] = serialize(m)[i]
           \/ \A i \in (n + 1)..(n + 4) : q[i] = serialize(m)[i]

\* The receiver does not take such a frame for a message: the reader waits for more bytes,
\* or the CRC differs.
LEMMA BurstIsNoMessage ==
    ASSUME NEW m \in Messages, NEW q, Burst(q, serialize(m)), Detectable(q, m)
    PROVE  readFrame(q).result \notin {"message", "overrun"}
<1>1. PICK n : Frame(m, n)
  BY FrameExists
<1> DEFINE p == serialize(m)
           f == FramedOf(m)
           l == LengthOf(read_u32_be(q, 0))
           g == SubSeq(q, 1, n)
<1>2. /\ n \in Nat /\ n >= 23 /\ f \in Seq(Bytes) /\ Len(f) = n
      /\ p \in Seq(Bytes) /\ Len(p) = n + 4
      /\ \A i \in 1..n : p[i] = f[i]
      /\ read_u32_be(p, n) = compute_crc32(f)
  BY <1>1 DEF Frame
<1>3. /\ q \in Seq(Bytes) /\ Len(q) = n + 4 /\ q # p
      /\ \E k \in Nat : /\ k + 4 <= Len(p)
                        /\ \A i \in 1..Len(p) : p[i] # q[i] => i \in (k + 1)..(k + 4)
  BY <1>2 DEF Burst
<1>4. l \in Int /\ HeaderSize = 23
  BY LengthIsNumber DEF HeaderSize
<1>5. /\ 23 + l >= n
      /\ (\A i \in 1..n : q[i] = p[i]) \/ (\A i \in (n + 1)..(n + 4) : q[i] = p[i])
  <2>1. Len(p) - 4 = n
    BY <1>2
  <2> QED
    BY <2>1, <1>4 DEF Detectable
<1>6. g \in Seq(Bytes) /\ Len(g) = n /\ \A i \in 1..n : g[i] = q[i]
  <2>1. n <= Len(q)
    BY <1>2, <1>3
  <2> QED
    BY <2>1, <1>2, <1>3, Prefix
<1>7. \E i \in 1..(n + 4) : q[i] # p[i]
  BY <1>2, <1>3, SeqEqual
<1>8. \A i \in 1..(n + 4) : i \in 1..n \/ i \in (n + 1)..(n + 4)
  BY <1>2
<1> HIDE DEF p, f, l, g
<1>9. read_u32_be(q, n) # compute_crc32(g)
  <2>1. CASE \A i \in 1..n : q[i] = p[i]
    <3>1. g = f
      BY <1>2, <1>6, <2>1, SeqEqual
    <3>2. \E i \in (n + 1)..(n + 4) : q[i] # p[i]
      BY <1>7, <1>8, <2>1
    <3>3. n + 4 <= Len(p) /\ n + 4 <= Len(q)
      BY <1>2, <1>3
    <3>4. read_u32_be(q, n) # read_u32_be(p, n)
      BY <1>2, <1>3, <3>2, <3>3, WordsDiffer
    <3> QED
      BY <1>2, <3>1, <3>4
  <2>2. CASE \A i \in (n + 1)..(n + 4) : q[i] = p[i]
    <3>1. read_u32_be(q, n) = read_u32_be(p, n)
      <4>1. n + 1 \in (n + 1)..(n + 4) /\ n + 2 \in (n + 1)..(n + 4)
            /\ n + 3 \in (n + 1)..(n + 4) /\ n + 4 \in (n + 1)..(n + 4)
        BY <1>2
      <4>2. /\ q[n + 1] = p[n + 1] /\ q[n + 2] = p[n + 2]
            /\ q[n + 3] = p[n + 3] /\ q[n + 4] = p[n + 4]
        BY <2>2, <4>1
      <4> QED
        BY <4>2 DEF read_u32_be
    <3>2. \E i \in 1..n : q[i] # p[i]
      BY <1>7, <1>8, <2>2
    <3>3. f # g
      BY <1>2, <1>6, <3>2
    <3>4. PICK k \in Nat : /\ k + 4 <= n + 4
                           /\ \A i \in 1..(n + 4) : p[i] # q[i] => i \in (k + 1)..(k + 4)
      BY <1>2, <1>3
    <3> DEFINE j == IF k + 4 <= n THEN k ELSE n - 4
    <3>5. j \in Nat /\ j + 4 <= n
      BY <1>2
    <3>6. \A i \in 1..n : i \in 1..(n + 4) /\ (i \in (k + 1)..(k + 4) => i \in (j + 1)..(j + 4))
      BY <1>2, <3>4
    <3> HIDE DEF j
    <3>7. \A i \in 1..n : f[i] # g[i] => i \in (j + 1)..(j + 4)
      BY <1>2, <1>6, <3>4, <3>6
    <3>8. compute_crc32(f) # compute_crc32(g)
      <4>1. Len(f) = Len(g) /\ j + 4 <= Len(f)
            /\ \A i \in 1..Len(f) : f[i] # g[i] => i \in (j + 1)..(j + 4)
        BY <1>2, <1>6, <3>5, <3>7
      <4> QED
        BY <4>1, <1>2, <1>6, <3>3, <3>5, BurstChangesCrc
    <3> QED
      BY <1>2, <3>1, <3>8
  <2> QED
    BY <1>5, <2>1, <2>2
<1>10. CASE 23 + l = n
  <2>1. ~crcMatches(q, HeaderSize + l)
    BY <1>4, <1>9, <1>10 DEF crcMatches, g
  <2>2. ~(Len(q) < (HeaderSize + l) + 4) /\ ~(Len(q) < total_size(q))
    BY <1>2, <1>3, <1>4, <1>10 DEF total_size, l
  <2>3. deserialize(q).result \in {"incomplete", "mismatch"}
    BY <2>1, <2>2 DEF deserialize, l
  <2>4. readFrame(q) = deserialize(q)
    BY <2>2, Zenon DEF readFrame
  <2> QED
    BY <2>3, <2>4
<1>11. CASE 23 + l # n
  <2>1. Len(q) < (HeaderSize + l) + 4
    BY <1>2, <1>3, <1>4, <1>5, <1>11
  <2>2. Len(q) < total_size(q)
    BY <2>1 DEF total_size, l
  <2>3. readFrame(q) = [result |-> "waiting"]
    BY <2>2, Zenon DEF readFrame
  <2> QED
    BY <2>3
<1> QED
  BY <1>10, <1>11

-----------------------------------------------------------------------------
(* The message on its way.                                                  *)

\* The frame is the one sent, or the one sent with at most four consecutive bytes changed
\* when it was damaged; what was received is what the reader makes of it.
Delivered ==
    /\ msg \in Messages
    /\ damaged \in BOOLEAN
    /\ data = <<>> => received = Nothing /\ ~damaged
    /\ data # <<>> /\ ~damaged => data = serialize(msg)
    /\ damaged => Burst(data, serialize(msg))
    /\ received \in {Nothing, readFrame(data)}

\* Delivered is an invariant.
LEMMA DeliveredInductive ==
    /\ Init => Delivered
    /\ Delivered /\ [Next]_vars => Delivered'
<1>1. Init => Delivered
  BY DEF Init, Delivered
<1>2. Delivered /\ [Next]_vars => Delivered'
  <2> SUFFICES ASSUME Delivered, [Next]_vars PROVE Delivered'
    OBVIOUS
  <2>1. CASE Send
    <3>1. /\ msg' = msg /\ damaged' = damaged /\ received' = received
          /\ data = <<>> /\ data' = serialize(msg)
      BY <2>1 DEF Send
    <3>2. ~damaged /\ received = Nothing /\ msg \in Messages
      BY <3>1 DEF Delivered
    <3>3. serialize(msg) # <<>>
      BY <3>2, FrameIsRead
    <3> QED
      BY <3>1, <3>2, <3>3 DEF Delivered
  <2>2. CASE Receive
    BY <2>2 DEF Receive, Delivered
  <2>3. ASSUME NEW d \in Damages, NEW at \in 0..Len(data), Damage(d, at) PROVE Delivered'
    <3>1. /\ msg' = msg /\ received' = received /\ damaged' = TRUE
          /\ data # <<>> /\ ~damaged /\ received = Nothing /\ at + Len(d) <= Len(data)
          /\ data' = [i \in DOMAIN data |-> IF i - at \in DOMAIN d
                                            THEN Xor(data[i], d[i - at]) ELSE data[i]]
      BY <2>3 DEF Damage
    <3>2. msg \in Messages /\ data = serialize(msg)
      BY <3>1 DEF Delivered
    <3>3. PICK n : Frame(msg, n)
      BY <3>2, FrameExists
    <3>4. data \in Seq(Bytes) /\ Len(data) >= 4
      BY <3>2, <3>3 DEF Frame
    <3>5. Burst(data', data)
      BY <3>1, <3>4, DamageIsBurst
    <3>6. data' # <<>>
      BY <3>4, <3>5 DEF Burst
    <3> QED
      BY <3>1, <3>2, <3>5, <3>6 DEF Delivered
  <2>4. CASE UNCHANGED vars
    BY <2>4 DEF vars, Delivered
  <2> QED
    BY <2>1, <2>2, <2>3, <2>4 DEF Next
<1> QED
  BY <1>1, <1>2

\* What an undamaged frame is read as says RoundTrip.
LEMMA ReadSaysRoundTrip ==
    ASSUME Delivered
    PROVE  RoundTrip
<1> SUFFICES ASSUME received # Nothing, ~damaged
             PROVE  /\ received.result = "message"
                    /\ received.type = MessageType(msg.type)
                    /\ received.flags = msg.flags
                    /\ received.agent_id = msg.agent_id
                    /\ received.header_id = msg.header_id
                    /\ received.timestamp = msg.timestamp
                    /\ DeserializePayload(msg.type, received.payload) = msg.body
  BY DEF RoundTrip
<1>1. msg \in Messages /\ received = readFrame(serialize(msg))
  BY DEF Delivered
<1>2. received = Message(msg)
  BY <1>1, FrameIsRead
<1>3. DeserializePayload(msg.type, SerializePayload(msg.type, msg.body)) = msg.body
  BY <1>1, PayloadReadable DEF Readable
<1> QED
  BY <1>2, <1>3 DEF Message

\* RoundTrip for every message the payloads can hold, not only those a run enumerates:
\* serialize and deserialize, which state the layout of header, payloads and CRC twice,
\* agree on it.
THEOREM MessagesRoundTrip == Spec => []RoundTrip
<1>1. Delivered => RoundTrip
  BY ReadSaysRoundTrip
<1> QED
  BY <1>1, DeliveredInductive, PTL DEF Spec

\* The CRC behind an undamaged frame is the standard one of the bytes in front of it.
LEMMA SentCrcIsStandard ==
    ASSUME Delivered
    PROVE  CrcIsStandard
<1> SUFFICES ASSUME data # <<>>, ~damaged
             PROVE  LET framed == SubSeq(data, 1, Len(data) - 4)
                    IN  read_u32_be(data, Len(framed)) = StandardCrc32(framed)
  BY DEF CrcIsStandard
<1>1. msg \in Messages /\ data = serialize(msg)
  BY DEF Delivered
<1>2. PICK n : Frame(msg, n)
  BY <1>1, FrameExists
<1> DEFINE f == FramedOf(msg)
           g == SubSeq(data, 1, n)
<1>3. /\ n \in Nat /\ f \in Seq(Bytes) /\ Len(f) = n
      /\ data \in Seq(Bytes) /\ Len(data) = n + 4
      /\ \A i \in 1..n : data[i] = f[i]
      /\ read_u32_be(data, n) = compute_crc32(f)
  BY <1>1, <1>2 DEF Frame
<1>4. n <= Len(data) /\ Len(data) - 4 = n
  BY <1>3
<1>5. g \in Seq(Bytes) /\ Len(g) = n /\ \A i \in 1..n : g[i] = data[i]
  BY <1>3, <1>4, Prefix
<1> HIDE DEF f, g
<1>6. g = f
  BY <1>3, <1>5, SeqEqual
<1>7. compute_crc32(f) = StandardCrc32(f)
  BY <1>3, CrcOfBytes
<1>8. read_u32_be(data, Len(g)) = StandardCrc32(g)
  BY <1>3, <1>5, <1>6, <1>7
<1> QED
  BY <1>4, <1>8 DEF g

\* Every frame carries the CRC-32 of the standards, whatever the message: compute_crc32's
\* shift register divides as the long division of polynomials does.
THEOREM CrcStaysStandard == Spec => []CrcIsStandard
<1>1. Delivered => CrcIsStandard
  BY SentCrcIsStandard
<1> QED
  BY <1>1, DeliveredInductive, PTL DEF Spec

\* No damage that Detectable describes makes the receiver take the frame for a message, or
\* read past its buffer.
BurstIsDetected ==
    damaged /\ Detectable(data, msg) => received.result \notin {"message", "overrun"}

\* DamageIsDetected where the CRC's arithmetic guarantees it, for every message: a burst of
\* up to 32 bits in front of the CRC or in it is noticed, wherever it is, as long as the
\* length it leaves in the header is not smaller than the payload's.  That includes the
\* lengths at which deserialize's 32-bit sum wraps: TcpComm's reader, whose sum does not,
\* does not call it then.
THEOREM BurstsAreDetected == Spec => []BurstIsDetected
<1>1. Delivered => BurstIsDetected
  <2> SUFFICES ASSUME Delivered, damaged, Detectable(data, msg)
               PROVE  received.result \notin {"message", "overrun"}
    BY DEF BurstIsDetected
  <2>1. msg \in Messages /\ Burst(data, serialize(msg))
    BY DEF Delivered
  <2>2. readFrame(data).result \notin {"message", "overrun"}
    BY <2>1, BurstIsNoMessage
  <2>3. Nothing.result \notin {"message", "overrun"}
    BY DEF Nothing
  <2> QED
    BY <2>2, <2>3 DEF Delivered
<1> QED
  BY <1>1, DeliveredInductive, PTL DEF Spec

=============================================================================
