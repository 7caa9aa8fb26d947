-------------------------------- MODULE Wire --------------------------------
(***************************************************************************)
(* The bytes of a message: ByteSerializer.hpp, the payloads' serialize and *)
(* deserialize, and BinaryMessageParser with its CRC.  A word is the set   *)
(* of its bits, so that shifts, masks and xor are the program's own at     *)
(* full width; a buffer is a sequence of bytes and offsets count from 0.   *)
(*                                                                         *)
(* One message is sent, perhaps damaged on the way, and received by        *)
(* TcpComm's reader, which may be left waiting for bytes of later ones.    *)
(***************************************************************************)
EXTENDS Naturals, Sequences

CONSTANTS
    Messages,   \* messages sent: type, flags, agent_id, header_id, timestamp, body
    Damages     \* damages: sequences of bytes to xor with a part of the frame

VARIABLES
    msg,        \* the message
    data,       \* its frame, empty before it is sent
    damaged,    \* the frame was damaged
    received    \* what the receiver made of it, Nothing before

vars == <<msg, data, damaged, received>>

Bits(n) == 0 .. (n - 1)

\* The bits of a length, and the length of its bits; lengths above MaxLength, which no
\* buffer here reaches, are not told apart.
MaxLength == 2 ^ 16
OfLength(n) == {b \in Bits(16) : (n \div (2 ^ b)) % 2 = 1}
LengthOf(v) ==
    LET sum[b \in 0..16] ==
            IF b = 0 THEN 0 ELSE sum[b - 1] + (IF b - 1 \in v THEN 2 ^ (b - 1) ELSE 0)
    IN  IF v \subseteq Bits(16) THEN sum[16] ELSE MaxLength

\* The payloads' fields.  A reason here is shorter than MaxLength.
U32               == SUBSET Bits(32)
HelloPayload      == [agent_id : U32, version : U32]
HeartbeatPayload  == [empty : {TRUE}]
StatePayload      == [mode : U32, load : U32, temp : U32, last_rc : U32]
AckPayload        == [cmd_id : U32]
NackPayload       == {p \in [cmd_id : U32, reason : Seq(SUBSET Bits(8))] :
                          Len(p.reason) + 4 < MaxLength}
CmdSetModePayload == [mode : U32]

\* The payload that goes with a type.
Payload(type) ==
    CASE type = "HELLO" -> HelloPayload
      [] type = "HEARTBEAT" -> HeartbeatPayload
      [] type = "STATE" -> StatePayload
      [] type = "ACK" -> AckPayload
      [] type = "NACK" -> NackPayload
      [] type = "CMD_SET_MODE" -> CmdSetModePayload

ASSUME MessagesAssumption ==
    \A m \in Messages :
        /\ m.type \in {"HELLO", "HEARTBEAT", "STATE", "ACK", "NACK", "CMD_SET_MODE"}
        /\ m.flags \in SUBSET Bits(8)
        /\ m.agent_id \in U32 /\ m.header_id \in U32
        /\ m.timestamp \in SUBSET Bits(64)
        /\ m.body \in Payload(m.type)

\* A damage changes at most four consecutive bytes, and one at least.
ASSUME DamagesAssumption ==
    \A d \in Damages :
        /\ d \in Seq(SUBSET Bits(8)) /\ Len(d) <= 4
        /\ \E i \in 1..Len(d) : d[i] # {}

-----------------------------------------------------------------------------
(* ByteSerializer.hpp.                                                      *)

Right(v, n) == {b - n : b \in {c \in v : c >= n}}
Left(v, n)  == {b + n : b \in v}
Byte(v)     == v \intersect Bits(8)
Xor(v, w)   == (v \ w) \union (w \ v)

write_u16_be(v) == <<Byte(Right(v, 8)), Byte(v)>>

write_u32_be(v) == <<Byte(Right(v, 24)), Byte(Right(v, 16)), Byte(Right(v, 8)), Byte(v)>>

write_u64_be(v) == write_u32_be(Right(v, 32)) \o write_u32_be(v \intersect Bits(32))

read_u16_be(buf, at) == Left(buf[at + 1], 8) \union buf[at + 2]

read_u32_be(buf, at) ==
    Left(buf[at + 1], 24) \union Left(buf[at + 2], 16) \union Left(buf[at + 3], 8)
        \union buf[at + 4]

\* A float is the set of the bits memcpy copies.
write_float_be(v) == write_u32_be(v)

read_float_be(buf, at) == read_u32_be(buf, at)

read_u64_be(buf, at) == Left(read_u32_be(buf, at), 32) \union read_u32_be(buf, at + 4)

-----------------------------------------------------------------------------
(* Payloads.  Floats and last_rc are their 32 bits; a reason is its bytes.   *)

Throws == [throws |-> TRUE]

HelloSerialize(p) == write_u32_be(p.agent_id) \o write_u32_be(p.version)

HelloDeserialize(buf) ==
    IF Len(buf) < 8
    THEN Throws
    ELSE [agent_id |-> read_u32_be(buf, 0), version |-> read_u32_be(buf, 4)]

HeartbeatSerialize(p) == <<>>

HeartbeatDeserialize(buf) == [empty |-> TRUE]

StateSerialize(p) ==
    write_u32_be(p.mode) \o write_float_be(p.load) \o write_float_be(p.temp)
        \o write_u32_be(p.last_rc)

StateDeserializeSwapped(buf) ==
    IF Len(buf) < 16
    THEN Throws
    ELSE [mode |-> read_u32_be(buf, 0), load |-> read_float_be(buf, 8),
          temp |-> read_float_be(buf, 4), last_rc |-> read_u32_be(buf, 12)]

StateDeserialize(buf) ==
    IF Len(buf) < 16
    THEN Throws
    ELSE [mode |-> read_u32_be(buf, 0), load |-> read_float_be(buf, 4),
          temp |-> read_float_be(buf, 8), last_rc |-> read_u32_be(buf, 12)]

AckSerialize(p) == write_u32_be(p.cmd_id)

AckDeserialize(buf) == IF Len(buf) < 4 THEN Throws ELSE [cmd_id |-> read_u32_be(buf, 0)]

NackSerialize(p) == write_u32_be(p.cmd_id) \o p.reason

\* Into a new object, whose reason is empty.
NackDeserialize(buf) ==
    IF Len(buf) < 4
    THEN Throws
    ELSE [cmd_id |-> read_u32_be(buf, 0), reason |-> SubSeq(buf, 5, Len(buf))]

CmdSetModeSerialize(p) == write_u32_be(p.mode)

CmdSetModeDeserialize(buf) == IF Len(buf) < 4 THEN Throws ELSE [mode |-> read_u32_be(buf, 0)]

\* enum MessageType, by the bits that are set.
MessageType(type) ==
    CASE type = "HELLO" -> {0}
      [] type = "HEARTBEAT" -> {1}
      [] type = "STATE" -> {0, 1}
      [] type = "CMD_SET_MODE" -> {0, 1, 12}
      [] type = "ACK" -> {0, 13}
      [] type = "NACK" -> {1, 13}

\* serialize() and deserialize() of the payload that goes with the type.
SerializePayload(type, p) ==
    CASE type = "HELLO" -> HelloSerialize(p)
      [] type = "HEARTBEAT" -> HeartbeatSerialize(p)
      [] type = "STATE" -> StateSerialize(p)
      [] type = "ACK" -> AckSerialize(p)
      [] type = "NACK" -> NackSerialize(p)
      [] type = "CMD_SET_MODE" -> CmdSetModeSerialize(p)

DeserializePayload(type, buf) ==
    CASE type = "HELLO" -> HelloDeserialize(buf)
      [] type = "HEARTBEAT" -> HeartbeatDeserialize(buf)
      [] type = "STATE" -> StateDeserialize(buf)
      [] type = "ACK" -> AckDeserialize(buf)
      [] type = "NACK" -> NackDeserialize(buf)
      [] type = "CMD_SET_MODE" -> CmdSetModeDeserialize(buf)

-----------------------------------------------------------------------------
(* compute_crc32.                                                           *)

\* 0xEDB88320.
Polynomial == {31, 30, 29, 27, 26, 24, 23, 21, 20, 19, 15, 9, 8, 5}

CrcShiftWithoutPolynomial(crc) == Right(crc, 1)

CrcShift(crc) == IF 0 \in crc THEN Xor(Right(crc, 1), Polynomial) ELSE Right(crc, 1)

\* The inner loop: eight shifts.
CrcByte ==
    LET twice(crc)    == CrcShift(CrcShift(crc))
        fourfold(crc) == twice(twice(crc))
    IN  [crc \in SUBSET Bits(32) |-> fourfold(fourfold(crc))]

compute_crc32(buf) ==
    LET crc[i \in 0..Len(buf)] ==
            IF i = 0 THEN Bits(32) ELSE CrcByte[Xor(crc[i - 1], buf[i])]
    IN  Bits(32) \ crc[Len(buf)]

-----------------------------------------------------------------------------
(* BinaryMessageParser.                                                     *)

\* Header::size().
HeaderSize == 4 + 2 + 1 + 4 + 4 + 8

\* serialize(); the callers have set payload_len to the payload's size.
serialize(m) ==
    LET payload == SerializePayload(m.type, m.body)
        framed  == write_u32_be(OfLength(Len(payload)))
                       \o write_u16_be(MessageType(m.type)) \o <<m.flags>>
                       \o write_u32_be(m.agent_id) \o write_u32_be(m.header_id)
                       \o write_u64_be(m.timestamp) \o payload
    IN  framed \o write_u32_be(compute_crc32(framed))

Nothing == [result |-> "none"]

crcMatchesAlways(buf, n) == TRUE

\* The CRC of the first n bytes equals the word behind them.
crcMatches(buf, n) == read_u32_be(buf, n) = compute_crc32(SubSeq(buf, 1, n))

\* The uint32_t sum Header::size() + payload_len + 4, for the payload_len of bits v.  It
\* wraps for the 27 largest: those with the bits 5..31, and 5 or more in the lower ones.
total_frame_size(v) ==
    LET low == LengthOf(v \intersect Bits(5))
    IN  IF 5..31 \subseteq v /\ low >= 5 THEN low - 5 ELSE HeaderSize + LengthOf(v) + 4

\* deserialize(): nullptr while the buffer is shorter than the frame, an exception when
\* the CRC differs, or a message.  type stays as its code.  After a sum that wrapped it
\* reads payload_len bytes from a shorter buffer, which is undefined.
deserialize(buf) ==
    LET payload_len == LengthOf(read_u32_be(buf, 0))
        body_end    == HeaderSize + payload_len
    IN  IF Len(buf) < HeaderSize \/ Len(buf) < total_frame_size(read_u32_be(buf, 0))
        THEN [result |-> "incomplete"]
        ELSE IF Len(buf) < body_end + 4 THEN [result |-> "overrun"]
        ELSE IF ~crcMatches(buf, body_end) THEN [result |-> "mismatch"]
        ELSE [result |-> "message", type |-> read_u16_be(buf, 4), flags |-> buf[7],
              agent_id |-> read_u32_be(buf, 7), header_id |-> read_u32_be(buf, 11),
              timestamp |-> read_u64_be(buf, 15),
              payload |-> SubSeq(buf, HeaderSize + 1, body_end)]

\* The size_t sum of the same numbers, which does not wrap.
total_size(buf) == HeaderSize + LengthOf(read_u32_be(buf, 0)) + 4

\* TcpComm's reader: the parser is called once total_size bytes are there.
readFrame(buf) == IF Len(buf) < total_size(buf) THEN [result |-> "waiting"] ELSE deserialize(buf)

-----------------------------------------------------------------------------

Init ==
    /\ msg \in Messages
    /\ data = <<>>
    /\ damaged = FALSE
    /\ received = Nothing

Send ==
    /\ data = <<>>
    /\ data' = serialize(msg)
    /\ UNCHANGED <<msg, damaged, received>>

\* Some consecutive bytes change on the way.
Damage(d, at) ==
    /\ data # <<>> /\ ~damaged /\ received = Nothing
    /\ at + Len(d) <= Len(data)
    /\ data' = [i \in DOMAIN data |-> IF i - at \in DOMAIN d THEN Xor(data[i], d[i - at]) ELSE data[i]]
    /\ damaged' = TRUE
    /\ UNCHANGED <<msg, received>>

Receive ==
    /\ data # <<>> /\ received = Nothing
    /\ received' = readFrame(data)
    /\ UNCHANGED <<msg, data, damaged>>

Next ==
    \/ Send \/ Receive
    \/ \E d \in Damages : \E at \in 0..Len(data) : Damage(d, at)

Spec == Init /\ [][Next]_vars

-----------------------------------------------------------------------------
(* Properties.                                                              *)

\* Every field of every message arrives as it was sent, through both layers, although
\* sender and receiver state the layout separately (README.md, lines 34 and 35).
RoundTrip ==
    received # Nothing /\ ~damaged =>
        /\ received.result = "message"
        /\ received.type = MessageType(msg.type)
        /\ received.flags = msg.flags
        /\ received.agent_id = msg.agent_id
        /\ received.header_id = msg.header_id
        /\ received.timestamp = msg.timestamp
        /\ DeserializePayload(msg.type, received.payload) = msg.body

\* A frame that changed on the way is never taken for a message, wherever the change is,
\* and never makes deserialize read past its buffer: also a change of the length field,
\* when deserialize looks for the CRC in the wrong place, and when its sum of the sizes
\* wraps (MessageParserTest tampers with one byte of the CRC and one of the payload).
DamageIsDetected == damaged => received.result \notin {"message", "overrun"}

\* One step of a long division by g, of degree 32, of polynomials over the two-element
\* field as sets of exponents: the multiple of g that removes the exponent top from q.
Reduce(q, g, top) == IF top \in q THEN Xor(q, {e + top - 32 : e \in g}) ELSE q

\* The remainder of p, whose exponents are below 8 * n + 32; eight exponents at a time.
Remainder(p, g, n) ==
    LET two(q, top)  == Reduce(Reduce(q, g, top), g, top - 1)
        four(q, top) == two(two(q, top), top - 2)
        eight(top)   == [q \in SUBSET Nat |-> four(four(q, top), top - 4)]
        rest[i \in 0..n] == IF i = 0 THEN p ELSE eight(8 * (n - i) + 39)[rest[i - 1]]
    IN  rest[n]

\* The CRC-32 of the standards: the message's bits, lowest of each byte first, as the
\* coefficients of a polynomial; the first 32 complemented; the remainder complemented
\* and reflected.
StandardCrc32(buf) ==
    LET n == 8 * Len(buf)
        p == {n + 31 - k : k \in {j \in Bits(n) : (j % 8) \in buf[(j \div 8) + 1]}}
        r == Remainder(Xor(p, n..(n + 31)), {32} \union {31 - b : b \in Polynomial}, Len(buf))
    IN  Bits(32) \ {31 - e : e \in r}

\* compute_crc32's shift register computes the CRC-32 of the standards: a sender or a
\* receiver that takes the checksum from a library agrees with it.
CrcIsStandard ==
    data # <<>> /\ ~damaged =>
        LET framed == SubSeq(data, 1, Len(data) - 4)
        IN  read_u32_be(data, Len(framed)) = StandardCrc32(framed)

=============================================================================
