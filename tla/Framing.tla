------------------------------ MODULE Framing -------------------------------
(***************************************************************************)
(* Frames on a byte stream: a sender that reuses one message object (the   *)
(* msg_ members of Agent and AgentTcpSession), the connection, TcpComm's   *)
(* reader with its one buffer that grows and is never cleared, and the     *)
(* part of BinaryMessageParser::deserialize that decides which bytes of    *)
(* that buffer are the message.  A byte is <<frame, position>>, the place  *)
(* where it was written; Wire has the values.  Lengths are added in a      *)
(* size_t by the reader and cut to a uint32_t, modulo W, by the parser.    *)
(***************************************************************************)
EXTENDS Integers, Sequences, Functions

CONSTANTS
    HeaderSize, TrailerSize,    \* 23 and 4 in the program
    W,                          \* 2^32 in the program
    InitialBuffer,              \* 8192 in the program
    Sizes,                      \* sizes of payloads, below W; no sender here builds one that wraps
    MaxFrames                   \* bound: frames sent

ASSUME FramingAssumption ==
    /\ HeaderSize \in Nat \ {0} /\ TrailerSize \in Nat \ {0} /\ W \in Nat \ {0}
    /\ InitialBuffer \in Nat /\ HeaderSize <= InitialBuffer
    /\ Sizes \subseteq 0..(W - 1) /\ MaxFrames \in Nat

VARIABLES
    payload_len,    \* header.payload_len of the reused message
    sent,           \* per frame: the payload's size, the length its header states, damaged
    stream,         \* bytes sent and not yet read
    read_buffer,    \* read_buffer_
    reading,        \* "header", "body" or, after an error, "stopped"
    stated,         \* the length in the header that was read last
    total_size,     \* total_frame_size of the body read in progress
    parsed,         \* the bytes deserialize last took for header, payload and CRC
    delivered,      \* frames given to msg_handler_
    dropped,        \* frames read and silently left out
    threw           \* deserialize threw

vars == <<payload_len, sent, stream, read_buffer, reading, stated, total_size, parsed,
          delivered, dropped, threw>>

Outside == <<0, 0>>     \* what is beyond the bytes received: never written, or beyond the end

Init ==
    /\ payload_len = 0
    /\ sent = <<>> /\ stream = <<>>
    /\ read_buffer = [i \in 1..InitialBuffer |-> Outside]
    /\ reading = "header" /\ stated = 0 /\ total_size = 0
    /\ parsed = <<>> /\ delivered = <<>> /\ dropped = <<>>
    /\ threw = FALSE

-----------------------------------------------------------------------------
(* The sender.                                                              *)

LengthKept(size) == IF payload_len = 0 THEN size ELSE payload_len

\* header.payload_len is set to the payload's size before each send.
Length(size) == size

\* serialize(): the header with payload_len, the payload with its own size, the CRC.
Send(size) ==
    /\ Len(sent) < MaxFrames
    /\ payload_len' = Length(size)
    /\ sent' = Append(sent, [size |-> size, len |-> payload_len', damaged |-> FALSE])
    /\ stream' = stream \o [i \in 1..(HeaderSize + size + TrailerSize) |-> <<Len(sent'), i>>]
    /\ UNCHANGED <<read_buffer, reading, stated, total_size, parsed, delivered, dropped, threw>>

\* A frame changes before it is read, perhaps in its length.
Damage(f, len) ==
    /\ ~sent[f].damaged
    /\ <<f, 1>> \in Range(stream)
    /\ sent' = [sent EXCEPT ![f].damaged = TRUE, ![f].len = len]
    /\ UNCHANGED <<payload_len, stream, read_buffer, reading, stated, total_size, parsed,
                   delivered, dropped, threw>>

-----------------------------------------------------------------------------
(* The reader.                                                              *)

TotalSizeOneMore(len) == HeaderSize + len + TrailerSize + 1

TotalSizeWithoutTrailer(len) == HeaderSize + len

\* readHeader's total_size, a size_t.
TotalSize(len) == HeaderSize + len + TrailerSize

\* async_read of the next n bytes into read_buffer_, behind the first at.
Filled(at, n) ==
    [i \in DOMAIN read_buffer |-> IF i - at \in 1..n THEN stream[i - at] ELSE read_buffer[i]]

\* read_buffer_.resize when it is too small: the bytes it has stay.
Resized(buffer, n) ==
    [i \in 1..(IF n > Len(buffer) THEN n ELSE Len(buffer)) |->
        IF i \in DOMAIN buffer THEN buffer[i] ELSE Outside]

\* readHeader's completion, to the start of the body read.  The length is in the frame's
\* first bytes; bytes from elsewhere may state any.
HeaderRead(len) ==
    /\ reading = "header" /\ HeaderSize <= Len(stream)
    /\ stream[1][2] = 1 => len = sent[stream[1][1]].len
    /\ stated' = len
    /\ total_size' = TotalSize(len)
    /\ read_buffer' = Resized(Filled(0, HeaderSize), total_size')
    /\ stream' = SubSeq(stream, HeaderSize + 1, Len(stream))
    /\ reading' = "body"
    /\ UNCHANGED <<payload_len, sent, parsed, delivered, dropped, threw>>

\* The bytes deserialize takes for header, payload and CRC.
FrameIn(buffer) ==
    [i \in 1..(HeaderSize + stated + TrailerSize) |->
        IF i \in DOMAIN buffer THEN buffer[i] ELSE Outside]

AnyCrc(bytes) == TRUE

\* The CRC is the one of these bytes: a whole frame as it was sent, header and CRC included.
CrcMatches(bytes) ==
    LET f == bytes[1][1]
    IN  /\ bytes = [i \in 1..(HeaderSize + sent[f].size + TrailerSize) |-> <<f, i>>]
        /\ ~sent[f].damaged

\* readBody's completion: deserialize throws, or the message is handled when the bytes
\* consumed, the uint32_t total_frame_size, are those read, and left out when not.
BodyRead ==
    /\ reading = "body" /\ total_size - HeaderSize <= Len(stream)
    /\ read_buffer' = Filled(HeaderSize, total_size - HeaderSize)
    /\ stream' = SubSeq(stream, total_size - HeaderSize + 1, Len(stream))
    /\ parsed' = FrameIn(read_buffer')
    /\ LET f        == parsed'[1][1]
           consumed == (HeaderSize + stated + TrailerSize) % W
       IN  \/ /\ ~CrcMatches(parsed')
              /\ threw' = TRUE /\ reading' = "stopped"
              /\ UNCHANGED <<delivered, dropped>>
           \/ /\ CrcMatches(parsed') /\ consumed = total_size
              /\ delivered' = Append(delivered, f) /\ reading' = "header"
              /\ UNCHANGED <<dropped, threw>>
           \/ /\ CrcMatches(parsed') /\ consumed # total_size
              /\ dropped' = Append(dropped, f) /\ reading' = "header"
              /\ UNCHANGED <<delivered, threw>>
    /\ UNCHANGED <<payload_len, sent, stated, total_size>>

\* The connection fails or is closed, perhaps within a frame: the read fails.
ReadFails ==
    /\ reading # "stopped"
    /\ reading' = "stopped"
    /\ UNCHANGED <<payload_len, sent, stream, read_buffer, stated, total_size, parsed,
                   delivered, dropped, threw>>

Next ==
    \/ \E size \in Sizes : Send(size)
    \/ \E f \in DOMAIN sent, len \in 0..(W - 1) : Damage(f, len)
    \/ \E len \in 0..(W - 1) : HeaderRead(len)
    \/ BodyRead \/ ReadFails

Spec == Init /\ [][Next]_vars

-----------------------------------------------------------------------------
(* Properties.                                                              *)

\* What deserialize reads was received for this frame, or behind it when the length is
\* damaged: never the end of an earlier, longer frame still in read_buffer_, which is
\* not cleared, and never beyond its end, also when the parser's total_frame_size has
\* wrapped and its own size check says nothing.
NoStaleBytes ==
    \A i \in DOMAIN parsed : parsed[i] # Outside /\ parsed[i][1] >= parsed[1][1]

\* A header read starts at the first byte of a frame, whatever was refused or left out
\* before it.
InSync == reading = "header" /\ stream # <<>> => stream[1][2] = 1

\* deserialize throws, and the connection is lost, only when a frame was damaged: not
\* because a reused message has the length of its last payload.
RefusalMeansDamage == threw => \E f \in DOMAIN sent : sent[f].damaged

\* Every frame that was read is handled once and in order, except those whose size does
\* not fit the parser's uint32_t; nothing damaged is handled.
HandledInOrder ==
    /\ Range(delivered) = {f \in 1..(Len(delivered) + Len(dropped)) :
                               ~sent[f].damaged /\ TotalSize(sent[f].size) < W}
    /\ \A i, j \in DOMAIN delivered : i < j => delivered[i] < delivered[j]

=============================================================================
