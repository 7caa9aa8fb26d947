------------------------------ MODULE TcpComm ------------------------------
(***************************************************************************)
(* One TcpComm object (src/core/comm/TcpComm.cpp) on the single-threaded   *)
(* io_context both programs run.  The io_context is the FIFO queue ready   *)
(* of handlers: closures posted by the object's methods and completions of *)
(* its asynchronous reads and writes.  A handler runs to its end before    *)
(* the next one starts; methods may be called between any two handlers.    *)
(*                                                                         *)
(* Frames are named by the number of the send() call that produced them,   *)
(* so the wire shows which call every frame came from.                     *)
(***************************************************************************)
EXTENDS Naturals, Sequences

CONSTANTS
    MaxSends,     \* bound: send() calls
    MaxInbound,   \* bound: frames of the peer not yet read
    MaxReady      \* bound: methods are called only while ready is shorter

ASSUME BoundsAssumption == MaxSends \in Nat /\ MaxInbound \in Nat /\ MaxReady \in Nat

VARIABLES
    ready,             \* the io_context's queue of handlers
    open,              \* socket_.is_open()
    write_queue,       \* write_queue_
    writing,           \* number of async_writes outstanding
    reading,           \* the outstanding async_read: "header", "body" or "none"
    read_buffer,       \* what parsing the frame in read_buffer_ will do
    is_shutting_down,  \* is_shutting_down_
    inbound,           \* frames of the peer in the socket, not yet read
    peer,              \* "up", or "gone" once the peer closed or reset
    wire,              \* frames completely written, oldest first
    calls,             \* number of send() calls
    flush_after,       \* history: send() calls made before the first flush, or NoFlush
    read_errors,       \* history: err_handler_ calls made by the read chain
    write_errors       \* history: err_handler_ calls made by the write chain

readVars  == <<reading, read_buffer, read_errors>>
writeVars == <<write_queue, writing, write_errors>>
peerVars  == <<inbound, peer>>
vars == <<ready, open, write_queue, writing, reading, read_buffer, is_shutting_down,
          inbound, peer, wire, calls, flush_after, read_errors, write_errors>>

\* What deserialize and msg_handler_ do with a frame: the handler takes it, one of
\* them throws, or the parser's size disagrees with the reader's and it is dropped.
Parse == {"handled", "throws", "dropped"}
Ops   == {"send", "disconnect", "flush", "header", "body", "write"}
NoFlush == MaxSends + 1

Handler == [op : Ops, frame : Nat, ok : BOOLEAN]

Closure(op)        == [op |-> op, frame |-> 0, ok |-> TRUE]
SendClosure(n)     == [op |-> "send", frame |-> n, ok |-> TRUE]
Completion(op, ok) == [op |-> op, frame |-> 0, ok |-> ok]

Init ==
    /\ ready = <<>>
    /\ open = TRUE
    /\ write_queue = <<>>
    /\ writing = 0
    /\ reading = "header"
    /\ read_buffer = "handled"
    /\ is_shutting_down = FALSE
    /\ inbound = <<>>
    /\ peer = "up"
    /\ wire = <<>>
    /\ calls = 0
    /\ flush_after = NoFlush
    /\ read_errors = 0
    /\ write_errors = 0

-----------------------------------------------------------------------------
(* Methods.  Each posts a closure; asio::post never runs it inline.         *)

Send ==
    /\ calls < MaxSends
    /\ Len(ready) < MaxReady
    /\ calls' = calls + 1
    /\ ready' = Append(ready, SendClosure(calls + 1))
    /\ UNCHANGED <<open, readVars, writeVars, peerVars, is_shutting_down, wire, flush_after>>

Disconnect ==
    /\ Len(ready) < MaxReady
    /\ ready' = Append(ready, Closure("disconnect"))
    /\ UNCHANGED <<open, readVars, writeVars, peerVars, is_shutting_down, wire, calls, flush_after>>

FlushAndDisconnect ==
    /\ Len(ready) < MaxReady
    /\ ready' = Append(ready, Closure("flush"))
    /\ flush_after' = IF flush_after = NoFlush THEN calls ELSE flush_after
    /\ UNCHANGED <<open, readVars, writeVars, peerVars, is_shutting_down, wire, calls>>

-----------------------------------------------------------------------------
(* Asynchronous operations.  On a closed socket they fail at once; closing  *)
(* the socket fails the outstanding ones, the read before the write.        *)

\* writePump(): start writing the front of the queue.
WritePump(queue) ==
    IF open
    THEN writing' = writing + 1 /\ ready' = queue
    ELSE writing' = writing /\ ready' = Append(queue, Completion("write", FALSE))

\* readHeader() and readBody(): start reading the next part of a frame.
StartRead(part, queue) ==
    IF open
    THEN reading' = part /\ ready' = queue
    ELSE reading' = "none" /\ ready' = Append(queue, Completion(part, FALSE))

\* socket_.close(), which the code calls only after is_open().
Close(queue) ==
    /\ open' = FALSE
    /\ reading' = "none"
    /\ writing' = 0
    /\ ready' = queue \o (IF reading # "none" THEN <<Completion(reading, FALSE)>> ELSE <<>>)
                      \o [i \in 1..writing |-> Completion("write", FALSE)]

-----------------------------------------------------------------------------
(* Handlers.  Each consumes the head of ready.                              *)

RunSendAlwaysPumps ==
    /\ ready # <<>> /\ Head(ready).op = "send"
    /\ write_queue' = Append(write_queue, Head(ready).frame)
    /\ WritePump(Tail(ready))
    /\ UNCHANGED <<open, readVars, write_errors, peerVars, is_shutting_down, wire, calls, flush_after>>

\* The closure of send(): queue the frame, start the pump if it was idle.
RunSend ==
    /\ ready # <<>> /\ Head(ready).op = "send"
    /\ write_queue' = Append(write_queue, Head(ready).frame)
    /\ IF write_queue = <<>>
       THEN WritePump(Tail(ready))
       ELSE writing' = writing /\ ready' = Tail(ready)
    /\ UNCHANGED <<open, readVars, write_errors, peerVars, is_shutting_down, wire, calls, flush_after>>

RunDisconnect ==
    /\ ready # <<>> /\ Head(ready).op = "disconnect"
    /\ IF open
       THEN Close(Tail(ready))
       ELSE ready' = Tail(ready) /\ UNCHANGED <<open, reading, writing>>
    /\ UNCHANGED <<write_queue, read_buffer, read_errors, write_errors, peerVars,
                   is_shutting_down, wire, calls, flush_after>>

RunFlushAtOnce ==
    /\ ready # <<>> /\ Head(ready).op = "flush"
    /\ is_shutting_down' = TRUE
    /\ IF open
       THEN Close(Tail(ready))
       ELSE ready' = Tail(ready) /\ UNCHANGED <<open, reading, writing>>
    /\ UNCHANGED <<write_queue, read_buffer, read_errors, write_errors, peerVars,
                   wire, calls, flush_after>>

\* The closure of flushAndDisconnect(): close now if nothing is queued, otherwise
\* leave it to the write completion that empties the queue.
RunFlush ==
    /\ ready # <<>> /\ Head(ready).op = "flush"
    /\ is_shutting_down' = TRUE
    /\ IF write_queue = <<>> /\ open
       THEN Close(Tail(ready))
       ELSE ready' = Tail(ready) /\ UNCHANGED <<open, reading, writing>>
    /\ UNCHANGED <<write_queue, read_buffer, read_errors, write_errors, peerVars,
                   wire, calls, flush_after>>

RunWriteDoneStops ==
    /\ ready # <<>> /\ Head(ready).op = "write" /\ Head(ready).ok
    /\ write_queue' = IF write_queue # <<>> THEN Tail(write_queue) ELSE <<>>
    /\ IF write_queue' = <<>> /\ is_shutting_down /\ open
       THEN Close(Tail(ready))
       ELSE ready' = Tail(ready) /\ UNCHANGED <<open, reading, writing>>
    /\ UNCHANGED <<read_buffer, read_errors, write_errors, peerVars, is_shutting_down,
                   wire, calls, flush_after>>

RunWriteDoneKeepsFrame ==
    /\ ready # <<>> /\ Head(ready).op = "write" /\ Head(ready).ok
    /\ WritePump(Tail(ready))
    /\ UNCHANGED <<open, reading, write_queue, read_buffer, read_errors, write_errors, peerVars,
                   is_shutting_down, wire, calls, flush_after>>

RunWriteDoneAlwaysPumps ==
    /\ ready # <<>> /\ Head(ready).op = "write" /\ Head(ready).ok
    /\ write_queue' = IF write_queue # <<>> THEN Tail(write_queue) ELSE <<>>
    /\ WritePump(Tail(ready))
    /\ UNCHANGED <<open, reading, read_buffer, read_errors, write_errors, peerVars,
                   is_shutting_down, wire, calls, flush_after>>

RunWriteDoneForgetsFlush ==
    /\ ready # <<>> /\ Head(ready).op = "write" /\ Head(ready).ok
    /\ write_queue' = IF write_queue # <<>> THEN Tail(write_queue) ELSE <<>>
    /\ IF write_queue' # <<>>
       THEN WritePump(Tail(ready))
       ELSE ready' = Tail(ready) /\ UNCHANGED writing
    /\ UNCHANGED <<open, reading, read_buffer, read_errors, write_errors, peerVars,
                   is_shutting_down, wire, calls, flush_after>>

\* The completion of async_write, successful: pop the frame, then pump on, or close
\* if a flush was waiting for the queue to empty.
RunWriteDone ==
    /\ ready # <<>> /\ Head(ready).op = "write" /\ Head(ready).ok
    /\ write_queue' = IF write_queue # <<>> THEN Tail(write_queue) ELSE <<>>
    /\ IF write_queue' # <<>>
       THEN WritePump(Tail(ready)) /\ UNCHANGED <<open, reading>>
       ELSE IF is_shutting_down /\ open
            THEN Close(Tail(ready))
            ELSE ready' = Tail(ready) /\ UNCHANGED <<open, reading, writing>>
    /\ UNCHANGED <<read_buffer, read_errors, write_errors, peerVars, is_shutting_down,
                   wire, calls, flush_after>>

RunWriteFailedRetries ==
    /\ ready # <<>> /\ Head(ready).op = "write" /\ ~Head(ready).ok
    /\ write_errors' = write_errors + 1
    /\ WritePump(Tail(ready))
    /\ UNCHANGED <<open, readVars, write_queue, peerVars, is_shutting_down, wire, calls, flush_after>>

\* The completion of async_write, failed: report it.  The frame stays queued, so the
\* queue never looks idle again.
RunWriteFailed ==
    /\ ready # <<>> /\ Head(ready).op = "write" /\ ~Head(ready).ok
    /\ write_errors' = write_errors + 1
    /\ ready' = Tail(ready)
    /\ UNCHANGED <<open, readVars, write_queue, writing, peerVars, is_shutting_down,
                   wire, calls, flush_after>>

\* A header is complete: read the rest of the frame.
RunHeaderRead ==
    /\ ready # <<>> /\ Head(ready).op = "header" /\ Head(ready).ok
    /\ StartRead("body", Tail(ready))
    /\ UNCHANGED <<open, read_buffer, read_errors, writeVars, peerVars, is_shutting_down,
                   wire, calls, flush_after>>

RunBodyReadGoesOn ==
    /\ ready # <<>> /\ Head(ready).op = "body" /\ Head(ready).ok
    /\ read_errors' = IF read_buffer = "throws" THEN read_errors + 1 ELSE read_errors
    /\ StartRead("header", Tail(ready))
    /\ UNCHANGED <<open, read_buffer, writeVars, peerVars, is_shutting_down,
                   wire, calls, flush_after>>

\* A frame is complete: parse it, hand it to msg_handler_ and read the next header,
\* or, if one of the two threw, report the error and stop reading.
RunBodyRead ==
    /\ ready # <<>> /\ Head(ready).op = "body" /\ Head(ready).ok
    /\ IF read_buffer = "throws"
       THEN /\ read_errors' = read_errors + 1
            /\ ready' = Tail(ready)
            /\ UNCHANGED reading
       ELSE /\ StartRead("header", Tail(ready))
            /\ UNCHANGED read_errors
    /\ UNCHANGED <<open, read_buffer, writeVars, peerVars, is_shutting_down,
                   wire, calls, flush_after>>

RunReadFailed ==
    /\ ready # <<>> /\ Head(ready).op \in {"header", "body"} /\ ~Head(ready).ok
    /\ read_errors' = read_errors + 1
    /\ ready' = Tail(ready)
    /\ UNCHANGED <<open, reading, read_buffer, writeVars, peerVars, is_shutting_down,
                   wire, calls, flush_after>>

RunHandler ==
    \/ RunSend \/ RunDisconnect \/ RunFlush
    \/ RunWriteDone \/ RunWriteFailed
    \/ RunHeaderRead \/ RunBodyRead \/ RunReadFailed

-----------------------------------------------------------------------------
(* The kernel and the peer.                                                 *)

\* write_queue_.front(), the frame async_write reads; undefined when the queue is
\* empty, and then it is none of the frames, which are numbered from 1.
Front == IF write_queue # <<>> THEN Head(write_queue) ELSE 0

\* An outstanding write finishes: all the bytes of the front frame are written, or
\* the peer is gone and it fails.
WriteCompletes(ok) ==
    /\ writing > 0
    /\ ok \/ peer = "gone"
    /\ writing' = writing - 1
    /\ wire' = IF ok THEN Append(wire, Front) ELSE wire
    /\ ready' = Append(ready, Completion("write", ok))
    /\ UNCHANGED <<open, readVars, write_queue, write_errors, peerVars, is_shutting_down,
                   calls, flush_after>>

\* An outstanding read finishes: with data, or, once the peer is gone, with an error
\* (end of file, or a reset that discards what had arrived).
ReadCompletes(ok) ==
    /\ reading # "none"
    /\ IF ok THEN inbound # <<>> ELSE peer = "gone"
    /\ reading' = "none"
    /\ ready' = Append(ready, Completion(reading, ok))
    /\ IF ok /\ reading = "body"
       THEN read_buffer' = Head(inbound) /\ inbound' = Tail(inbound)
       ELSE UNCHANGED <<read_buffer, inbound>>
    /\ UNCHANGED <<open, read_errors, writeVars, peer, is_shutting_down, wire, calls, flush_after>>

PeerSends ==
    /\ peer = "up"
    /\ Len(inbound) < MaxInbound
    /\ \E p \in Parse : inbound' = Append(inbound, p)
    /\ UNCHANGED <<ready, open, readVars, writeVars, peer, is_shutting_down, wire, calls, flush_after>>

PeerLeaves ==
    /\ peer = "up"
    /\ peer' = "gone"
    /\ UNCHANGED <<ready, open, readVars, writeVars, inbound, is_shutting_down, wire, calls, flush_after>>

Next ==
    \/ Send \/ Disconnect \/ FlushAndDisconnect
    \/ RunSend \/ RunDisconnect \/ RunFlush
    \/ RunWriteDone \/ RunWriteFailed
    \/ RunHeaderRead \/ RunBodyRead \/ RunReadFailed
    \/ \E ok \in BOOLEAN : WriteCompletes(ok) \/ ReadCompletes(ok)
    \/ PeerSends \/ PeerLeaves

Spec == Init /\ [][Next]_vars

(***************************************************************************)
(* ioc.run() keeps running handlers while there are any, and the kernel    *)
(* finishes every write, successfully or not.  The peer need not send,     *)
(* leave or be left, and nobody need call a method.                        *)
(***************************************************************************)
Fairness ==
    /\ WF_vars(RunHandler)
    /\ WF_vars(\E ok \in BOOLEAN : WriteCompletes(ok))

FairSpec == Spec /\ Fairness

-----------------------------------------------------------------------------
(* Properties.                                                              *)

\* Also, only frames of send() calls are written: writePump() never starts on an empty
\* queue, where front() refers to nothing.
TypeOK ==
    /\ ready \in Seq(Handler)
    /\ open \in BOOLEAN
    /\ write_queue \in Seq(Nat)
    /\ writing \in Nat
    /\ reading \in {"header", "body", "none"}
    /\ read_buffer \in Parse
    /\ is_shutting_down \in BOOLEAN
    /\ inbound \in Seq(Parse)
    /\ peer \in {"up", "gone"}
    /\ wire \in Seq(Nat \ {0})
    /\ calls \in Nat
    /\ flush_after \in Nat
    /\ read_errors \in Nat
    /\ write_errors \in Nat

\* The positions of the write completions, and of the read completions, in ready.
WritesDone == {i \in 1..Len(ready) : ready[i].op = "write"}
ReadsDone  == {i \in 1..Len(ready) : ready[i].op \in {"header", "body"}}

\* send() and the write completion never have two async_writes under way at once
\* (their bytes would interleave on the socket), count a completion that has not
\* run yet as under way, and keep the frame being written at the front of
\* write_queue_, which is the memory async_write reads from.
OneWriteAtATime ==
    /\ writing <= 1
    /\ writing = 1 => WritesDone = {}
    /\ \A i, j \in WritesDone : i = j
    /\ writing = 1 \/ WritesDone # {} => write_queue # <<>>

\* The pump is never lost: while a frame is queued, a write is under way or its
\* completion is waiting to run, unless a write has failed.
PumpNeverStalls ==
    write_queue # <<>> => writing = 1 \/ WritesDone # {} \/ write_errors > 0

\* One connection calls err_handler_ at most once for its reads and at most once for
\* its writes, whatever is sent, flushed or disconnected after the first failure.
\* Both can happen, so owners must expect two calls.
OneErrorPerDirection == read_errors <= 1 /\ write_errors <= 1

\* After the read chain reported an error (a failed read, a frame that does not
\* parse, a message handler that threw) no read is under way: no further message
\* can reach msg_handler_ from this connection.
ReadErrorIsFinal == read_errors > 0 => reading = "none" /\ ReadsDone = {}

\* A close that is not a disconnect() is the work of flushAndDisconnect(), and then
\* every frame of a send() called before it has been written completely.
FlushWritesEverything ==
    [][open /\ ~open' /\ Head(ready).op # "disconnect"
          => flush_after # NoFlush /\ Len(wire) >= flush_after]_vars

Link == INSTANCE OrderedLink WITH sent <- calls, wire <- wire, up <- open

\* TcpComm implements OrderedLink: frames are written in the order of the send()
\* calls, without gap or repetition, and none after the socket is closed.
ImplementsLink == Link!LinkSpec

\* Once the closure of flushAndDisconnect() has run, the socket is closed in the end,
\* or a write fails and the owner's error handler is told.
FlushCloses == is_shutting_down ~> (~open \/ write_errors > 0)
=============================================================================
