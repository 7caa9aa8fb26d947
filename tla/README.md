# Verification of the controller–agent system

TLA+ models of the controller and agent programs, TLC configurations that check
them on small instances, and TLAPS proofs for every value of the constants. Paths
such as `Controller.cpp:181` are relative to the repository's `src/` and `include/`.

## 1. The system

A *controller* accepts TCP connections from *agents*. Agents report heartbeats and
loads every second; every two seconds the controller drops silent agents, retries
unanswered commands, averages the loads and, when a policy says so, sends every agent
a `CMD_SET_MODE`, which the agent applies and answers with ACK, or rejects with NACK.
Each program runs one thread on one `asio::io_context`: handlers run one at a time,
each to its end, and interleave with posted closures, timers, the network and the
other program.

| Component | State | Operations | What is hard about it |
| --- | --- | --- | --- |
| TcpComm | write queue, outstanding read and write, shutdown flag | `send`, `disconnect`, `flushAndDisconnect`, completions | closures against completions, errors of both directions, flushing |
| Controller: registry | `sessions_`, contexts, `active_connections` | accept, HELLO, error handler, health check, shutdown | reconnection before the old connection's error, shared ids, id 0 |
| Controller: policy loop | `overload_mode_`, id counter, policies | health check | agents that come and go during it, restart |
| AgentTcpSession | pending commands, one message object, heartbeat time | track, answer, retry, give up, flush | retries share the newest message, late answers |
| Agent | mode, last command id, connection, timers, retry count | commands, reporting, reconnecting, shutdown | duplicates, restarts, stale timers |
| StateStore, policy file | last loads; policies and file time | update, average; load, reload | departed agents, edits during a load |
| MetricsTracker, MetricsServer | counters; acceptor | count; serve | double counting, destruction with an accept pending |
| BinaryMessageParser, payloads, MessagePool | bytes; free list | serialise, parse; acquire, release | size arithmetic, CRC, reuse |

Interactions: TcpComm hands messages and errors to Controller or Agent; the registry
decides which session a message belongs to; the policy loop sends through the sessions;
both programs' metrics are side effects of these handlers.

## 2. Modules

| Module | Models | Checked by | Proofs |
| --- | --- | --- | --- |
| `OrderedLink` | what one direction of a connection promises | refinement | |
| `TcpComm` | `TcpComm.cpp` | `MCTcpComm` | `TcpCommProofs` |
| `SessionRegistry` | `Controller::doAccept`, `onMessage`, session loop, shutdown | `MCSessionRegistry` | `SessionRegistryProofs` |
| `CommandProtocol` | policy loop, `AgentTcpSession`, `Agent::onMessage` | `MCCommandProtocol` | `CommandProtocolProofs` |
| `SessionTiming` | heartbeat and retry times of `AgentTcpSession`, with clocks | `MCSessionTiming` | `SessionTimingProofs` |
| `AgentLifecycle` | `Agent.cpp` but for commands: connecting to shutdown | `MCAgentLifecycle` | `AgentLifecycleProofs` |
| `PolicyLoop` | `loadPolicies`, `checkPolicyUpdate`, `StateStore`, the decision | `MCPolicyLoop` | `PartsProofs` |
| `Wire` | `ByteSerializer`, payloads, `BinaryMessageParser`, CRC | `MCWire` | `WireProofs` |
| `Framing` | which bytes of `read_buffer_` become a message | `MCFraming` | `FramingProofs` |
| `MetricsServer` | `MetricsServer.cpp` and its destruction | `MCMetricsServer` | `PartsProofs` |
| `MessagePool` | `MessagePool.hpp` | proofs only | `PartsProofs` |

### TcpComm
`ready` is the io_context's queue. A method appends a closure; `Run...` actions consume
the head and perform the whole handler; `WriteCompletes` and `ReadCompletes` are the
kernel. A frame is the number of the `send` call that made it. `read_buffer` says what
parsing the frame will do: be handled, throw, or be dropped because the parser's size
differs from the reader's. `socket_.close()` fails the outstanding read, then the
outstanding write. `writePump` writes the queue's front; on an empty queue that would be
no frame of a `send` (`Front`), which `TypeOK` excludes. `TcpComm` implements `OrderedLink` under `sent <- calls, up <- open`:
frames are written in call order, without gap or repetition, none after the close.

### SessionRegistry
A session is its number in the order of creation. `sessions_` holds the only
`shared_ptr`, so `weak_ptr::lock()` succeeds exactly for numbers in the range of
`sessions` (`Alive`). A connection obeys what `TcpComm` guarantees: messages until its
one read error, at most one write error (`OneErrorPerDirection`, `ReadErrorIsFinal`),
one late message after a close. `HealthCheck` is one step, as the handler is; sessions
whose command ran out of retries are an arbitrary subset of the healthy ones. A timer
or an accept that completed before its cancellation still runs after `Shutdown`.

### CommandProtocol
`down` and `up` are the two directions of an agent's connection, as `OrderedLink`
allows. The health check runs in steps (`phase`), because agents, clocks and the
network go on during it; the controller's other handlers wait for `phase = "idle"`.
All pending commands of a session share one message object, so `Resend` sends the
newest command whichever id is due. `fresh` stands for `isHealthy()`. It is read twice
per health check, in the loop over sessions and when a command goes out, with
`HeartbeatExpires` possible in between, as with the code's two clock reads. After
`checkCommandTimeouts` closed a connection, the model lets the session stay healthy
longer than the code, where the posted close runs before the next check: more
behaviours, not fewer. The average load is any load, but 0 until a first STATE has come
(`stored`). `serial`, `issued` and `applied` are history variables.

Time is abstract: a heartbeat may expire whenever it is fresh, any pending commands may
be due at a health check. The properties therefore hold for every back-off.

### SessionTiming
What `CommandProtocol` leaves open: one session with ticks instead of arbitrary expiry.
Ages are kept instead of times. `1 << retry_count` is the recursive function `Shl`, about
which the proofs can reason for every count. A timer's handler runs in the tick its wait ends in, so
the time handlers take is not modelled; a heartbeat is under way for less than two
seconds (`TimingAssumption`), without which a reporting agent may well be dropped.

### AgentLifecycle
`ready` is the agent's queue, as in `TcpComm`, and each head is run as a whole handler.
`timer` is what `timer_` waits for, one wait replacing the other. An expired wait is
already queued and is no longer cancelled, which is where the interesting orders come
from. The five-second wait ends only when the queue is empty; the one-second wait ends
at any moment. `resolve()` may throw out of `run()`. A report that finds `conn_`
reset ends the process, as dereferencing the null pointer does.

### PolicyLoop
Contents of the file are policies, broken (`loadPolicies` catches an exception), incomplete
(a policy lacks a field, which fails an assertion of the JSON library and ends the process;
no build of the repository sets `NDEBUG`) or missing. An edit may come between any two
steps of a load and may carry an old time stamp. Parsing yields a *set* of meanings,
because `action.command` is uninitialised for unknown texts. `Epoch`, the default
`file_time_type`, is later than every file's time, as in libstdc++ (2174); with a library
whose clock starts in 1970 the first of the two ways to miss a file does not exist.
Loads are integers and the average is compared without the division, so rounding of
floats is left out. `missed` and `loaded` are history variables.

### Wire and Framing
`Wire` has values: a word is the set of its bits, so shifts, masks and xor are the
program's, and the CRC has its 32 bits. `CrcByte` is the inner loop of `compute_crc32`,
its eight turns written as three doublings. `StandardCrc32` is what it is compared with, a
long division of polynomials. `readFrame` is TcpComm's reader, which waits for as many bytes as
its `size_t` sum says; `deserialize` adds in 32 bits, and the result `overrun` stands for
reading past its buffer after that sum has wrapped. One frame is all that comes, so a
reader that waits for more waits for ever. `Framing` has places: a byte is the frame and
position where it was written, and the parser's sum of lengths wraps at `W` while the
reader's does not. A CRC is taken to match exactly for whole frames as sent, which
`BurstsAreDetected` and `DamageIsDetected` support for small damages and no CRC guarantees
for all. The
exception for a payload shorter than its type needs is not reached, since both programs
send whole payloads.

### MetricsServer and MessagePool
`Destroy` closes the acceptor and queues the aborted accept, whose handler then runs on
freed memory (`RunAcceptDangling`); of the outcomes of that undefined behaviour the model
has two, returning at once and the end of the process. The page's text is left out. In
`MessagePool` a holder stands for all copies of one `shared_ptr`; `acquire` and `release`
hold the mutex and are one step each. It is a module of the proofs; no run instantiates it.

## 3. Runs

| Run | Checks | Distinct states |
| --- | --- | --- |
| `tcp` | `TypeOK`, `OneWriteAtATime`, `PumpNeverStalls`, `OneErrorPerDirection`, `ReadErrorIsFinal`, `FlushWritesEverything`, `ImplementsLink`, `FlushCloses` | 1.3 M |
| `command` | `TypeOK`, `DuplicateIsHarmless`, `AnsweredMeansInMode`, `PendingIsUnderWay`, `AppliesInOrder`, `PendingIsResolved` | 0.2 M |
| `registry` | `TypeOK`, `ContextsAgree`, `NoDeafSession`, `OnlyOwnErrors`, `SilentSessionIsDropped` | 0.2 M |
| `agent` | `TypeOK`, `ReportingContinues`, `OneConnection`, `GivingUpIsFinal`, `Reconnects` | 4 k |
| `timing` | `TypeOK`, `DroppedWithinFiveSeconds`, `GivesUpOnTime`, `ReportingAgentStays` | 0.4 M |
| `policy` | `KeepsPolicies`, `UnmissedFileIsLoaded`, `SettlesInMode` | 96 k |
| `framing` | `NoStaleBytes`, `InSync`, `RefusalMeansDamage`, `HandledInOrder` | 0.1 M |
| `wire` | `RoundTrip`, `DamageIsDetected`, `CrcIsStandard` | 19 k |
| `metrics` | `AcceptLoop`, `ScrapesEnd` | 1.4 k |
| `every_agent_follows` | `EveryAgentFollows`: violated | |
| `nack_counts` | `NackCountsAsFailure`: violated | |
| `active_connections` | `ActiveConnectionsCounts`: violated | |

Each passing run has all properties of its module under one specification, with the
fairness the liveness properties need; fairness removes no reachable state, so the safety
properties are checked on all of them.

What the violated ones show:
- *A late joiner keeps its mode.* Commands are sent when `overload_mode_` changes, to the
  sessions registered and healthy at that moment; HELLO sends none (`Controller.cpp:202`).
  The run lets every agent answer, so that not answering is not the reason.
- *A NACK is not a failure.* `command_failures` counts exhausted retries only, though
  `MetricsServer.cpp:19` says "NACK or Timeout".
- *A dropped agent is subtracted twice* from `active_connections`: by the health check
  (`Controller.cpp:181`) and by the error handler of the connection it closed (`:84`).

The models also contain the following behaviour of the code, found while translating it.
No run states its negation; the properties above are worded so that they hold with it.
- *A report meets a reset `conn_`* when it was queued before the error (`Agent.cpp:132`);
  `Reconnects` allows the process to end.
- *One lost connection may cost two retries*, one for each of its errors
  (`Agent.cpp:65`); `GivingUpIsFinal` shows it is never more than one too many.
- *A shutdown may reconnect.* The agent's error handler does not ask `is_shutting_down_`
  (`Agent.cpp:64`); the controller leaves connections without session open
  (`Controller.cpp:305`).
- *A changed policy file is missed* after a failed first load, or when the edit falls
  between reading contents and time (`Controller.cpp:263`, `:275`);
  `UnmissedFileIsLoaded` shows that no other edit is whose time is newer than the
  recorded one.
- *A policy that lacks a field ends the controller* (`Controller.cpp:240`);
  `UnmissedFileIsLoaded` and `SettlesInMode` allow it.
- *An unknown command may act* (`Controller.cpp:246`), and *departed agents count* in the
  average (`StateStore.cpp:21`).
- *The aborted accept uses the destroyed server* (`MetricsServer.cpp:73`).

Outside the models, *the RTT of a resent command* counts from the last send
(`AgentTcpSession.cpp:119`).

### Bounds
- TcpComm: 3 sends put one frame on the wire, one in the queue, one still posted;
  `MaxReady` leaves room for two method calls beside both completions. The safety
  properties and the refinement are proved for all bounds; only `FlushCloses` rests on
  these.
- CommandProtocol: 3 commands let two be pending behind a third; one retry is a first and
  a last one. The run has one agent and uses ids 0 to 2 of 4. More agents, more retries
  and ids that wrap are left to the proofs, which cover every safety property of this run
  for all constants, `AnsweredMeansInMode` for as many commands as there are ids: beyond
  that an answer may name a later command with the same id, which takes 2^32 commands in
  the code. Only `PendingIsResolved` rests on these bounds.
- SessionRegistry: 2 connections and 2 sessions give replacement of one by the other; ids
  0 and 1 cover the special case. The safety properties are proved for every number of
  connections and sessions. Deadlock is not checked: after `Shutdown` the controller
  really stops.
- AgentLifecycle: 3 retries separate first, middle and last; the safety properties are
  proved for every number above one. SessionTiming: two ticks a second tell full seconds
  from half ones; two commands have the code's five retries. Its properties are proved for
  every resolution, delay, number of retries and finite set of commands.
  PolicyLoop: three time stamps allow newer, equal and older edits; the files are the shipped
  one, one with an unknown command and one without policies.
- Wire: every message type, with the damages listed in `MCWire`: any one or two bits of
  a byte or a whole byte, at every place, some across two bytes, and one of four bytes that,
  on the length, makes the parser's 32-bit sum wrap. `MaxLength` bounds
  the lengths told apart; `RoundTrip` and `CrcIsStandard` are proved for all messages below
  it, and detection for all damages within four bytes that section 4 describes. Framing: sizes
  0, 2 and 6 are the empty payload, one that makes the buffer grow, and one that wraps at
  `W = 8`; no sender of the program builds the last. Framing's properties are proved for
  all sizes, widths and numbers of frames.
- MetricsServer: three scrapes, one failed accept; `AcceptLoop` is proved for any number.
- Deadlock is checked for TcpComm, CommandProtocol, SessionTiming and PolicyLoop;
  AgentLifecycle, Framing, Wire and
  MetricsServer end, when the process or the bounded exchange does.

### Fairness
- TcpComm: handlers that are queued run (`ioc.run()`), and a write finishes or fails.
- CommandProtocol: the timer fires and its handler ends, and a command that is due in
  check after check is found due in the end: the clock goes on. Nothing else is needed for
  `PendingIsResolved`; in particular no agent has to read or answer. When a command is
  given up is for `GivesUpOnTime`, with clocks. `every_agent_follows` alone adds
  `AgentFairness`: a connected agent reads, and the controller handles HELLO, answers and
  errors it keeps being offered, which is strong fairness because the health check disables
  them again and again while the FIFO queue still serves them in turn. Nothing forces loads,
  failures or reconnections.
- SessionRegistry: the health check, posted closes, failed reads and messages that were
  queued when the connection was closed are handled.
- AgentLifecycle: queued handlers run, connects and writes complete, timers expire,
  `run()` returns when nothing is left. No message, failure or signal need come.
- PolicyLoop: the health check goes on. MetricsServer: queued handlers run and the kernel
  completes accepts and writes.

## 4. Proofs

`CommandProtocolProofs`, for every set of agents, every policies and every even number
of ids:
- `TypeCorrect`. `todo` is empty outside the session loop; this makes
  `todo \subseteq sessions` inductive.
- `DuplicatesAreHarmless`. The agent compares nothing but the last id, so the invariant
  `IdsTellModes` says why ids suffice: every command flips `overload_mode_` and takes the
  next id from 0, so the parity of an id tells its mode; the id space is even, so wrapping
  keeps that; the sentinel is odd, as if mode 0 had been commanded; a restarted controller
  resets both.
- `CommandsApplyInOrder`. `InOrder`: serials on a channel never decrease, nor fall below
  what the agent applied, and the session's message is at least as new as all of them.
- `PendingCommandsAreUnderWay`. Inductive with the types.
- `AnsweredCommandsAreInForce`, for as many commands as there are ids. A pending id may be removed by an answer sent long before,
  so `AnswerInv` looks at the connection's channels. `Fits`: once the newest command has
  been answered (its id is no longer pending, or its answer is under way; `Seen`), the
  agent is in its mode and only copies of it are still on their way; before that, nothing
  older follows a copy of it. `Below`: every id in use on the connection is smaller than
  the next one, so that a new command is told from all before it. This is where ids must
  not be reused. The lemmas show for each kind of step that a connection keeps both.

`SessionRegistryProofs`, for every set of connections and every finite set of ids:
- `RegistryTypeCorrect`, `RegistryContextsAgree`, `RegistryHasNoDeafSession`: inductive
  together. The error handler finds the session to erase through the context.
- `RegistryOnlyOwnErrors` needs one more invariant, `OwnContext`: a context names a
  session created on that connection.

`TcpCommProofs`, for any number of sends, frames from the peer and posted handlers. One
invariant, of five parts, gives all seven theorems:
- `WriteChain` and `ReadChain` say where each chain is: an operation under way, one
  completed handler in the queue, ended by an error or, for writes, idle with nothing
  queued; never two of these. From them `WritesDoNotOverlap`, `PumpIsNeverLost`,
  `ErrorsOncePerDirection`, `NoReadAfterError`, and that the pump never runs on an empty
  queue (`TypeCorrect`).
- `FramesInOrder`: the frames 1, 2, ... are those on the wire, then those in
  `write_queue`, then those in posted closures. A frame whose completion has not run is on
  the wire and still at the front of the queue; `Popped` counts it once. With the chains
  this gives `LinkRefinement`: a completed write is `OrderedLink`'s next frame, a call
  offers one, `socket_.close()` takes the link down, every other step is invisible to it.
- `FlushOrder`: frames sent before `flushAndDisconnect` stand before its closure, so none
  of them is posted any more once `is_shutting_down_` is set. With an empty queue they are
  all on the wire: `FlushIsComplete`.

`AgentLifecycleProofs`, for every `MAX_RETRIES` above one:
- `ReportingIsKeptUp`, `ConnectionsDoNotOverlap`, `GivesUpForGood`, `TypeCorrect`, from
  `AttemptInv` and `LinkInv`. While anything is left of a connection (`Linked`: `conn_`,
  its socket, an operation, a handler, the report timer) no attempt is posted or running.
  What makes this inductive is a count: `retry_count_` is the number of the connection's
  two chains that have told their error, so the first error, and only the first, finds
  `conn_` set; and while connecting it is the number of attempts made, or one more when the
  last connection told two errors.

`SessionTimingProofs`, for every resolution of the clock, delay, `MAX_RETRIES` and finite
set of commands:
- `SilentSessionsEndInTime`. The bound on the age alone is not inductive; `Deadline` adds
  the time to the next check, age + `next_check` being less than five seconds.
- `HealthyWhileReporting`. `Fresh`: the last heartbeat handled is no older than the report
  sent before the oldest one still under way. With a delay below two seconds that is less
  than the three seconds of `isHealthy()`, whatever the phase of the two timers.
- `CommandsEndOnTime`. `Schedule`: the age of a command is a whole number of check periods
  at the next check, between one and the number its back-off asks for, and the time since
  its first send is the sum of the back-offs before. That they add up to
  `2 << MAX_RETRIES` seconds is by induction on the retries (`NatSetInduction`).

`FramingProofs`, for payloads of every size below `W`, every `W`, every first size of the
buffer and any number of frames and damages:
- `BufferIsFresh`, `ReaderStaysInSync`, `OnlyDamageIsRefused`, `FramesAreHandled`.
  `Blocks` describes the stream: a byte is followed by the rest of its frame, a frame by
  the next one. `Place` says where the reader is in it: before a frame's first byte, or
  behind its header with that header in the buffer and its length in `stated`. Only damage
  makes a header lie (`Honest`), and damage reaches only frames not begun, so a wrong
  length always meets a wrong CRC, and the reader stops before it is out of step.

`PartsProofs`, three parts beside the protocol, extending the modules of two and with the
third as an instance:
- `PoliciesAreOfOneFile`, for all contents of the file. `LoopInv`: between the end of
  parsing and the assignment, `new_policies` is what the file read last says, whatever is
  on the disk by then.
- `AcceptsGoOn`, for any number of clients and failed accepts. The queue moves up with every
  handler, so the proof follows the positions of accept handlers (`QueuedAccepts`,
  `RunAccepts`): the one at the front ends and its `doAccept()` takes its place.
- `MessagesAreOwn`, for every finite set of holders and all contents. `Apart` is needed: no
  object is pooled twice, pooled and held, or held twice; otherwise constructing one would
  change another holder's message.
- `PoolStaysBounded`. `Accounted`: every object is in the pool or held, so `new`, which is
  called with an empty pool only, raises their number to that of the live messages at most.

`WireProofs`, for every message, of all types and with all values of their fields. The
invariant is `Delivered`: a frame is the one `serialize` made, or differs from it in at most
four consecutive bytes, and the receiver has what the reader makes of it.
- `MessagesRoundTrip`. Each field is written behind those before it (`Written`, `Stays`),
  read back at the offset the other side states (`FramedParts`, `FrameIsRead`), and the
  length, taken apart into bits and summed again, is the same number (`LengthRoundTrip`).
  What the CRC computes does not matter here: both sides compute it from the same bytes. The
  words are `U16RoundTrip` and `U32RoundTrip`, for every value of the width.
- `CrcStaysStandard`, for frames of every length. The program shifts a 32-bit register to
  the right; the division works on one long polynomial from its highest exponent down.
  `Mirror` reads the register as the 32 highest exponents, `Ahead` is the part of the
  dividend not reached yet. One shift is one step of the division (`ShiftDivides`), eight are
  one byte (`ByteDivides`), the next byte comes in where the dividend has it (`NextByte`),
  and by induction over the bytes the register ends as the remainder (`DivisionIsRegister`).
- `BurstChangesCrc`. The shift is injective, because the polynomial has bit 31 and the
  shifted register has not (`ShiftIsInjective`), so registers that differ stay different
  over equal bytes (`Apart`), and equal ones stay equal (`Together`). Between them are the
  four bytes: their 32 bits enter the register before any of them leaves it, so the register
  behind them tells their values apart (`FourBytes`, from `ByteCarries` and `StepBack`).
- `BurstsAreDetected`: damage within four bytes makes no message and no read past the buffer,
  under two conditions (`Detectable`). The arithmetic gives no more:
  - The damage lies in front of the CRC or in it. The trailer is written big-endian while
    the register is reflected, so a burst across the border is not a burst of the code: two
    bytes before it and two behind it have one pattern that keeps the CRC valid.
  - The stated length does not become smaller. `deserialize` would compare the CRC of fewer
    bytes with four bytes of the payload, which may be anything. A larger length makes
    the reader wait for bytes that do not come. Its sum does not wrap (`SumDoesNotWrap` shows
    that the parser's does not either for a whole frame), so `deserialize` is never called
    with a length its own sum would lose.

Induction: the library's induction theorems have an operator as parameter, which the
provers cannot instantiate. `NatSetInduction` states the principle for a set instead and
follows from the existence of least elements; with it `Shl` is shown to exist and to double.
`ChainsExist` does the same for a register that a step takes from one byte to the next, which
is how the loops of `compute_crc32`, of the long division and of `LengthOf` are reached.

Assumptions: `IdSpaceAssumption` (the id space is even and not empty: `uint32_t`),
`PoliciesAssumption`, `RegistryAssumption` (finitely many ids: `uint32_t`),
`TimingAssumption` (a second has a tick; a heartbeat takes less than two seconds),
`BoundsAssumption` (TcpComm's bounds are numbers), `RetriesAssumption` (`MAX_RETRIES` is
above one; the agent's is three), `FramingAssumption` (sizes are below `W`, header and trailer are
not empty, and the buffer has room for a header), `MessagesAssumption` (the fields of a
message have their widths, its payload is the one of its type, and a reason is shorter than
`MaxLength`, 2^16; the program's are a few words), `DamagesAssumption` (a damage changes a byte
and is at most four long), `LoopAssumption` (what does not parse is no contents that parse, and a file that
ends the process is neither broken nor missing).

Only model-checked:
- the liveness properties (`FlushCloses`, `PendingIsResolved`, `SilentSessionIsDropped`,
  `Reconnects`, `UnmissedFileIsLoaded`, `SettlesInMode`, `ScrapesEnd`), which the prover
  does not handle;
- `DamageIsDetected` for damages that lower the length or reach across the border of the
  CRC. No theorem can state it for all messages, for the two reasons above; the run shows it
  for its messages and damages. The rest of it is `BurstsAreDetected`.

## 5. Not modelled, and the plan

In this order:
1. A composition of `SessionRegistry` and `CommandProtocol` with pending commands of
   replaced sessions, and of `AgentLifecycle` with `TcpComm`, whose guarantees it now
   takes as given.
2. Float rounding of the average load near a threshold.

Left out for good: the sums behind the RTT metric, how many messages of a pool are live at a time,
logging, argument handling, the text of the metrics page,
`broadcastCommand`, which nothing calls, and `sendCommandTo`, `clearPolicies` and
`addPolicy`, which only the tests call. In CommandProtocol, a `CMD_SET_MODE` whose payload
does not parse and messages of other types do not occur, since the controller sends
neither.
