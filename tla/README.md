# Verification of IPK25-CHAT: the client and its mock servers

TLA+ models of the chat client in `src/IPK25-CHAT`, of the two mock servers in
`src/IPK25-CHAT.Tests/Servers`, and of both together; the TLC configurations that
check them on small instances; and TLAPS proofs of their main properties. Paths
below are relative to `src/IPK25-CHAT/src`; `udp_ipk25_server.py` and
`tcp_ipk25_server.py` are in `src/IPK25-CHAT.Tests/Servers`.

## 1. The system

The client is one process. `Program.cs` parses the arguments, builds a `UdpFsm`
or a `TcpFsm` and calls `RunClient` of their base class `AFsm`, which starts two
tasks on the thread pool and returns when either of them ends. The servers are
what the client is tested against by hand: each has a thread per client, and the
text of a request (a user name, a channel, a message) selects a scenario.

| component | state | operations | talks to |
|---|---|---|---|
| `FSM/AFsm.cs` | `State`, the types of the last line and the last server message, `UserProperty`, the reply timer, the cancellation token | `RunClient` with the stdin task, the server task, the timer callback and the Ctrl+C handler; `RunFsm` and one function per state | its subclass, through `SnedMessage`, `ServerTasks`, `CleanUp`, `NetworkSetup` |
| `FSM/UdpFsm.cs` | `IsMsgSent`, `_usedNums`, `UserProperty.MessageId` | `SnedMessage`, `RetransmitTasks`, `ServerTasks`, `CleanUp` | `UdpUtils`, encoder, decoder, `RunFsm(null)` |
| `Network/UdpUtils.cs`, `ANetUtils.cs` | `_isMsgSent`, `_property.Port` | `Send`, `Receive`, `ResolveDomain` | the network |
| `Encryption/UdpDecoder.cs`, `UdpEncoder.cs` | `_msgId` | bytes to message type, id and text, and back | - |
| `FSM/TcpFsm.cs`, `Network/TcpUtils.cs` | the stream | `SnedMessage`, `ServerTasks` with its catch clause, `CleanUp` | `TcpDecoder`, `RunFsm(null)`, the network |
| `Encryption/TcpDecoder.cs`, `TcpEncoder.cs` | `_savedInput` | chunk of the stream to lines, line to message type, and back | - |
| `Input.cs` | - | command-line parser, classification of a line | - |
| `udp_ipk25_server.py` | `running`, the handlers; per handler a socket, `authenticated`, `server_msg_id_counter` | `run_server` (listener), `client_handler`, `parse_message` | the client, from the listening port and one dynamic port per handler |
| `tcp_ipk25_server.py` | per client `client_state`, `buffer`, the connection | `run_server` (accept), `handle_client`, `send_message_async` in a thread per message | the client |

The client's tasks share every field of `AFsm` without a lock; only `IsMsgSent`
and `_isMsgSent` are volatile. The threads of the TCP server share the connection.
What is hard:

* **Interleaving.** `RunFsm` reads `State`, and what it decides is carried out
  after further steps of the other task. `SnedMessage` runs in both tasks;
  `MessageId` is written by one and read by both; `IsMsgSent` is read twice in
  one call of `ServerTasks`. The TCP server changes its `client_state` when it
  *starts* a thread to send, not when that thread has sent.
* **The network.** UDP datagrams are lost, repeated, delayed and reordered, and
  come from a listening port first and a dynamic port later; every copy of an
  AUTH starts another handler.
* **The stream.** TCP delivers lines in chunks that end anywhere and hold parts of
  a line or several lines; one chunk is one call of the FSM, and one `recv` of the
  server can hold the rest of the session.
* **Time.** A five-second reply timer whose callback may already be queued when
  it is stopped, a retransmission loop, handlers that time out.
* **Ending.** Ctrl+C, end of input, the timer, an exception in either task, with
  one task possibly blocked in `Console.ReadLine` and the other in `Receive`; a
  server that closes the connection while its own threads have yet to send.

What makes it correct:

* client: nothing but AUTH reaches the server before authentication; `State`
  moves only as the protocol allows; each message the FSM acts on was confirmed
  under its own id and shown (over TCP: is a whole line of the stream, none of
  which is lost); a request is confirmed or given up; a cancelled client ends;
* servers: nothing is granted but by a REPLY OK; each request is confirmed before
  the next is read, unless its test asks for the contrary; after an ERR nothing new
  is started; no two answers have the same id; a handler ends when its client does;
* together: the client takes itself for admitted only when the server has
  admitted it, the two state machines agree when nothing is under way, and the
  end of one side ends the other.

`PROJECT.json` lists each hazard at its line together with the properties aimed
at it.

## 2. Modules

```
ChatTypes              the enumerations, what a line and what a datagram can be
  AFsm                 the two tasks, the FSM, timer, shutdown; ServerTasks and
  |                    SnedMessage abstract, as they are in the code
  +- UdpFsm            AFsm with UdpFsm, UdpUtils and the ids of the coders
  |    +- UdpSystem    UdpFsm and UdpServer
  +- TcpFsm            AFsm with TcpFsm, TcpUtils and TcpDecoder
       +- TcpSystem    TcpFsm and TcpServer
  UdpServer            the UDP mock server, and any client
  TcpLines             the tokens of a stream
    TcpServer          the TCP mock server, and any client (TcpFsm also extends TcpLines)
UdpRetransmit          the clock of RetransmitTasks
```

`XProofs` extends `X` with theorems, `MCX` gives its constants their values for
TLC. `UdpFsm` and `TcpFsm` hold `Base == INSTANCE AFsmProofs`, the refinement
mapping; the systems hold `Server == INSTANCE UdpServerProofs` (`TcpServerProofs`),
so that the theorems about a part are at hand where it is used.

### The client

**AFsm** is at once the model of the abstract class and the abstract
specification of its subclasses. `pc` says where each task is: `read`,
`setState`, `startTimer`, `send` for the stdin task; `recv`, `fsm`, `open`,
`stopTimer`, `err`, `throw` for the server task; `wait`, `cleanup`, `exited` for
the code after `Task.WhenAny`. A step is one access to a field that the other
task also uses, in the code's order.

| action | code |
|---|---|
| `EndOfInput`, `LocalCommand`, `Request` | `Console.ReadLine`, `ClientTask`, dispatch in `RunFsm` (AFsm.cs 59-68, 106-117, 145-166) |
| `SetRequestState`, `StartTimer`, `StdinSendEnds` | the input branches of the state functions |
| `ServerTasks` | the abstract method: drops a message, hands a type to the FSM, fails with or without ERR |
| `RunFsmNull` with `Verdict`, `SetOpen`, `StopTimer`, `ErrSent`, `CatchException` | the server branches of the state functions and the loop's catch clause |
| `TimerElapses`, `ElapsedHandler`, `CancelKeyPress`, `WhenAny`, `Exit` | `RunClient` |

**UdpFsm** replaces `ServerTasks`, `StdinSendEnds("send", ..)`, `ErrSent("err")`
and `Exit("cleanup")`. `Send`, `SetFlag`, `CopyUser`, `Retransmit`, `LeaveLoop`
and the two verdicts are `SnedMessage` with `RetransmitTasks` and run in either
task; `Receive`, `AssignId`, `Gate`, `Confirm`, `ConfirmMalformed`,
`ReceiveMalformed` are `ServerTasks`; `SendBye` and the exits are `CleanUp`.
`StdinSendFails` and `ServerSendFails` are a `Send` whose host name does not
resolve. The server is the constant set `ServerMsgs`: any of them arrives at any
moment, any number of times, which covers loss, repetition, delay and reordering.
History variables, read by properties only: `authReplied`, `shown`; `sent` keeps
the last datagram of each task.

**UdpRetransmit** is `RetransmitTasks` for one request with a clock: `Iterate`,
`DelayEnds`, `LeaveLoop` and `Verdict` are the loop and the test after it,
`Confirmed` the CONFIRM the other task receives, `Tick` the time. `UdpFsm` lets
`Retransmit` and `LeaveLoop` happen at any time.

**TcpFsm** replaces the same operations. `Receive`, `ReceiveEnd` and
`ReceiveThrows` are the three ends of `TcpUtils.Receive`; `ProcessLine` is one
iteration of the loop of `TcpDecoder.ProcessMsg`, the last of which hands its type
to `RunFsm(null)`; `SendErr` is the FSM's own ERR, `CatchInServerTasks` the ERR of
the catch clause, `CatchInRunClient` the end of the task. `ServerWrites` lets any
server append a member of `Writes` to the stream, `ServerCloses` close it;
`Receive(n)` takes any number of tokens, so a chunk ends at any place, between CR
and LF included. What precedes the terminator of a line is one token, the type
its first word stands for, or `Other` for what the decoder throws on. `takenFrom`
and `takenTo` are history: where in the stream the last line taken off stands.

### The servers

A request is its type and its *test*: what its text asks the server for, `none`
being the usual answer.

**UdpServer** (`at[p]` is where the handler of port p is):

| action | code in `udp_ipk25_server.py` |
|---|---|
| `ListenerStartsHandler`, `ListenerIgnores` | the loop of `run_server`: CONFIRM from the listening port, a new socket and thread (408-427) |
| `HandleAuth` with `AuthPlan`, `Authenticates` | the initial AUTH (147-203): what will be sent, and whether the loop is entered |
| `HandlerReceives` with `PlanFor`, `JoinPlan`, `MsgPlan`, `Breaks`, `Parses` | one iteration of the loop (206-338): what the datagram is answered with, in which order, and whether the handler then breaks |
| `HandlerSends` with `IdsFor`, `Incremented` | one `sendto`, with the id of the request, the counter or a random id |
| `IdOverflows`, `HandlerTimesOut` | the exception of `struct.pack` and of the ERR about it (344-352); 60 s without a datagram (342) |
| `Shutdown`, `ShutdownComplete` | the signal handler and the end of `run_server` (405-407, 433-437) |
| `Lose`, `ClientSends` | the network and any client |

A handler sends one datagram per step, so others act between a CONFIRM and the
REPLY after it. `toClient` keeps every datagram sent: each may arrive late, again
or never, which also stands for `duplicatejoin`, `duplicatemsg` and `delayauth`.
`answers` is history: the ids of what a handler has sent besides CONFIRMs, in order.
The MSG of the test `malformed` lacks its last zero byte, for which
`UdpDecoder.cs` 45-47 returns null: its type is `Null` (`Truncated`), and the client
takes it to the branch of `ServerTasks` that confirms, sends ERR and then throws.

**TcpServer** (`at` is where `handle_client` is):

| action | code in `tcp_ipk25_server.py` |
|---|---|
| `Accept`, `Recv`, `RecvEnds` | `run_server` (366-374); `conn.recv` with some of the lines that have arrived, or its end (105-142) |
| `AuthLine`, `JoinLine`, `MsgLine`, `ByeLine`, `UnknownLine` | the state machine for one line (158-290) |
| `SendReply` with `AfterReply`, `SendExtra`, `SendPart2` | the threads started for a line, and the state transition between them (292-311, 262-264) |
| `AfterLine` | the ends of the two loops (146, 313-318) |
| `SendMessageAsync` | one sending thread; on a closed connection its message is lost (78-84) |
| `Close`, `Shutdown` | the `finally` clause (324-330); Ctrl+C, with which the daemon threads die |
| `ClientWrites`, `ClientLeaves` | any client |

`threads` lists the sending threads in the order they were started. Nothing makes
them run in that order; with `InOrder = TRUE` they do, as the sleeps between them
intend and practically always achieve.

### Client and server together

**UdpSystem** extends `UdpFsm` with the state of `UdpServer`. A client step is a
step of `UdpFsm` that receives only what is in `toClient` (`Delivery`); what it
transmits is put into `toServer` (`OnItsWay`). Its CONFIRMs are not, because the
handler drops them (`Parses`). There is no step that loses a datagram: one that
is lost is one that stays where it is. Nor is there a shutdown of the server, which
to the client is the loss of everything it sends from then on.

**TcpSystem** extends `TcpFsm` with the state of `TcpServer`; they share `stream`
and `closed`. What the client writes is appended to `inbox` (`Arrives`), a client
that has exited is gone, and the client can only fail to write or read when the
server has closed.

### Abstractions

A line and a message are their types. Of `UserProperty`, `named` says whether a
`DisplayName` is set. A datagram is what the decoder makes of it: type, id, source
port, and whether `ProcessMsg` gets through it. The id is a 16-bit number read back
signed (`ToInt16`). In `Retransmit` the test of `IsMsgSent` and the transmission
after it are one step. A token cancelled before `Task.Run` starts its task is not
modelled (the task would end at once, as it does at its loop condition).
`Console.In.Dispose` in the Ctrl+C handler does not wake a pending `ReadLine`
(AFsm.cs:138 says so); a later `ReadLine` throws, which is `EndOfInput`. `CleanUp`
is `async void`: after `SendBye` and `SetFlag` it reaches `Task.Delay`, control
returns to `RunClient` and the process exits, so a retransmission of BYE is not
modelled; if the encoder throws there (`ExitSilently`) the exception is rethrown on
the thread pool while `Main` returns, and both outcomes are an exit.

TCP: the buffer of 1024 bytes is one of the chunk sizes. A UTF-8 sequence cut by a
chunk decodes to replacement characters; this changes a text, never a type or a
CRLF. `TrimEnd` removes the unused part of the buffer. A connection that cannot be
made fails in `NetworkSetup`, before the tasks exist. BYE is written without being
awaited: it is sent or not.

Servers: a sleep is an arbitrary delay, a time-out of `recv` or `accept` that only
repeats the call is no step. Part of a line stays in the server's buffer until the
rest is there, so `inbox` holds whole lines. A fragment at the end of a connection
is dropped with it.

## 3. What the runs check

| run | bounds | states | shows |
|---|---|---|---|
| `afsm_fair` | none: the state space is finite | 29,835 | `AuthFirst`, `LegalMoves` over all interleavings; `CancelledExits` under fairness |
| `udp_fair` | 2-bit ids, one retransmission, one port, four datagrams, one for each way `ServerTasks` can end | 198,995 | types; `ConfirmedBeforeActed`, `ShownBeforeActed`, `TrafficAfterShownOk`, `NamedBeforeReceive`; the step-by-step refinement of `AFsm`; `SendSettles`, `ErrEndsClient`, `CancelledExitsOnceSent` under fairness |
| `tcp_fair` | three writes of up to three tokens, five tokens in all, all chunks | 325,590 | types; `NothingLost`, `WholeLines`, `TrafficAfterShownOk`; the refinement of `AFsm`; `CancelledExits`, `ExceptionEnds` under fairness |
| `udp_server` | 2-bit ids, four datagrams out of 15, one handler | 72,855 | types; `GrantFirst`, `ConfirmedAtRest`, `CountedIdsUnique`; `HandlerEnds` under fairness |
| `udp_system` | 2-bit ids, two typed lines, one handler, no retransmission | 4.2 M | `AdmittedFirst` end to end |
| `tcp_server` | three lines out of 13, threads in any order | 600,188 | types; `BatchFinished`, `GrantAgrees`, `ErrStartedLast`; `ClientGoneCloses` under fairness |
| `tcp_system` | two typed lines, threads in order | 300,502 | `TrafficIsGranted`, `RestAgrees`; `ErrEndsSession`, `ExitCloses` under fairness |

Why the bounds are enough. `HalfRange = 2` gives the ids -2, -1, 0, 1: zero, both
sides of the sign bit, increments past the largest one, and a server counter that
overflows after three messages. One retransmission distinguishes the first
transmission, a repetition, and the end of the loop. The writes of `tcp_fair` are
two halves of a line cut between CR and LF, the second of which may also stand alone
and make a line the client does not display, and a MSG. Four datagrams are an AUTH, two requests
and a BYE or a repetition; three lines are an AUTH, a request and one behind it in
the same `recv`. In `udp_system` an AUTH and a JOIN are always granted (the proof also
covers a refusal) and a MSG is answered by one the client cannot decode. Any datagram
of the server may be delivered any
number of times, so that a retransmission, which makes the server send once more,
shows the client nothing new; with a retransmission or a second handler the state
space exceeds a hundred million states, and there the proofs of section 4 take over,
which have no bound. Deadlock checking is off where the modelled process really
ends.

In `tcp_system` the threads run in the order they were started: out of order a MSG
may precede the REPLY OK of an AUTH, and the client, as its authors require, ends.
`TrafficIsGranted` is proved for both.

**Fairness.** Weak fairness for the steps of each task, of the timer's callback and
of `RunClient`, which is what the .NET thread pool gives a runnable task; for each
handler and the sending threads, which the interpreter and its 0.2 s and 60 s
time-outs give. The conditions for the tasks include the end of a send, because
`RetransmitTasks` is driven by the clock. A read with a cancelled token ends, and a
TCP write ends. In `tcp_system` the client besides reads what has arrived, since
TCP delivers. There is no fairness for the user, for UDP datagrams, for a server
seen from a client alone (or a client seen from a server), for the five seconds of
the timer, or for Ctrl+C.

### Where the code differs from what is said of it

| run | what TLC finds |
|---|---|
| `join_unwatched` | the `_timer.Stop` that follows a REPLY stops the timer of a JOIN sent meanwhile |
| `cancelled_unsent` | Ctrl+C before the first message does not end the client |
| `tcp_welcome` | REPLY OK and MSG in one chunk: the FSM sees only the MSG, in state Auth, and the client answers its welcome by ERR |
| `udp_late_confirm` | a CONFIRM of the listening port that arrives after the REPLY redirects the client to that port, where its MSG is ignored |
| `udp_last_wait` | the last retransmission is given no time to be answered before "Server has timed out" |

Each is listed under `findings` in `PROJECT.json` with the sentence it
contradicts. Three more statements of the tests are not met. They have a
configuration each, which TLC finds violated, but are not among the runs of
`PROJECT.json`:

| configuration | property | what is said | what TLC finds |
|---|---|---|---|
| `MCUdpServer_trigger.cfg` | `TriggerConfirmed` | "Confirm the trigger message" (`udp_ipk25_server.py` 259, 268) | for `servererr` and `serverbye` the handler breaks (261, 270) before it reads `send_confirm` (282): the message that asked for the ERR or BYE is never confirmed, and its port is closed |
| `MCTcpServer_err_lost.cfg` | `ErrSentBeforeClose` | "Flag to break after sending ERR/BYE" (`tcp_ipk25_server.py` 155) | the handler breaks after it has *started* the thread that sends the ERR (295, 313-314) and goes on to `close`: the ERR can be lost although the threads run in order |
| `MCUdpFsm_duplicate.cfg` | `SecondReplyIgnored` | "Server sends REPLY OK for JOIN \*twice\*. (Client should ignore the second, but CONFIRM both)" (`udp_ipk25_server.py` 51) | the same REPLY once more, in state Open, reaches the FSM, which answers it by ERR (`FSM/AFsm.cs` 266-269) and ends the client: `_usedNums` only keeps it from being printed again |

## 4. What is proved

Without assumptions beyond those on the constants, but for the hypothesis of
`RestAgreement` (below): `UdpAssumption` (ids have at least two bits, the default
port is a port, the option `-r` is an integer, datagrams have the fields of a
datagram), `WritesAssumption`, `ServerAssumption`, `UdpServerAssumption`, and in the
systems `TypedAssumption` and `PeerAssumption` (what one side sends is what the other
can receive). The theorems hold for every id width, number of retransmissions,
handlers and lines, every set of datagrams or writes, and every way to cut a stream.

* **AFsm.** `AuthFirst` and `LegalMoves` are not inductive: once a task has read
  `State`, what it will do is only in its `pc`. `FsmInv` adds `PendingOK`, which
  says what a pending decision still guarantees when the other task has moved
  `State` meanwhile: an AUTH about to be stored meets Start, Auth or Open; a JOIN
  about to be stored meets Open; an Open about to be stored meets Auth or Join,
  and a REPLY OK was handed to the FSM. Each move in `Moves` is one of these.
* **Refinement.** `UdpRefinesAFsm`: `BaseLabel` maps the steps of `SnedMessage`
  to `send` or `err` and those of `ServerTasks` to `recv`. `Confirm` is the step
  at which AFsm's `ServerTasks` hands a type to the FSM; a dropped message is
  that action at `Gate`; all other internal steps stutter. The step needs that
  `LastOutputMsgType` is still the type of `rx`, which is proved first.
  `TcpRefinesAFsm` maps `lines` to `recv` and `rethrow` to `throw`: the lines of a
  chunk before the last are stutters, and `CatchInRunClient` is AFsm's
  `CatchException`.
* **UDP client.** Because `Base` is an instance of `AFsmProofs`, the three theorems
  of AFsm hold of the UDP client through the refinement. `ConfirmedFirst` rests on
  `IdOK`: at `confirm` the field `MessageId` has the id of `rx`, unless `rx` is a
  CONFIRM. At the first read of `IsMsgSent` the id is left out only for a delayed
  CONFIRM or a raised flag, and no other task lowers the flag: between the two
  reads it can rise, and then the message is dropped, but never fall. `ShownFirst`
  uses that an id in `usedNums` is the id of a datagram in `shown`;
  `TrafficAfterShown` combines the two with `AuthFirst` of the base class.
* **TCP client.** `LinesInv` is the induction for the lines: `TakesLine` shows that
  the first CRLF of the saved input is the next line end of the stream. This needs
  `NothingLost` (the saved input is the part of the stream between `takenTo` and
  `readPos`) and that `takenTo` is a line end itself: otherwise the CR of a
  terminator could already have been taken off, and its LF would end a line inside
  the next one. `TcpTrafficAfterShown` adds `AuthFirst` of the base class.
* **Retransmission.** `GivenUpNotBefore` from `Clock`: each repetition came a
  `Timeout` after the transmission before it, so `n` of them took `n` times
  `Timeout`.
* **TCP server.** `Phase` says what the handler knows where it is: the reply it is
  about to send fits the state in which it took the line, and no state is left
  half-way where it receives. `Told` relates `client_state` to the messages in
  `threads`, whatever their order: `GrantsAgree` and `ErrsAreStartedLast` follow. The
  latter is about threads being started: one started before the ERR's may still send
  after it.
* **UDP server.** `Types` with a plan that fits the request; then, per handler, what
  it has sent against what its plan still holds (`HandlerView`). `HandlersOK`
  joins three parts and is inductive given `Types`: `GrantOK` for `GrantsFirst`,
  `NumberOK` for `CountedIdsAreUnique`, `ConfirmOK` for `ConfirmsAtRest`. `NumberOK`
  says that the ids in `answers` after the first increase strictly up to the counter,
  and that whatever the handler still has to send but a CONFIRM and its first REPLY
  takes the next one: the REPLY to a JOIN as well as a MSG, ERR or BYE. `Origin`: the
  listener sends only CONFIRMs.
* **Systems.** `SystemIsClient` shows that client and server together behave as the
  client alone with some server, so all its theorems hold. Over UDP, `Linked` adds
  that the client works on datagrams of the server, and `Admitted` that a handler
  has sent REPLY OK once the FSM was given one: `AdmissionFirst`. Over TCP, `Joint`
  carries the invariants of both sides, and `Carried` says that a JOIN or MSG on its
  way to the server was written by a client that was answered by REPLY OK; a
  REPLY OK in the stream was started by a thread, so the server has granted it and
  `GrantAgrees` keeps it so: `TrafficGranted`, for threads in any order.
* **The server in the system.** Over TCP the system is also a behaviour of the
  server (`SystemIsServer`), so that every theorem about the server holds in it; of
  its types this is `SystemServerTypes`. The server's client is bounded: `WrittenOK` counts what each
  task of the client still owes. The stdin task writes one line for each line the
  user types, `ServerTasks` at most an ERR of its FSM and the ERR of
  `CatchException`, `RunClient` at most the BYE: never more than
  `MaxTyped + 3`. Over UDP the server's `toServer` is written by the client, so the
  system is no behaviour of `ServerSpec`; but no step of the client touches what
  `HandlersOK` is about: `SystemServerPromises`.
* **Agreement at rest.** `RestAgreement` proves `RestAgrees` from the invariant
  `Agreement`. No line on its way asks for a REPLY the client does not wait for
  (`Asked`), and the threads that have run are the first ones (`InOrderSent`). Until
  the FSM was given a REPLY OK (`FirstGrant`), the server sends whole lines and no
  REPLY after a REPLY OK, and a REPLY OK that was taken off was passed over for a
  later line, which ends the session. After it, at most one JOIN or REPLY is on its
  way round -- with the stdin task, in the socket or the buffer, with the handler,
  with a thread, in the stream, with the FSM -- and none when the FSM is open
  (`OneDue`); the FSM stays in Auth only until it acts, or a second AUTH on its way
  ends the session (`NotReopened`); an FSM in Start has sent nothing (`NotStarted`).
  At rest nothing is on its way, and what is left are the pairs of `Agreed`.

  The theorem has a hypothesis, `Orderly`: the threads run in the order they were
  started, and no line is the test `unexpectedReply`, by which the server answers a
  MSG with a REPLY. Neither half can be dropped. With the threads out of order TLC
  violates `RestAgrees` with two typed lines: the REPLY NOK to the first AUTH comes
  after the REPLY OK to the second. With a MSG that asks for a REPLY it does so with
  three: that REPLY answers the JOIN typed after the MSG, before the server has read
  the JOIN. `tcp_system` keeps to both halves.

Every invariant a passing run checks is stated by a theorem. Only model-checked is
liveness (`CancelledExits`, `SendSettles`, `ErrEndsClient`, `CancelledExitsOnceSent`,
`ExceptionEnds`, `ClientGoneCloses`, `HandlerEnds`, `ErrEndsSession`, `ExitCloses`),
which is outside the prover's reach.

## 5. Not modelled

* Texts: which byte strings the decoders accept, which lines `Input` takes for
  commands, how the encoders and the servers lay out a message, which words select a
  scenario. These are functions of short strings; the state machines see only their
  results. So is the command-line parser, whose results are constants here.
* In the servers: the clause for `UnicodeDecodeError` and those around the parsing
  of a line, which cannot be reached (`decode` ignores errors, and nothing in the
  `try` blocks raises); a datagram the client's encoders cannot produce, such as an
  AUTH that does not parse; a failure to bind or to accept.
* Other errors of a socket in `UdpServer`: they end a handler or the listener as
  `HandlerTimesOut` and `Shutdown` do.
* `Program.cs` and `Debug.cs` hold no state. The unit tests were read as
  documentation.
