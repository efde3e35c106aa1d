----------------------------- MODULE TcpSystem -----------------------------
(***************************************************************************)
(* The TCP client connected to the mock TCP server.  A step of the client  *)
(* is a step of TcpFsm, and what it writes arrives in the server's socket; *)
(* a step of the server is one of TcpServer, and what it writes extends    *)
(* the stream the client reads.                                            *)
(***************************************************************************)
EXTENDS TcpFsm

CONSTANTS
    ClientLines,   \* what a user makes the client write (TcpServer)
    MaxTyped,      \* bound: lines the user types
    InOrder        \* the server's threads run in the order they are started

VARIABLES
    typed,          \* how many lines the user has typed
    inbox, written, client_state, buffer, reply, extra, at, threads \* TcpServer

\* A client writes what was typed, an ERR of either kind, and BYE.
Server == INSTANCE TcpServerProofs WITH
              MaxLines <- MaxTyped + 3,
              clientGone <- (pc["main"] = "exited")

ASSUME PeerAssumption ==
    /\ ClientLines \subseteq Server!AllLines
    /\ MaxTyped \in Nat
    /\ InOrder \in BOOLEAN
    /\ Server!Texts \subseteq Writes

peerVars == <<inbox, written, client_state, buffer, reply, extra, at, threads>>
sysVars == <<vars, peerVars, typed>>

-----------------------------------------------------------------------------
(* The client.  It can only fail to write, or to read, on a connection that *)
(* the server has closed.                                                   *)

\* A step in which the client writes nothing.
Silent == UNCHANGED <<peerVars, typed>>

\* What task t writes is now in the server's socket.
Arrives(t) ==
    /\ \E line \in ClientLines :
          line.type = sent'[t] /\ inbox' = Append(inbox, line)
    /\ written' = written + 1
    /\ UNCHANGED <<client_state, buffer, reply, extra, at, threads, typed>>

\* WriteAsync by task t succeeds or throws.
Writing(t, ok) == IF ok THEN Arrives(t) ELSE closed /\ Silent

UserStep ==
    /\ \/ /\ typed < MaxTyped
          /\ typed' = typed + 1
          /\ \E t \in LineTypes : LocalCommand(t) \/ Request(t)
       \/ typed' = typed /\ EndOfInput
    /\ UNCHANGED <<tcpVars, peerVars>>

StdinStep ==
    \/ StdinWork /\ UNCHANGED tcpVars /\ Silent
    \/ \E ok \in BOOLEAN : StdinSend(ok) /\ Writing("stdin", ok)

ReadStep ==
    /\ \/ \E n \in 1 .. Len(stream) : Receive(n)
       \/ ReceiveEnd
       \/ cancelled /\ ReceiveThrows
       \/ ProcessLine
       \/ CatchInRunClient
       \/ RunFsmWork /\ UNCHANGED tcpVars
    /\ Silent

ServerTaskStep ==
    \/ ReadStep
    \/ \E ok \in BOOLEAN :
          (SendErr(ok) \/ CatchInServerTasks(ok)) /\ Writing("server", ok)

MainStep ==
    \/ WhenAny /\ UNCHANGED tcpVars /\ Silent
    \/ \E ok \in BOOLEAN : CleanUp(ok) /\ Writing("main", ok)

\* The server's close reaches the client as a reset.
ConnectionLost == closed /\ ~cancelled /\ ReceiveThrows /\ Silent

TimerStep == TimerElapses /\ UNCHANGED tcpVars /\ Silent
HandlerOfTimer == ElapsedHandler /\ UNCHANGED tcpVars /\ Silent
CtrlC == CancelKeyPress /\ UNCHANGED tcpVars /\ Silent

ClientStep ==
    \/ UserStep \/ StdinStep \/ ServerTaskStep \/ MainStep
    \/ ConnectionLost \/ TimerStep \/ HandlerOfTimer \/ CtrlC

-----------------------------------------------------------------------------
(* The server. *)

clientSide == <<fsmVars, readPos, savedInput, takenFrom, takenTo, sent, typed>>

HandlerStep == UNCHANGED clientSide /\ Server!Handler
SenderStep ==
    /\ UNCHANGED clientSide
    /\ Server!Sender
    /\ Len(stream') <= MaxWritten
ShutdownStep == UNCHANGED clientSide /\ Server!Shutdown

-----------------------------------------------------------------------------
SysInit ==
    /\ Init
    /\ Server!ServerInit
    /\ typed = 0

SysNext == ClientStep \/ HandlerStep \/ SenderStep \/ ShutdownStep

SysSpec == SysInit /\ [][SysNext]_sysVars

\* As in TcpFsm and TcpServer; besides, the client reads what has arrived.
SysFairness ==
    /\ WF_sysVars(StdinStep) /\ WF_sysVars(ServerTaskStep)
    /\ WF_sysVars(HandlerOfTimer) /\ WF_sysVars(MainStep)
    /\ WF_sysVars(HandlerStep) /\ WF_sysVars(SenderStep)

SysFairSpec == SysSpec /\ SysFairness

-----------------------------------------------------------------------------
(* Properties. *)

\* The server never takes a JOIN or MSG of this client for one of a client that
\* has yet to authenticate: when it is in the socket, the server has granted the
\* AUTH, and does not take that back.
TrafficIsGranted ==
    \A lines \in {inbox, buffer} : \A i \in 1 .. Len(lines) :
        lines[i].type \in {"Join", "Msg"}
        => client_state \notin {"START", "AUTH_WAIT"}

\* Nothing is under way between the two and neither has ended.
AtRest ==
    /\ pc["stdin"] = "read" /\ pc["server"] = "recv" /\ ~cancelled /\ ~elapsed
    /\ readPos = Len(stream) /\ inbox = << >>
    /\ at = "recv" /\ Server!Unsent = {}

\* A chunk ended between the CR and the LF: ProcessMsg, which looks for CRLF in
\* the chunk and not in _savedInput, has left a whole line behind.
LineLeftBehind == pc["server"] = "recv" /\ HasCrlf(savedInput)

Agreed == {<<"Start", "START">>, <<"Auth", "START">>, <<"Open", "OPEN">>,
           <<"Join", "JOIN_WAIT">>, <<"Join", "OPEN">>}

\* When nothing is under way the two state machines agree, but for one thing:
\* the client is still in Join when the REPLY came in one chunk with the MSG after
\* it, since the FSM is only given the last type.
RestAgrees == AtRest /\ ~LineLeftBehind => <<State, client_state>> \in Agreed

\* An ERR the server has sent ends the client, unless the line stays behind.
ErrEndsSession ==
    (\E k \in 1 .. Len(stream) : stream[k] = "Err") ~> ~Running \/ LineLeftBehind

\* When the client has ended the server closes the connection.
ExitCloses == ~Running ~> closed
=============================================================================
