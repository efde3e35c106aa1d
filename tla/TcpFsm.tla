------------------------------- MODULE TcpFsm -------------------------------
(***************************************************************************)
(* The TCP client: TcpFsm with TcpDecoder and TcpUtils on top of the tasks *)
(* of AFsm.                                                                *)
(*                                                                         *)
(* The server writes members of Writes and may close; the client reads the *)
(* stream in chunks that may end anywhere, between a CR and its LF         *)
(* included.  One iteration of TcpDecoder.ProcessMsg is one step.          *)
(***************************************************************************)
EXTENDS AFsm, TcpLines, Integers

CONSTANTS
    Writes,      \* what a server can write at once
    MaxWritten   \* bound: tokens a server writes during one connection

ASSUME WritesAssumption == Writes \subseteq Seq(Tokens) /\ MaxWritten \in Nat

VARIABLES
    stream,       \* what the server has written
    closed,       \* it has closed the connection
    readPos,      \* how much of it ReadAsync has returned
    savedInput,   \* TcpDecoder._savedInput
    takenFrom,    \* history: the last line ProcessMsg took off begins after
    takenTo,      \* this position of the stream and ends at this one
    sent          \* the type of the last line each task transmitted

tcpVars == <<stream, closed, readPos, savedInput, takenFrom, takenTo, sent>>
vars == <<fsmVars, tcpVars>>

fsmData == <<State, LastInputMsgType, timer, elapsed, named>>
lineVars == <<stream, closed, readPos, savedInput, takenFrom, takenTo>>

-----------------------------------------------------------------------------
(* TcpDecoder. *)

CrlfAt(text, i) == i \in 1 .. Len(text) - 1 /\ text[i] = CR /\ text[i + 1] = LF

\* Contains("\r\n").
HasCrlf(text) == \E i \in 1 .. Len(text) : CrlfAt(text, i)

\* IndexOf("\r\n"): the first one.
IsIndexOfCrlf(text, i) ==
    CrlfAt(text, i) /\ \A j \in 1 .. i - 1 : ~CrlfAt(text, j)

\* Mutant: Substring(0, index + 1), the LF stays in _savedInput.
EndsBeforeLf(i) == i

\* Substring(0, index + 2): where the line with its CR at i ends.
EndOfLine(i) == i + 1

\* Mutant: _savedInput is cleared when a line was found.
Forget(text, i) == << >>

\* What stays in _savedInput.
RestAfter(text, i) == SubSeq(text, EndOfLine(i) + 1, Len(text))

\* The types ProcessMsg prints; it throws on any other line.
Displays(type) == type \in Replies \cup {"Msg", "Err"}

\* TcpUtils.Receive returns the next n tokens.  Without a CRLF in this chunk
\* ProcessMsg returns null, whatever _savedInput holds.
Receive(n) ==
    /\ Running /\ pc["server"] = "recv"
    /\ n \in 1 .. Len(stream) - readPos
    /\ LET chunk == SubSeq(stream, readPos + 1, readPos + n)
       IN  /\ savedInput' = savedInput \o chunk
           /\ IF HasCrlf(chunk)
              THEN /\ Goto("server", "lines")
                   /\ UNCHANGED LastOutputMsgType
              ELSE /\ Goto("server", NextRecv)
                   /\ LastOutputMsgType' = Null
    /\ readPos' = readPos + n
    /\ UNCHANGED <<fsmData, cancelled, authReplied, stream, closed, takenFrom,
                   takenTo, sent>>

\* The stream has ended: ReadAsync returns 0, the buffer decodes to "".
ReceiveEnd ==
    /\ Running /\ pc["server"] = "recv"
    /\ closed /\ readPos = Len(stream)
    /\ LastOutputMsgType' = Null
    /\ Goto("server", NextRecv)
    /\ UNCHANGED <<fsmData, cancelled, authReplied, tcpVars>>

\* One iteration of ProcessMsg.  Its result is the type of the last line.
ProcessLine ==
    /\ Running /\ pc["server"] = "lines"
    /\ \E i \in 1 .. Len(savedInput) :
          /\ IsIndexOfCrlf(savedInput, i)
          /\ savedInput' = RestAfter(savedInput, i)
          /\ takenFrom' = takenTo
          /\ takenTo' = takenTo + EndOfLine(i)
    /\ \/ /\ ~Displays(savedInput[1])
          /\ Goto("server", "throw")
          /\ UNCHANGED <<LastOutputMsgType, authReplied>>
       \/ /\ Displays(savedInput[1]) /\ HasCrlf(savedInput')
          /\ UNCHANGED <<pc, LastOutputMsgType, authReplied>>
       \/ /\ Displays(savedInput[1]) /\ ~HasCrlf(savedInput')
          /\ LastOutputMsgType' = savedInput[1]
          /\ authReplied' = (authReplied \/ savedInput[1] = "ReplyOk")
          /\ Goto("server", "fsm")
    /\ UNCHANGED <<fsmData, cancelled, stream, closed, readPos, sent>>

-----------------------------------------------------------------------------
(* SnedMessage, the exceptions of ServerTasks, and CleanUp. *)

\* WriteAsync by task t succeeds (ok), or throws and nothing is sent.
Write(t, type, ok) ==
    /\ sent' = IF ok THEN [sent EXCEPT ![t] = type] ELSE sent
    /\ UNCHANGED lineVars

StdinSend(ok) ==
    StdinSendEnds("send", ok) /\ Write("stdin", LastInputMsgType, ok)

\* The ERR of AuthState and OpenState.
SendErr(ok) == ErrSent("err") /\ Write("server", "Err", ok)

\* Mutant: the catch clause of ServerTasks does not throw again.
CatchReturns(ok) ==
    /\ Running /\ pc["server"] = "throw"
    /\ Goto("server", NextRecv)
    /\ UNCHANGED <<fsmData, LastOutputMsgType, cancelled, authReplied>>
    /\ Write("server", "Err", ok)

\* The catch clause of ServerTasks answers every exception of decoder and FSM
\* by an ERR, one that followed an ERR included, and throws again.
CatchInServerTasks(ok) ==
    /\ Running /\ pc["server"] = "throw"
    /\ Goto("server", "rethrow")
    /\ UNCHANGED <<fsmData, LastOutputMsgType, cancelled, authReplied>>
    /\ Write("server", "Err", ok)

\* Receive is outside of the try block: cancelled, or the connection is lost.
ReceiveThrows ==
    /\ Running /\ pc["server"] = "recv"
    /\ Goto("server", "rethrow")
    /\ UNCHANGED <<fsmData, LastOutputMsgType, cancelled, authReplied, tcpVars>>

\* The catch clause in RunClient.
CatchInRunClient ==
    /\ Running /\ pc["server"] = "rethrow"
    /\ cancelled' = TRUE
    /\ Goto("server", "done")
    /\ UNCHANGED <<fsmData, LastOutputMsgType, authReplied, tcpVars>>

\* CleanUp sends BYE, waits for nothing and disposes the stream.
CleanUp(ok) == Exit("cleanup") /\ Write("main", "Bye", ok)

-----------------------------------------------------------------------------
(* The server, seen from the client.                                        *)

ServerWrites(w) ==
    /\ ~closed
    /\ Len(stream) + Len(w) <= MaxWritten
    /\ stream' = stream \o w
    /\ UNCHANGED <<fsmVars, closed, readPos, savedInput, takenFrom, takenTo, sent>>

ServerCloses ==
    /\ ~closed
    /\ closed' = TRUE
    /\ UNCHANGED <<fsmVars, stream, readPos, savedInput, takenFrom, takenTo, sent>>

-----------------------------------------------------------------------------
Init ==
    /\ FsmInit
    /\ stream = << >>
    /\ closed = FALSE
    /\ readPos = 0
    /\ savedInput = << >>
    /\ takenFrom = 0
    /\ takenTo = 0
    /\ sent = [t \in Tasks |-> Null]

RunFsmWork == RunFsmNull \/ SetOpen \/ StopTimer

\* Steps AFsm defines completely.
Inherited ==
    /\ \/ User \/ StdinWork \/ RunFsmWork
       \/ TimerElapses \/ ElapsedHandler \/ CancelKeyPress
       \/ WhenAny
    /\ UNCHANGED tcpVars

ServerStep ==
    \/ ProcessLine \/ CatchInRunClient
    \/ \E ok \in BOOLEAN : SendErr(ok) \/ CatchInServerTasks(ok)

Next ==
    \/ Inherited
    \/ \E n \in 1 .. Len(stream) : Receive(n)
    \/ ReceiveEnd
    \/ ReceiveThrows
    \/ ServerStep
    \/ \E ok \in BOOLEAN : StdinSend(ok) \/ CleanUp(ok)
    \/ \E w \in Writes : ServerWrites(w)
    \/ ServerCloses

Spec == Init /\ [][Next]_vars

\* Both tasks, the thread pool and the main task are scheduled, WriteAsync ends
\* and ReadAsync with a cancelled token throws.  Nothing obliges the user, the
\* server or the clock.
Fairness ==
    /\ WF_vars((\E ok \in BOOLEAN : StdinSend(ok)) \/ (StdinWork /\ UNCHANGED tcpVars))
    /\ WF_vars(ServerStep \/ (RunFsmWork /\ UNCHANGED tcpVars)
               \/ (cancelled /\ ReceiveThrows))
    /\ WF_vars(ElapsedHandler /\ UNCHANGED tcpVars)
    /\ WF_vars((\E ok \in BOOLEAN : CleanUp(ok)) \/ (WhenAny /\ UNCHANGED tcpVars))

FairSpec == Spec /\ Fairness

-----------------------------------------------------------------------------
(* The class TcpFsm implements its base class: the lines of a chunk are one  *)
(* call of AFsm's ServerTasks, and the ERR after an exception is invisible.  *)

BaseLabel(t) ==
    CASE t = "server" /\ pc[t] = "lines"   -> "recv"
      [] t = "server" /\ pc[t] = "rethrow" -> "throw"
      [] OTHER                             -> pc[t]

Base == INSTANCE AFsmProofs WITH pc <- [t \in Tasks |-> BaseLabel(t)]

\* TcpFsm is an AFsm.
ImplementsAFsm == Base!FsmSpec

-----------------------------------------------------------------------------
(* Properties. *)

TypeOK ==
    /\ Base!FsmTypeOK
    /\ DOMAIN pc = Tasks
    /\ stream \in Seq(Tokens) /\ Len(stream) <= MaxWritten
    /\ closed \in BOOLEAN
    /\ readPos \in 0 .. Len(stream)
    /\ savedInput \in Seq(Tokens)
    /\ takenFrom \in Nat /\ takenTo \in Nat
    /\ sent \in [Tasks -> MessageTypes \cup {Null}]

\* Where the lines of the stream end, and the lines: pairs of the positions
\* between which they stand.
LineEnds == {e \in 2 .. Len(stream) : stream[e - 1] = CR /\ stream[e] = LF}
Lines ==
    {l \in ({0} \cup LineEnds) \X LineEnds :
        l[1] < l[2] /\ \A e \in LineEnds : ~(l[1] < e /\ e < l[2])}

\* However the stream is cut into chunks, no part of it is lost or read twice:
\* what ProcessMsg took off and what is saved make up what was received.
NothingLost == savedInput = SubSeq(stream, takenTo + 1, readPos)

\* However the stream is cut into chunks, ProcessMsg takes off exactly one line
\* of it at a time, from its beginning to its CRLF, and the FSM only acts on
\* the type of a line taken off whole.
WholeLines ==
    /\ takenTo > 0 => <<takenFrom, takenTo>> \in Lines
    /\ pc["server"] \in {"fsm", "open", "stopTimer", "err"}
         => takenTo > 0 /\ LastOutputMsgType = stream[takenFrom + 1]

\* No JOIN and no MSG leaves the client before a line REPLY OK of the stream was
\* shown to the user.
TrafficAfterShownOk ==
    sent["stdin"] \in {"Join", "Msg"}
    => \E l \in Lines : l[2] <= takenTo /\ stream[l[1] + 1] = "ReplyOk"

\* An exception in decoder or FSM -- a BYE, a PING, an unknown line -- ends the
\* client.
ExceptionEnds == pc["server"] = "throw" ~> pc["main"] = "exited"

\* The scenario "REPLY OK, then MSG" of the mock server: a MSG after a REPLY OK
\* to AUTH was shown is no protocol error.
WelcomeAccepted ==
    State = "Auth" /\ pc["server"] = "err"
    => \A l \in Lines : l[2] <= takenTo => stream[l[1] + 1] # "ReplyOk"
=============================================================================
