--------------------------- MODULE TcpSystemProofs ---------------------------
(***************************************************************************)
(* What holds of the TCP client and the mock server together, for any user *)
(* and in whatever order the server's threads run.                         *)
(***************************************************************************)
EXTENDS TcpSystem, TcpFsmProofs

\* The constants of the two fit together: what TcpServer assumes holds here.
LEMMA PeerFits ==
    /\ ClientLines \subseteq Server!AllLines
    /\ MaxTyped + 3 \in Nat
    /\ InOrder \in BOOLEAN
  BY PeerAssumption

-----------------------------------------------------------------------------
(* The client of the system is a client, and the server a server that gets  *)
(* lines of its client.                                                     *)

LEMMA ClientStepIsNext == ClientStep => Next
  <1> SUFFICES ASSUME ClientStep PROVE Next
    OBVIOUS
  <1>1. CASE UserStep
    BY <1>1 DEF UserStep, Next, Inherited, User
  <1>2. CASE StdinStep
    BY <1>2 DEF StdinStep, Next, Inherited
  <1>3. CASE ServerTaskStep
    BY <1>3 DEF ServerTaskStep, ReadStep, Next, Inherited, ServerStep
  <1>4. CASE MainStep
    BY <1>4 DEF MainStep, Next, Inherited
  <1>5. CASE ConnectionLost
    BY <1>5 DEF ConnectionLost, Next
  <1>6. CASE TimerStep \/ HandlerOfTimer \/ CtrlC
    BY <1>6 DEF TimerStep, HandlerOfTimer, CtrlC, Next, Inherited
  <1> QED
    BY <1>1, <1>2, <1>3, <1>4, <1>5, <1>6 DEF ClientStep

\* A step in which task t writes a line, or fails to.
LEMMA WritingSends ==
    ASSUME SentOK', NEW t \in Tasks, NEW ok \in BOOLEAN, Writing(t, ok), UNCHANGED lineVars,
           ok /\ t # "stdin" => sent'[t] \in {"Err", "Bye"}
    PROVE  /\ UNCHANGED <<client_state, buffer, at, threads, reply, extra, stream, closed>>
           /\ \/ inbox' = inbox
              \/ \E line \in ClientLines :
                    /\ inbox' = Append(inbox, line)
                    /\ line.type \in {"Join", "Msg"} => authReplied'
  <1>1. CASE ok
    <2>1. PICK line \in ClientLines : line.type = sent'[t] /\ inbox' = Append(inbox, line)
      BY <1>1 DEF Writing, Arrives
    <2>2. line.type \in {"Join", "Msg"} => authReplied'
      BY <1>1, <2>1 DEF SentOK
    <2> QED
      BY <1>1, <2>1, <2>2 DEF Writing, Arrives, lineVars
  <1>2. CASE ~ok
    BY <1>2 DEF Writing, Silent, peerVars, lineVars
  <1> QED
    BY <1>1, <1>2

\* What a step of the client does to the server: at most one line arrives.
LEMMA ClientSends ==
    ASSUME SentOK, SentOK', ClientStep
    PROVE  /\ UNCHANGED <<client_state, buffer, at, threads, reply, extra, stream, closed>>
           /\ \/ inbox' = inbox
              \/ \E line \in ClientLines :
                    /\ inbox' = Append(inbox, line)
                    /\ line.type \in {"Join", "Msg"} => authReplied'
  <1>1. CASE UserStep \/ TimerStep \/ HandlerOfTimer \/ CtrlC
    BY <1>1 DEF UserStep, TimerStep, HandlerOfTimer, CtrlC, Silent, peerVars, tcpVars
  <1>2. CASE ReadStep \/ ConnectionLost
    BY <1>2 DEF ReadStep, ConnectionLost, Silent, peerVars, tcpVars, Receive, ReceiveEnd,
                ReceiveThrows, ProcessLine, CatchInRunClient
  <1>3. CASE StdinStep
    <2>1. CASE StdinWork /\ UNCHANGED tcpVars /\ Silent
      BY <2>1 DEF Silent, peerVars, tcpVars
    <2>2. ASSUME NEW ok \in BOOLEAN, StdinSend(ok), Writing("stdin", ok)
          PROVE  UNCHANGED lineVars
      BY <2>2 DEF StdinSend, Write
    <2> QED
      BY <1>3, <2>1, <2>2, WritingSends DEF StdinStep, Tasks
  <1>4. CASE ServerTaskStep
    <2>1. ASSUME NEW ok \in BOOLEAN, SendErr(ok) \/ CatchInServerTasks(ok)
          PROVE  UNCHANGED lineVars /\ (ok => sent' = [sent EXCEPT !["server"] = "Err"])
      BY <2>1 DEF SendErr, CatchInServerTasks, Write
    <2>2. ASSUME NEW ok \in BOOLEAN, SendErr(ok) \/ CatchInServerTasks(ok), ok
          PROVE  sent'["server"] = "Err"
      BY <2>1, <2>2 DEF SentOK, Tasks
    <2> QED
      BY <1>2, <1>4, <2>1, <2>2, WritingSends DEF ServerTaskStep, Tasks
  <1>5. CASE MainStep
    <2>1. CASE WhenAny /\ UNCHANGED tcpVars /\ Silent
      BY <2>1 DEF Silent, peerVars, tcpVars
    <2>2. ASSUME NEW ok \in BOOLEAN, CleanUp(ok)
          PROVE  UNCHANGED lineVars /\ (ok => sent'["main"] = "Bye")
      BY <2>2 DEF CleanUp, Write, SentOK, Tasks
    <2> QED
      BY <1>5, <2>1, <2>2, WritingSends DEF MainStep, Tasks
  <1> QED
    BY <1>1, <1>2, <1>3, <1>4, <1>5 DEF ClientStep

\* A step that is not the client's is the server's.
LEMMA ServerMoves ==
    ASSUME SysNext, ~ClientStep
    PROVE  /\ UNCHANGED clientSide
           /\ Server!Handler \/ Server!Sender \/ Server!Shutdown
           /\ Server!ServerNext
  BY DEF SysNext, HandlerStep, SenderStep, ShutdownStep, Server!ServerNext

\* The server does nothing any server may not do.
LEMMA ServerIsEnvironment ==
    ASSUME LinesInv, Server!Told, SysNext, ~ClientStep
    PROVE  Next \/ UNCHANGED vars
  <1>1. UNCHANGED <<fsmVars, readPos, savedInput, takenFrom, takenTo, sent>>
    BY ServerMoves DEF clientSide
  <1>2. CASE UNCHANGED <<stream, closed>>
    BY <1>1, <1>2 DEF vars, tcpVars
  <1>3. CASE stream' = stream /\ closed' = TRUE
    <2>1. closed \in BOOLEAN
      BY DEF LinesInv, PositionsOK
    <2>2. CASE ~closed
      BY <1>1, <1>3, <2>2 DEF ServerCloses, Next
    <2>3. CASE closed
      BY <1>2, <1>3, <2>1, <2>3
    <2> QED
      BY <2>2, <2>3
  <1>4. ASSUME SenderStep
        PROVE  Next \/ UNCHANGED vars
    <2>1. PICK i \in 1 .. Len(threads) : Server!SendMessageAsync(i)
      BY <1>4 DEF SenderStep, Server!Sender
    <2>2. CASE ~closed /\ stream' = stream \o threads[i].text
      <3> DEFINE w == threads[i].text
      <3>1. threads[i] \in Server!Thread
        BY <2>1, ElementOfSeq DEF Server!Told, Server!ThreadsOK
      <3>2. w \in Server!Texts
        BY <3>1 DEF Server!Thread
      <3>3. w \in Writes /\ w \in Seq(Tokens) /\ stream \in Seq(Tokens)
        BY <3>2, PeerAssumption, WritesAssumption DEF LinesInv, PositionsOK
      <3>4. stream' = stream \o w /\ Len(stream') <= MaxWritten /\ closed' = closed
        BY <1>4, <2>1, <2>2 DEF SenderStep, Server!SendMessageAsync
      <3> HIDE DEF w
      <3>5. Len(stream \o w) = Len(stream) + Len(w)
        BY <3>3, ConcatProperties
      <3>6. ServerWrites(w)
        BY <1>1, <2>2, <3>4, <3>5 DEF ServerWrites
      <3> QED
        BY <3>3, <3>6 DEF Next
    <2>3. CASE UNCHANGED <<stream, closed>>
      BY <1>2, <2>3
    <2> QED
      BY <2>1, <2>2, <2>3 DEF Server!SendMessageAsync
  <1>5. CASE HandlerStep \/ ShutdownStep
    <2>1. stream' = stream /\ (closed' = closed \/ closed' = TRUE)
      BY <1>5 DEF HandlerStep, ShutdownStep, Server!Handler, Server!Accept, Server!Recv,
                  Server!RecvEnds, Server!AuthLine, Server!JoinLine, Server!MsgLine,
                  Server!ByeLine, Server!UnknownLine, Server!Takes, Server!SendReply,
                  Server!SendPart2, Server!SendExtra, Server!Close, Server!Shutdown,
                  Server!connVars
    <2> QED
      BY <1>2, <1>3, <2>1
  <1>6. HandlerStep \/ SenderStep \/ ShutdownStep
    BY DEF SysNext
  <1> QED
    BY <1>4, <1>5, <1>6

-----------------------------------------------------------------------------
(* Both keep what they keep on their own. *)

ServerOK == Server!Phase /\ Server!Told

LEMMA InitServer == SysInit => ServerOK
  BY PeerFits, Server!InitPhase, Server!InitTold DEF SysInit, ServerOK

LEMMA ServerStepOK ==
    ASSUME ServerOK, SentOK, SentOK', [SysNext]_sysVars
    PROVE  ServerOK'
  <1>1. CASE ClientStep
    <2>1. /\ UNCHANGED <<client_state, buffer, at, threads, reply, extra, stream, closed>>
          /\ \/ inbox' = inbox
             \/ \E line \in ClientLines : inbox' = Append(inbox, line)
      BY <1>1, ClientSends
    <2>2. inbox' \in Seq(Server!AllLines)
      BY <2>1, PeerAssumption, AppendProperties DEF ServerOK, Server!Phase
    <2>3. Server!Phase'
      BY <2>1, <2>2 DEF ServerOK, Server!Phase, Server!ReplyFits
    <2>4. Server!Told'
      BY <2>1 DEF ServerOK, Server!Told, Server!ThreadsOK, Server!GrantAgrees,
                  Server!ErrStartedLast, Server!Granted
    <2> QED
      BY <2>3, <2>4 DEF ServerOK
  <1>2. CASE SysNext /\ ~ClientStep
    BY <1>2, ServerMoves, PeerFits, Server!PhaseStep, Server!ToldStep DEF ServerOK
  <1>3. CASE UNCHANGED sysVars
    BY <1>3 DEF sysVars, vars, tcpVars, peerVars, ServerOK, Server!Phase, Server!ReplyFits,
                Server!Told, Server!ThreadsOK, Server!GrantAgrees, Server!ErrStartedLast,
                Server!Granted
  <1> QED
    BY <1>1, <1>2, <1>3

Joint == Control /\ Base!FsmInv /\ LinesInv /\ SentOK /\ ServerOK

LEMMA JointStep == Joint /\ [SysNext]_sysVars => [Next]_vars /\ Joint'
  <1> SUFFICES ASSUME Joint, [SysNext]_sysVars PROVE [Next]_vars /\ Joint'
    OBVIOUS
  <1>1. [Next]_vars
    BY ClientStepIsNext, ServerIsEnvironment DEF Joint, ServerOK, sysVars
  <1>2. Control' /\ LinesInv' /\ SentOK'
    BY <1>1, ControlStep, LinesStep, SentStep DEF Joint
  <1>3. Base!FsmInv'
    BY <1>1, RefineStep, Base!StepInv DEF Joint
  <1>4. ServerOK'
    BY <1>2, ServerStepOK DEF Joint
  <1> QED
    BY <1>1, <1>2, <1>3, <1>4 DEF Joint

LEMMA AlwaysJoint == SysSpec => []Joint
  <1>1. SysInit => Joint
    BY InitControl, InitLines, InitSent, RefineInit, Base!InitInv, InitServer
       DEF SysInit, Joint
  <1> QED
    BY <1>1, JointStep, PTL DEF SysSpec

\* Connected to the mock server the client does nothing it does not do with any
\* server, so that what is proved of it holds here.
THEOREM SystemIsClient == SysSpec => Spec
  <1>1. SysInit => Init
    BY DEF SysInit
  <1> QED
    BY <1>1, AlwaysJoint, JointStep, PTL DEF SysSpec, Spec

\* In the system too no JOIN or MSG is written before a REPLY OK was shown.
THEOREM SystemTrafficAfterShown == SysSpec => []TrafficAfterShownOk
  BY SystemIsClient, TcpTrafficAfterShown, PTL

-----------------------------------------------------------------------------
(* What the lines in the server's socket and buffer say of the client. *)

Carried ==
    \A lines \in {inbox, buffer} : \A i \in 1 .. Len(lines) :
        lines[i].type \in {"Join", "Msg"} => authReplied

LEMMA AuthReplyStays == Control /\ [Next]_vars => (authReplied => authReplied')
  <1> SUFFICES ASSUME Control, [Next]_vars PROVE authReplied => authReplied'
    OBVIOUS
  <1>1. CASE ProcessLine
    BY <1>1 DEF ProcessLine
  <1>2. CASE \E n \in 1 .. Len(stream) : Receive(n)
    BY <1>2 DEF Receive
  <1>3. CASE (\E w \in Writes : ServerWrites(w)) \/ ServerCloses
    BY <1>3 DEF ServerWrites, ServerCloses, fsmVars
  <1>4. CASE UNCHANGED vars
    BY <1>4 DEF vars, fsmVars
  <1> QED
    BY <1>1, <1>2, <1>3, <1>4, OtherSteps

\* The handler takes lines from the socket and from the buffer, and adds none.
LEMMA HandlerTakes ==
    ASSUME Server!Phase, Carried, UNCHANGED clientSide,
           Server!Handler \/ Server!Sender \/ Server!Shutdown
    PROVE  Carried'
  <1>1. authReplied' = authReplied
    BY DEF clientSide, fsmVars
  <1>2. inbox \in Seq(Server!AllLines) /\ buffer \in Seq(Server!AllLines)
    BY DEF Server!Phase
  <1>3. CASE UNCHANGED <<inbox, buffer>>
    BY <1>1, <1>3 DEF Carried
  <1>4. ASSUME NEW n \in 1 .. Len(inbox), Server!Recv(n)
        PROVE  Carried'
    <2>1. /\ buffer' = buffer \o SubSeq(inbox, 1, n)
          /\ inbox' = SubSeq(inbox, n + 1, Len(inbox))
          /\ buffer = << >>
      BY <1>4 DEF Server!Recv, Server!Phase
    <2>2. /\ Len(inbox) \in Nat
          /\ \A i \in 1 .. Len(inbox) : inbox[i] \in Server!AllLines
      BY <1>2, LenProperties, ElementOfSeq
    <2>3. /\ SubSeq(inbox, 1, n) \in Seq(Server!AllLines)
          /\ Len(SubSeq(inbox, 1, n)) = n
          /\ \A i \in 1 .. n : SubSeq(inbox, 1, n)[i] = inbox[1 + i - 1]
      BY <2>2, SubSeqProperties
    <2>4. buffer' = SubSeq(inbox, 1, n)
      BY <2>1, <2>3, ConcatEmptySeq
    <2>5. /\ Len(inbox') = IF n + 1 <= Len(inbox) THEN Len(inbox) - (n + 1) + 1 ELSE 0
          /\ \A i \in 1 .. Len(inbox) - (n + 1) + 1 : inbox'[i] = inbox[n + 1 + i - 1]
      BY <2>1, <2>2, SubSeqProperties
    <2>6. ASSUME NEW i \in 1 .. Len(buffer')
          PROVE  \E j \in 1 .. Len(inbox) : buffer'[i] = inbox[j]
      BY <2>2, <2>3, <2>4
    <2>7. ASSUME NEW i \in 1 .. Len(inbox')
          PROVE  \E j \in 1 .. Len(inbox) : inbox'[i] = inbox[j]
      <3>1. i \in 1 .. Len(inbox) - (n + 1) + 1 /\ n + 1 + i - 1 \in 1 .. Len(inbox)
        BY <2>2, <2>5
      <3> QED
        BY <2>5, <3>1
    <2> QED
      BY <1>1, <2>6, <2>7 DEF Carried
  <1>5. ASSUME inbox' = inbox, buffer # << >>, buffer' = Tail(buffer)
        PROVE  Carried'
    <2>1. /\ Len(buffer) \in Nat /\ Len(buffer') = Len(buffer) - 1
          /\ \A i \in 1 .. Len(buffer') : buffer'[i] = buffer[i + 1]
      BY <1>2, <1>5, HeadTailProperties, LenProperties
    <2>2. \A i \in 1 .. Len(buffer') : i + 1 \in 1 .. Len(buffer)
      BY <2>1
    <2> QED
      BY <1>1, <1>5, <2>1, <2>2 DEF Carried
  <1>6. CASE \/ Server!AuthLine \/ Server!JoinLine \/ Server!MsgLine
             \/ Server!ByeLine \/ Server!UnknownLine
    BY <1>5, <1>6 DEF Server!AuthLine, Server!JoinLine, Server!MsgLine, Server!ByeLine,
                      Server!UnknownLine, Server!Takes, Server!Phase, Server!clientVars
  <1>7. CASE \/ Server!Accept \/ Server!RecvEnds \/ Server!SendReply
             \/ Server!SendPart2 \/ Server!SendExtra \/ Server!Close \/ Server!Shutdown
             \/ Server!Sender
    BY <1>3, <1>7 DEF Server!Accept, Server!RecvEnds, Server!SendReply, Server!SendPart2,
                      Server!SendExtra, Server!Close, Server!Shutdown, Server!Sender,
                      Server!SendMessageAsync, Server!clientVars, Server!handlerVars
  <1> QED
    BY <1>4, <1>6, <1>7 DEF Server!Handler

LEMMA CarriedStep == Joint /\ Joint' /\ Carried /\ [SysNext]_sysVars => Carried'
  <1> SUFFICES ASSUME Joint, Joint', Carried, [SysNext]_sysVars PROVE Carried'
    OBVIOUS
  <1>1. CASE ClientStep
    <2>1. authReplied => authReplied'
      BY <1>1, ClientStepIsNext, AuthReplyStays DEF Joint
    <2>2. /\ buffer' = buffer
          /\ \/ inbox' = inbox
             \/ \E line \in ClientLines :
                   /\ inbox' = Append(inbox, line)
                   /\ line.type \in {"Join", "Msg"} => authReplied'
      BY <1>1, ClientSends DEF Joint
    <2>3. CASE inbox' = inbox
      BY <2>1, <2>2, <2>3 DEF Carried
    <2>4. ASSUME NEW line \in ClientLines, inbox' = Append(inbox, line),
                 line.type \in {"Join", "Msg"} => authReplied'
          PROVE  Carried'
      <3>1. inbox \in Seq(Server!AllLines) /\ line \in Server!AllLines
        BY PeerAssumption DEF Joint, ServerOK, Server!Phase
      <3>2. /\ Len(inbox) \in Nat /\ Len(inbox') = Len(inbox) + 1
            /\ \A i \in 1 .. Len(inbox) : inbox'[i] = inbox[i]
            /\ inbox'[Len(inbox) + 1] = line
        BY <2>4, <3>1, AppendProperties, LenProperties
      <3> QED
        BY <2>1, <2>2, <2>4, <3>2 DEF Carried
    <2> QED
      BY <2>2, <2>3, <2>4
  <1>2. CASE SysNext /\ ~ClientStep
    BY <1>2, ServerMoves, HandlerTakes DEF Joint, ServerOK
  <1>3. CASE UNCHANGED sysVars
    BY <1>3 DEF sysVars, vars, fsmVars, peerVars, Carried
  <1> QED
    BY <1>1, <1>2, <1>3

\* A line REPLY OK that was shown is in the stream, so the server has granted it.
LEMMA ShownIsGranted == Joint /\ authReplied => client_state \notin {"START", "AUTH_WAIT"}
  <1> SUFFICES ASSUME Joint, authReplied PROVE client_state \notin {"START", "AUTH_WAIT"}
    OBVIOUS
  <1>1. PICK l \in Lines : stream[l[1] + 1] = "ReplyOk"
    BY DEF Joint, LinesInv, ShownOk
  <1>2. l[1] + 1 \in 1 .. Len(stream)
    <2>1. Len(stream) \in Nat
      BY LenProperties DEF Joint, LinesInv, PositionsOK
    <2>2. l[1] \in {0} \cup LineEnds /\ l[2] \in LineEnds /\ l[1] < l[2]
      BY DEF Lines
    <2> QED
      BY <2>1, <2>2 DEF LineEnds
  <1> QED
    BY <1>1, <1>2 DEF Joint, ServerOK, Server!Told, Server!GrantAgrees

\* Whatever the user types and however the threads of the server are scheduled,
\* the server never takes a JOIN or MSG of the client for one that comes before
\* its REPLY OK.
THEOREM TrafficGranted == SysSpec => []TrafficIsGranted
  <1>1. SysInit => Carried
    <2>1. Len(<< >>) = 0
      OBVIOUS
    <2> QED
      BY <2>1 DEF SysInit, Server!ServerInit, Carried
  <1>2. Joint /\ Carried => TrafficIsGranted
    BY ShownIsGranted DEF Carried, TrafficIsGranted
  <1> QED
    BY <1>1, <1>2, AlwaysJoint, CarriedStep, PTL DEF SysSpec

-----------------------------------------------------------------------------
(* The server of the system is a server: its client writes no line after it *)
(* has closed, and no more than MaxTyped + 3.                               *)

\* What each task may still write: the stdin task the line it is working on, the
\* server task the ERR of the FSM and that of the catch clause, CleanUp the BYE.
StdinOwes(l) == IF l \in {"setState", "startTimer", "send"} THEN 1 ELSE 0
ServerOwes(l) ==
    IF l = "throw" THEN 1
    ELSE IF l \in {"rethrow", "done"} THEN 0 ELSE 2
MainOwes(l) == IF l = "exited" THEN 0 ELSE 1

WrittenOK ==
    /\ typed \in 0 .. MaxTyped /\ written \in Nat
    /\ written + StdinOwes(pc["stdin"]) + ServerOwes(pc["server"]) + MainOwes(pc["main"])
         <= typed + 3

LEMMA InitWritten == SysInit => WrittenOK
  <1> SUFFICES ASSUME SysInit PROVE WrittenOK
    OBVIOUS
  <1>1. /\ typed = 0 /\ written = 0
        /\ pc["stdin"] = "read" /\ pc["server"] = "recv" /\ pc["main"] = "wait"
    BY DEF SysInit, Init, FsmInit, Tasks, Server!ServerInit
  <1> QED
    BY <1>1, PeerAssumption DEF WrittenOK, StdinOwes, ServerOwes, MainOwes

\* A step that writes nothing.
LEMMA SilentWritten ==
    ASSUME WrittenOK, UNCHANGED <<typed, written>>,
           StdinOwes(pc'["stdin"]) <= StdinOwes(pc["stdin"]),
           ServerOwes(pc'["server"]) <= ServerOwes(pc["server"]),
           MainOwes(pc'["main"]) <= MainOwes(pc["main"])
    PROVE  WrittenOK'
  <1>1. /\ StdinOwes(pc["stdin"]) \in Nat /\ ServerOwes(pc["server"]) \in Nat
        /\ MainOwes(pc["main"]) \in Nat /\ MainOwes(pc'["main"]) \in Nat
        /\ StdinOwes(pc'["stdin"]) \in Nat /\ ServerOwes(pc'["server"]) \in Nat
    BY DEF StdinOwes, ServerOwes, MainOwes
  <1> QED
    BY <1>1, PeerAssumption DEF WrittenOK

LEMMA OwesNat ==
    \A l : StdinOwes(l) \in 0 .. 1 /\ ServerOwes(l) \in 0 .. 2 /\ MainOwes(l) \in 0 .. 1
  BY DEF StdinOwes, ServerOwes, MainOwes

\* Whatever a task writes it owed.
LEMMA WritingWritten ==
    ASSUME WrittenOK, NEW t \in Tasks, NEW ok \in BOOLEAN, Writing(t, ok),
           StdinOwes(pc'["stdin"]) + ServerOwes(pc'["server"]) + MainOwes(pc'["main"]) + 1
             = StdinOwes(pc["stdin"]) + ServerOwes(pc["server"]) + MainOwes(pc["main"])
    PROVE  /\ WrittenOK' /\ written + 1 <= MaxTyped + 3
           /\ UNCHANGED <<client_state, buffer, reply, extra, at, threads>>
           /\ \/ inbox' = inbox /\ written' = written
              \/ \E line \in ClientLines :
                    inbox' = Append(inbox, line) /\ written' = written + 1
  <1>1. written' \in {written, written + 1} /\ typed' = typed
    BY DEF Writing, Arrives, Silent, peerVars
  <1>2. WrittenOK' /\ written + 1 <= MaxTyped + 3
    BY <1>1, OwesNat, PeerAssumption DEF WrittenOK
  <1> QED
    BY <1>2 DEF Writing, Arrives, Silent, peerVars

\* A step in which the client writes a line, leaves, or does nothing to the
\* server.
LEMMA ClientIsClient ==
    ASSUME Control, WrittenOK, ServerOK, ClientStep
    PROVE  WrittenOK' /\ (Server!Client \/ UNCHANGED Server!serverVars)
  <1> USE DEF Control, LabelsOK, Tasks, Goto, ServerLabels, NextRead, NextRecv, Running
  <1>a. ASSUME UNCHANGED <<peerVars, stream, closed>>,
               \/ pc'["main"] = pc["main"]
               \/ pc'["main"] = "cleanup" /\ pc["main"] = "wait"
        PROVE  UNCHANGED Server!serverVars
    <2>1. (pc'["main"] = "exited") = (pc["main"] = "exited")
      BY <1>a
    <2> QED
      BY <1>a, <2>1 DEF peerVars, Server!serverVars, Server!clientVars,
                            Server!handlerVars, Server!connVars
  <1>1. CASE UserStep
    <2>1. pc'["main"] = pc["main"] /\ pc["stdin"] = "read" /\ pc'["server"] = pc["server"]
      BY <1>1 DEF UserStep, LocalCommand, Request, EndOfInput
    <2>2. UNCHANGED <<peerVars, stream, closed>>
      BY <1>1 DEF UserStep, tcpVars
    <2>3. \/ typed < MaxTyped /\ typed' = typed + 1
          \/ typed' = typed /\ pc'["stdin"] = "done"
      BY <1>1 DEF UserStep, EndOfInput
    <2>4. /\ ServerOwes(pc'["server"]) = ServerOwes(pc["server"])
          /\ MainOwes(pc'["main"]) = MainOwes(pc["main"])
          /\ StdinOwes(pc["stdin"]) = 0
          /\ pc'["stdin"] = "done" => StdinOwes(pc'["stdin"]) = 0
      BY <2>1 DEF StdinOwes, ServerOwes, MainOwes
    <2>5. WrittenOK'
      BY <2>2, <2>3, <2>4, OwesNat, PeerAssumption DEF WrittenOK, peerVars
    <2> QED
      BY <1>a, <2>1, <2>2, <2>5
  <1>2. CASE StdinWork /\ UNCHANGED tcpVars /\ Silent
    <2>1. /\ pc'["main"] = pc["main"] /\ pc'["server"] = pc["server"]
          /\ StdinOwes(pc'["stdin"]) = StdinOwes(pc["stdin"])
      BY <1>2 DEF StdinWork, SetRequestState, StartTimer, StdinOwes
    <2> QED
      BY <1>2, <1>a, <2>1, SilentWritten, OwesNat
         DEF Silent, peerVars, tcpVars, ServerOwes, MainOwes
  <1>3. CASE ReadStep \/ ConnectionLost \/ TimerStep \/ HandlerOfTimer \/ CtrlC
             \/ (WhenAny /\ UNCHANGED tcpVars /\ Silent)
    <2>1. UNCHANGED <<peerVars, stream, closed, typed>>
      BY <1>3 DEF ReadStep, ConnectionLost, TimerStep, HandlerOfTimer, CtrlC, Silent, tcpVars,
                  Receive, ReceiveEnd, ReceiveThrows, ProcessLine, CatchInRunClient
    <2>2. /\ pc'["stdin"] = pc["stdin"]
          /\ \/ pc'["main"] = pc["main"]
             \/ pc'["main"] = "cleanup" /\ pc["main"] = "wait"
          /\ \/ pc'["server"] = pc["server"]
             \/ pc["server"] \notin {"throw", "rethrow", "done"}
             \/ pc["server"] = "rethrow" /\ pc'["server"] = "done"
      BY <1>3 DEF ReadStep, ConnectionLost, TimerStep, HandlerOfTimer, CtrlC,
                  Receive, ReceiveEnd, ReceiveThrows, ProcessLine, CatchInRunClient, RunFsmWork,
                  RunFsmNull, SetOpen, StopTimer, TimerElapses, ElapsedHandler, CancelKeyPress,
                  WhenAny, fsmData
    <2>3. /\ StdinOwes(pc'["stdin"]) = StdinOwes(pc["stdin"])
          /\ MainOwes(pc'["main"]) = MainOwes(pc["main"])
          /\ ServerOwes(pc'["server"]) <= ServerOwes(pc["server"])
      BY <2>2 DEF StdinOwes, MainOwes, ServerOwes
    <2> QED
      BY <1>a, <2>1, <2>2, <2>3, SilentWritten, OwesNat DEF peerVars
  <1>4. ASSUME NEW ok \in BOOLEAN, NEW t \in {"stdin", "server"}, Writing(t, ok),
               \/ StdinSend(ok) /\ t = "stdin"
               \/ (SendErr(ok) \/ CatchInServerTasks(ok)) /\ t = "server"
        PROVE  WrittenOK' /\ (Server!Client \/ UNCHANGED Server!serverVars)
    <2>1. /\ pc["main"] # "exited" /\ pc'["main"] # "exited"
          /\ MainOwes(pc'["main"]) = MainOwes(pc["main"])
          /\ StdinOwes(pc'["stdin"]) + ServerOwes(pc'["server"]) + 1
               = StdinOwes(pc["stdin"]) + ServerOwes(pc["server"])
          /\ UNCHANGED <<stream, closed>>
      BY <1>4 DEF StdinSend, StdinSendEnds, SendErr, ErrSent, CatchInServerTasks, Write,
                  lineVars, StdinOwes, ServerOwes, MainOwes
    <2>2. /\ WrittenOK' /\ written + 1 <= MaxTyped + 3
          /\ UNCHANGED <<client_state, buffer, reply, extra, at, threads>>
          /\ \/ inbox' = inbox /\ written' = written
             \/ \E line \in ClientLines :
                   inbox' = Append(inbox, line) /\ written' = written + 1
      BY <1>4, <2>1, WritingWritten, OwesNat
    <2>3. CASE inbox' = inbox /\ written' = written
      BY <2>1, <2>2, <2>3 DEF Server!serverVars, Server!clientVars,
                                  Server!handlerVars, Server!connVars
    <2>4. ASSUME NEW line \in ClientLines,
                 inbox' = Append(inbox, line), written' = written + 1
          PROVE  Server!Client
      <3>1. Server!ClientWrites(line)
        BY <2>1, <2>2, <2>4, PeerAssumption
           DEF Server!ClientWrites, Server!handlerVars, Server!connVars, WrittenOK
      <3> QED
        BY <3>1 DEF Server!Client
    <2> QED
      BY <2>2, <2>3, <2>4
  <1>5. ASSUME NEW ok \in BOOLEAN, CleanUp(ok), Writing("main", ok)
        PROVE  WrittenOK' /\ (Server!Client \/ UNCHANGED Server!serverVars)
    <2>1. /\ pc["main"] # "exited" /\ pc'["main"] = "exited"
          /\ StdinOwes(pc'["stdin"]) = StdinOwes(pc["stdin"])
          /\ ServerOwes(pc'["server"]) = ServerOwes(pc["server"])
          /\ MainOwes(pc'["main"]) + 1 = MainOwes(pc["main"])
          /\ UNCHANGED <<stream, closed>>
      BY <1>5 DEF CleanUp, Exit, Write, lineVars, StdinOwes, ServerOwes, MainOwes
    <2>2. /\ WrittenOK' /\ written + 1 <= MaxTyped + 3
          /\ UNCHANGED <<client_state, buffer, reply, extra, at, threads>>
          /\ \/ inbox' = inbox /\ written' = written
             \/ \E line \in ClientLines :
                   inbox' = Append(inbox, line) /\ written' = written + 1
      BY <1>5, <2>1, WritingWritten, OwesNat
    <2>3. inbox \in Seq(Server!AllLines) /\ written \in Nat
      BY DEF ServerOK, Server!Phase, WrittenOK
    <2>4. CASE inbox' = inbox /\ written' = written
      <3>1. Server!ClientLeaves(<< >>)
        BY <2>1, <2>2, <2>3, <2>4, PeerAssumption, ConcatEmptySeq
           DEF Server!ClientLeaves, Server!handlerVars, Server!connVars
      <3> QED
        BY <2>2, <3>1 DEF Server!Client
    <2>5. ASSUME NEW line \in ClientLines,
                 inbox' = Append(inbox, line), written' = written + 1
          PROVE  Server!Client
      <3>1. inbox' = inbox \o <<line>> /\ Len(<<line>>) = 1
        BY <2>3, <2>5, PeerAssumption, AppendIsConcat
      <3>2. Server!ClientLeaves(<<line>>)
        BY <2>1, <2>2, <2>3, <2>5, <3>1, PeerAssumption
           DEF Server!ClientLeaves, Server!handlerVars, Server!connVars
      <3> QED
        BY <3>2 DEF Server!Client
    <2> QED
      BY <2>2, <2>4, <2>5
  <1> QED
    BY <1>1, <1>2, <1>3, <1>4, <1>5 DEF ClientStep, StdinStep, ServerTaskStep, MainStep

\* A step of the system is one of a server with its client.
LEMMA WrittenStep ==
    Joint /\ WrittenOK /\ [SysNext]_sysVars
    => WrittenOK' /\ [Server!ServerNext]_(Server!serverVars)
  <1> SUFFICES ASSUME Joint, WrittenOK, [SysNext]_sysVars
               PROVE  WrittenOK' /\ [Server!ServerNext]_(Server!serverVars)
    OBVIOUS
  <1>1. CASE ClientStep
    BY <1>1, ClientIsClient DEF Joint, Server!ServerNext
  <1>2. CASE SysNext /\ ~ClientStep
    <2>1. UNCHANGED <<pc, typed>> /\ Server!ServerNext
      BY <1>2, ServerMoves DEF clientSide, fsmVars
    <2>2. written' = written
      BY <1>2, ServerMoves DEF Server!Handler, Server!Accept, Server!Recv, Server!RecvEnds,
         Server!AuthLine, Server!JoinLine, Server!MsgLine, Server!ByeLine, Server!UnknownLine,
         Server!Takes, Server!SendReply, Server!SendPart2, Server!SendExtra, Server!Close,
         Server!Sender, Server!SendMessageAsync, Server!Shutdown, Server!clientVars
    <2> QED
      BY <2>1, <2>2 DEF WrittenOK
  <1>3. CASE UNCHANGED sysVars
    <2>1. (pc'["main"] = "exited") = (pc["main"] = "exited")
      BY <1>3 DEF sysVars, vars, fsmVars
    <2>2. UNCHANGED Server!serverVars
      BY <1>3, <2>1 DEF sysVars, vars, tcpVars, peerVars, Server!serverVars,
                        Server!clientVars, Server!handlerVars, Server!connVars
    <2> QED
      BY <1>3, <2>2 DEF sysVars, vars, fsmVars, peerVars, WrittenOK
  <1> QED
    BY <1>1, <1>2, <1>3

\* Connected to the TCP client the mock server does nothing it does not do with
\* any client that writes at most MaxTyped + 3 lines, so that what is proved of it
\* holds here.
THEOREM SystemIsServer == SysSpec => Server!ServerSpec
  <1>1. SysInit => Server!ServerInit
    BY DEF SysInit
  <1> QED
    BY <1>1, AlwaysJoint, InitWritten, WrittenStep, PTL DEF SysSpec, Server!ServerSpec

\* What is on its way to the server, its threads and its idea of the client keep
\* their types, and the connection is closed exactly when the handler has ended.
THEOREM SystemServerTypes == SysSpec => []Server!ServerTypeOK
  BY SystemIsServer, PeerFits, Server!ServerTypeCorrect, PTL

LEMMA AlwaysEnds == SysSpec => []Server!Ends
  BY SystemIsServer, PeerFits, Server!AlwaysEnds, PTL

-----------------------------------------------------------------------------
(* Agreement at rest, when the threads run in the order they are started and *)
(* no line asks the server for a REPLY to a MSG.                             *)

Orderly == InOrder /\ \A line \in ClientLines : line.test # "unexpectedReply"

\* The lines on their way to the handler.
Inward == Server!Inward

\* They are those of the client, and the handler answers none of them by a REPLY
\* the client does not wait for.
Asked ==
    /\ \A i \in 1 .. Len(Inward) :
          /\ Inward[i] \in ClientLines
          /\ Inward[i].type \in {"Join", "Msg"} => authReplied
    /\ at = "reply" /\ client_state = "OPEN" => reply \notin Replies

\* The threads that have run are the first ones, and those of them with a REPLY
\* OK have sent it, as a line.
InOrderSent ==
    /\ \A i \in Server!Unsent : \A j \in i .. Len(threads) : j \in Server!Unsent
    /\ \A i \in 1 .. Len(threads) :
          /\ threads[i].status = "lost" => closed
          /\ threads[i].text = Server!Line("ReplyOk") /\ threads[i].status = "sent"
               => \E k \in 1 .. Len(stream) : stream[k] = "ReplyOk"
    /\ \A k \in 1 .. Len(stream) :
          /\ stream[k] = "ReplyOk" => \E i \in (1 .. Len(threads)) \ Server!Unsent :
                                         threads[i].text = Server!Line("ReplyOk")
          /\ stream[k] \in Replies => k + 2 \in LineEnds

\* ProcessMsg has passed over a REPLY OK: it was not the last line of its chunk,
\* and the type of the last one, no REPLY, ends the session.
PassedOver ==
    \/ pc["server"] \in {"lines", "err", "throw", "rethrow", "done"}
    \/ pc["server"] = "fsm" /\ LastOutputMsgType \notin Replies

\* Before the FSM was given a REPLY OK the server sends whole lines, and no REPLY
\* after a REPLY OK.
WholeTexts ==
    \A i \in 1 .. Len(threads) :
        /\ threads[i].text \in {Server!Line(t) : t \in Server!Answers}
        /\ threads[i].text = Server!Line("ReplyOk")
             => \A j \in i + 1 .. Len(threads) : threads[j].text \notin Server!ReplyLines

FirstGrant ==
    /\ client_state # "JOIN_WAIT" /\ at # "part2"
    /\ WholeTexts
    /\ Len(stream) \in {0} \cup LineEnds
    /\ \A k \in 1 .. Len(stream) :
          /\ stream[k] \in Replies => k - 1 \in {0} \cup LineEnds
          /\ stream[k] = "ReplyOk"
               => /\ \A m \in k + 1 .. Len(stream) : stream[m] \notin Replies
                  /\ k <= takenTo => PassedOver

\* A JOIN, or the REPLY to it, is at place p: the i-th of the lines, of the
\* threads or of the tokens of the stream, or held by a task.
Places == {"stdin", "line", "wait", "thread", "stream", "fsm"}

Due(p, i) ==
    \/ /\ p = "stdin" /\ i = 0
       /\ pc["stdin"] \in {"startTimer", "send"} /\ LastInputMsgType = "Join"
    \/ /\ p = "line" /\ i \in 1 .. Len(Inward)
       /\ Inward[i].type = "Join"
    \/ /\ p = "wait" /\ i = 0
       /\ client_state = "JOIN_WAIT"
    \/ /\ p = "thread" /\ i \in Server!Unsent
       /\ threads[i].text \in Server!ReplyLines
    \/ /\ p = "stream" /\ i \in takenTo + 1 .. Len(stream)
       /\ stream[i] \in Replies
    \/ /\ p = "fsm" /\ i = 0
       /\ \/ pc["server"] = "open"
          \/ pc["server"] = "fsm" /\ LastOutputMsgType \in Replies

\* Once it was, at most one JOIN or REPLY is on its way round, and none when the
\* FSM is open.
OneDue ==
    /\ \A p, q \in Places : \A i, j \in Nat : Due(p, i) /\ Due(q, j) => p = q /\ i = j
    /\ State = "Open" => \A p \in Places : \A i \in Nat : ~Due(p, i)

\* An AUTH on its way to the server, which has granted one already.
StaleAuth ==
    \/ pc["stdin"] \in {"startTimer", "send"} /\ LastInputMsgType = "Auth"
    \/ \E i \in 1 .. Len(Inward) : Inward[i].type = "Auth"

Ending ==
    \/ cancelled \/ pc["stdin"] = "done"
    \/ pc["server"] \in {"err", "throw", "rethrow", "done"}
    \/ at \in Server!Leaving
    \/ at = "reply" /\ reply = "Err"

\* An FSM that was given a REPLY OK stays in Auth, or in Start, only until it acts
\* on it, or the session ends.
NotReopened ==
    State \in {"Start", "Auth"} =>
        \/ pc["server"] = "open"
        \/ pc["server"] = "fsm" /\ LastOutputMsgType = "ReplyOk"
        \/ StaleAuth \/ Ending

\* An FSM in Start has sent no AUTH.
NotStarted ==
    State = "Start" =>
        /\ client_state \in {"START", "END_REQUESTED"}
        /\ pc["stdin"] \notin {"startTimer", "send"}
        /\ \A i \in 1 .. Len(Inward) : Inward[i].type \in {"Err", "Bye"}

Agreement ==
    /\ Asked /\ InOrderSent
    /\ ~authReplied => FirstGrant
    /\ authReplied => OneDue /\ NotReopened
    /\ NotStarted

-----------------------------------------------------------------------------
(* What a step of the client can do to all this. *)

\* The last of the lines is one that was not there before.
Arrived(line) ==
    /\ line \in ClientLines
    /\ Len(Inward) \in Nat /\ Len(Inward') = Len(Inward) + 1
    /\ \A i \in 1 .. Len(Inward) : Inward'[i] = Inward[i]
    /\ Inward'[Len(Inward) + 1] = line

\* What a task writes is the last of the lines, if it can be written.
LEMMA WritingInward ==
    ASSUME ServerOK, NEW t \in Tasks, NEW ok \in BOOLEAN, Writing(t, ok)
    PROVE  /\ UNCHANGED <<client_state, buffer, reply, extra, at, threads>>
           /\ \/ ~ok /\ Inward' = Inward
              \/ ok /\ \E line \in ClientLines : line.type = sent'[t] /\ Arrived(line)
  <1>1. CASE ~ok
    BY <1>1 DEF Writing, Silent, peerVars, Inward, Server!Inward
  <1>2. CASE ok
    <2>1. PICK line \in ClientLines : line.type = sent'[t] /\ inbox' = Append(inbox, line)
      BY <1>2 DEF Writing, Arrives
    <2>2. UNCHANGED <<client_state, buffer, reply, extra, at, threads>>
      BY <1>2 DEF Writing, Arrives
    <2>3. line \in Server!AllLines
      BY PeerAssumption
    <2>4. Arrived(line)
      BY <2>1, <2>2, <2>3, PeerFits, Server!ArrivesInward DEF ServerOK, Arrived, Inward
    <2> QED
      BY <1>2, <2>1, <2>2, <2>4
  <1> QED
    BY <1>1, <1>2

\* The user types, and the stdin task takes a line as far as the server.
StdinMoves ==
    /\ UNCHANGED <<LastOutputMsgType, takenTo, authReplied>>
    /\ pc'["server"] = pc["server"]
    /\ cancelled => cancelled'
    /\ \/ /\ pc["stdin"] = "read"
          /\ pc'["stdin"] \in {"read", "setState", "send", "done"}
          /\ pc'["stdin"] = "send" => LastInputMsgType' = "Msg"
          /\ State' = State /\ Inward' = Inward
          /\ pc'["stdin"] = "send" => State = "Open"
       \/ /\ pc["stdin"] = "setState" /\ pc'["stdin"] = "startTimer"
          /\ State' = LastInputMsgType /\ LastInputMsgType' = LastInputMsgType
          /\ Inward' = Inward
       \/ /\ pc["stdin"] = "startTimer" /\ pc'["stdin"] = "send"
          /\ UNCHANGED <<State, LastInputMsgType>> /\ Inward' = Inward
       \/ /\ pc["stdin"] = "send" /\ pc'["stdin"] \in {"read", "done"}
          /\ UNCHANGED <<State, LastInputMsgType>>
          /\ \/ cancelled' /\ Inward' = Inward
             \/ \E line \in ClientLines : line.type = LastInputMsgType /\ Arrived(line)

\* The server task, up to what RunFsm(null) makes of the message.
ServerTaskMoves ==
    /\ UNCHANGED <<LastInputMsgType, cancelled>> /\ Inward' = Inward
    /\ pc'["stdin"] = pc["stdin"]
    /\ \/ /\ pc["server"] = "recv"
          /\ pc'["server"] \in {"recv", "done", "lines", "rethrow"}
          /\ UNCHANGED <<State, takenTo, authReplied>>
       \/ /\ pc["server"] = "fsm" /\ pc'["server"] = Verdict(State, LastOutputMsgType)
          /\ UNCHANGED <<State, takenTo, authReplied, LastOutputMsgType>>
       \/ /\ pc["server"] = "open" /\ pc'["server"] = "stopTimer"
          /\ State' = "Open"
          /\ UNCHANGED <<takenTo, authReplied, LastOutputMsgType>>
       \/ /\ pc["server"] = "stopTimer" /\ pc'["server"] \in {"recv", "done"}
          /\ UNCHANGED <<State, takenTo, authReplied, LastOutputMsgType>>

\* The server task on its way out, CleanUp, the timer and Ctrl+C.
EndMoves ==
    /\ UNCHANGED <<State, LastInputMsgType, LastOutputMsgType, takenTo, authReplied>>
    /\ pc'["stdin"] = pc["stdin"]
    /\ cancelled => cancelled'
    /\ \/ pc'["server"] = pc["server"]
       \/ pc["server"] = "err" /\ pc'["server"] = "throw"
       \/ pc["server"] = "throw" /\ pc'["server"] = "rethrow"
       \/ pc["server"] = "rethrow" /\ pc'["server"] = "done"
    /\ \/ Inward' = Inward
       \/ \E line \in ClientLines : line.type \in {"Err", "Bye"} /\ Arrived(line)

\* That is all a client can do.
LEMMA ClientMoves ==
    ASSUME Joint, Joint', ClientStep
    PROVE  /\ UNCHANGED <<client_state, reply, extra, at, threads, stream, closed>>
           /\ StdinMoves \/ ServerTaskMoves \/ EndMoves \/ (ProcessLine /\ Inward' = Inward)
  <1> USE DEF Control, LabelsOK, Tasks, Goto, ServerLabels, NextRead, NextRecv
  <1>a. Silent => Inward' = Inward
    BY DEF Silent, peerVars, Inward, Server!Inward
  <1>b. UNCHANGED <<client_state, reply, extra, at, threads, stream, closed>>
    BY ClientSends DEF Joint
  <1>c. Control /\ ServerOK /\ SentOK /\ SentOK'
    BY DEF Joint
  <1>1. CASE UserStep
    <2>1. Inward' = Inward
      BY <1>1 DEF UserStep, peerVars, Inward, Server!Inward
    <2>2. CASE EndOfInput
      BY <1>b, <1>1, <1>c, <2>1, <2>2 DEF UserStep, EndOfInput, StdinMoves, tcpVars
    <2>3. ASSUME NEW t \in LineTypes, LocalCommand(t) \/ Request(t)
          PROVE  StdinMoves
      <3>1. /\ pc["stdin"] = "read" /\ pc'["server"] = pc["server"]
            /\ pc'["stdin"] \in {"read", "setState", "send", "done"}
            /\ pc'["stdin"] = "send" => LastInputMsgType' = "Msg" /\ State = "Open"
            /\ UNCHANGED <<State, LastOutputMsgType, cancelled, authReplied>>
        BY <1>c, <2>3 DEF LocalCommand, Request, FirstStep, Accepts
      <3>2. takenTo' = takenTo
        BY <1>1 DEF UserStep, tcpVars
      <3> QED
        BY <2>1, <3>1, <3>2 DEF StdinMoves
    <2> QED
      BY <1>1, <1>b, <2>2, <2>3 DEF UserStep
  <1>2. CASE StdinStep
    <2>1. CASE StdinWork /\ UNCHANGED tcpVars /\ Silent
      BY <1>b, <1>a, <1>c, <2>1
         DEF StdinWork, SetRequestState, StartTimer, StdinMoves, tcpVars
    <2>2. ASSUME NEW ok \in BOOLEAN, StdinSend(ok), Writing("stdin", ok)
          PROVE  StdinMoves
      <3>1. ok => sent'["stdin"] = LastInputMsgType
        BY <1>c, <2>2 DEF StdinSend, Write, SentOK
      <3>2. /\ pc["stdin"] = "send" /\ pc'["stdin"] \in {"read", "done"}
            /\ pc'["server"] = pc["server"]
            /\ cancelled' = (cancelled \/ ~ok)
            /\ UNCHANGED <<State, LastInputMsgType, LastOutputMsgType, authReplied, takenTo>>
        BY <1>c, <2>2 DEF StdinSend, StdinSendEnds, Write, lineVars
      <3>3. \/ ~ok /\ Inward' = Inward
            \/ ok /\ \E line \in ClientLines : line.type = sent'["stdin"] /\ Arrived(line)
        BY <1>c, <2>2, WritingInward
      <3> QED
        BY <3>1, <3>2, <3>3 DEF StdinMoves
    <2> QED
      BY <1>2, <1>b, <2>1, <2>2 DEF StdinStep
  <1>3. CASE ServerTaskStep
    <2>1. CASE ReadStep
      <3>1. Inward' = Inward
        BY <1>a, <2>1 DEF ReadStep
      <3>2. ASSUME NEW n \in 1 .. Len(stream), Receive(n)
            PROVE  ServerTaskMoves
        BY <1>c, <3>1, <3>2 DEF Receive, fsmData, ServerTaskMoves
      <3>3. CASE ReceiveEnd \/ ReceiveThrows
        BY <1>b, <1>c, <3>1, <3>3
           DEF ReceiveEnd, ReceiveThrows, fsmData, tcpVars, ServerTaskMoves
      <3>4. CASE RunFsmWork /\ UNCHANGED tcpVars
        BY <1>b, <1>c, <3>1, <3>4
           DEF RunFsmWork, RunFsmNull, SetOpen, StopTimer, tcpVars, ServerTaskMoves
      <3>5. CASE CatchInRunClient
        BY <1>b, <1>c, <3>1, <3>5 DEF CatchInRunClient, fsmData, tcpVars, EndMoves
      <3> QED
        BY <1>b, <2>1, <3>1, <3>2, <3>3, <3>4, <3>5 DEF ReadStep
    <2>2. ASSUME NEW ok \in BOOLEAN, SendErr(ok) \/ CatchInServerTasks(ok),
                 Writing("server", ok)
          PROVE  EndMoves
      <3>1. ok => sent'["server"] = "Err"
        BY <1>c, <2>2 DEF SendErr, CatchInServerTasks, Write, SentOK
      <3>2. /\ pc'["stdin"] = pc["stdin"]
            /\ \/ pc["server"] = "err" /\ pc'["server"] = "throw"
               \/ pc["server"] = "throw" /\ pc'["server"] = "rethrow"
            /\ UNCHANGED <<State, LastInputMsgType, LastOutputMsgType, cancelled,
                           authReplied, takenTo>>
        BY <1>c, <2>2 DEF SendErr, ErrSent, CatchInServerTasks, fsmData, Write, lineVars
      <3>3. \/ ~ok /\ Inward' = Inward
            \/ ok /\ \E line \in ClientLines : line.type = sent'["server"] /\ Arrived(line)
        BY <1>c, <2>2, WritingInward
      <3> QED
        BY <3>1, <3>2, <3>3 DEF EndMoves
    <2> QED
      BY <1>3, <1>b, <2>1, <2>2 DEF ServerTaskStep
  <1>4. CASE MainStep
    <2>1. CASE WhenAny /\ UNCHANGED tcpVars /\ Silent
      BY <1>b, <1>a, <1>c, <2>1 DEF WhenAny, tcpVars, EndMoves
    <2>2. ASSUME NEW ok \in BOOLEAN, CleanUp(ok), Writing("main", ok)
          PROVE  EndMoves
      <3>1. ok => sent'["main"] = "Bye"
        BY <1>c, <2>2 DEF CleanUp, Write, SentOK
      <3>2. /\ pc'["stdin"] = pc["stdin"] /\ pc'["server"] = pc["server"]
            /\ UNCHANGED <<State, LastInputMsgType, LastOutputMsgType, cancelled,
                           authReplied, takenTo>>
        BY <1>c, <2>2 DEF CleanUp, Exit, Write, lineVars
      <3>3. \/ ~ok /\ Inward' = Inward
            \/ ok /\ \E line \in ClientLines : line.type = sent'["main"] /\ Arrived(line)
        BY <1>c, <2>2, WritingInward
      <3> QED
        BY <3>1, <3>2, <3>3 DEF EndMoves
    <2> QED
      BY <1>4, <1>b, <2>1, <2>2 DEF MainStep
  <1>5. CASE ConnectionLost
    BY <1>a, <1>b, <1>c, <1>5
       DEF ConnectionLost, ReceiveThrows, fsmData, tcpVars, ServerTaskMoves
  <1>6. CASE TimerStep \/ HandlerOfTimer \/ CtrlC
    BY <1>a, <1>b, <1>c, <1>6
       DEF TimerStep, HandlerOfTimer, CtrlC, TimerElapses, ElapsedHandler, CancelKeyPress,
           tcpVars, EndMoves
  <1> QED
    BY <1>1, <1>2, <1>3, <1>4, <1>5, <1>6 DEF ClientStep

PeerMove ==
    \/ Server!QuietMove
    \/ /\ Server!LineMove
       /\ \/ Server!Rejected \/ Server!AuthTaken \/ Server!JoinTaken
          \/ Server!MsgTaken \/ Server!ByeTaken
    \/ Server!ReplyMove \/ Server!SecondMove
    \/ \E i \in 1 .. Len(threads) : Server!ThreadMove(i)

\* A step is one of the client or one of the server.
LEMMA SystemMoves ==
    ASSUME Joint, Joint', [SysNext]_sysVars
    PROVE  \/ /\ UNCHANGED <<client_state, reply, extra, at, threads, stream, closed>>
              /\ StdinMoves \/ ServerTaskMoves \/ EndMoves \/ (ProcessLine /\ Inward' = Inward)
           \/ UNCHANGED clientSide /\ PeerMove
  <1>1. CASE ClientStep
    BY <1>1, ClientMoves
  <1>2. CASE SysNext /\ ~ClientStep
    BY <1>2, ServerMoves, PeerFits, Server!HandlerMoves DEF Joint, ServerOK, PeerMove
  <1>3. CASE UNCHANGED sysVars
    <2>1. /\ UNCHANGED <<client_state, reply, extra, at, threads, stream, closed>>
          /\ Inward' = Inward
      BY <1>3 DEF sysVars, vars, tcpVars, peerVars, Inward, Server!Inward
    <2>2. EndMoves
      BY <1>3, <2>1 DEF sysVars, vars, fsmVars, tcpVars, EndMoves
    <2> QED
      BY <2>1, <2>2
  <1> QED
    BY <1>1, <1>2, <1>3

\* The lines that are left are some of those there were.
LEMMA InwardElements ==
    ASSUME PeerMove
    PROVE  \A i \in 1 .. Len(Inward') : \E j \in 1 .. Len(Inward) : Inward'[i] = Inward[j]
  <1>1. CASE Inward' = Inward
    BY <1>1
  <1>2. CASE Server!LineMove
    BY <1>2 DEF Server!LineMove, Inward
  <1> QED
    BY <1>1, <1>2 DEF PeerMove, Server!QuietMove, Server!ReplyMove, Server!SecondMove,
                      Server!ThreadMove, Inward

\* A JOIN or MSG is written after the REPLY OK, and no REPLY is the answer to a MSG.
LEMMA AskedStep ==
    ASSUME Orderly, Joint, Joint', Asked, [SysNext]_sysVars
    PROVE  Asked'
  <1>1. ASSUME UNCHANGED <<client_state, reply, extra, at, threads, stream, closed>>,
               StdinMoves \/ ServerTaskMoves \/ EndMoves \/ (ProcessLine /\ Inward' = Inward)
        PROVE  Asked'
    <2>1. authReplied => authReplied'
      BY <1>1 DEF StdinMoves, ServerTaskMoves, EndMoves, ProcessLine
    <2>2. CASE Inward' = Inward
      BY <1>1, <2>1, <2>2 DEF Asked
    <2>3. ASSUME NEW line \in ClientLines, Arrived(line),
                 line.type \in {"Join", "Msg"} => authReplied'
          PROVE  Asked'
      BY <1>1, <2>1, <2>3 DEF Asked, Arrived
    <2>4. CASE StdinMoves
      <3>1. pc["stdin"] = "send" /\ LastInputMsgType \in {"Join", "Msg"} => authReplied
        BY DEF Joint, Base!FsmInv, Base!AuthFirst, BaseLabel, Tasks
      <3> QED
        BY <2>1, <2>2, <2>3, <2>4, <3>1 DEF StdinMoves
    <2> QED
      BY <1>1, <2>2, <2>3, <2>4 DEF ServerTaskMoves, EndMoves
  <1>2. ASSUME UNCHANGED clientSide, PeerMove
        PROVE  Asked'
    <2>1. authReplied' = authReplied
      BY <1>2 DEF clientSide, fsmVars
    <2>2. \A i \in 1 .. Len(Inward') :
             /\ Inward'[i] \in ClientLines
             /\ Inward'[i].type \in {"Join", "Msg"} => authReplied'
      BY <1>2, <2>1, InwardElements DEF Asked
    <2>3. at' = "reply" /\ client_state' = "OPEN" => reply' \notin Replies
      <3> USE DEF Replies, Server!Replies
      <3>1. CASE Server!QuietMove \/ Server!SecondMove
        BY <3>1 DEF Asked, Server!QuietMove, Server!SecondMove, Server!Leaves
      <3>2. CASE Server!ReplyMove
        BY <3>2 DEF Asked, Server!ReplyMove, Server!Leaves
      <3>3. CASE \E i \in 1 .. Len(threads) : Server!ThreadMove(i)
        BY <3>3 DEF Asked, Server!ThreadMove
      <3>4. CASE Server!LineMove /\ Server!MsgTaken
        <4>1. 1 \in 1 .. Len(Inward)
          BY <3>4 DEF Server!LineMove, Inward
        <4>2. Inward[1].test # "unexpectedReply"
          BY <4>1 DEF Asked, Orderly
        <4> QED
          BY <3>4, <4>2 DEF Server!MsgTaken, Inward
      <3>5. CASE Server!Rejected \/ Server!AuthTaken \/ Server!JoinTaken \/ Server!ByeTaken
        BY <3>5 DEF Server!Rejected, Server!AuthTaken, Server!JoinTaken, Server!ByeTaken
      <3> QED
        BY <1>2, <3>1, <3>2, <3>3, <3>4, <3>5 DEF PeerMove
    <2> QED
      BY <2>2, <2>3 DEF Asked
  <1> QED
    BY <1>1, <1>2, SystemMoves

LEMMA InitAsked == SysInit => Asked /\ Len(Inward) = 0
  <1> SUFFICES ASSUME SysInit PROVE Asked /\ Len(Inward) = 0
    OBVIOUS
  <1>1. inbox = << >> /\ buffer = << >> /\ at = "accept"
    BY DEF SysInit, Server!ServerInit
  <1>2. Inward = << >>
    BY <1>1, EmptySeq, ConcatEmptySeq DEF Inward, Server!Inward
  <1>3. Len(<< >>) = 0
    OBVIOUS
  <1> QED
    BY <1>1, <1>2, <1>3 DEF Asked

\* The stream grows at its end.
LEMMA Extends ==
    ASSUME stream \in Seq(Tokens), NEW x \in Seq(Tokens), stream' = stream \o x
    PROVE  /\ Len(stream) \in Nat /\ Len(x) \in Nat /\ Len(stream') = Len(stream) + Len(x)
           /\ \A k \in 1 .. Len(stream) : stream'[k] = stream[k]
           /\ \A k \in 1 .. Len(x) : stream'[Len(stream) + k] = x[k]
           /\ LineEnds \subseteq LineEnds'
           /\ \A e \in LineEnds' : e <= Len(stream) => e \in LineEnds
  <1>1. Len(stream) \in Nat /\ Len(x) \in Nat
    BY LenProperties
  <1>2. /\ Len(stream') = Len(stream) + Len(x)
        /\ \A k \in 1 .. Len(stream) + Len(x) :
              stream'[k] = IF k <= Len(stream) THEN stream[k] ELSE x[k - Len(stream)]
    BY ConcatProperties
  <1>3. /\ \A k \in 1 .. Len(stream) : stream'[k] = stream[k]
        /\ \A k \in 1 .. Len(x) : stream'[Len(stream) + k] = x[k]
    BY <1>1, <1>2
  <1>4. LineEnds \subseteq LineEnds'
    BY <1>1, <1>2, <1>3 DEF LineEnds
  <1>5. \A e \in LineEnds' : e <= Len(stream) => e \in LineEnds
    BY <1>1, <1>2, <1>3 DEF LineEnds
  <1> QED
    BY <1>1, <1>2, <1>3, <1>4, <1>5

\* A text of the server with the token of a REPLY in it is that line, so that
\* after it the token ends a line of the stream two tokens later.
LEMMA ExtendsReply ==
    ASSUME stream \in Seq(Tokens), NEW x \in Server!Texts, stream' = stream \o x
    PROVE  /\ x \in Seq(Tokens)
           /\ \A k \in 1 .. Len(stream') :
                 \/ k \in 1 .. Len(stream) /\ stream'[k] = stream[k]
                 \/ k > Len(stream) /\ stream'[k] \notin Replies
                 \/ /\ k = Len(stream) + 1 /\ Len(stream') = k + 2
                    /\ stream'[k] \in Replies /\ x = Server!Line(stream'[k])
                    /\ k + 2 \in LineEnds'
           /\ \A t \in Server!Answers :
                 x = Server!Line(t) => /\ Len(stream') = Len(stream) + 3
                                       /\ Len(stream') \in LineEnds'
                                       /\ stream'[Len(stream) + 1] = t
  <1>1. /\ \A t \in Server!Answers : /\ Server!Line(t) \in Seq(Server!Tokens)
                                     /\ Len(Server!Line(t)) = 3
                                     /\ Server!Line(t)[1] = t
                                     /\ Server!Line(t)[2] = Server!CR
                                     /\ Server!Line(t)[3] = Server!LF
        /\ x \in Seq(Server!Tokens)
        /\ Server!Replies \subseteq Server!Answers
    BY PeerFits, Server!AnswerLines
  <1>2. \A k \in 1 .. Len(x) : x[k] \in Server!Replies => x = Server!Line(x[k]) /\ k = 1
    BY PeerFits, Server!TextReplies
  <1>3. /\ Server!Tokens = Tokens /\ Server!Replies = Replies
        /\ Server!CR = CR /\ Server!LF = LF
    BY DEF Server!Tokens, Tokens, Server!Replies, Replies, Server!CR, CR, Server!LF, LF,
           Server!WireTypes, WireTypes, Server!MessageTypes, MessageTypes
  <1>4. /\ Len(stream) \in Nat /\ Len(x) \in Nat /\ Len(stream') = Len(stream) + Len(x)
        /\ \A k \in 1 .. Len(stream) : stream'[k] = stream[k]
        /\ \A k \in 1 .. Len(x) : stream'[Len(stream) + k] = x[k]
    BY <1>1, <1>3, Extends
  <1>5. ASSUME NEW t \in Server!Answers, x = Server!Line(t)
        PROVE  /\ Len(stream') = Len(stream) + 3
               /\ Len(stream') \in LineEnds'
               /\ stream'[Len(stream) + 1] = t
    <2>1. /\ Len(x) = 3 /\ x[1] = t /\ x[2] = CR /\ x[3] = LF
      BY <1>1, <1>3, <1>5
    <2>2. /\ stream'[Len(stream) + 1] = t
          /\ stream'[Len(stream) + 2] = CR
          /\ stream'[Len(stream) + 3] = LF
      BY <1>4, <2>1
    <2> QED
      BY <1>4, <2>1, <2>2 DEF LineEnds
  <1>6. ASSUME NEW k \in 1 .. Len(stream'), k > Len(stream), stream'[k] \in Replies
        PROVE  /\ k = Len(stream) + 1 /\ Len(stream') = k + 2
               /\ x = Server!Line(stream'[k])
               /\ k + 2 \in LineEnds'
    <2>1. k - Len(stream) \in 1 .. Len(x) /\ stream'[k] = x[k - Len(stream)]
      BY <1>4, <1>6
    <2>2. k = Len(stream) + 1 /\ x = Server!Line(stream'[k])
      BY <1>2, <1>3, <1>4, <1>6, <2>1
    <2>3. stream'[k] \in Server!Answers
      BY <1>1, <1>3, <1>6
    <2>4. Len(stream') = Len(stream) + 3 /\ Len(stream') \in LineEnds'
      BY <1>5, <2>2, <2>3
    <2>5. k + 2 = Len(stream')
      <3>1. Len(stream) \in Nat /\ k = Len(stream) + 1 /\ Len(stream') = Len(stream) + 3
        BY <1>4, <2>2, <2>4
      <3> QED
        BY <3>1
    <2> QED
      BY <2>2, <2>4, <2>5
  <1> QED
    BY <1>1, <1>3, <1>4, <1>5, <1>6

\* A thread is started: it is the last one, and has yet to run.
LEMMA StartsInOrder ==
    ASSUME Server!ThreadsOK, InOrderSent, UNCHANGED <<stream, closed>>,
           NEW x \in Server!Texts, Server!Starts(x)
    PROVE  InOrderSent'
  <1>1. /\ Len(threads) \in Nat /\ Len(threads') = Len(threads) + 1
        /\ \A i \in 1 .. Len(threads) : threads'[i] = threads[i]
        /\ threads'[Len(threads) + 1] = [text |-> x, status |-> "started"]
        /\ Server!Unsent' = Server!Unsent \cup {Len(threads) + 1}
    BY PeerFits, Server!StartsUnsent
  <1>2. Server!Unsent \subseteq 1 .. Len(threads) /\ LineEnds' = LineEnds
    BY DEF Server!Unsent, LineEnds
  <1>3. \A i \in Server!Unsent' : \A j \in i .. Len(threads') : j \in Server!Unsent'
    BY <1>1, <1>2 DEF InOrderSent
  <1>4. \A i \in 1 .. Len(threads') :
          /\ threads'[i].status = "lost" => closed'
          /\ threads'[i].text = Server!Line("ReplyOk") /\ threads'[i].status = "sent"
               => \E k \in 1 .. Len(stream') : stream'[k] = "ReplyOk"
    <2>1. /\ threads'[Len(threads) + 1].status = "started"
      BY <1>1
    <2> QED
      BY <1>1, <2>1 DEF InOrderSent
  <1>5. \A k \in 1 .. Len(stream') :
          /\ stream'[k] = "ReplyOk" => \E i \in (1 .. Len(threads')) \ Server!Unsent' :
                                         threads'[i].text = Server!Line("ReplyOk")
          /\ stream'[k] \in Replies => k + 2 \in LineEnds'
    BY <1>1, <1>2 DEF InOrderSent
  <1> QED
    BY <1>3, <1>4, <1>5 DEF InOrderSent

\* The first thread that has yet to run does.
LEMMA RunsInOrder ==
    ASSUME Orderly, Server!ThreadsOK, InOrderSent, stream \in Seq(Tokens),
           NEW i \in 1 .. Len(threads), Server!SendMessageAsync(i)
    PROVE  InOrderSent'
  <1>1. /\ Len(threads) \in Nat /\ Len(threads') = Len(threads)
        /\ \A j \in (1 .. Len(threads)) \ {i} : threads'[j] = threads[j]
        /\ threads'[i].text = threads[i].text
        /\ i \in Server!Unsent /\ Server!Unsent' = Server!Unsent \ {i}
        /\ threads[i].text \in Server!Texts
        /\ closed' = closed
        /\ \/ threads'[i].status = "sent" /\ stream' = stream \o threads[i].text
           \/ threads'[i].status = "lost" /\ closed /\ stream' = stream
    BY PeerFits, Server!RunsSent
  <1>2. \A j \in Server!Unsent : i <= j
    BY DEF Server!SendMessageAsync, Orderly
  <1>3. Server!Unsent \subseteq 1 .. Len(threads)
    BY DEF Server!Unsent
  <1>4. \A j \in Server!Unsent' : \A m \in j .. Len(threads') : m \in Server!Unsent'
    BY <1>1, <1>2, <1>3 DEF InOrderSent
  <1>5. CASE threads'[i].status = "lost" /\ closed /\ stream' = stream
    <2>1. LineEnds' = LineEnds
      BY <1>5 DEF LineEnds
    <2> QED
      BY <1>1, <1>4, <1>5, <2>1 DEF InOrderSent
  <1>6. CASE threads'[i].status = "sent" /\ stream' = stream \o threads[i].text
    <2> DEFINE x == threads[i].text
    <2>1. x \in Server!Texts /\ stream' = stream \o x
      BY <1>1, <1>6
    <2> HIDE DEF x
    <2>2. /\ x \in Seq(Tokens)
          /\ \A k \in 1 .. Len(stream') :
                 \/ k \in 1 .. Len(stream) /\ stream'[k] = stream[k]
                 \/ k > Len(stream) /\ stream'[k] \notin Replies
                 \/ /\ k = Len(stream) + 1 /\ Len(stream') = k + 2
                    /\ stream'[k] \in Replies /\ x = Server!Line(stream'[k])
                    /\ k + 2 \in LineEnds'
          /\ \A t \in Server!Answers :
                 x = Server!Line(t) => /\ Len(stream') = Len(stream) + 3
                                       /\ Len(stream') \in LineEnds'
                                       /\ stream'[Len(stream) + 1] = t
      BY <2>1, ExtendsReply
    <2>3. /\ Len(stream) \in Nat /\ Len(x) \in Nat /\ Len(stream') = Len(stream) + Len(x)
          /\ \A k \in 1 .. Len(stream) : stream'[k] = stream[k]
          /\ LineEnds \subseteq LineEnds'
      BY <2>1, <2>2, Extends
    <2>4. \A j \in 1 .. Len(threads') :
          /\ threads'[j].status = "lost" => closed'
          /\ threads'[j].text = Server!Line("ReplyOk") /\ threads'[j].status = "sent"
               => \E k \in 1 .. Len(stream') : stream'[k] = "ReplyOk"
      <3>1. "ReplyOk" \in Server!Answers
        BY DEF Server!Answers
      <3>2. x = Server!Line("ReplyOk")
              => Len(stream) + 1 \in 1 .. Len(stream') /\ stream'[Len(stream) + 1] = "ReplyOk"
        BY <2>2, <2>3, <3>1
      <3>3. (\E k \in 1 .. Len(stream) : stream[k] = "ReplyOk")
              => \E k \in 1 .. Len(stream') : stream'[k] = "ReplyOk"
        BY <2>3
      <3>4. threads'[i].status = "sent" /\ threads'[i].text = x
        BY <1>1, <1>6 DEF x
      <3> QED
        BY <1>1, <3>2, <3>3, <3>4 DEF InOrderSent
    <2>5. \A k \in 1 .. Len(stream') :
          /\ stream'[k] = "ReplyOk" => \E j \in (1 .. Len(threads')) \ Server!Unsent' :
                                         threads'[j].text = Server!Line("ReplyOk")
          /\ stream'[k] \in Replies => k + 2 \in LineEnds'
      <3>1. "ReplyOk" \in Replies
        BY DEF Replies
      <3>2. i \in (1 .. Len(threads')) \ Server!Unsent' /\ threads'[i].text = x
        BY <1>1 DEF x
      <3>3. \A j \in (1 .. Len(threads)) \ Server!Unsent :
               j \in (1 .. Len(threads')) \ Server!Unsent' /\ threads'[j] = threads[j]
        BY <1>1
      <3>4. ASSUME NEW k \in 1 .. Len(stream'), stream'[k] = "ReplyOk"
            PROVE  \E j \in (1 .. Len(threads')) \ Server!Unsent' :
                      threads'[j].text = Server!Line("ReplyOk")
        <4>1. CASE k \in 1 .. Len(stream) /\ stream'[k] = stream[k]
          BY <3>3, <3>4, <4>1 DEF InOrderSent
        <4>2. CASE x = Server!Line(stream'[k])
          BY <3>2, <3>4, <4>2
        <4> QED
          BY <2>2, <3>1, <3>4, <4>1, <4>2
      <3>5. ASSUME NEW k \in 1 .. Len(stream'), stream'[k] \in Replies
            PROVE  k + 2 \in LineEnds'
        BY <2>2, <2>3, <3>5 DEF InOrderSent
      <3> QED
        BY <3>4, <3>5
    <2> QED
      BY <1>4, <2>4, <2>5 DEF InOrderSent
  <1> QED
    BY <1>1, <1>5, <1>6

\* The texts the handler starts threads with.
LEMMA StartedTexts ==
    /\ \A t \in Server!Answers : Server!Line(t) \in Server!Texts
    /\ Server!Line("Msg") \in Server!Texts /\ <<"Msg">> \in Server!Texts
    /\ <<Server!CR, Server!LF>> \o Server!Line("Msg") \in Server!Texts
  BY DEF Server!Texts, Server!Answers

LEMMA InOrderStep ==
    ASSUME Orderly, Joint, Joint', InOrderSent, [SysNext]_sysVars
    PROVE  InOrderSent'
  <1>1. Server!ThreadsOK /\ stream \in Seq(Tokens)
    BY DEF Joint, ServerOK, Server!Told, LinesInv, PositionsOK
  <1>2. CASE UNCHANGED <<threads, stream>> /\ (closed => closed')
    BY <1>2 DEF InOrderSent, Server!Unsent, LineEnds
  <1>3. ASSUME UNCHANGED <<stream, closed>>, NEW x \in Server!Texts, Server!Starts(x)
        PROVE  InOrderSent'
    BY <1>1, <1>3, StartsInOrder
  <1>4. ASSUME NEW i \in 1 .. Len(threads), Server!ThreadMove(i)
        PROVE  InOrderSent'
    BY <1>1, <1>4, RunsInOrder DEF Server!ThreadMove
  <1>5. CASE Server!LineMove /\ (\/ Server!Rejected \/ Server!AuthTaken \/ Server!JoinTaken
                                 \/ Server!MsgTaken \/ Server!ByeTaken)
    BY <1>2, <1>3, <1>5, StartedTexts
       DEF Server!LineMove, Server!Rejected, Server!AuthTaken, Server!JoinTaken,
           Server!MsgTaken, Server!ByeTaken
  <1>6. CASE Server!ReplyMove \/ Server!SecondMove
    BY <1>3, <1>6, StartedTexts DEF Server!ReplyMove, Server!SecondMove, Server!ReplyFits
  <1>7. CASE Server!QuietMove
    BY <1>2, <1>7 DEF Server!QuietMove
  <1> QED
    BY <1>2, <1>4, <1>5, <1>6, <1>7, SystemMoves DEF PeerMove

LEMMA InitNotStarted == SysInit => NotStarted
  <1> SUFFICES ASSUME SysInit PROVE NotStarted
    OBVIOUS
  <1>1. client_state = "START" /\ pc["stdin"] = "read"
    BY DEF SysInit, Init, FsmInit, Tasks, Server!ServerInit
  <1> QED
    BY <1>1, InitAsked DEF NotStarted

\* An FSM in Start can only write an ERR or a BYE, which answers nothing.
LEMMA NotStartedStep ==
    ASSUME Joint, Joint', NotStarted, [SysNext]_sysVars
    PROVE  NotStarted'
  <1>1. pc["stdin"] = "setState" => LastInputMsgType \in {"Auth", "Join"}
    BY DEF Joint, Base!FsmInv, Base!PendingOK, BaseLabel, Tasks
  <1>2. ASSUME UNCHANGED <<client_state, reply, extra, at, threads, stream, closed>>,
               State' = "Start",
               StdinMoves \/ ServerTaskMoves \/ EndMoves \/ (ProcessLine /\ Inward' = Inward)
        PROVE  NotStarted'
    <2>1. State = "Start"
      BY <1>1, <1>2 DEF StdinMoves, ServerTaskMoves, EndMoves, ProcessLine, fsmData
    <2>2. /\ client_state' \in {"START", "END_REQUESTED"}
          /\ pc["stdin"] \notin {"startTimer", "send"}
          /\ \A i \in 1 .. Len(Inward) : Inward[i].type \in {"Err", "Bye"}
      BY <1>2, <2>1 DEF NotStarted
    <2>3. pc'["stdin"] \notin {"startTimer", "send"}
      <3>1. ProcessLine => pc'["stdin"] = pc["stdin"]
        BY DEF ProcessLine, Goto, Joint, Control, LabelsOK, Tasks
      <3> QED
        BY <1>1, <1>2, <2>1, <2>2, <3>1 DEF StdinMoves, ServerTaskMoves, EndMoves
    <2>4. \/ Inward' = Inward
          \/ \E line \in ClientLines : line.type \in {"Err", "Bye"} /\ Arrived(line)
      BY <1>2, <2>2 DEF StdinMoves, ServerTaskMoves, EndMoves
    <2>5. \A i \in 1 .. Len(Inward') : Inward'[i].type \in {"Err", "Bye"}
      BY <2>2, <2>4 DEF Arrived
    <2> QED
      BY <2>2, <2>3, <2>5 DEF NotStarted
  <1>3. ASSUME UNCHANGED clientSide, PeerMove, State' = "Start"
        PROVE  NotStarted'
    <2>1. UNCHANGED <<State, pc>>
      BY <1>3 DEF clientSide, fsmVars
    <2>2. /\ client_state \in {"START", "END_REQUESTED"}
          /\ pc["stdin"] \notin {"startTimer", "send"}
          /\ \A i \in 1 .. Len(Inward) : Inward[i].type \in {"Err", "Bye"}
      BY <1>3, <2>1 DEF NotStarted
    <2>3. \A i \in 1 .. Len(Inward') : Inward'[i].type \in {"Err", "Bye"}
      BY <1>3, <2>2, InwardElements
    <2>4. client_state' \in {"START", "END_REQUESTED"}
      <3>1. CASE \/ Server!QuietMove \/ Server!SecondMove
                 \/ \E i \in 1 .. Len(threads) : Server!ThreadMove(i)
        BY <2>2, <3>1 DEF Server!QuietMove, Server!SecondMove, Server!ThreadMove
      <3>2. CASE Server!ReplyMove
        BY <2>2, <3>2 DEF Server!ReplyMove, Server!ReplyFits, Server!AfterReply
      <3>3. CASE Server!LineMove /\ (\/ Server!Rejected \/ Server!AuthTaken \/ Server!JoinTaken
                                     \/ Server!MsgTaken \/ Server!ByeTaken)
        <4>1. Inward[1].type \in {"Err", "Bye"}
          BY <2>2, <3>3 DEF Server!LineMove, Inward
        <4> QED
          BY <2>2, <3>3, <4>1 DEF Server!Rejected, Server!AuthTaken, Server!JoinTaken,
                                  Server!MsgTaken, Server!ByeTaken, Inward
      <3> QED
        BY <1>3, <3>1, <3>2, <3>3 DEF PeerMove
    <2> QED
      BY <2>1, <2>2, <2>3, <2>4 DEF NotStarted
  <1>4. State' # "Start" => NotStarted'
    BY DEF NotStarted
  <1> QED
    BY <1>2, <1>3, <1>4, SystemMoves

\* The FSM is first given a REPLY OK by ProcessMsg.
LEMMA FirstReplyOk ==
    ASSUME Joint, Joint', [SysNext]_sysVars, ~authReplied, authReplied'
    PROVE  /\ ProcessLine /\ Inward' = Inward
           /\ UNCHANGED <<client_state, reply, extra, at, threads, stream, closed>>
           /\ pc' = [pc EXCEPT !["server"] = "fsm"]
           /\ LastOutputMsgType' = "ReplyOk" /\ savedInput[1] = "ReplyOk"
  <1>1. ProcessLine /\ Inward' = Inward
        /\ UNCHANGED <<client_state, reply, extra, at, threads, stream, closed>>
    BY SystemMoves DEF StdinMoves, ServerTaskMoves, EndMoves, clientSide, fsmVars
  <1> QED
    BY <1>1 DEF ProcessLine, Goto

\* The stdin task may store Auth over Open, but then sends a second AUTH, and the
\* server answers that by an ERR.
LEMMA NotReopenedStep ==
    ASSUME Joint, Joint', authReplied => NotReopened, authReplied', [SysNext]_sysVars
    PROVE  NotReopened'
  <1> SUFFICES ASSUME State' \in {"Start", "Auth"} PROVE NotReopened'
    BY DEF NotReopened
  <1> USE DEF NotReopened, StaleAuth, Ending
  <1>a. DOMAIN pc = Tasks
    BY DEF Joint, Control, LabelsOK
  <1>1. CASE ~authReplied
    BY <1>1, <1>a, FirstReplyOk DEF Tasks
  <1>2. ASSUME authReplied, StdinMoves,
               UNCHANGED <<client_state, reply, extra, at, threads, stream, closed>>
        PROVE  NotReopened'
    <2>1. pc["stdin"] = "setState" => LastInputMsgType \in {"Auth", "Join"}
      BY DEF Joint, Base!FsmInv, Base!PendingOK, BaseLabel, Tasks
    <2>2. CASE pc["stdin"] = "setState"
      BY <1>2, <2>1, <2>2 DEF StdinMoves
    <2>3. CASE pc["stdin"] = "send" /\ LastInputMsgType = "Auth"
      <3>1. CASE cancelled'
        BY <3>1
      <3>2. ASSUME NEW line \in ClientLines, line.type = "Auth", Arrived(line)
            PROVE  NotReopened'
        <4>1. Len(Inward) + 1 \in 1 .. Len(Inward') /\ Inward'[Len(Inward) + 1].type = "Auth"
          BY <3>2 DEF Arrived
        <4> QED
          BY <4>1
      <3> QED
        BY <1>2, <2>3, <3>1, <3>2 DEF StdinMoves
    <2>4. CASE pc["stdin"] # "setState" /\ ~(pc["stdin"] = "send" /\ LastInputMsgType = "Auth")
      <3>1. /\ State' = State /\ NotReopened
            /\ pc'["server"] = pc["server"] /\ LastOutputMsgType' = LastOutputMsgType
            /\ cancelled => cancelled'
            /\ pc["stdin"] = "startTimer"
                 => pc'["stdin"] = "send" /\ LastInputMsgType' = LastInputMsgType
            /\ pc["stdin"] # "done"
        BY <1>2, <2>4 DEF StdinMoves
      <3>2. \/ Inward' = Inward
            \/ \E line \in ClientLines : Arrived(line)
        BY <1>2 DEF StdinMoves
      <3>3. (\E i \in 1 .. Len(Inward) : Inward[i].type = "Auth")
              => \E i \in 1 .. Len(Inward') : Inward'[i].type = "Auth"
        BY <3>2 DEF Arrived
      <3> QED
        BY <1>2, <2>4, <3>1, <3>3
    <2> QED
      BY <2>2, <2>3, <2>4
  <1>3. ASSUME authReplied, ServerTaskMoves,
               UNCHANGED <<client_state, reply, extra, at, threads, stream, closed>>
        PROVE  NotReopened'
    <2>1. pc["server"] = "fsm" /\ LastOutputMsgType = "ReplyOk" /\ State \in {"Start", "Auth"}
          => Verdict(State, LastOutputMsgType) \in {"open", "throw"}
      BY DEF Verdict
    <2>2. /\ State' = State
          /\ \/ pc["server"] = "recv"
             \/ pc["server"] = "fsm" /\ pc'["server"] = Verdict(State, LastOutputMsgType)
             \/ pc["server"] = "stopTimer"
          /\ UNCHANGED <<LastInputMsgType, cancelled>> /\ Inward' = Inward
          /\ pc'["stdin"] = pc["stdin"]
      BY <1>3 DEF ServerTaskMoves
    <2> QED
      BY <1>3, <2>1, <2>2
  <1>4. ASSUME authReplied, EndMoves,
               UNCHANGED <<client_state, reply, extra, at, threads, stream, closed>>
        PROVE  NotReopened'
    <2>1. (\E i \in 1 .. Len(Inward) : Inward[i].type = "Auth")
              => \E i \in 1 .. Len(Inward') : Inward'[i].type = "Auth"
      BY <1>4 DEF EndMoves, Arrived
    <2> QED
      BY <1>4, <2>1 DEF EndMoves
  <1>5. ASSUME authReplied, ProcessLine, Inward' = Inward,
               UNCHANGED <<client_state, reply, extra, at, threads, stream, closed>>
        PROVE  NotReopened'
    <2>1. /\ pc["server"] = "lines" /\ pc'["stdin"] = pc["stdin"]
          /\ UNCHANGED <<State, LastInputMsgType, cancelled>>
      BY <1>5, <1>a DEF ProcessLine, fsmData, Goto, Tasks
    <2> QED
      BY <1>5, <2>1
  <1>6. ASSUME authReplied, UNCHANGED clientSide, PeerMove
        PROVE  NotReopened'
    <2>1. UNCHANGED <<State, LastInputMsgType, LastOutputMsgType, cancelled, pc>> /\ NotReopened
      BY <1>6 DEF clientSide, fsmVars
    <2>2. client_state \notin {"START", "AUTH_WAIT"}
      BY <1>6, ShownIsGranted
    <2>3. (\/ at \in Server!Leaving
           \/ at = "reply" /\ reply = "Err")
          => (\/ at' \in Server!Leaving
              \/ at' = "reply" /\ reply' = "Err")
      BY <1>6 DEF PeerMove, Server!QuietMove, Server!LineMove, Server!ReplyMove,
                  Server!SecondMove, Server!ThreadMove, Server!Leaving
    <2>4. (\E i \in 1 .. Len(Inward) : Inward[i].type = "Auth")
          => \/ \E i \in 1 .. Len(Inward') : Inward'[i].type = "Auth"
             \/ at' = "reply" /\ reply' = "Err"
      <3>1. CASE Inward' = Inward
        BY <3>1
      <3>2. ASSUME Server!LineMove,
                   \/ Server!Rejected \/ Server!AuthTaken \/ Server!JoinTaken
                   \/ Server!MsgTaken \/ Server!ByeTaken,
                   NEW i \in 1 .. Len(Inward), Inward[i].type = "Auth"
            PROVE  \/ \E j \in 1 .. Len(Inward') : Inward'[j].type = "Auth"
                   \/ at' = "reply" /\ reply' = "Err"
        <4>1. CASE i = 1
          BY <2>2, <3>2, <4>1 DEF Server!Rejected, Server!AuthTaken, Server!JoinTaken,
                                  Server!MsgTaken, Server!ByeTaken, Inward
        <4>2. CASE i # 1
          <5>1. i - 1 \in 1 .. Len(Inward') /\ Inward'[i - 1] = Inward[i]
            BY <3>2, <4>2 DEF Server!LineMove, Inward
          <5> QED
            BY <3>2, <5>1
        <4> QED
          BY <4>1, <4>2
      <3> QED
        BY <1>6, <3>1, <3>2 DEF PeerMove, Server!QuietMove, Server!ReplyMove,
                                Server!SecondMove, Server!ThreadMove, Inward
    <2> QED
      BY <2>1, <2>3, <2>4
  <1> QED
    BY <1>1, <1>2, <1>3, <1>4, <1>5, <1>6, SystemMoves

\* Whatever is due was due.
LEMMA DueStays ==
    ASSUME OneDue, State' = "Open" => State = "Open",
           \A p \in Places : \A i \in Nat : Due(p, i)' => Due(p, i)
    PROVE  OneDue'
  BY DEF OneDue

\* What is due has moved, from place p to place q, and so is not due at p.
LEMMA DueMoves ==
    ASSUME OneDue, State' = "Open" => State = "Open",
           NEW p \in Places, NEW i \in Nat, Due(p, i),
           NEW q \in Places, NEW j \in Nat,
           \A r \in Places : \A n \in Nat :
              Due(r, n)' => (r = q /\ n = j) \/ (Due(r, n) /\ ~(r = p /\ n = i))
    PROVE  OneDue'
  <1>1. \A r \in Places : \A n \in Nat : Due(r, n) => r = p /\ n = i
    BY DEF OneDue
  <1>2. \A r \in Places : \A n \in Nat : Due(r, n)' => r = q /\ n = j
    BY <1>1
  <1>3. State # "Open"
    BY DEF OneDue
  <1> QED
    BY <1>2, <1>3 DEF OneDue

\* The first of the lines was taken.
LEMMA DueShifts ==
    ASSUME OneDue, State' = "Open" => State = "Open",
           \A r \in Places : \A n \in Nat :
              Due(r, n)' => Due(r, IF r = "line" THEN n + 1 ELSE n)
    PROVE  OneDue'
  <1>1. ASSUME NEW p \in Places, NEW q \in Places, NEW i \in Nat, NEW j \in Nat,
               Due(p, i)', Due(q, j)'
        PROVE  p = q /\ i = j
    <2> DEFINE a == IF p = "line" THEN i + 1 ELSE i
               b == IF q = "line" THEN j + 1 ELSE j
    <2>1. a \in Nat /\ b \in Nat /\ Due(p, a) /\ Due(q, b)
      BY <1>1
    <2>2. p = q /\ a = b
      BY <2>1 DEF OneDue
    <2> QED
      BY <2>2
  <1>2. ASSUME State' = "Open", NEW p \in Places, NEW i \in Nat
        PROVE  ~Due(p, i)'
    BY <1>2 DEF OneDue
  <1> QED
    BY <1>1, <1>2 DEF OneDue

\* An accepted /join is due, and was the only one to be: the FSM was open.
LEMMA StdinDue ==
    ASSUME Joint, OneDue, StdinMoves,
           UNCHANGED <<client_state, threads, stream>>
    PROVE  OneDue'
  <1>1. Server!Unsent' = Server!Unsent
    BY DEF Server!Unsent
  <1>2. UNCHANGED <<takenTo, LastOutputMsgType>> /\ pc'["server"] = pc["server"]
    BY DEF StdinMoves
  <1>3. pc["stdin"] = "setState" =>
            /\ LastInputMsgType \in {"Auth", "Join"}
            /\ LastInputMsgType = "Join" => State = "Open"
    BY DEF Joint, Base!FsmInv, Base!PendingOK, BaseLabel, Tasks
  <1>4. CASE pc["stdin"] = "setState"
    <2>1. /\ pc'["stdin"] = "startTimer" /\ State' = LastInputMsgType
          /\ LastInputMsgType' = LastInputMsgType /\ Inward' = Inward
      BY <1>4 DEF StdinMoves
    <2>2. CASE LastInputMsgType = "Auth"
      BY <1>1, <1>2, <2>1, <2>2, DueStays DEF Due
    <2>3. CASE LastInputMsgType = "Join"
      <3>1. \A p \in Places : \A i \in Nat : ~Due(p, i)
        BY <1>3, <1>4, <2>3 DEF OneDue
      <3>2. \A p \in Places : \A i \in Nat : Due(p, i)' => Due(p, i) \/ (p = "stdin" /\ i = 0)
        BY <1>1, <1>2, <2>1 DEF Due
      <3> QED
        BY <2>1, <2>3, <3>1, <3>2 DEF OneDue
    <2> QED
      BY <1>3, <1>4, <2>2, <2>3
  <1>5. CASE pc["stdin"] # "setState" /\ Inward' = Inward
    <2>1. /\ State' = State
          /\ pc'["stdin"] \in {"startTimer", "send"} /\ LastInputMsgType' = "Join"
               => pc["stdin"] \in {"startTimer", "send"} /\ LastInputMsgType = "Join"
      BY <1>5 DEF StdinMoves
    <2>2. \A p \in Places : \A i \in Nat : Due(p, i)' => Due(p, i)
      BY <1>1, <1>2, <1>5, <2>1 DEF Due
    <2> QED
      BY <2>1, <2>2, DueStays
  <1>6. ASSUME pc["stdin"] = "send", NEW line \in ClientLines,
               line.type = LastInputMsgType, Arrived(line)
        PROVE  OneDue'
    <2>1. pc'["stdin"] \in {"read", "done"} /\ State' = State
      BY <1>6 DEF StdinMoves
    <2>2. Len(Inward) \in Nat
      BY <1>6 DEF Arrived
    <2>3. \A p \in Places : \A i \in Nat : Due(p, i)' =>
             \/ Due(p, i) /\ p # "stdin"
             \/ p = "line" /\ i = Len(Inward) + 1 /\ LastInputMsgType = "Join"
      BY <1>1, <1>2, <1>6, <2>1 DEF Due, Arrived
    <2>4. CASE LastInputMsgType = "Join"
      <3>1. Due("stdin", 0) /\ "stdin" \in Places /\ "line" \in Places
        BY <1>6, <2>4 DEF Due, Places
      <3>2. Len(Inward) + 1 \in Nat
        BY <2>2
      <3>3. \A r \in Places : \A n \in Nat :
              Due(r, n)' => \/ r = "line" /\ n = Len(Inward) + 1
                            \/ Due(r, n) /\ ~(r = "stdin" /\ n = 0)
        BY <2>3
      <3> QED
        BY <2>1, <3>1, <3>2, <3>3, DueMoves
    <2>5. CASE LastInputMsgType # "Join"
      BY <2>1, <2>3, <2>5, DueStays
    <2> QED
      BY <2>4, <2>5
  <1> QED
    BY <1>4, <1>5, <1>6 DEF StdinMoves

\* The FSM takes the REPLY, and is open: nothing more is due.
LEMMA ServerTaskDue ==
    ASSUME Joint, OneDue, ServerTaskMoves \/ EndMoves,
           UNCHANGED <<client_state, threads, stream>>
    PROVE  OneDue'
  <1>1. /\ Server!Unsent' = Server!Unsent
        /\ UNCHANGED <<takenTo, LastInputMsgType>> /\ pc'["stdin"] = pc["stdin"]
    BY DEF Server!Unsent, ServerTaskMoves, EndMoves
  <1>2. CASE EndMoves
    <2>1. \A i \in 1 .. Len(Inward') : Inward'[i].type = "Join"
             => i \in 1 .. Len(Inward) /\ Inward[i].type = "Join"
      BY <1>2 DEF EndMoves, Arrived
    <2>2. /\ State' = State /\ LastOutputMsgType' = LastOutputMsgType
          /\ pc'["server"] \in {"open", "fsm"} => pc'["server"] = pc["server"]
      BY <1>2 DEF EndMoves
    <2>3. \A p \in Places : \A i \in Nat : Due(p, i)' => Due(p, i)
      BY <1>1, <2>1, <2>2 DEF Due
    <2> QED
      BY <2>2, <2>3, DueStays
  <1>3. CASE ServerTaskMoves /\ pc["server"] # "open"
    <2>1. Verdict(State, LastOutputMsgType) = "open" => LastOutputMsgType \in Replies
      BY DEF Verdict, NextRecv, Replies
    <2>2. Verdict(State, LastOutputMsgType) # "fsm"
      BY DEF Verdict, NextRecv
    <2>3. /\ State' = State /\ Inward' = Inward
          /\ pc'["server"] # "fsm"
          /\ pc'["server"] = "open" => pc["server"] = "fsm" /\ LastOutputMsgType \in Replies
      BY <1>3, <2>1, <2>2 DEF ServerTaskMoves
    <2>4. \A p \in Places : \A i \in Nat : Due(p, i)' => Due(p, i)
      BY <1>1, <2>3 DEF Due
    <2> QED
      BY <2>3, <2>4, DueStays
  <1>4. CASE ServerTaskMoves /\ pc["server"] = "open"
    <2>1. Due("fsm", 0) /\ "fsm" \in Places
      BY <1>4 DEF Due, Places
    <2>2. pc'["server"] = "stopTimer" /\ Inward' = Inward
      BY <1>4 DEF ServerTaskMoves
    <2>3. \A p \in Places : \A i \in Nat : Due(p, i)' => Due(p, i) /\ p # "fsm"
      BY <1>1, <2>2 DEF Due
    <2>4. \A p \in Places : \A i \in Nat : ~Due(p, i)'
      BY <2>1, <2>3 DEF OneDue
    <2> QED
      BY <2>4 DEF OneDue
  <1> QED
    BY <1>2, <1>3, <1>4

\* ProcessMsg takes the line that begins after the last one.
LEMMA LineTaken ==
    ASSUME Joint, ProcessLine
    PROVE  /\ takenTo \in Nat /\ takenTo' \in takenTo + 2 .. Len(stream)
           /\ takenTo' \in LineEnds
           /\ \A e \in LineEnds : ~(takenTo < e /\ e < takenTo')
           /\ savedInput[1] = stream[takenTo + 1]
           /\ UNCHANGED <<stream, State, LastInputMsgType>>
           /\ pc'["stdin"] = pc["stdin"]
           /\ \/ pc'["server"] \in {"lines", "throw"} /\ authReplied' = authReplied
              \/ /\ pc'["server"] = "fsm" /\ LastOutputMsgType' = savedInput[1]
                 /\ authReplied' = (authReplied \/ savedInput[1] = "ReplyOk")
           /\ pc["server"] = "lines"
  <1>1. PositionsOK /\ NothingLost
    BY DEF Joint, LinesInv
  <1>2. PICK i \in 1 .. Len(savedInput) :
           IsIndexOfCrlf(savedInput, i) /\ takenTo' = takenTo + EndOfLine(i)
    BY DEF ProcessLine
  <1>3. /\ takenTo' \in 1 .. readPos /\ takenTo' \in LineEnds
        /\ <<takenTo, takenTo'>> \in Lines
        /\ savedInput[1] = stream[takenTo + 1]
    BY <1>1, <1>2, TakesLine
  <1>4. \A e \in LineEnds : ~(takenTo < e /\ e < takenTo')
    BY <1>3 DEF Lines
  <1>5. takenTo \in Nat /\ takenTo' \in takenTo + 2 .. Len(stream)
    BY <1>1, <1>2, <1>3 DEF PositionsOK, EndOfLine
  <1>6. DOMAIN pc = Tasks
    BY DEF Joint, Control, LabelsOK
  <1>7. /\ UNCHANGED <<stream, State, LastInputMsgType>>
        /\ pc'["stdin"] = pc["stdin"]
        /\ \/ pc'["server"] \in {"lines", "throw"} /\ authReplied' = authReplied
           \/ /\ pc'["server"] = "fsm" /\ LastOutputMsgType' = savedInput[1]
              /\ authReplied' = (authReplied \/ savedInput[1] = "ReplyOk")
        /\ pc["server"] = "lines"
    BY <1>6 DEF ProcessLine, Goto, fsmData, Tasks
  <1> QED
    BY <1>3, <1>4, <1>5, <1>7

\* The REPLY goes from the stream to the FSM, or to nobody.
LEMMA LineTakenDue ==
    ASSUME Joint, OneDue, ProcessLine, Inward' = Inward,
           UNCHANGED <<client_state, threads>>
    PROVE  OneDue'
  <1>1. /\ takenTo \in Nat /\ takenTo' \in takenTo + 2 .. Len(stream)
        /\ savedInput[1] = stream[takenTo + 1]
        /\ UNCHANGED <<stream, State, LastInputMsgType>>
        /\ pc'["stdin"] = pc["stdin"]
        /\ \/ pc'["server"] \in {"lines", "throw"}
           \/ pc'["server"] = "fsm" /\ LastOutputMsgType' = savedInput[1]
    BY LineTaken
  <1>2. Server!Unsent' = Server!Unsent /\ Len(stream) \in Nat
    BY LenProperties DEF Server!Unsent, Joint, LinesInv, PositionsOK
  <1>3. \A p \in Places : \A i \in Nat : Due(p, i)' =>
           \/ Due(p, i) /\ ~(p = "stream" /\ i = takenTo + 1)
           \/ /\ p = "fsm" /\ i = 0
              /\ pc'["server"] = "fsm" /\ stream[takenTo + 1] \in Replies
    BY <1>1, <1>2 DEF Due
  <1>4. CASE stream[takenTo + 1] \in Replies
    <2>1. PICK k \in Nat : k = takenTo + 1
      BY <1>1
    <2>2. Due("stream", k) /\ "stream" \in Places /\ "fsm" \in Places /\ 0 \in Nat
      BY <1>1, <1>2, <1>4, <2>1 DEF Due, Places
    <2>3. \A r \in Places : \A n \in Nat :
             Due(r, n)' => \/ r = "fsm" /\ n = 0
                           \/ Due(r, n) /\ ~(r = "stream" /\ n = k)
      BY <1>3, <2>1
    <2>4. State' = "Open" => State = "Open"
      BY <1>1
    <2> QED
      BY <2>2, <2>3, <2>4, DueMoves
  <1>5. CASE stream[takenTo + 1] \notin Replies
    BY <1>1, <1>3, <1>5, DueStays
  <1> QED
    BY <1>4, <1>5

\* A thread is started whose text is no REPLY, or none at all.
LEMMA NoReplyStarted ==
    ASSUME Server!ThreadsOK,
           \/ threads' = threads
           \/ \E x \in Server!Texts : x \notin Server!ReplyLines /\ Server!Starts(x)
    PROVE  \A i \in Server!Unsent' : threads'[i].text \in Server!ReplyLines
              => i \in Server!Unsent /\ threads[i].text \in Server!ReplyLines
  <1>1. CASE threads' = threads
    BY <1>1 DEF Server!Unsent
  <1>2. ASSUME NEW x \in Server!Texts, x \notin Server!ReplyLines, Server!Starts(x)
        PROVE  \A i \in Server!Unsent' : threads'[i].text \in Server!ReplyLines
                  => i \in Server!Unsent /\ threads[i].text \in Server!ReplyLines
    <2>1. /\ Len(threads) \in Nat
          /\ \A i \in 1 .. Len(threads) : threads'[i] = threads[i]
          /\ threads'[Len(threads) + 1] = [text |-> x, status |-> "started"]
          /\ Server!Unsent' = Server!Unsent \cup {Len(threads) + 1}
      BY <1>2, PeerFits, Server!StartsUnsent
    <2>2. threads'[Len(threads) + 1].text = x
      BY <2>1
    <2> QED
      BY <1>2, <2>1, <2>2 DEF Server!Unsent
  <1> QED
    BY <1>1, <1>2

\* The texts that are started with no REPLY in them.
LEMMA OtherTexts ==
    /\ \A x \in {Server!Line("Msg"), <<"Msg">>, <<Server!CR, Server!LF>> \o Server!Line("Msg")} :
          x \in Server!Texts /\ x \notin Server!ReplyLines
    /\ \A t \in Server!Answers \ Replies :
          Server!Line(t) \in Server!Texts /\ Server!Line(t) \notin Server!ReplyLines
    /\ \A t \in Replies : t \in Server!Answers /\ Server!Line(t) \in Server!ReplyLines
  <1>1. Server!Replies = Replies
    BY DEF Server!Replies, Replies
  <1>2. "Msg" \in Server!Answers \ Replies
    BY DEF Server!Answers, Replies
  <1>3. \A t \in Server!Answers \ Replies :
          Server!Line(t) \in Server!Texts /\ Server!Line(t) \notin Server!ReplyLines
    BY <1>1, PeerFits, Server!AnswerLines
  <1>4. \A t \in Replies : t \in Server!Answers /\ Server!Line(t) \in Server!ReplyLines
    BY DEF Replies, Server!Answers, Server!ReplyLines
  <1>5. \A x \in {<<"Msg">>, <<Server!CR, Server!LF>> \o Server!Line("Msg")} :
          x \in Server!Texts /\ x \notin Server!ReplyLines
    BY PeerFits, Server!AnswerLines
  <1> QED
    BY <1>2, <1>3, <1>4, <1>5

\* The handler takes a JOIN, and waits.
LEMMA TakenDue ==
    ASSUME Joint, authReplied, OneDue, UNCHANGED clientSide, Server!LineMove,
           \/ Server!Rejected \/ Server!AuthTaken \/ Server!JoinTaken
           \/ Server!MsgTaken \/ Server!ByeTaken
    PROVE  OneDue'
  <1>1. /\ UNCHANGED <<State, LastInputMsgType, LastOutputMsgType, pc, takenTo>>
        /\ stream' = stream
    BY DEF clientSide, fsmVars, Server!LineMove
  <1>2. /\ Len(Inward) \in Nat \ {0} /\ Len(Inward') = Len(Inward) - 1
        /\ \A i \in 1 .. Len(Inward') : Inward'[i] = Inward[i + 1]
    BY DEF Server!LineMove, Inward
  <1>3. \A i \in 1 .. Len(Inward') : i + 1 \in 1 .. Len(Inward)
    BY <1>2
  <1>4. client_state \notin {"START", "AUTH_WAIT"}
    BY ShownIsGranted
  <1>5. \A i \in Server!Unsent' : threads'[i].text \in Server!ReplyLines
           => i \in Server!Unsent /\ threads[i].text \in Server!ReplyLines
    <2>1. \/ threads' = threads
          \/ \E x \in Server!Texts : x \notin Server!ReplyLines /\ Server!Starts(x)
      BY OtherTexts DEF Server!Rejected, Server!AuthTaken, Server!JoinTaken,
                        Server!MsgTaken, Server!ByeTaken
    <2>2. Server!ThreadsOK
      BY DEF Joint, ServerOK, Server!Told
    <2> QED
      BY <2>1, <2>2, NoReplyStarted
  <1>6. \A r \in Places : \A n \in Nat :
           Due(r, n)' => \/ Due(r, IF r = "line" THEN n + 1 ELSE n)
                         \/ r = "wait" /\ n = 0 /\ client_state' = "JOIN_WAIT"
    BY <1>1, <1>2, <1>3, <1>5 DEF Due
  <1>7. CASE Server!JoinTaken
    <2>1. Inward[1].type = "Join" /\ 1 \in 1 .. Len(Inward)
      BY <1>2, <1>7 DEF Server!JoinTaken, Inward
    <2>2. Due("line", 1) /\ "line" \in Places /\ "wait" \in Places /\ 0 \in Nat /\ 1 \in Nat
      BY <2>1 DEF Due, Places
    <2>3. \A r \in Places : \A n \in Nat : Due(r, n) => r = "line" /\ n = 1
      BY <2>2 DEF OneDue
    <2>4. \A n \in Nat : ~Due("line", n)'
      <3> SUFFICES ASSUME NEW n \in Nat, Due("line", n)' PROVE FALSE
        OBVIOUS
      <3>1. n \in 1 .. Len(Inward') /\ Inward'[n].type = "Join"
        BY DEF Due
      <3>2. n + 1 \in 1 .. Len(Inward) /\ Inward[n + 1].type = "Join"
        BY <1>2, <1>3, <3>1
      <3>3. PICK m \in Nat : m = n + 1
        OBVIOUS
      <3>4. Due("line", m)
        BY <3>2, <3>3 DEF Due
      <3>5. m = 1
        BY <2>2, <2>3, <3>4
      <3> QED
        BY <3>1, <3>3, <3>5
    <2>5. \A r \in Places : \A n \in Nat :
             Due(r, n)' => (r = "wait" /\ n = 0) \/ (Due(r, n) /\ ~(r = "line" /\ n = 1))
      BY <1>6, <2>4
    <2> QED
      BY <1>1, <2>2, <2>5, DueMoves
  <1>8. CASE ~Server!JoinTaken
    <2>1. client_state' = "JOIN_WAIT" => client_state = "JOIN_WAIT"
      BY <1>4, <1>8 DEF Server!Rejected, Server!AuthTaken, Server!MsgTaken, Server!ByeTaken
    <2>2. client_state = "JOIN_WAIT" => Due("wait", 0)
      BY DEF Due
    <2>3. \A r \in Places : \A n \in Nat :
             Due(r, n)' => Due(r, IF r = "line" THEN n + 1 ELSE n)
      BY <1>6, <2>1, <2>2
    <2> QED
      BY <1>1, <2>3, DueShifts
  <1> QED
    BY <1>7, <1>8

\* It answers, and what was due to it is due to a thread.
LEMMA SentDue ==
    ASSUME Joint, Asked, authReplied, OneDue, UNCHANGED clientSide,
           Server!ReplyMove \/ Server!SecondMove
    PROVE  OneDue'
  <1>1. /\ UNCHANGED <<State, LastInputMsgType, LastOutputMsgType, pc, takenTo>>
        /\ stream' = stream /\ Inward' = Inward
    BY DEF clientSide, fsmVars, Server!ReplyMove, Server!SecondMove, Inward
  <1>2. client_state \notin {"START", "AUTH_WAIT"}
    BY ShownIsGranted
  <1>3. Server!ThreadsOK
    BY DEF Joint, ServerOK, Server!Told
  <1>4. CASE Server!SecondMove \/ (Server!ReplyMove /\ reply \notin Replies)
    <2>1. \E x \in Server!Texts : x \notin Server!ReplyLines /\ Server!Starts(x)
      BY <1>4, OtherTexts DEF Server!ReplyMove, Server!SecondMove, Server!ReplyFits
    <2>2. \A i \in Server!Unsent' : threads'[i].text \in Server!ReplyLines
             => i \in Server!Unsent /\ threads[i].text \in Server!ReplyLines
      BY <1>3, <2>1, NoReplyStarted
    <2>3. client_state' = "JOIN_WAIT" => client_state = "JOIN_WAIT"
      BY <1>4 DEF Server!ReplyMove, Server!SecondMove, Server!AfterReply
    <2>4. \A r \in Places : \A n \in Nat : Due(r, n)' => Due(r, n)
      BY <1>1, <2>2, <2>3 DEF Due
    <2> QED
      BY <1>1, <2>4, DueStays
  <1>5. CASE Server!ReplyMove /\ reply \in Replies
    <2>1. at = "reply" /\ client_state \notin {"OPEN", "END_REQUESTED"}
      BY <1>5 DEF Server!ReplyMove, Server!ReplyFits, Asked
    <2>2. client_state = "JOIN_WAIT"
      BY <1>2, <2>1 DEF Joint, ServerOK, Server!Phase, Server!States
    <2>3. client_state' = "OPEN"
      BY <1>5, <2>2 DEF Server!ReplyMove, Server!AfterReply, Replies
    <2>4. Server!Line(reply) \in Server!Texts /\ Server!Starts(Server!Line(reply))
      BY <1>5, OtherTexts, StartedTexts DEF Server!ReplyMove
    <2>5. /\ Len(threads) \in Nat
          /\ \A i \in 1 .. Len(threads) : threads'[i] = threads[i]
          /\ Server!Unsent' = Server!Unsent \cup {Len(threads) + 1}
      BY <1>3, <2>4, PeerFits, Server!StartsUnsent
    <2>6. PICK k \in Nat : k = Len(threads) + 1
      BY <2>5
    <2>7. Due("wait", 0) /\ "wait" \in Places /\ "thread" \in Places /\ 0 \in Nat
      BY <2>2 DEF Due, Places
    <2>8. \A i \in Server!Unsent' : threads'[i].text \in Server!ReplyLines
             => i = k \/ (i \in Server!Unsent /\ threads[i].text \in Server!ReplyLines)
      BY <2>5, <2>6 DEF Server!Unsent
    <2>9. \A r \in Places : \A n \in Nat :
             Due(r, n)' => (r = "thread" /\ n = k) \/ (Due(r, n) /\ ~(r = "wait" /\ n = 0))
      BY <1>1, <2>3, <2>8 DEF Due
    <2>10. State' = "Open" => State = "Open"
      BY <1>1
    <2> QED
      BY <2>6, <2>7, <2>9, <2>10, DueMoves
  <1> QED
    BY <1>4, <1>5

\* The thread sends the REPLY, or loses it.
LEMMA RunDue ==
    ASSUME Joint, OneDue, UNCHANGED clientSide,
           NEW i \in 1 .. Len(threads), Server!ThreadMove(i)
    PROVE  OneDue'
  <1>1. /\ UNCHANGED <<State, LastInputMsgType, LastOutputMsgType, pc, takenTo, client_state>>
        /\ Inward' = Inward
    BY DEF clientSide, fsmVars, Server!ThreadMove, Inward
  <1>2. Server!ThreadsOK /\ stream \in Seq(Tokens) /\ takenTo \in Nat /\ takenTo <= Len(stream)
        /\ Len(stream) \in Nat
    BY LenProperties DEF Joint, ServerOK, Server!Told, LinesInv, PositionsOK
  <1>3. /\ Len(threads) \in Nat /\ Len(threads') = Len(threads)
        /\ \A j \in (1 .. Len(threads)) \ {i} : threads'[j] = threads[j]
        /\ i \in Server!Unsent /\ Server!Unsent' = Server!Unsent \ {i}
        /\ threads[i].text \in Server!Texts
        /\ \/ stream' = stream \o threads[i].text
           \/ stream' = stream
    BY <1>2, PeerFits, Server!RunsSent DEF Server!ThreadMove
  <1>4. \A j \in Server!Unsent' : threads'[j].text \in Server!ReplyLines
           => j \in Server!Unsent /\ threads[j].text \in Server!ReplyLines /\ j # i
    BY <1>3 DEF Server!Unsent
  <1>5. CASE stream' = stream
    <2>1. \A r \in Places : \A n \in Nat : Due(r, n)' => Due(r, n)
      BY <1>1, <1>4, <1>5 DEF Due
    <2> QED
      BY <1>1, <2>1, DueStays
  <1>6. CASE stream' = stream \o threads[i].text
    <2> DEFINE x == threads[i].text
    <2>1. x \in Server!Texts /\ stream' = stream \o x
      BY <1>3, <1>6
    <2> HIDE DEF x
    <2>2. \A k \in 1 .. Len(stream') :
                 \/ k \in 1 .. Len(stream) /\ stream'[k] = stream[k]
                 \/ k > Len(stream) /\ stream'[k] \notin Replies
                 \/ /\ k = Len(stream) + 1
                    /\ stream'[k] \in Replies /\ x = Server!Line(stream'[k])
      BY <1>2, <2>1, ExtendsReply
    <2>3. PICK k \in Nat : k = Len(stream) + 1
      BY <1>2
    <2>4. \A r \in Places : \A n \in Nat :
             Due(r, n)' => \/ Due(r, n) /\ ~(r = "thread" /\ n = i)
                           \/ /\ r = "stream" /\ n = k
                              /\ x \in Server!ReplyLines
      BY <1>1, <1>2, <1>4, <2>2, <2>3, OtherTexts DEF Due
    <2>5. CASE x \in Server!ReplyLines
      <3>1. Due("thread", i) /\ "thread" \in Places /\ "stream" \in Places /\ i \in Nat
        BY <1>3, <2>5 DEF Due, Places, x
      <3>2. State' = "Open" => State = "Open"
        BY <1>1
      <3> QED
        BY <2>3, <2>4, <3>1, <3>2, DueMoves
    <2>6. CASE x \notin Server!ReplyLines
      BY <1>1, <2>4, <2>6, DueStays
    <2> QED
      BY <2>5, <2>6
  <1> QED
    BY <1>3, <1>5, <1>6

LEMMA OneDueStep ==
    ASSUME Joint, Joint', Asked, authReplied, OneDue, [SysNext]_sysVars
    PROVE  OneDue'
  <1>1. ASSUME UNCHANGED <<client_state, reply, extra, at, threads, stream, closed>>,
               StdinMoves \/ ServerTaskMoves \/ EndMoves \/ (ProcessLine /\ Inward' = Inward)
        PROVE  OneDue'
    BY <1>1, StdinDue, ServerTaskDue, LineTakenDue
  <1>2. ASSUME UNCHANGED clientSide, PeerMove
        PROVE  OneDue'
    <2>1. CASE Server!QuietMove
      <3>1. /\ UNCHANGED <<State, LastInputMsgType, LastOutputMsgType, pc, takenTo>>
            /\ UNCHANGED <<threads, stream, client_state>> /\ Inward' = Inward
        BY <1>2, <2>1 DEF clientSide, fsmVars, Server!QuietMove, Inward
      <3>2. \A r \in Places : \A n \in Nat : Due(r, n)' => Due(r, n)
        BY <3>1 DEF Due, Server!Unsent
      <3> QED
        BY <3>1, <3>2, DueStays
    <2> QED
      BY <1>2, <2>1, TakenDue, SentDue, RunDue DEF PeerMove
  <1> QED
    BY <1>1, <1>2, SystemMoves

\* A thread is started whose text is the line of an answer, and no REPLY after a
\* REPLY OK.
LEMMA StartsWhole ==
    ASSUME Server!ThreadsOK, WholeTexts,
           NEW t \in Server!Answers, Server!Starts(Server!Line(t)),
           t \in Replies => ~Server!Granted
    PROVE  WholeTexts'
  <1>1. /\ Len(threads) \in Nat /\ Len(threads') = Len(threads) + 1
        /\ \A i \in 1 .. Len(threads) : threads'[i] = threads[i]
        /\ threads'[Len(threads) + 1] = [text |-> Server!Line(t), status |-> "started"]
    BY PeerFits, StartedTexts, Server!StartsUnsent
  <1>2. threads'[Len(threads) + 1].text = Server!Line(t)
    BY <1>1
  <1>3. Server!Line(t) \in Server!ReplyLines => ~Server!Granted
    BY PeerFits, Server!AnswerLines DEF Server!Replies, Replies
  <1>4. ASSUME NEW i \in 1 .. Len(threads')
        PROVE  threads'[i].text \in {Server!Line(s) : s \in Server!Answers}
    BY <1>1, <1>2 DEF WholeTexts
  <1>5. ASSUME NEW i \in 1 .. Len(threads'), threads'[i].text = Server!Line("ReplyOk"),
               NEW j \in i + 1 .. Len(threads')
        PROVE  threads'[j].text \notin Server!ReplyLines
    <2>1. i \in 1 .. Len(threads) /\ threads'[i] = threads[i]
      BY <1>1
    <2>2. Server!Granted
      BY <1>5, <2>1 DEF Server!Granted
    <2>3. CASE j = Len(threads) + 1
      BY <1>2, <1>3, <2>2, <2>3
    <2>4. CASE j # Len(threads) + 1
      <3>1. j \in 1 .. Len(threads) /\ j \in i + 1 .. Len(threads) /\ threads'[j] = threads[j]
        BY <1>1, <2>4
      <3> QED
        BY <1>5, <2>1, <3>1 DEF WholeTexts
    <2> QED
      BY <2>3, <2>4
  <1> QED
    BY <1>4, <1>5 DEF WholeTexts

\* The client takes the first REPLY OK, or passes over it.
LEMMA ClientFirst ==
    ASSUME Joint, FirstGrant, ~authReplied, ~authReplied',
           UNCHANGED <<client_state, at, threads, stream>>,
           StdinMoves \/ ServerTaskMoves \/ EndMoves \/ ProcessLine
    PROVE  FirstGrant'
  <1>1. LineEnds' = LineEnds
    BY DEF LineEnds
  <1>2. \A k \in 1 .. Len(stream) :
           stream[k] = "ReplyOk" /\ k <= takenTo' => PassedOver'
    <2>1. CASE StdinMoves \/ EndMoves
      BY <2>1 DEF FirstGrant, PassedOver, StdinMoves, EndMoves
    <2>2. CASE ServerTaskMoves
      <3>1. takenTo' = takenTo
        BY <2>2 DEF ServerTaskMoves
      <3>2. State \in {"Start", "Auth"}
        BY DEF Joint, Base!FsmInv, Base!FsmTypeOK, Base!FsmStates, Base!AuthFirst
      <3>3. PassedOver => PassedOver'
        <4>1. LastOutputMsgType \notin Replies
                => Verdict(State, LastOutputMsgType) \in {"err", "throw"}
          BY <3>2 DEF Verdict, Replies
        <4> QED
          BY <2>2, <4>1 DEF PassedOver, ServerTaskMoves
      <3> QED
        BY <3>1, <3>3 DEF FirstGrant
    <2>3. ASSUME ProcessLine, NEW k \in 1 .. Len(stream), stream[k] = "ReplyOk",
                 k <= takenTo'
          PROVE  PassedOver'
      <3>1. /\ takenTo \in Nat /\ takenTo' \in takenTo + 2 .. Len(stream)
            /\ \A e \in LineEnds : ~(takenTo < e /\ e < takenTo')
            /\ savedInput[1] = stream[takenTo + 1]
            /\ \/ pc'["server"] \in {"lines", "throw"}
               \/ /\ pc'["server"] = "fsm" /\ LastOutputMsgType' = savedInput[1]
                  /\ authReplied' = (authReplied \/ savedInput[1] = "ReplyOk")
        BY <2>3, LineTaken
      <3>2. CASE pc'["server"] \in {"lines", "throw"}
        BY <3>2 DEF PassedOver
      <3>3. CASE pc'["server"] = "fsm"
        <4>1. LastOutputMsgType' = stream[takenTo + 1] /\ stream[takenTo + 1] # "ReplyOk"
          BY <3>1, <3>3
        <4>2. k <= takenTo
          <5>1. k - 1 \in {0} \cup LineEnds
            BY <2>3 DEF FirstGrant, Replies
          <5>2. k # takenTo + 1
            BY <2>3, <4>1
          <5>3. ~(takenTo < k - 1 /\ k - 1 < takenTo')
            BY <3>1, <5>1
          <5> QED
            BY <2>3, <3>1, <5>2, <5>3
        <4>3. takenTo + 1 \in k + 1 .. Len(stream)
          BY <3>1, <4>2
        <4>4. stream[takenTo + 1] \notin Replies
          BY <2>3, <4>3 DEF FirstGrant
        <4> QED
          BY <3>3, <4>1, <4>4 DEF PassedOver
      <3> QED
        BY <3>1, <3>2, <3>3
    <2> QED
      BY <2>1, <2>2, <2>3
  <1>3. WholeTexts'
    BY DEF FirstGrant, WholeTexts
  <1> QED
    BY <1>1, <1>2, <1>3 DEF FirstGrant

\* What the handler does starts at most one thread.
LEMMA HandlerFirst ==
    ASSUME Joint, Asked, FirstGrant, ~authReplied, UNCHANGED clientSide, PeerMove,
           ~\E i \in 1 .. Len(threads) : Server!ThreadMove(i)
    PROVE  FirstGrant'
  <1>1. /\ UNCHANGED <<LastOutputMsgType, pc, takenTo>> /\ stream' = stream
    BY DEF clientSide, fsmVars, PeerMove, Server!QuietMove, Server!LineMove,
           Server!ReplyMove, Server!SecondMove
  <1>2. LineEnds' = LineEnds /\ (PassedOver' <=> PassedOver)
    BY <1>1 DEF LineEnds, PassedOver
  <1> SUFFICES client_state' # "JOIN_WAIT" /\ at' # "part2" /\ WholeTexts'
    BY <1>1, <1>2 DEF FirstGrant
  <1>3. /\ Server!ThreadsOK /\ Server!GrantAgrees
        /\ client_state # "JOIN_WAIT" /\ at # "part2" /\ WholeTexts
    BY DEF Joint, ServerOK, Server!Told, FirstGrant
  <1>4. threads' = threads => WholeTexts'
    BY <1>3 DEF WholeTexts
  <1>5. Server!Starts(Server!Line("Msg")) => WholeTexts'
    BY <1>3, StartsWhole DEF Server!Answers, Replies
  <1>6. CASE Server!QuietMove
    BY <1>3, <1>4, <1>6 DEF Server!QuietMove
  <1>7. CASE Server!LineMove /\ (\/ Server!Rejected \/ Server!AuthTaken \/ Server!JoinTaken
                                 \/ Server!MsgTaken \/ Server!ByeTaken)
    <2>1. 1 \in 1 .. Len(Inward)
      BY <1>7 DEF Server!LineMove, Inward
    <2>2. Inward[1].type \notin {"Join", "Msg"}
      BY <2>1 DEF Asked
    <2> QED
      BY <1>3, <1>4, <1>5, <1>7, <2>2 DEF Server!Rejected, Server!AuthTaken, Server!JoinTaken,
         Server!MsgTaken, Server!ByeTaken, Inward
  <1>8. CASE Server!ReplyMove
    <2>1. /\ at = "reply" /\ Server!ReplyFits /\ Server!Starts(Server!Line(reply))
          /\ client_state' = Server!AfterReply(client_state, reply) /\ at' # "part2"
      BY <1>8 DEF Server!ReplyMove, Server!Leaves
    <2>2. reply \in Server!Answers
      BY <2>1 DEF Server!ReplyFits, Server!Answers, Server!Replies
    <2>3. reply \in Replies => ~Server!Granted
      BY <1>3, <2>1 DEF Asked, Server!GrantAgrees, Server!ReplyFits, Replies, Server!Replies
    <2>4. WholeTexts'
      BY <1>3, <2>1, <2>2, <2>3, StartsWhole
    <2>5. client_state' # "JOIN_WAIT"
      BY <1>3, <2>1 DEF Server!AfterReply
    <2> QED
      BY <1>3, <2>1, <2>4, <2>5
  <1>9. CASE Server!SecondMove
    BY <1>3, <1>5, <1>9 DEF Server!SecondMove, Server!Leaves
  <1> QED
    BY <1>6, <1>7, <1>8, <1>9 DEF PeerMove

\* A thread runs: a REPLY it sends is the first line of its kind, or follows no
\* REPLY OK.
LEMMA ThreadFirst ==
    ASSUME Joint, InOrderSent, FirstGrant, UNCHANGED clientSide,
           NEW i \in 1 .. Len(threads), Server!ThreadMove(i)
    PROVE  FirstGrant'
  <1>1. UNCHANGED <<LastOutputMsgType, pc, takenTo, client_state, at>>
    BY DEF clientSide, fsmVars, Server!ThreadMove
  <1>2. Server!ThreadsOK /\ stream \in Seq(Tokens) /\ takenTo \in Nat /\ takenTo <= Len(stream)
        /\ Len(stream) \in Nat
    BY LenProperties DEF Joint, ServerOK, Server!Told, LinesInv, PositionsOK
  <1>3. /\ Len(threads) \in Nat /\ Len(threads') = Len(threads)
        /\ \A j \in 1 .. Len(threads) : threads'[j].text = threads[j].text
        /\ i \in Server!Unsent
        /\ threads[i].text \in Server!Texts
        /\ \/ stream' = stream \o threads[i].text
           \/ stream' = stream
    BY <1>2, PeerFits, Server!RunsSent DEF Server!ThreadMove
  <1>4. WholeTexts'
    BY <1>3 DEF FirstGrant, WholeTexts
  <1>5. PassedOver' <=> PassedOver
    BY <1>1 DEF PassedOver
  <1>6. CASE stream' = stream
    BY <1>1, <1>4, <1>5, <1>6 DEF FirstGrant, LineEnds
  <1>7. CASE stream' = stream \o threads[i].text
    <2> DEFINE x == threads[i].text
    <2>1. x \in Server!Texts /\ stream' = stream \o x
      BY <1>3, <1>7
    <2>2. PICK t \in Server!Answers : x = Server!Line(t)
      BY DEF FirstGrant, WholeTexts
    <2>3. ASSUME NEW k \in 1 .. Len(stream), stream[k] = "ReplyOk"
          PROVE  x \notin Server!ReplyLines
      <3>1. PICK j \in (1 .. Len(threads)) \ Server!Unsent :
               threads[j].text = Server!Line("ReplyOk")
        BY <2>3 DEF InOrderSent
      <3>2. ~(i <= j)
        BY <1>3, <3>1 DEF InOrderSent
      <3>3. i \in j + 1 .. Len(threads)
        BY <1>3, <3>2
      <3> QED
        BY <3>1, <3>3 DEF FirstGrant, WholeTexts
    <2> HIDE DEF x
    <2>4. /\ x \in Seq(Tokens)
          /\ \A k \in 1 .. Len(stream') :
                 \/ k \in 1 .. Len(stream) /\ stream'[k] = stream[k]
                 \/ k > Len(stream) /\ stream'[k] \notin Replies
                 \/ /\ k = Len(stream) + 1
                    /\ stream'[k] \in Replies /\ x = Server!Line(stream'[k])
          /\ Len(stream') = Len(stream) + 3
          /\ Len(stream') \in LineEnds'
      BY <1>2, <2>1, <2>2, ExtendsReply
    <2>5. LineEnds \subseteq LineEnds'
      BY <2>1, <2>4, <1>2, Extends
    <2>6. ASSUME NEW k \in 1 .. Len(stream'), stream'[k] \in Replies
          PROVE  k - 1 \in {0} \cup LineEnds'
      <3>1. CASE k \in 1 .. Len(stream) /\ stream'[k] = stream[k]
        BY <2>5, <2>6, <3>1 DEF FirstGrant
      <3>2. CASE k = Len(stream) + 1
        <4>1. k - 1 = Len(stream)
          BY <1>2, <3>2
        <4> QED
          BY <2>5, <4>1 DEF FirstGrant
      <3> QED
        BY <2>4, <2>6, <3>1, <3>2
    <2>7. ASSUME NEW k \in 1 .. Len(stream'), stream'[k] = "ReplyOk"
          PROVE  /\ \A m \in k + 1 .. Len(stream') : stream'[m] \notin Replies
                 /\ k <= takenTo => PassedOver
      <3>1. "ReplyOk" \in Replies
        BY DEF Replies
      <3>2. CASE k \in 1 .. Len(stream) /\ stream'[k] = stream[k]
        <4>1. x \notin Server!ReplyLines
          BY <2>3, <2>7, <3>2
        <4>2. ASSUME NEW m \in k + 1 .. Len(stream'), stream'[m] \in Replies
              PROVE  FALSE
          <5>1. m \in 1 .. Len(stream')
            BY <1>2, <2>4
          <5>2. ~(m \in 1 .. Len(stream) /\ stream'[m] = stream[m])
            <6>1. m \in 1 .. Len(stream) => m \in k + 1 .. Len(stream)
              BY <3>2
            <6> QED
              BY <2>7, <3>2, <4>2, <6>1 DEF FirstGrant
          <5>3. x = Server!Line(stream'[m])
            BY <2>4, <4>2, <5>1, <5>2
          <5> QED
            BY <4>1, <4>2, <5>3, OtherTexts
        <4> QED
          BY <2>7, <3>2, <4>2 DEF FirstGrant
      <3>3. CASE k = Len(stream) + 1
        <4>1. ASSUME NEW m \in k + 1 .. Len(stream')
              PROVE  stream'[m] \notin Replies
          <5>1. m \in 1 .. Len(stream') /\ m > Len(stream) + 1
            BY <1>2, <2>4, <3>3
          <5> QED
            BY <1>2, <2>4, <5>1
        <4> QED
          BY <1>2, <3>3, <4>1
      <3> QED
        BY <2>4, <2>7, <3>1, <3>2, <3>3
    <2> QED
      BY <1>1, <1>4, <1>5, <2>4, <2>6, <2>7 DEF FirstGrant
  <1> QED
    BY <1>3, <1>6, <1>7

\* Until then the server sends at most one REPLY OK, and no REPLY after it.
LEMMA FirstGrantStep ==
    ASSUME Joint, Joint', Asked, InOrderSent, FirstGrant, ~authReplied, ~authReplied',
           [SysNext]_sysVars
    PROVE  FirstGrant'
  BY SystemMoves, ClientFirst, HandlerFirst, ThreadFirst DEF clientSide

\* The first REPLY OK the FSM is given is the only REPLY on its way.
LEMMA FirstDue ==
    ASSUME Joint, Joint', Asked, InOrderSent, FirstGrant, ~authReplied, authReplied',
           [SysNext]_sysVars
    PROVE  OneDue'
  <1>1. /\ ProcessLine /\ Inward' = Inward
        /\ UNCHANGED <<client_state, threads, stream>>
        /\ savedInput[1] = "ReplyOk"
    BY FirstReplyOk
  <1>2. /\ takenTo \in Nat /\ takenTo' \in takenTo + 2 .. Len(stream)
        /\ stream[takenTo + 1] = "ReplyOk"
        /\ UNCHANGED <<State, LastInputMsgType>> /\ pc'["stdin"] = pc["stdin"]
    BY <1>1, LineTaken
  <1>3. Len(stream) \in Nat
    BY LenProperties DEF Joint, LinesInv, PositionsOK
  <1>4. PICK k \in 1 .. Len(stream) : k = takenTo + 1
    BY <1>2, <1>3
  <1>5. State \in {"Start", "Auth"}
        /\ (pc["stdin"] \in {"startTimer", "send"} => LastInputMsgType # "Join")
    BY DEF Joint, Base!FsmInv, Base!FsmTypeOK, Base!FsmStates, Base!AuthFirst, BaseLabel, Tasks
  <1>6. \A i \in Server!Unsent : threads[i].text \notin Server!ReplyLines
    <2>1. PICK j \in (1 .. Len(threads)) \ Server!Unsent :
             threads[j].text = Server!Line("ReplyOk")
      BY <1>2, <1>4 DEF InOrderSent
    <2>2. ASSUME NEW i \in Server!Unsent
          PROVE  i \in j + 1 .. Len(threads)
      <3>1. i \in 1 .. Len(threads)
        BY DEF Server!Unsent
      <3>2. Len(threads) \in Nat
        BY LenProperties DEF Joint, ServerOK, Server!Told, Server!ThreadsOK
      <3>3. ~(j \in i .. Len(threads))
        BY <2>1 DEF InOrderSent
      <3> QED
        BY <2>1, <3>1, <3>2, <3>3
    <2> QED
      BY <2>1, <2>2 DEF FirstGrant, WholeTexts
  <1>7. \A i \in takenTo' + 1 .. Len(stream) : stream[i] \notin Replies
    <2>1. \A i \in takenTo' + 1 .. Len(stream) : i \in k + 1 .. Len(stream)
      <3>1. PICK e \in Nat : e = takenTo'
        BY <1>2
      <3>2. k \in Nat /\ e > k
        BY <1>2, <1>4, <3>1
      <3>3. \A i \in e + 1 .. Len(stream) : i \in k + 1 .. Len(stream)
        BY <1>3, <3>2
      <3> QED
        BY <3>1, <3>3
    <2> QED
      BY <1>2, <1>4, <2>1 DEF FirstGrant
  <1>8. Server!Unsent' = Server!Unsent
    BY <1>1 DEF Server!Unsent
  <1>9. \A p \in Places : \A i \in Nat : Due(p, i)' => p = "fsm" /\ i = 0
    BY <1>1, <1>2, <1>5, <1>6, <1>7, <1>8 DEF Due, Asked, FirstGrant
  <1> QED
    BY <1>2, <1>5, <1>9 DEF OneDue

LEMMA InitAgreement == SysInit => Agreement
  <1> SUFFICES ASSUME SysInit PROVE Agreement
    OBVIOUS
  <1>1. /\ client_state = "START" /\ at = "accept" /\ ~authReplied
        /\ threads = << >> /\ stream = << >>
    BY DEF SysInit, Init, FsmInit, Server!ServerInit
  <1>2. Len(threads) = 0 /\ Len(stream) = 0
    BY <1>1
  <1>3. InOrderSent
    BY <1>2 DEF InOrderSent, Server!Unsent
  <1>4. FirstGrant
    BY <1>1, <1>2 DEF FirstGrant, WholeTexts
  <1> QED
    BY <1>1, <1>3, <1>4, InitAsked, InitNotStarted DEF Agreement

\* All of this together.
LEMMA AgreementStep ==
    ASSUME Orderly
    PROVE  Joint /\ Joint' /\ Agreement /\ [SysNext]_sysVars => Agreement'
  <1> SUFFICES ASSUME Joint, Joint', Agreement, [SysNext]_sysVars PROVE Agreement'
    OBVIOUS
  <1>1. authReplied => authReplied'
    BY JointStep, AuthReplyStays DEF Joint
  <1>2. Asked' /\ InOrderSent' /\ NotStarted'
    BY AskedStep, InOrderStep, NotStartedStep DEF Agreement
  <1>3. ~authReplied' => FirstGrant'
    BY <1>1, FirstGrantStep DEF Agreement
  <1>4. ASSUME authReplied' PROVE OneDue' /\ NotReopened'
    BY <1>4, OneDueStep, FirstDue, NotReopenedStep DEF Agreement
  <1> QED
    BY <1>2, <1>3, <1>4 DEF Agreement

\* A REPLY OK that the client has not passed over stays behind.
LEMMA GrantLeftBehind ==
    ASSUME Joint, Server!Ends, InOrderSent, FirstGrant, AtRest, client_state = "OPEN"
    PROVE  LineLeftBehind
  <1>1. /\ stream \in Seq(Tokens) /\ Len(stream) \in Nat /\ takenTo \in 0 .. readPos
        /\ readPos = Len(stream) /\ PositionsOK /\ NothingLost
    BY LenProperties DEF Joint, LinesInv, PositionsOK, AtRest
  <1>2. PICK i \in 1 .. Len(threads) : threads[i].text = Server!Line("ReplyOk")
    BY DEF Joint, ServerOK, Server!Told, Server!GrantAgrees, Server!Granted
  <1>3. threads[i].status \in {"started", "sent", "lost"}
    <2>1. threads[i] \in Server!Thread
      BY ElementOfSeq DEF Joint, ServerOK, Server!Told, Server!ThreadsOK
    <2> QED
      BY <2>1 DEF Server!Thread
  <1>4. threads[i].status = "sent"
    BY <1>3 DEF AtRest, Server!Unsent, InOrderSent, Server!Ends
  <1>5. PICK k \in 1 .. Len(stream) : stream[k] = "ReplyOk"
    BY <1>2, <1>4 DEF InOrderSent
  <1>6. k + 2 \in LineEnds
    BY <1>5 DEF InOrderSent, Replies
  <1>7. k + 2 \in 2 .. Len(stream) /\ stream[k + 1] = CR /\ stream[k + 2] = LF
    <2>1. (k + 2) - 1 = k + 1
      OBVIOUS
    <2> QED
      BY <1>6, <2>1 DEF LineEnds
  <1>8. ~(k <= takenTo)
    BY <1>5 DEF FirstGrant, PassedOver, AtRest
  <1>9. PICK j \in Nat : j = k + 1 - takenTo
    BY <1>1, <1>8
  <1>10. /\ j \in 1 .. Len(savedInput) - 1
         /\ savedInput[j] = CR /\ savedInput[j + 1] = LF
    <2>1. /\ Len(savedInput) = Len(stream) - takenTo
          /\ \A m \in 1 .. Len(savedInput) : savedInput[m] = stream[takenTo + m]
      BY <1>1, SavedTokens
    <2>2. /\ j \in 1 .. Len(savedInput) - 1 /\ j \in 1 .. Len(savedInput)
          /\ j + 1 \in 1 .. Len(savedInput)
          /\ takenTo + j = k + 1 /\ takenTo + (j + 1) = k + 2
      BY <1>1, <1>7, <1>8, <1>9, <2>1
    <2> QED
      BY <1>7, <2>1, <2>2
  <1>11. CrlfAt(savedInput, j) /\ j \in 1 .. Len(savedInput)
    BY <1>10 DEF CrlfAt
  <1> QED
    BY <1>11 DEF LineLeftBehind, HasCrlf, AtRest

\* Nothing is under way, and the two agree.
LEMMA AgreementRests ==
    ASSUME Joint, Server!Ends, Agreement
    PROVE  RestAgrees
  <1> SUFFICES ASSUME AtRest, ~LineLeftBehind PROVE <<State, client_state>> \in Agreed
    BY DEF RestAgrees
  <1>1. /\ client_state \in {"START", "OPEN", "JOIN_WAIT"}
        /\ buffer = << >> /\ inbox = << >> /\ at = "recv"
    BY DEF AtRest, Joint, ServerOK, Server!Phase, Server!States
  <1>2. Len(Inward) = 0
    <2>1. Inward = << >>
      BY <1>1, EmptySeq, ConcatEmptySeq DEF Inward, Server!Inward
    <2>2. Len(<< >>) = 0
      OBVIOUS
    <2> QED
      BY <2>1, <2>2
  <1>3. /\ State \in {"Start", "Auth", "Open", "Join"}
        /\ State \in {"Open", "Join"} => authReplied
    BY DEF Joint, Base!FsmInv, Base!FsmTypeOK, Base!FsmStates, Base!AuthFirst
  <1>4. authReplied => client_state \in {"OPEN", "JOIN_WAIT"}
    BY <1>1, ShownIsGranted
  <1>5. CASE State = "Start"
    BY <1>1, <1>5 DEF Agreement, NotStarted, Agreed
  <1>6. CASE State = "Auth"
    <2>1. ~authReplied
      BY <1>1, <1>2, <1>6 DEF Agreement, NotReopened, StaleAuth, Ending, AtRest, Server!Leaving
    <2>2. FirstGrant /\ InOrderSent
      BY <2>1 DEF Agreement
    <2>3. client_state # "OPEN"
      BY <2>2, GrantLeftBehind
    <2>4. client_state = "START"
      BY <1>1, <2>2, <2>3 DEF FirstGrant
    <2> QED
      BY <1>6, <2>4 DEF Agreed
  <1>7. CASE State = "Open"
    <2>1. ~Due("wait", 0)
      BY <1>3, <1>7 DEF Agreement, OneDue, Places
    <2> QED
      BY <1>3, <1>4, <1>7, <2>1 DEF Due, Agreed
  <1>8. CASE State = "Join"
    BY <1>3, <1>4, <1>8 DEF Agreed
  <1> QED
    BY <1>3, <1>5, <1>6, <1>7, <1>8

\* When nothing is under way between the TCP client and the server and no line is
\* left behind, the two state machines agree -- whatever else the user types, however
\* the stream is cut into chunks, and whenever the tasks, the timer and the threads
\* run, these in the order they were started.  Without either half of Orderly it is
\* not so: a REPLY that comes late, or that answers a MSG, is taken for another.
THEOREM RestAgreement == ASSUME Orderly PROVE SysSpec => []RestAgrees
  <1>1. Joint /\ Joint' /\ Agreement /\ [SysNext]_sysVars => Agreement'
    BY AgreementStep
  <1>2. Joint /\ Server!Ends /\ Agreement => RestAgrees
    BY AgreementRests
  <1> QED
    BY <1>1, <1>2, InitAgreement, AlwaysJoint, AlwaysEnds, PTL DEF SysSpec
=============================================================================
