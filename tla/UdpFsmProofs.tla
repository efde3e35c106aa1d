---------------------------- MODULE UdpFsmProofs ----------------------------
(***************************************************************************)
(* What holds of every UDP client, whatever the ids, ports, number of      *)
(* retransmissions and datagrams of the server: type correctness, that it  *)
(* is an AFsm, and what is confirmed and shown before it is acted on.      *)
(***************************************************************************)
EXTENDS UdpFsm, TLAPS

-----------------------------------------------------------------------------
(* Ids. *)

Ids == -HalfRange .. HalfRange + 1
Transmissions == [type : MessageTypes \cup {Null}, id : WireIds, port : Ports]

\* An Int16 read from a datagram and written back is the same two bytes.
LEMMA WireRoundTrip ==
    ASSUME NEW w \in WireIds
    PROVE  ToInt16(w) \in -HalfRange .. HalfRange - 1 /\ ToWire(ToInt16(w)) = w
  BY UdpAssumption DEF WireIds, ToInt16, ToWire

\* Every id the client uses has a 16-bit form.
LEMMA WireOfId == ASSUME NEW i \in Ids PROVE ToWire(i) \in WireIds
  BY UdpAssumption DEF Ids, WireIds, ToWire

LEMMA IdsAreInt == Ids \subseteq Int /\ 0 \in Ids
  BY UdpAssumption DEF Ids

-----------------------------------------------------------------------------
(* Control: where the tasks are and what the server task works on.  These    *)
(* facts need no other invariant, and the refinement needs no others.        *)

OnDatagram == {"assign", "gate", "confirm", "fsm", "open", "stopTimer"}

LabelsOK ==
    /\ DOMAIN pc = Tasks
    /\ pc["stdin"] \in {"read", "setState", "startTimer", "send", "done"}
                       \cup Waiting
    /\ pc["server"] \in ServerLabels \cup {"confirmMalformed"} \cup OnDatagram
                        \cup Waiting
    /\ pc["main"] \in {"wait", "cleanup", "flag", "copy", "exited"}

\* The type handed to RunFsm(null) is that of the datagram, and the server task
\* works on nothing before the socket was used.
ServerOK ==
    /\ pc["server"] \in OnDatagram
         => rx.type # Null /\ LastOutputMsgType = rx.type
    /\ LastOutputMsgType \in WireTypes \cup {Null}
    /\ pc["server"] # "recv" => isMsgSent

\* Nothing is sent without names, and a task that waits has sent something.
SentOK ==
    /\ isMsgSent => named
    /\ pc["stdin"] \in Waiting => isMsgSent

FlagsOK ==
    IsMsgSent \in BOOLEAN /\ cancelled \in BOOLEAN /\ authReplied \in BOOLEAN

Control == LabelsOK /\ ServerOK /\ SentOK /\ FlagsOK

LEMMA InitControl == Init => Control
  BY DEF Init, FsmInit, Tasks, Control, LabelsOK, ServerOK, SentOK, FlagsOK,
         ServerLabels, OnDatagram, Waiting, Null

LEMMA LabelsStep == Control /\ [Next]_vars => LabelsOK'
  <1> SUFFICES ASSUME Control, [Next]_vars PROVE LabelsOK'
    OBVIOUS
  <1> USE DEF Control, LabelsOK, Tasks, Goto, Waiting, ServerLabels, OnDatagram,
              NextRead, NextRecv
  <1>1. CASE Inherited
    <2>1. CASE EndOfInput \/ SetRequestState \/ StartTimer \/ WhenAny
      BY <2>1 DEF EndOfInput, SetRequestState, StartTimer, WhenAny
    <2>2. ASSUME NEW t \in LineTypes, LocalCommand(t) \/ Request(t)
          PROVE  LabelsOK'
      BY <2>2 DEF LocalCommand, Request, FirstStep
    <2>3. CASE TimerElapses \/ ElapsedHandler \/ CancelKeyPress
      BY <2>3 DEF TimerElapses, ElapsedHandler, CancelKeyPress
    <2>4. CASE ReceiveCancelled
      BY <2>4 DEF ReceiveCancelled
    <2>5. CASE RunFsmNull
      <3>1. Verdict(State, LastOutputMsgType) \in ServerLabels
        BY DEF Verdict
      <3> QED
        BY <2>5, <3>1 DEF RunFsmNull
    <2>6. CASE SetOpen \/ StopTimer \/ CatchException
      BY <2>6 DEF SetOpen, StopTimer, CatchException
    <2> QED
      BY <1>1, <2>1, <2>2, <2>3, <2>4, <2>5, <2>6
         DEF Inherited, User, StdinWork, ServerWork
  <1>2. ASSUME NEW t \in Senders, SnedMessage(t)
        PROVE  LabelsOK'
    <2>1. CASE Send(t) \/ Retransmit(t)
      BY <1>2, <2>1 DEF Send, Retransmit, Senders
    <2>2. CASE SetFlag(t) \/ CopyUser(t) \/ LeaveLoop(t)
      BY <1>2, <2>2 DEF SetFlag, CopyUser, LeaveLoop, Senders
    <2> QED
      BY <1>2, <2>1, <2>2 DEF SnedMessage
  <1>3. CASE StdinVerdict \/ StdinSendFails \/ ServerSendFails
    BY <1>3 DEF StdinVerdict, StdinSendEnds, StdinSendFails, ServerSendFails
  <1>4. CASE CleanUp
    BY <1>4 DEF CleanUp, SendBye, SetFlag, ExitSilently, ExitAfterBye, Exit
  <1>5. ASSUME NEW m \in ServerMsgs, Receive(m) \/ ReceiveMalformed(m)
        PROVE  LabelsOK'
    BY <1>5 DEF Receive, ReceiveMalformed
  <1>6. CASE ServerStep
    BY <1>6 DEF ServerStep, AssignId, Gate, Confirm, ConfirmMalformed,
                ServerVerdict, ErrSent
  <1>7. CASE UNCHANGED vars
    BY <1>7 DEF vars, fsmVars
  <1> QED
    BY <1>1, <1>2, <1>3, <1>4, <1>5, <1>6, <1>7 DEF Next

LEMMA SentStep == Control /\ [Next]_vars => SentOK'
  <1> SUFFICES ASSUME Control, [Next]_vars PROVE SentOK'
    OBVIOUS
  <1> USE DEF Control, LabelsOK, Tasks, Goto, fsmData, udpVars, SentOK, Waiting
  <1>1. CASE Inherited
    <2>1. CASE EndOfInput \/ SetRequestState \/ StartTimer \/ WhenAny
      BY <1>1, <2>1 DEF Inherited, EndOfInput, SetRequestState, StartTimer, WhenAny
    <2>2. ASSUME NEW t \in LineTypes, LocalCommand(t)
          PROVE  SentOK'
      <3>1. named => named'
        BY <2>2 DEF LocalCommand
      <3>2. pc'["stdin"] \notin Waiting
        BY <2>2 DEF LocalCommand, NextRead
      <3> QED
        BY <1>1, <3>1, <3>2 DEF Inherited
    <2>3. ASSUME NEW t \in LineTypes, Request(t)
          PROVE  SentOK'
      BY <1>1, <2>3 DEF Inherited, Request, NextRead, FirstStep
    <2>4. CASE TimerElapses \/ ElapsedHandler \/ CancelKeyPress
      BY <1>1, <2>4 DEF Inherited, TimerElapses, ElapsedHandler, CancelKeyPress
    <2>5. CASE ReceiveCancelled
      BY <1>1, <2>5 DEF Inherited, ReceiveCancelled
    <2>6. CASE ServerWork
      BY <1>1, <2>6
         DEF Inherited, ServerWork, RunFsmNull, SetOpen, StopTimer, CatchException
    <2> QED
      BY <1>1, <2>1, <2>2, <2>3, <2>4, <2>5, <2>6 DEF Inherited, User, StdinWork
  <1>2. ASSUME NEW t \in Senders, SnedMessage(t)
        PROVE  SentOK'
    <2>1. CASE Send(t)
      BY <2>1 DEF Send, Transmit
    <2>2. CASE Retransmit(t)
      BY <2>2 DEF Retransmit, Transmit, ServerOK, Senders
    <2>3. CASE SetFlag(t) \/ CopyUser(t) \/ LeaveLoop(t)
      BY <1>2, <2>3 DEF SetFlag, CopyUser, LeaveLoop, Senders
    <2> QED
      BY <1>2, <2>1, <2>2, <2>3 DEF SnedMessage
  <1>3. CASE StdinVerdict \/ StdinSendFails \/ ServerSendFails
    BY <1>3 DEF StdinVerdict, StdinSendEnds, StdinSendFails, ServerSendFails,
                NextRead
  <1>4. CASE CleanUp
    BY <1>4 DEF CleanUp, SendBye, SetFlag, ExitSilently, ExitAfterBye, Exit,
                Transmit
  <1>5. ASSUME NEW m \in ServerMsgs, Receive(m) \/ ReceiveMalformed(m)
        PROVE  SentOK'
    BY <1>5 DEF Receive, ReceiveMalformed
  <1>6. CASE ServerStep
    <2>1. CASE AssignId \/ Gate
      BY <2>1 DEF AssignId, Gate
    <2>2. CASE Confirm \/ ConfirmMalformed
      BY <2>2 DEF Confirm, ConfirmMalformed, Transmit, ServerOK
    <2>3. CASE ServerVerdict
      BY <2>3 DEF ServerVerdict, ErrSent
    <2> QED
      BY <1>6, <2>1, <2>2, <2>3 DEF ServerStep
  <1>7. CASE UNCHANGED vars
    BY <1>7 DEF vars, fsmVars
  <1> QED
    BY <1>1, <1>2, <1>3, <1>4, <1>5, <1>6, <1>7 DEF Next

LEMMA ServerStepOK == Control /\ [Next]_vars => ServerOK'
  <1> SUFFICES ASSUME Control, [Next]_vars PROVE ServerOK'
    OBVIOUS
  <1> USE DEF Control, LabelsOK, Tasks, Goto, ServerOK, OnDatagram, fsmData,
              udpVars
  <1>1. CASE Inherited
    <2>1. CASE EndOfInput \/ SetRequestState \/ StartTimer \/ WhenAny
      BY <1>1, <2>1 DEF Inherited, EndOfInput, SetRequestState, StartTimer, WhenAny
    <2>2. ASSUME NEW t \in LineTypes, LocalCommand(t) \/ Request(t)
          PROVE  ServerOK'
      BY <1>1, <2>2 DEF Inherited, LocalCommand, Request
    <2>3. CASE TimerElapses \/ ElapsedHandler \/ CancelKeyPress
      BY <1>1, <2>3 DEF Inherited, TimerElapses, ElapsedHandler, CancelKeyPress
    <2>4. CASE ReceiveCancelled /\ SocketReady
      BY <1>1, <2>4 DEF Inherited, ReceiveCancelled, SocketReady
    <2>5. CASE RunFsmNull
      BY <1>1, <2>5 DEF Inherited, RunFsmNull
    <2>6. CASE SetOpen \/ StopTimer \/ CatchException
      BY <1>1, <2>6 DEF Inherited, SetOpen, StopTimer, CatchException, NextRecv
    <2> QED
      BY <1>1, <2>1, <2>2, <2>3, <2>4, <2>5, <2>6
         DEF Inherited, User, StdinWork, ServerWork
  <1>2. ASSUME NEW t \in Senders, SnedMessage(t)
        PROVE  ServerOK'
    <2>1. CASE Send(t) \/ Retransmit(t)
      BY <1>2, <2>1 DEF Send, Retransmit, Transmit, Senders
    <2>2. CASE SetFlag(t) \/ CopyUser(t) \/ LeaveLoop(t)
      BY <1>2, <2>2 DEF SetFlag, CopyUser, LeaveLoop, Senders
    <2> QED
      BY <1>2, <2>1, <2>2 DEF SnedMessage
  <1>3. CASE StdinVerdict \/ StdinSendFails \/ ServerSendFails
    BY <1>3 DEF StdinVerdict, StdinSendEnds, StdinSendFails, ServerSendFails
  <1>4. CASE CleanUp
    <2>1. CASE SendBye
      BY <2>1 DEF SendBye, Transmit
    <2>2. CASE SetFlag("main") \/ ExitSilently \/ ExitAfterBye
      BY <2>2 DEF SetFlag, ExitSilently, ExitAfterBye, Exit
    <2> QED
      BY <1>4, <2>1, <2>2 DEF CleanUp
  <1>5. ASSUME NEW m \in ServerMsgs, Receive(m) \/ ReceiveMalformed(m)
        PROVE  ServerOK'
    <2>1. m.type \in WireTypes \cup {Null}
      BY UdpAssumption DEF ServerDatagrams
    <2> QED
      BY <1>5, <2>1 DEF Receive, ReceiveMalformed, SocketReady
  <1>6. CASE ServerStep
    <2>1. CASE AssignId \/ Gate
      BY <2>1 DEF AssignId, Gate, NextRecv
    <2>2. CASE Confirm \/ ConfirmMalformed
      BY <2>2 DEF Confirm, ConfirmMalformed, Transmit
    <2>3. CASE ServerVerdict
      BY <2>3 DEF ServerVerdict, ErrSent
    <2> QED
      BY <1>6, <2>1, <2>2, <2>3 DEF ServerStep
  <1>7. CASE UNCHANGED vars
    BY <1>7 DEF vars, fsmVars
  <1> QED
    BY <1>1, <1>2, <1>3, <1>4, <1>5, <1>6, <1>7 DEF Next

LEMMA FlagsStep == Control /\ [Next]_vars => FlagsOK'
  <1> SUFFICES ASSUME Control, [Next]_vars PROVE FlagsOK'
    OBVIOUS
  <1> USE DEF Control, FlagsOK, fsmData, udpVars
  <1>1. CASE Inherited
    <2>1. CASE EndOfInput \/ SetRequestState \/ StartTimer \/ WhenAny
      BY <1>1, <2>1 DEF Inherited, EndOfInput, SetRequestState, StartTimer, WhenAny
    <2>2. ASSUME NEW t \in LineTypes, LocalCommand(t) \/ Request(t)
          PROVE  FlagsOK'
      BY <1>1, <2>2 DEF Inherited, LocalCommand, Request
    <2>3. CASE TimerElapses \/ ElapsedHandler \/ CancelKeyPress
      BY <1>1, <2>3 DEF Inherited, TimerElapses, ElapsedHandler, CancelKeyPress
    <2>4. CASE ReceiveCancelled \/ ServerWork
      BY <1>1, <2>4 DEF Inherited, ReceiveCancelled, ServerWork, RunFsmNull,
                        SetOpen, StopTimer, CatchException
    <2> QED
      BY <1>1, <2>1, <2>2, <2>3, <2>4 DEF Inherited, User, StdinWork
  <1>2. ASSUME NEW t \in Senders, SnedMessage(t)
        PROVE  FlagsOK'
    BY <1>2 DEF SnedMessage, Send, SetFlag, CopyUser, Retransmit, LeaveLoop
  <1>3. CASE StdinVerdict
    BY <1>3 DEF StdinVerdict, StdinSendEnds
  <1>4. CASE StdinSendFails
    BY <1>4 DEF StdinSendFails, StdinSendEnds
  <1>5. CASE ServerSendFails
    BY <1>5 DEF ServerSendFails
  <1>6. CASE CleanUp
    BY <1>6 DEF CleanUp, SendBye, SetFlag, ExitSilently, ExitAfterBye, Exit
  <1>7. ASSUME NEW m \in ServerMsgs, Receive(m) \/ ReceiveMalformed(m)
        PROVE  FlagsOK'
    BY <1>7 DEF Receive, ReceiveMalformed
  <1>8. CASE AssignId \/ ConfirmMalformed \/ ServerVerdict
    BY <1>8 DEF AssignId, ConfirmMalformed, ServerVerdict, ErrSent
  <1>9. CASE Gate
    BY <1>9 DEF Gate
  <1>10. CASE Confirm
    BY <1>10 DEF Confirm
  <1>11. CASE UNCHANGED vars
    BY <1>11 DEF vars, fsmVars
  <1> QED
    BY <1>1, <1>2, <1>3, <1>4, <1>5, <1>6, <1>7, <1>8, <1>9, <1>10, <1>11
       DEF Next, ServerStep

LEMMA AlwaysControl == Spec => []Control
  BY InitControl, LabelsStep, ServerStepOK, SentStep, FlagsStep, PTL DEF Spec, Control

-----------------------------------------------------------------------------
(* The refinement. *)

LEMMA RefineInit == Init => Base!FsmInit
  BY DEF Init, FsmInit, Base!FsmInit, Base!Tasks, Tasks, BaseLabel, Base!Null, Null,
         Waiting

LEMMA RefineStep == Control /\ [Next]_vars => [Base!FsmNext]_(Base!fsmVars)
  <1> SUFFICES ASSUME Control, [Next]_vars
               PROVE  Base!FsmNext \/ UNCHANGED Base!fsmVars
    BY DEF Base!fsmVars
  <1> USE DEF Control, LabelsOK, FlagsOK, Tasks, Goto, ServerOK, OnDatagram,
              fsmData, udpVars, BaseLabel, Waiting, Running, NextRead, NextRecv, Null,
              Base!fsmVars, Base!Goto, Base!Running, Base!NextRead, Base!NextRecv,
              Base!Null
  <1>1. CASE Inherited
    <2>1. CASE EndOfInput
      BY <2>1 DEF EndOfInput, Base!EndOfInput, Base!FsmNext, Base!User
    <2>2. ASSUME NEW t \in LineTypes, LocalCommand(t)
          PROVE  Base!FsmNext
      <3>1. Base!LocalCommand(t)
        BY <2>2 DEF LocalCommand, Base!LocalCommand
      <3> QED
        BY <3>1 DEF Base!FsmNext, Base!User, LineTypes, Base!LineTypes
    <2>3. ASSUME NEW t \in LineTypes, Request(t)
          PROVE  Base!FsmNext
      <3>1. Base!Request(t)
        BY <2>3 DEF Request, FirstStep, Accepts, Base!Request, Base!FirstStep,
                    Base!Accepts
      <3> QED
        BY <3>1 DEF Base!FsmNext, Base!User, LineTypes, Base!LineTypes
    <2>4. CASE SetRequestState
      BY <2>4 DEF SetRequestState, Base!SetRequestState, Base!StdinWork, Base!FsmNext
    <2>5. CASE StartTimer
      BY <2>5 DEF StartTimer, Base!StartTimer, Base!StdinWork, Base!FsmNext
    <2>6. CASE TimerElapses
      BY <2>6 DEF TimerElapses, Base!TimerElapses, Base!FsmNext
    <2>7. CASE ElapsedHandler
      BY <2>7 DEF ElapsedHandler, Base!ElapsedHandler, Base!FsmNext
    <2>8. CASE CancelKeyPress
      BY <2>8 DEF CancelKeyPress, Base!CancelKeyPress, Base!FsmNext
    <2>9. CASE WhenAny
      BY <2>9 DEF WhenAny, AnyTaskDone, Base!WhenAny, Base!AnyTaskDone, Base!FsmNext
    <2>10. CASE ReceiveCancelled
      BY <2>10 DEF ReceiveCancelled, Base!ReceiveCancelled, Base!FsmNext
    <2>11. CASE RunFsmNull
      <3>1. /\ Verdict(State, LastOutputMsgType) \in ServerLabels \ {"fsm"}
            /\ Base!Verdict(State, LastOutputMsgType)
                 = Verdict(State, LastOutputMsgType)
        BY DEF Verdict, Base!Verdict, Replies, Base!Replies, ServerLabels
      <3>2. Base!RunFsmNull
        <4> DEFINE v == Verdict(State, LastOutputMsgType)
        <4>1. v \in ServerLabels /\ pc' = [pc EXCEPT !["server"] = v]
          BY <2>11, <3>1 DEF RunFsmNull
        <4> HIDE DEF v
        <4> QED
          BY <2>11, <3>1, <4>1 DEF RunFsmNull, Base!RunFsmNull, ServerLabels, v
      <3> QED
        BY <3>2 DEF Base!ServerWork, Base!FsmNext
    <2>12. CASE SetOpen
      BY <2>12 DEF SetOpen, Base!SetOpen, Base!ServerWork, Base!FsmNext
    <2>13. CASE StopTimer
      BY <2>13 DEF StopTimer, Base!StopTimer, Base!ServerWork, Base!FsmNext
    <2>14. CASE CatchException
      BY <2>14 DEF CatchException, Base!CatchException, Base!ServerWork, Base!FsmNext
    <2> QED
      BY <1>1, <2>1, <2>2, <2>3, <2>4, <2>5, <2>6, <2>7, <2>8, <2>9, <2>10, <2>11,
         <2>12, <2>13, <2>14
         DEF Inherited, User, StdinWork, ServerWork
  <1>2. ASSUME NEW t \in Senders, SnedMessage(t)
        PROVE  UNCHANGED Base!fsmVars
    <2>1. CASE Send(t)
      BY <1>2, <2>1 DEF Send, SendLabel, Senders
    <2>2. CASE SetFlag(t) \/ CopyUser(t)
      BY <1>2, <2>2 DEF SetFlag, CopyUser, Senders
    <2>3. CASE Retransmit(t)
      BY <1>2, <2>3 DEF Retransmit, Senders
    <2>4. CASE LeaveLoop(t)
      BY <1>2, <2>4 DEF LeaveLoop, Senders
    <2> QED
      BY <1>2, <2>1, <2>2, <2>3, <2>4 DEF SnedMessage
  <1>3. CASE StdinVerdict
    <2>1. CASE IsMsgSent
      <3>1. Base!StdinSendEnds("send", FALSE)
        BY <1>3, <2>1 DEF StdinVerdict, StdinSendEnds, Base!StdinSendEnds
      <3> QED
        BY <3>1 DEF Base!FsmNext
    <2>2. CASE ~IsMsgSent
      <3>1. Base!StdinSendEnds("send", TRUE)
        BY <1>3, <2>2 DEF StdinVerdict, StdinSendEnds, Base!StdinSendEnds
      <3> QED
        BY <3>1 DEF Base!FsmNext
    <2> QED
      BY <2>1, <2>2
  <1>4. CASE StdinSendFails
    <2>1. Base!StdinSendEnds("send", FALSE)
      BY <1>4 DEF StdinSendFails, StdinSendEnds, Base!StdinSendEnds
    <2> QED
      BY <2>1 DEF Base!FsmNext
  <1>5. CASE CleanUp
    <2>1. CASE SendBye \/ SetFlag("main")
      BY <2>1 DEF SendBye, SetFlag
    <2>2. CASE ExitSilently \/ ExitAfterBye
      BY <2>2 DEF ExitSilently, ExitAfterBye, Exit, Base!Exit, Base!FsmNext
    <2> QED
      BY <1>5, <2>1, <2>2 DEF CleanUp
  \* A datagram that is received, dropped, confirmed or found malformed is one
  \* or several calls of the abstract ServerTasks.
  <1>6. \A t \in WireTypes \cup {Null}, l \in ServerLabels :
          Base!ServerTasks(t, l) => Base!FsmNext
    BY DEF Base!FsmNext, ServerLabels, Base!ServerLabels, WireTypes,
           Base!WireTypes, MessageTypes, Base!MessageTypes
  <1>7. ASSUME NEW m \in ServerMsgs, Receive(m) \/ ReceiveMalformed(m)
        PROVE  Base!FsmNext
    <2>1. m.type \in WireTypes \cup {Null}
      BY UdpAssumption DEF ServerDatagrams
    <2>2. CASE Receive(m)
      <3>1. Base!ServerTasks(m.type, "recv")
        BY <2>2 DEF Receive, Base!ServerTasks
      <3> QED
        BY <1>6, <2>1, <3>1 DEF ServerLabels
    <2>3. CASE ReceiveMalformed(m) /\ m.type = Null
      <3>1. Base!ServerTasks(m.type, "recv")
        BY <2>3 DEF ReceiveMalformed, Base!ServerTasks
      <3> QED
        BY <1>6, <2>1, <3>1 DEF ServerLabels
    <2>4. CASE ReceiveMalformed(m) /\ m.type # Null
      <3>1. Base!ServerTasks(m.type, "throw")
        BY <2>4 DEF ReceiveMalformed, Base!ServerTasks
      <3> QED
        BY <1>6, <2>1, <3>1 DEF ServerLabels
    <2> QED
      BY <1>7, <2>2, <2>3, <2>4
  <1>8. CASE AssignId
    BY <1>8 DEF AssignId
  <1>9. CASE Gate /\ IsMsgSent
    <2>1. CASE cancelled
      <3>1. Base!ServerTasks(LastOutputMsgType, "done")
        BY <1>9, <2>1 DEF Gate, Base!ServerTasks
      <3> QED
        BY <1>6, <3>1 DEF ServerLabels
    <2>2. CASE ~cancelled
      <3>1. Base!ServerTasks(LastOutputMsgType, "recv")
        BY <1>9, <2>2 DEF Gate, Base!ServerTasks
      <3> QED
        BY <1>6, <3>1 DEF ServerLabels
    <2> QED
      BY <2>1, <2>2
  <1>10. CASE Gate /\ ~IsMsgSent
    BY <1>10 DEF Gate
  <1>11. CASE Confirm
    <2>1. Base!ServerTasks(LastOutputMsgType, "fsm")
      BY <1>11 DEF Confirm, Base!ServerTasks
    <2> QED
      BY <1>6, <2>1 DEF ServerLabels
  <1>12. CASE ConfirmMalformed
    <2>1. Base!ServerTasks(LastOutputMsgType, "err")
      BY <1>12 DEF ConfirmMalformed, Base!ServerTasks
    <2> QED
      BY <1>6, <2>1 DEF ServerLabels
  <1>13. CASE ServerVerdict
    BY <1>13 DEF ServerVerdict, ErrSent, Base!ErrSent, Base!FsmNext
  <1>14. CASE ServerSendFails
    <2>1. CASE pc["server"] \in {"confirm", "confirmMalformed"}
      <3>1. Base!ServerTasks(LastOutputMsgType, "throw")
        BY <1>14, <2>1 DEF ServerSendFails, Base!ServerTasks
      <3> QED
        BY <1>6, <3>1 DEF ServerLabels
    <2>2. CASE pc["server"] \in {"err", "loop"}
      BY <1>14, <2>2 DEF ServerSendFails, Base!ErrSent, Base!FsmNext
    <2> QED
      BY <1>14, <2>1, <2>2 DEF ServerSendFails
  <1>15. CASE UNCHANGED vars
    BY <1>15 DEF vars, fsmVars
  <1> QED
    BY <1>1, <1>2, <1>3, <1>4, <1>5, <1>7, <1>8, <1>9, <1>10, <1>11, <1>12, <1>13,
       <1>14, <1>15
       DEF Next, ServerStep

\* The UDP client is an AFsm: its handling of ids, confirmations, repetitions and
\* retransmissions is invisible to the state machine.
THEOREM UdpRefinesAFsm == Spec => ImplementsAFsm
  BY RefineInit, RefineStep, AlwaysControl, PTL DEF Spec, ImplementsAFsm, Base!FsmSpec

\* What the theorems of AFsm say of a UDP client.
LEMMA AlwaysFsmInv == Spec => []Base!FsmInv
  BY UdpRefinesAFsm, Base!AlwaysInv, PTL DEF ImplementsAFsm

-----------------------------------------------------------------------------
(* Types. *)

FsmDataOK ==
    /\ LastInputMsgType \in MessageTypes \cup {Null}
    /\ State \in FsmStates
    /\ cancelled \in BOOLEAN

LEMMA BaseTypes == Base!FsmInv => FsmDataOK
  BY DEF Base!FsmInv, Base!FsmTypeOK, FsmDataOK, FsmStates, Base!FsmStates,
         Base!LineTypes, MessageTypes, Null, Base!Null

\* All of TypeOK that is not Base!FsmTypeOK.
UdpDataOK ==
    /\ DOMAIN pc = Tasks
    /\ MessageId \in Ids
    /\ IsMsgSent \in BOOLEAN /\ isMsgSent \in BOOLEAN
    /\ copyId \in [Senders -> Ids]
    /\ tries \in [Senders -> Nat]
    /\ rx \in ServerDatagrams
    /\ usedNums \subseteq -HalfRange .. HalfRange - 1
    /\ shown \subseteq ServerMsgs
    /\ port \in Ports
    /\ sent \in [Tasks -> Transmissions]

\* MessageId is the id of the datagram once it has passed the gate; a CONFIRM may
\* leave it one too large, and then the task ends.
IdOK ==
    /\ pc["server"] \in {"assign", "gate", "confirm"} => port = rx.port
    /\ pc["server"] = "confirmMalformed" => rx.type = Null
    /\ pc["server"] = "gate" /\ rx.type # "Confirm"
         => IsMsgSent \/ MessageId = ToInt16(rx.id)
    /\ pc["server"] = "confirm" /\ rx.type # "Confirm"
         => MessageId = ToInt16(rx.id)
    /\ pc["server"] \in {"recv", "confirmMalformed"} \cup OnDatagram
         => \/ MessageId <= HalfRange
            \/ pc["server"] = "fsm" /\ rx.type = "Confirm"
    /\ ConfirmedBeforeActed

LEMMA InitData == Init => UdpDataOK /\ IdOK
  <1> SUFFICES ASSUME Init PROVE UdpDataOK /\ IdOK
    OBVIOUS
  <1> USE DEF Init, FsmInit, Tasks, Null
  <1>1. NoDatagram \in Transmissions
    BY UdpAssumption DEF NoDatagram, Transmissions, WireIds
  <1>2. rx \in ServerDatagrams
    BY UdpAssumption DEF ServerDatagrams, WireIds
  <1>3. UdpDataOK
    BY UdpAssumption, IdsAreInt, <1>1, <1>2 DEF UdpDataOK, Senders
  <1>4. IdOK
    BY UdpAssumption DEF IdOK, OnDatagram, ConfirmedBeforeActed, Acting
  <1> QED
    BY <1>3, <1>4

LEMMA TransmitType ==
    ASSUME NEW t \in Tasks, NEW type \in MessageTypes \cup {Null}, NEW i \in Ids,
           sent \in [Tasks -> Transmissions], port \in Ports,
           Transmit(t, type, i)
    PROVE  sent' \in [Tasks -> Transmissions] /\ isMsgSent' \in BOOLEAN
  <1>1. ToWire(i) \in WireIds
    BY WireOfId
  <1>2. [type |-> type, id |-> ToWire(i), port |-> port] \in Transmissions
    BY <1>1 DEF Transmissions
  <1> QED
    BY <1>2 DEF Transmit

LEMMA DataStep ==
    Control /\ FsmDataOK /\ UdpDataOK /\ IdOK /\ [Next]_vars => UdpDataOK'
  <1> SUFFICES ASSUME Control, FsmDataOK, UdpDataOK, IdOK, [Next]_vars
               PROVE  UdpDataOK'
    OBVIOUS
  <1>0. DOMAIN pc' = Tasks
    BY LabelsStep DEF LabelsOK
  <1> USE <1>0 DEF UdpDataOK, udpVars, fsmData
  <1>1. CASE Inherited
    BY <1>1 DEF Inherited
  <1>2. ASSUME NEW t \in Senders, SnedMessage(t)
        PROVE  UdpDataOK'
    <2>1. t \in Tasks /\ MsgOf(t) \in MessageTypes \cup {Null}
      BY DEF Senders, Tasks, MsgOf, FsmDataOK, MessageTypes
    <2>2. CASE Send(t)
      BY <2>1, <2>2, TransmitType DEF Send
    <2>3. CASE SetFlag(t)
      BY <2>3 DEF SetFlag
    <2>4. CASE CopyUser(t)
      BY <2>4 DEF CopyUser
    <2>5. CASE Retransmit(t)
      <3>1. copyId[t] \in Ids /\ tries[t] \in Nat
        OBVIOUS
      <3>2. sent' \in [Tasks -> Transmissions] /\ isMsgSent' \in BOOLEAN
        BY <2>1, <2>5, <3>1, TransmitType DEF Retransmit
      <3>3. tries' \in [Senders -> Nat]
        BY <2>5, <3>1 DEF Retransmit
      <3> QED
        BY <2>5, <3>2, <3>3 DEF Retransmit
    <2>6. CASE LeaveLoop(t)
      BY <2>6, IdsAreInt DEF LeaveLoop
    <2> QED
      BY <1>2, <2>2, <2>3, <2>4, <2>5, <2>6 DEF SnedMessage
  <1>3. CASE StdinVerdict
    BY <1>3 DEF StdinVerdict
  <1>4. CASE StdinSendFails
    BY <1>4, IdsAreInt DEF StdinSendFails
  <1>5. CASE ServerSendFails
    BY <1>5, IdsAreInt DEF ServerSendFails
  <1>6. CASE CleanUp
    <2>1. CASE SendBye
      BY <2>1, TransmitType DEF SendBye, Tasks, MessageTypes
    <2>2. CASE SetFlag("main")
      BY <2>2 DEF SetFlag
    <2>3. CASE ExitSilently \/ ExitAfterBye
      BY <2>3 DEF ExitSilently, ExitAfterBye
    <2> QED
      BY <1>6, <2>1, <2>2, <2>3 DEF CleanUp
  <1>7. ASSUME NEW m \in ServerMsgs, Receive(m) \/ ReceiveMalformed(m)
        PROVE  UdpDataOK'
    <2>1. m \in ServerDatagrams /\ m.port \in Ports /\ m.id \in WireIds
      BY UdpAssumption DEF ServerDatagrams
    <2>2. ToInt16(m.id) \in -HalfRange .. HalfRange - 1
      BY <2>1, WireRoundTrip
    <2>4. CASE Receive(m)
      <3>1. /\ usedNums' \subseteq -HalfRange .. HalfRange - 1
            /\ shown' \subseteq ServerMsgs
        BY <2>2, <2>4 DEF Receive
      <3> QED
        BY <2>1, <2>4, <3>1 DEF Receive
    <2>5. CASE ReceiveMalformed(m)
      BY <2>1, <2>5 DEF ReceiveMalformed
    <2> QED
      BY <1>7, <2>4, <2>5
  <1>8. CASE AssignId
    <2>1. ToInt16(rx.id) \in Ids
      BY WireRoundTrip, UdpAssumption DEF ServerDatagrams, Ids
    <2> QED
      BY <1>8, <2>1 DEF AssignId
  <1>9. CASE Gate
    BY <1>9 DEF Gate
  <1>10. CASE Confirm
    <2>1. MessageId + 1 \in Ids
      <3>1. MessageId <= HalfRange
        BY <1>10 DEF Confirm, IdOK, OnDatagram
      <3> QED
        BY <3>1, UdpAssumption DEF Ids
    <2>2. sent' \in [Tasks -> Transmissions] /\ isMsgSent' \in BOOLEAN
      BY <1>10, TransmitType DEF Confirm, Tasks, MessageTypes
    <2> QED
      BY <1>10, <2>1, <2>2 DEF Confirm
  <1>11. CASE ConfirmMalformed
    BY <1>11, TransmitType DEF ConfirmMalformed, Tasks, MessageTypes
  <1>12. CASE ServerVerdict
    BY <1>12 DEF ServerVerdict
  <1>13. CASE UNCHANGED vars
    BY <1>13 DEF vars
  <1> QED
    BY <1>1, <1>2, <1>3, <1>4, <1>5, <1>6, <1>7, <1>8, <1>9, <1>10, <1>11, <1>12,
       <1>13
       DEF Next, ServerStep

-----------------------------------------------------------------------------
(* Ids and confirmations. *)

\* A step of any other task, as far as the server task can tell: IsMsgSent may
\* be raised, never lowered.
ServerIdle ==
    /\ pc'["server"] = pc["server"]
    /\ UNCHANGED <<rx, port, MessageId, LastOutputMsgType, usedNums, shown,
                   authReplied>>
    /\ sent'["server"] = sent["server"]
    /\ IsMsgSent => IsMsgSent'
    /\ isMsgSent => isMsgSent'

ServerActs ==
    \/ \E m \in ServerMsgs : Receive(m) \/ ReceiveMalformed(m)
    \/ SnedMessage("server") \/ ServerStep \/ ServerSendFails
    \/ (ServerWork \/ ReceiveCancelled) /\ isMsgSent /\ UNCHANGED udpVars

LEMMA ServerStepOrIdle ==
    ASSUME Control, UdpDataOK, [Next]_vars
    PROVE  ServerActs \/ ServerIdle
  <1> USE DEF Control, LabelsOK, Tasks, Goto, fsmData, udpVars, ServerIdle
  <1>1. CASE Inherited
    <2>1. CASE EndOfInput \/ SetRequestState \/ StartTimer \/ WhenAny
      BY <1>1, <2>1 DEF Inherited, EndOfInput, SetRequestState, StartTimer, WhenAny
    <2>2. ASSUME NEW t \in LineTypes, LocalCommand(t) \/ Request(t)
          PROVE  ServerIdle
      BY <1>1, <2>2 DEF Inherited, LocalCommand, Request
    <2>3. CASE TimerElapses \/ ElapsedHandler \/ CancelKeyPress
      BY <1>1, <2>3 DEF Inherited, TimerElapses, ElapsedHandler, CancelKeyPress
    <2>4. CASE ReceiveCancelled /\ SocketReady
      BY <1>1, <2>4 DEF Inherited, ServerActs, SocketReady
    <2>5. CASE ServerWork
      <3>1. pc["server"] # "recv"
        BY <2>5 DEF ServerWork, RunFsmNull, SetOpen, StopTimer, CatchException
      <3>2. isMsgSent
        BY <3>1 DEF ServerOK
      <3> QED
        BY <1>1, <2>5, <3>2 DEF Inherited, ServerActs
    <2> QED
      BY <1>1, <2>1, <2>2, <2>3, <2>4, <2>5 DEF Inherited, User, StdinWork
  <1>2. CASE SnedMessage("stdin")
    <2>1. CASE Send("stdin")
      BY <2>1 DEF Send, Transmit, UdpDataOK
    <2>2. CASE SetFlag("stdin") \/ CopyUser("stdin") \/ LeaveLoop("stdin")
      BY <2>2 DEF SetFlag, CopyUser, LeaveLoop
    <2>3. CASE Retransmit("stdin")
      BY <2>3 DEF Retransmit, Transmit, UdpDataOK
    <2> QED
      BY <1>2, <2>1, <2>2, <2>3 DEF SnedMessage
  <1>3. CASE StdinVerdict \/ StdinSendFails
    BY <1>3 DEF StdinVerdict, StdinSendEnds, StdinSendFails
  <1>4. CASE CleanUp
    <2>1. CASE SendBye
      BY <2>1 DEF SendBye, Transmit, UdpDataOK
    <2>2. CASE SetFlag("main")
      BY <2>2 DEF SetFlag
    <2>3. CASE ExitSilently \/ ExitAfterBye
      BY <2>3 DEF ExitSilently, ExitAfterBye, Exit
    <2> QED
      BY <1>4, <2>1, <2>2, <2>3 DEF CleanUp
  <1>5. CASE UNCHANGED vars
    BY <1>5 DEF vars, fsmVars
  <1>6. CASE SnedMessage("server") \/ ServerStep \/ ServerSendFails
    BY <1>6 DEF ServerActs
  <1>7. CASE \E m \in ServerMsgs : Receive(m) \/ ReceiveMalformed(m)
    BY <1>7 DEF ServerActs
  <1> QED
    BY <1>1, <1>2, <1>3, <1>4, <1>5, <1>6, <1>7 DEF Next, Senders

LEMMA IdStep == Control /\ UdpDataOK /\ IdOK /\ [Next]_vars => IdOK'
  <1> SUFFICES ASSUME Control, UdpDataOK, IdOK, [Next]_vars
               PROVE  IdOK'
    OBVIOUS
  <1> USE DEF IdOK, ConfirmedBeforeActed, Acting, OnDatagram
  <1>1. CASE ServerIdle
    BY <1>1 DEF ServerIdle, ConfirmOf
  <1> USE DEF Control, LabelsOK, Tasks, Goto, Waiting
  <1>2. ASSUME NEW m \in ServerMsgs, Receive(m)
        PROVE  IdOK'
    BY <1>2 DEF Receive, AssignsId, IsDelayedConfirm
  <1>3. ASSUME NEW m \in ServerMsgs, ReceiveMalformed(m)
        PROVE  IdOK'
    BY <1>3 DEF ReceiveMalformed
  <1>4. CASE SnedMessage("server")
    BY <1>4 DEF SnedMessage, Send, SendLabel, SetFlag, CopyUser, Retransmit, LeaveLoop
  <1>5. CASE AssignId
    <2>1. ToInt16(rx.id) \in -HalfRange .. HalfRange - 1
      BY WireRoundTrip DEF UdpDataOK, ServerDatagrams
    <2> QED
      BY <1>5, <2>1, UdpAssumption DEF AssignId
  <1>6. CASE Gate
    BY <1>6 DEF Gate, NextRecv
  <1>7. CASE Confirm
    <2>1. rx.id \in WireIds
      BY DEF UdpDataOK, ServerDatagrams
    <2>2. rx.type # "Confirm" =>
            sent'["server"] = ConfirmOf(rx) /\ MessageId <= HalfRange - 1
      BY <1>7, <2>1, WireRoundTrip, UdpAssumption
         DEF Confirm, Transmit, ConfirmOf, UdpDataOK
    <2>3. /\ pc'["server"] = "fsm" /\ rx' = rx
          /\ MessageId' = MessageId + 1 /\ MessageId \in Int
      BY <1>7, IdsAreInt DEF Confirm, UdpDataOK
    <2> QED
      BY <2>2, <2>3, UdpAssumption DEF ConfirmOf
  <1>8. CASE ConfirmMalformed
    BY <1>8 DEF ConfirmMalformed
  <1>9. CASE ServerVerdict
    BY <1>9 DEF ServerVerdict, ErrSent
  <1>10. CASE ServerSendFails
    BY <1>10 DEF ServerSendFails
  <1>11. CASE ReceiveCancelled /\ UNCHANGED udpVars
    BY <1>11 DEF ReceiveCancelled
  <1>12. CASE RunFsmNull /\ UNCHANGED udpVars
    <2>1. /\ rx.type = "Confirm" => Verdict(State, LastOutputMsgType) = "throw"
          /\ Verdict(State, LastOutputMsgType)
               \in {"open", "stopTimer", "recv", "done", "err", "throw"}
      BY <1>12 DEF RunFsmNull, Verdict, ServerOK, Replies, NextRecv
    <2>2. /\ pc["server"] = "fsm"
          /\ pc'["server"] = Verdict(State, LastOutputMsgType)
      BY <1>12 DEF RunFsmNull
    <2>3. /\ rx' = rx /\ MessageId' = MessageId /\ sent' = sent /\ port' = port
          /\ IsMsgSent' = IsMsgSent
      BY <1>12 DEF udpVars
    <2> QED
      BY <2>1, <2>2, <2>3 DEF ConfirmOf
  <1>13. CASE (SetOpen \/ StopTimer \/ CatchException) /\ UNCHANGED udpVars
    BY <1>13 DEF SetOpen, StopTimer, CatchException, NextRecv, udpVars, ConfirmOf
  <1> QED
    BY ServerStepOrIdle, <1>1, <1>2, <1>3, <1>4, <1>5, <1>6, <1>7, <1>8, <1>9, <1>10,
       <1>11, <1>12, <1>13
       DEF ServerActs, ServerStep, ServerWork

LEMMA AlwaysData == Spec => [](FsmDataOK /\ UdpDataOK /\ IdOK)
  <1>1. Spec => []FsmDataOK
    BY AlwaysFsmInv, BaseTypes, PTL
  <1> QED
    BY <1>1, AlwaysControl, InitData, DataStep, IdStep, PTL DEF Spec

\* Every variable of the UDP client keeps its type, for every number of id bits:
\* the ids it uses exceed the Int16 range by at most two, and so always have a
\* 16-bit form.
THEOREM UdpTypeCorrect == Spec => []TypeOK
  <1>1. Base!FsmInv /\ UdpDataOK => TypeOK
    BY DEF Base!FsmInv, UdpDataOK, TypeOK, Ids, Transmissions
  <1> QED
    BY <1>1, AlwaysFsmInv, AlwaysData, PTL

\* The FSM acts on a message only when the server task's last transmission is the
\* CONFIRM with that message's id, to the port it came from.
THEOREM ConfirmedFirst == Spec => []ConfirmedBeforeActed
  BY AlwaysData, PTL DEF IdOK

\* The server task does nothing before the client has names to send.
THEOREM NamedFirst == Spec => []NamedBeforeReceive
  <1>1. Control => NamedBeforeReceive
    BY DEF Control, ServerOK, SentOK, NamedBeforeReceive
  <1> QED
    BY <1>1, AlwaysControl, PTL

-----------------------------------------------------------------------------
(* What the user is shown. *)

\* An id in usedNums is that of something printed, and what the server task works
\* on has its id there.
ShownOK ==
    /\ \A i \in usedNums : \E m \in shown : ToInt16(m.id) = i
    /\ \A m \in shown : Displayed(m)
    /\ pc["server"] \in OnDatagram \cup {"err"} /\ rx.type # Null /\ Displayed(rx)
         => rx \in ServerMsgs /\ ToInt16(rx.id) \in usedNums

LEMMA ShownStep ==
    Control /\ UdpDataOK /\ IdOK /\ ShownOK /\ [Next]_vars => ShownOK'
  <1> SUFFICES ASSUME Control, UdpDataOK, IdOK, ShownOK, [Next]_vars
               PROVE  ShownOK'
    OBVIOUS
  <1> USE DEF ShownOK, OnDatagram, Displayed
  <1>1. CASE ServerIdle
    BY <1>1 DEF ServerIdle
  <1> USE DEF Control, LabelsOK, Tasks, Goto, Waiting
  <1>2. ASSUME NEW m \in ServerMsgs, Receive(m)
        PROVE  ShownOK'
    <2>1. /\ \A i \in usedNums' : \E n \in shown' : ToInt16(n.id) = i
          /\ \A n \in shown' : Displayed(n)
      BY <1>2 DEF Receive, Prints
    <2>2. rx' = m /\ (Displayed(m) => ToInt16(m.id) \in usedNums')
      BY <1>2 DEF Receive, Prints
    <2> QED
      BY <2>1, <2>2
  <1>3. ASSUME NEW m \in ServerMsgs, ReceiveMalformed(m)
        PROVE  ShownOK'
    BY <1>3 DEF ReceiveMalformed
  <1>4. CASE SnedMessage("server")
    BY <1>4 DEF SnedMessage, Send, SendLabel, SetFlag, CopyUser, Retransmit, LeaveLoop
  <1>5. CASE AssignId \/ Gate
    BY <1>5 DEF AssignId, Gate, NextRecv
  <1>6. CASE Confirm
    BY <1>6 DEF Confirm
  <1>7. CASE ConfirmMalformed
    BY <1>7 DEF ConfirmMalformed, IdOK
  <1>8. CASE ServerVerdict \/ ServerSendFails
    BY <1>8 DEF ServerVerdict, ErrSent, ServerSendFails, udpVars
  <1>9. CASE ReceiveCancelled /\ UNCHANGED udpVars
    BY <1>9 DEF ReceiveCancelled, udpVars
  <1>10. CASE RunFsmNull /\ UNCHANGED udpVars
    BY <1>10 DEF RunFsmNull, udpVars
  <1>11. CASE (SetOpen \/ StopTimer \/ CatchException) /\ UNCHANGED udpVars
    BY <1>11 DEF SetOpen, StopTimer, CatchException, NextRecv, udpVars
  <1> QED
    BY ServerStepOrIdle, <1>1, <1>2, <1>3, <1>4, <1>5, <1>6, <1>7, <1>8, <1>9, <1>10,
       <1>11
       DEF ServerActs, ServerStep, ServerWork

LEMMA AlwaysShown == Spec => []ShownOK
  <1>1. Init => ShownOK
    BY DEF Init, FsmInit, ShownOK, OnDatagram, Tasks
  <1> QED
    BY <1>1, AlwaysControl, AlwaysData, ShownStep, PTL DEF Spec

LEMMA ShownSame ==
    ASSUME UdpDataOK, ShownOK, DistinctServerIds, rx.type # Null, Displayed(rx),
           pc["server"] \in OnDatagram \cup {"err"}
    PROVE  \E m \in shown : SameMessage(m, rx)
  <1>1. PICK m \in shown : ToInt16(m.id) = ToInt16(rx.id)
    BY DEF ShownOK
  <1>2. /\ m \in ServerMsgs /\ rx \in ServerMsgs
        /\ m.id \in WireIds /\ rx.id \in WireIds
    BY <1>1, UdpAssumption DEF ShownOK, UdpDataOK, ServerDatagrams
  <1>3. m.id = rx.id
    BY <1>1, <1>2, WireRoundTrip
  <1> QED
    BY <1>1, <1>2, <1>3 DEF DistinctServerIds, ShownOK, SameMessage

\* If the server does not use one id for two messages, nothing is acted on that
\* the user has not been shown, although printing and acting obey different
\* conditions.
THEOREM ShownFirst == Spec => []ShownBeforeActed
  <1>1. Control /\ UdpDataOK /\ ShownOK => ShownBeforeActed
    BY ShownSame DEF ShownBeforeActed, Acting, Control, ServerOK, OnDatagram
  <1> QED
    BY <1>1, AlwaysControl, AlwaysData, AlwaysShown, PTL

\* A REPLY OK that was handed to the FSM was shown; a JOIN or MSG that was sent
\* had one behind it.
TrafficOK ==
    /\ authReplied /\ DistinctServerIds => \E m \in shown : m.type = "ReplyOk"
    /\ sent["stdin"].type \in {"Join", "Msg"} => authReplied

LEMMA TrafficStep ==
    /\ Control /\ Base!FsmInv /\ UdpDataOK /\ ShownOK /\ TrafficOK /\ [Next]_vars
    => TrafficOK'
  <1> SUFFICES ASSUME Control, Base!FsmInv, UdpDataOK, ShownOK, TrafficOK,
                      [Next]_vars
               PROVE  TrafficOK'
    OBVIOUS
  <1>1. CASE Confirm
    <2>1. sent'["stdin"] = sent["stdin"] /\ shown' = shown
      BY <1>1 DEF Confirm, Transmit, UdpDataOK, Tasks
    <2>2. authReplied => authReplied'
      BY <1>1 DEF Confirm
    <2>3. authReplied' => authReplied \/ rx.type = "ReplyOk"
      BY <1>1 DEF Confirm
    <2>4. rx.type = "ReplyOk" /\ DistinctServerIds
            => \E m \in shown : m.type = "ReplyOk"
      BY <1>1, ShownSame DEF Confirm, OnDatagram, Displayed, SameMessage, Null
    <2> QED
      BY <2>1, <2>2, <2>3, <2>4 DEF TrafficOK
  <1>2. CASE Send("stdin") \/ Retransmit("stdin")
    <2>1. pc["stdin"] \in {"send", "loop"} /\ UNCHANGED <<authReplied, shown>>
      BY <1>2 DEF Send, SendLabel, Retransmit
    <2>2. LastInputMsgType \in {"Join", "Msg"} => authReplied
      BY <2>1
         DEF Base!FsmInv, Base!AuthFirst, BaseLabel, Waiting, Tasks
    <2>3. sent'["stdin"].type = LastInputMsgType
      BY <1>2 DEF Send, Retransmit, Transmit, MsgOf, UdpDataOK, Tasks
    <2> QED
      BY <2>1, <2>2, <2>3 DEF TrafficOK
  <1>3. CASE /\ shown \subseteq shown' /\ authReplied' = authReplied
             /\ sent'["stdin"] = sent["stdin"]
    BY <1>3 DEF TrafficOK
  <1> USE DEF udpVars, fsmData, UdpDataOK, Tasks
  <1>4. CASE Inherited
    BY <1>3, <1>4
       DEF Inherited, User, EndOfInput, LocalCommand, Request, StdinWork,
           SetRequestState, StartTimer, ServerWork, RunFsmNull, SetOpen, StopTimer,
           CatchException, ReceiveCancelled, TimerElapses, ElapsedHandler,
           CancelKeyPress, WhenAny
  <1>5. CASE Send("server") \/ Retransmit("server")
    BY <1>3, <1>5 DEF Send, Retransmit, Transmit
  <1>6. ASSUME NEW t \in Tasks, SetFlag(t) \/ CopyUser(t) \/ LeaveLoop(t)
        PROVE  TrafficOK'
    BY <1>3, <1>6 DEF SetFlag, CopyUser, LeaveLoop
  <1>7. CASE StdinVerdict \/ StdinSendFails \/ ServerSendFails
    BY <1>3, <1>7 DEF StdinVerdict, StdinSendEnds, StdinSendFails, ServerSendFails
  <1>8. CASE SendBye \/ ExitSilently \/ ExitAfterBye
    BY <1>3, <1>8 DEF SendBye, Transmit, ExitSilently, ExitAfterBye, Exit
  <1>9. ASSUME NEW m \in ServerMsgs, Receive(m) \/ ReceiveMalformed(m)
        PROVE  TrafficOK'
    BY <1>3, <1>9 DEF Receive, ReceiveMalformed
  <1>10. CASE AssignId \/ Gate \/ ConfirmMalformed \/ ServerVerdict
    BY <1>3, <1>10 DEF AssignId, Gate, ConfirmMalformed, Transmit, ServerVerdict,
                       ErrSent
  <1>11. CASE UNCHANGED vars
    BY <1>3, <1>11 DEF vars, fsmVars
  <1> QED
    BY <1>1, <1>2, <1>4, <1>5, <1>6, <1>7, <1>8, <1>9, <1>10, <1>11
       DEF Next, SnedMessage, Senders, ServerStep, CleanUp

LEMMA AlwaysTraffic == Spec => []TrafficOK
  <1>1. Init => TrafficOK
    BY DEF Init, FsmInit, TrafficOK, NoDatagram, Tasks, Null
  <1> QED
    BY <1>1, AlwaysControl, AlwaysFsmInv, AlwaysData, AlwaysShown, TrafficStep, PTL
       DEF Spec

\* If the server does not use one id for two messages, no JOIN and no MSG leaves
\* the client before the user was shown a REPLY OK.
THEOREM TrafficAfterShown == Spec => []TrafficAfterShownOk
  <1>1. TrafficOK => TrafficAfterShownOk
    BY DEF TrafficOK, TrafficAfterShownOk
  <1> QED
    BY <1>1, AlwaysTraffic, PTL
=============================================================================
