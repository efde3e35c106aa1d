---------------------------- MODULE TcpFsmProofs ----------------------------
(***************************************************************************)
(* What holds of every TCP client, whatever the server writes and however  *)
(* its stream is cut into chunks: that it is an AFsm, that lines are taken *)
(* off whole and none is lost, and what was shown before traffic.          *)
(***************************************************************************)
EXTENDS TcpFsm, SequenceTheorems, TLAPS

-----------------------------------------------------------------------------
(* The labels of the tasks. *)

LabelsOK ==
    /\ DOMAIN pc = Tasks
    /\ pc["stdin"] \in {"read", "setState", "startTimer", "send", "done"}
    /\ pc["server"] \in ServerLabels \cup {"lines", "rethrow"}
    /\ pc["main"] \in {"wait", "cleanup", "exited"}

Control ==
    /\ LabelsOK
    /\ LastOutputMsgType \in WireTypes \cup {Null}
    /\ cancelled \in BOOLEAN /\ authReplied \in BOOLEAN

\* The types ProcessMsg returns are types from the server, and not null.
LEMMA DisplayedTypes ==
    \A t : Displays(t) => t \in WireTypes /\ t # Null
  BY DEF Displays, Replies, WireTypes, MessageTypes, Null

LEMMA InitControl == Init => Control
  BY DEF Init, FsmInit, Control, LabelsOK, Tasks, ServerLabels

\* The labels of the stdin task and of RunClient are those of AFsm; the server
\* task has two more.
LEMMA ControlStep == Control /\ [Next]_vars => Control'
  <1> SUFFICES ASSUME Control, [Next]_vars PROVE Control'
    OBVIOUS
  <1> USE DEF Control, LabelsOK, Tasks, Goto, ServerLabels, NextRead, NextRecv
  <1>1. CASE Inherited
    <2>1. CASE EndOfInput \/ SetRequestState \/ StartTimer \/ WhenAny
      BY <2>1 DEF EndOfInput, SetRequestState, StartTimer, WhenAny
    <2>2. ASSUME NEW t \in LineTypes, LocalCommand(t) \/ Request(t)
          PROVE  Control'
      BY <2>2 DEF LocalCommand, Request, FirstStep
    <2>3. CASE TimerElapses \/ ElapsedHandler \/ CancelKeyPress
      BY <2>3 DEF TimerElapses, ElapsedHandler, CancelKeyPress
    <2>4. CASE RunFsmNull
      <3>1. Verdict(State, LastOutputMsgType) \in ServerLabels
        BY DEF Verdict
      <3> QED
        BY <2>4, <3>1 DEF RunFsmNull
    <2>5. CASE SetOpen \/ StopTimer
      BY <2>5 DEF SetOpen, StopTimer
    <2> QED
      BY <1>1, <2>1, <2>2, <2>3, <2>4, <2>5
         DEF Inherited, User, StdinWork, RunFsmWork
  <1>2. ASSUME NEW n \in 1 .. Len(stream), Receive(n)
        PROVE  Control'
    BY <1>2 DEF Receive, fsmData
  <1>3. CASE ReceiveEnd \/ ReceiveThrows
    BY <1>3 DEF ReceiveEnd, ReceiveThrows
  <1>4. CASE ProcessLine
    BY <1>4, DisplayedTypes DEF ProcessLine
  <1>5. CASE CatchInRunClient
    BY <1>5 DEF CatchInRunClient
  <1>6. ASSUME NEW ok \in BOOLEAN,
               \/ SendErr(ok) \/ CatchInServerTasks(ok)
               \/ StdinSend(ok) \/ CleanUp(ok)
        PROVE  Control'
    BY <1>6 DEF SendErr, ErrSent, CatchInServerTasks, StdinSend, StdinSendEnds,
                CleanUp, Exit
  <1>7. ASSUME NEW w \in Writes, ServerWrites(w)
        PROVE  Control'
    BY <1>7 DEF ServerWrites, fsmVars
  <1>8. CASE ServerCloses
    BY <1>8 DEF ServerCloses, fsmVars
  <1>9. CASE UNCHANGED vars
    BY <1>9 DEF vars, fsmVars
  <1> QED
    BY <1>1, <1>2, <1>3, <1>4, <1>5, <1>6, <1>7, <1>8, <1>9 DEF Next, ServerStep

LEMMA AlwaysControl == Spec => []Control
  BY InitControl, ControlStep, PTL DEF Spec

-----------------------------------------------------------------------------
(* The refinement. *)

LEMMA RefineInit == Init => Base!FsmInit
  BY DEF Init, FsmInit, Base!FsmInit, Base!Tasks, Tasks, BaseLabel, Base!Null, Null

\* A chunk is one call of the abstract ServerTasks, made when its last line has
\* been processed.
LEMMA ServerTasksStep ==
    /\ \A t \in WireTypes \cup {Null}, l \in ServerLabels :
          Base!ServerTasks(t, l) => Base!FsmNext
    /\ Base!ServerTasks(Null, NextRecv) => Base!FsmNext
  <1>1. \A t \in WireTypes \cup {Null}, l \in ServerLabels :
          Base!ServerTasks(t, l) => Base!FsmNext
    BY DEF Base!FsmNext, ServerLabels, Base!ServerLabels, WireTypes,
           Base!WireTypes, MessageTypes, Base!MessageTypes, Null, Base!Null
  <1>2. NextRecv \in ServerLabels
    BY DEF NextRecv, ServerLabels
  <1> QED
    BY <1>1, <1>2

LEMMA RefineStep == Control /\ [Next]_vars => [Base!FsmNext]_(Base!fsmVars)
  <1> SUFFICES ASSUME Control, [Next]_vars
               PROVE  Base!FsmNext \/ UNCHANGED Base!fsmVars
    BY DEF Base!fsmVars
  <1> USE DEF Control, LabelsOK, Tasks, Goto, fsmData, BaseLabel, Running, NextRead,
              NextRecv, Null, Base!fsmVars, Base!Goto, Base!Running,
              Base!NextRead, Base!NextRecv, Base!Null
  <1>1. CASE Inherited
    <2>1. CASE EndOfInput
      BY <2>1 DEF EndOfInput, Base!EndOfInput, Base!FsmNext, Base!User
    <2>2. ASSUME NEW t \in LineTypes, LocalCommand(t)
          PROVE  Base!FsmNext
      <3>1. Base!LocalCommand(t)
        BY <2>2 DEF LocalCommand, Base!LocalCommand
      <3> QED
        BY <3>1 DEF Base!FsmNext, Base!User, LineTypes, Base!LineTypes
    <2>3. ASSUME NEW t \in LineTypes, Request(t)
          PROVE  Base!FsmNext
      <3>1. Base!Request(t)
        BY <2>3 DEF Request, FirstStep, Accepts, Base!Request, Base!FirstStep,
                    Base!Accepts
      <3> QED
        BY <3>1 DEF Base!FsmNext, Base!User, LineTypes, Base!LineTypes
    <2>4. CASE SetRequestState
      BY <2>4 DEF SetRequestState, Base!SetRequestState, Base!StdinWork, Base!FsmNext
    <2>5. CASE StartTimer
      BY <2>5 DEF StartTimer, Base!StartTimer, Base!StdinWork, Base!FsmNext
    <2>6. CASE TimerElapses
      BY <2>6 DEF TimerElapses, Base!TimerElapses, Base!FsmNext
    <2>7. CASE ElapsedHandler
      BY <2>7 DEF ElapsedHandler, Base!ElapsedHandler, Base!FsmNext
    <2>8. CASE CancelKeyPress
      BY <2>8 DEF CancelKeyPress, Base!CancelKeyPress, Base!FsmNext
    <2>9. CASE WhenAny
      BY <2>9 DEF WhenAny, AnyTaskDone, Base!WhenAny, Base!AnyTaskDone, Base!FsmNext
    <2>10. CASE RunFsmNull
      <3>1. /\ Verdict(State, LastOutputMsgType) \in ServerLabels
            /\ Base!Verdict(State, LastOutputMsgType)
                 = Verdict(State, LastOutputMsgType)
        BY DEF Verdict, Base!Verdict, Replies, Base!Replies, ServerLabels
      <3>2. Base!RunFsmNull
        <4> DEFINE v == Verdict(State, LastOutputMsgType)
        <4>1. v \in ServerLabels /\ pc' = [pc EXCEPT !["server"] = v]
          BY <2>10, <3>1 DEF RunFsmNull
        <4> HIDE DEF v
        <4> QED
          BY <2>10, <3>1, <4>1 DEF RunFsmNull, Base!RunFsmNull, ServerLabels, v
      <3> QED
        BY <3>2 DEF Base!ServerWork, Base!FsmNext
    <2>11. CASE SetOpen
      BY <2>11 DEF SetOpen, Base!SetOpen, Base!ServerWork, Base!FsmNext
    <2>12. CASE StopTimer
      BY <2>12 DEF StopTimer, Base!StopTimer, Base!ServerWork, Base!FsmNext
    <2> QED
      BY <1>1, <2>1, <2>2, <2>3, <2>4, <2>5, <2>6, <2>7, <2>8, <2>9, <2>10, <2>11,
         <2>12
         DEF Inherited, User, StdinWork, RunFsmWork
  <1>2. \A t \in WireTypes \cup {Null}, l \in ServerLabels :
          Base!ServerTasks(t, l) => Base!FsmNext
    BY ServerTasksStep
  <1>3. Base!ServerTasks(Null, NextRecv) => Base!FsmNext
    BY ServerTasksStep
  <1>4. ASSUME NEW n \in 1 .. Len(stream), Receive(n)
        PROVE  Base!FsmNext \/ UNCHANGED Base!fsmVars
    <2>1. CASE LastOutputMsgType' = Null /\ pc' = [pc EXCEPT !["server"] = NextRecv]
      <3>1. Base!ServerTasks(Null, NextRecv)
        BY <1>4, <2>1 DEF Receive, Base!ServerTasks
      <3> QED
        BY <1>3, <3>1
    <2>2. CASE /\ LastOutputMsgType' = LastOutputMsgType
               /\ pc' = [pc EXCEPT !["server"] = "lines"]
      BY <1>4, <2>2 DEF Receive
    <2> QED
      BY <1>4, <2>1, <2>2 DEF Receive
  <1>5. CASE ReceiveEnd
    <2>1. Base!ServerTasks(Null, NextRecv)
      BY <1>5 DEF ReceiveEnd, Base!ServerTasks
    <2> QED
      BY <1>3, <2>1
  <1>6. CASE ReceiveThrows
    <2>1. Base!ServerTasks(LastOutputMsgType, "throw")
      BY <1>6 DEF ReceiveThrows, Base!ServerTasks
    <2> QED
      BY <1>2, <2>1 DEF ServerLabels
  <1>7. CASE ProcessLine
    <2>1. CASE ~Displays(savedInput[1])
      <3>1. Base!ServerTasks(LastOutputMsgType, "throw")
        BY <1>7, <2>1 DEF ProcessLine, Base!ServerTasks
      <3> QED
        BY <1>2, <3>1 DEF ServerLabels
    <2>2. CASE Displays(savedInput[1]) /\ HasCrlf(savedInput')
      BY <1>7, <2>2 DEF ProcessLine
    <2>3. CASE Displays(savedInput[1]) /\ ~HasCrlf(savedInput')
      <3>1. savedInput[1] \in WireTypes /\ savedInput[1] # Null
        BY <2>3, DisplayedTypes
      <3>2. Base!ServerTasks(savedInput[1], "fsm")
        BY <1>7, <2>3, <3>1 DEF ProcessLine, Base!ServerTasks
      <3> QED
        BY <1>2, <3>1, <3>2 DEF ServerLabels
    <2> QED
      BY <2>1, <2>2, <2>3
  <1>8. ASSUME NEW ok \in BOOLEAN, SendErr(ok)
        PROVE  Base!FsmNext
    BY <1>8 DEF SendErr, ErrSent, Base!ErrSent, Base!FsmNext
  <1>9. ASSUME NEW ok \in BOOLEAN, CatchInServerTasks(ok)
        PROVE  UNCHANGED Base!fsmVars
    BY <1>9 DEF CatchInServerTasks
  <1>10. CASE CatchInRunClient
    BY <1>10 DEF CatchInRunClient, Base!CatchException, Base!ServerWork, Base!FsmNext
  <1>11. ASSUME NEW ok \in BOOLEAN, StdinSend(ok)
         PROVE  Base!FsmNext
    <2>1. Base!StdinSendEnds("send", ok)
      BY <1>11 DEF StdinSend, StdinSendEnds, Base!StdinSendEnds
    <2> QED
      BY <2>1 DEF Base!FsmNext
  <1>12. ASSUME NEW ok \in BOOLEAN, CleanUp(ok)
         PROVE  Base!FsmNext
    BY <1>12 DEF CleanUp, Exit, Base!Exit, Base!FsmNext
  <1>13. CASE (\E w \in Writes : ServerWrites(w)) \/ ServerCloses
    BY <1>13 DEF ServerWrites, ServerCloses, fsmVars
  <1>14. CASE UNCHANGED vars
    BY <1>14 DEF vars, fsmVars
  <1> QED
    BY <1>1, <1>4, <1>5, <1>6, <1>7, <1>8, <1>9, <1>10, <1>11, <1>12, <1>13, <1>14
       DEF Next, ServerStep

\* The TCP client is an AFsm: chunks, the saved input and the ERR that follows an
\* exception are invisible to the state machine.
THEOREM TcpRefinesAFsm == Spec => ImplementsAFsm
  BY RefineInit, RefineStep, AlwaysControl, PTL DEF Spec, ImplementsAFsm, Base!FsmSpec

\* What the theorems of AFsm say of a TCP client.
LEMMA AlwaysFsmInv == Spec => []Base!FsmInv
  BY TcpRefinesAFsm, Base!AlwaysInv, PTL DEF ImplementsAFsm

-----------------------------------------------------------------------------
(* Lines. *)

\* What is received and what is taken off are prefixes of the stream, and the
\* saved input stands between them.  What was taken off ends where a line ends.
PositionsOK ==
    /\ stream \in Seq(Tokens) /\ Len(stream) <= MaxWritten
    /\ closed \in BOOLEAN
    /\ readPos \in 0 .. Len(stream)
    /\ takenTo \in 0 .. readPos
    /\ takenFrom \in Nat
    /\ takenTo # 0 => takenTo \in LineEnds

\* The saved input, token by token.
LEMMA SavedTokens ==
    ASSUME PositionsOK, NothingLost
    PROVE  /\ savedInput \in Seq(Tokens)
           /\ Len(savedInput) = readPos - takenTo
           /\ \A i \in 1 .. Len(savedInput) : savedInput[i] = stream[takenTo + i]
  <1> DEFINE m == takenTo + 1
  <1>1. m \in Int /\ readPos \in Int /\ m <= readPos + 1
    BY DEF PositionsOK
  <1>2. \A i \in m .. readPos : stream[i] \in Tokens
    BY DEF PositionsOK
  <1>3. savedInput = SubSeq(stream, m, readPos)
    BY DEF NothingLost
  <1> HIDE DEF m
  <1>4. /\ savedInput \in Seq(Tokens)
        /\ Len(savedInput) = IF m <= readPos THEN readPos - m + 1 ELSE 0
        /\ \A i \in 1 .. readPos - m + 1 : savedInput[i] = stream[m + i - 1]
    BY <1>1, <1>2, <1>3, SubSeqProperties
  <1>5. Len(savedInput) = readPos - takenTo
    BY <1>1, <1>4 DEF m, PositionsOK
  <1>6. ASSUME NEW i \in 1 .. Len(savedInput)
        PROVE  savedInput[i] = stream[takenTo + i]
    <2>1. i \in 1 .. readPos - m + 1 /\ m + i - 1 = takenTo + i
      BY <1>5 DEF m, PositionsOK
    <2> QED
      BY <1>4, <2>1
  <1> QED
    BY <1>4, <1>5, <1>6

\* The first CRLF of the saved input is the end of the line of the stream that
\* begins where the last one ended, and the rest of the saved input is what
\* follows this line.
LEMMA TakesLine ==
    ASSUME PositionsOK, NothingLost, NEW i, IsIndexOfCrlf(savedInput, i),
           NEW e, e = takenTo + EndOfLine(i)
    PROVE  /\ e \in 1 .. readPos
           /\ e \in LineEnds
           /\ <<takenTo, e>> \in Lines
           /\ RestAfter(savedInput, i) = SubSeq(stream, e + 1, readPos)
           /\ savedInput[1] = stream[takenTo + 1]
  <1>1. /\ i \in 1 .. Len(savedInput) - 1
        /\ savedInput[i] = CR /\ savedInput[i + 1] = LF
        /\ \A j \in 1 .. i - 1 : ~CrlfAt(savedInput, j)
    BY DEF IsIndexOfCrlf, CrlfAt
  <1>2. /\ Len(savedInput) = readPos - takenTo
        /\ Len(stream) \in Nat /\ readPos \in Nat /\ takenTo \in Nat
        /\ readPos <= Len(stream) /\ takenTo <= readPos
    BY SavedTokens DEF PositionsOK
  <1>3. /\ i \in Nat /\ 1 <= i /\ e = takenTo + i + 1
        /\ e \in 2 .. readPos /\ takenTo < e
    BY <1>1, <1>2 DEF EndOfLine
  <1>4. stream[e - 1] = CR /\ stream[e] = LF
    <2>1. /\ savedInput[i] = stream[takenTo + i]
          /\ savedInput[i + 1] = stream[takenTo + (i + 1)]
      BY <1>1, <1>2, <1>3, SavedTokens
    <2>2. takenTo + i = e - 1 /\ takenTo + (i + 1) = e
      BY <1>2, <1>3
    <2> QED
      BY <1>1, <2>1, <2>2
  <1>5. e \in LineEnds
    BY <1>2, <1>3, <1>4 DEF LineEnds
  <1>6. ASSUME NEW c \in LineEnds, takenTo < c, c < e
        PROVE  FALSE
    <2>1. c \in 2 .. Len(stream) /\ stream[c - 1] = CR /\ stream[c] = LF
      BY <1>6 DEF LineEnds
    <2>2. c - 1 # takenTo
      BY <2>1, <1>2 DEF PositionsOK, LineEnds, CR, LF
    <2> DEFINE j == c - 1 - takenTo
    <2>3. j \in 1 .. i - 1
      BY <1>2, <1>3, <1>6, <2>1, <2>2
    <2>4. j \in 1 .. Len(savedInput) - 1 /\ j + 1 \in 1 .. Len(savedInput)
      BY <1>1, <1>2, <2>3
    <2>5. savedInput[j] = stream[takenTo + j]
          /\ savedInput[j + 1] = stream[takenTo + (j + 1)]
      <3> HIDE DEF j
      <3>1. j \in 1 .. Len(savedInput)
        BY <1>2, <2>4
      <3> QED
        BY <2>4, <3>1, SavedTokens
    <2>6. takenTo + j = c - 1 /\ takenTo + (j + 1) = c
      BY <1>2, <2>1
    <2>7. CrlfAt(savedInput, j)
      BY <2>1, <2>4, <2>5, <2>6 DEF CrlfAt
    <2> QED
      BY <1>1, <2>3, <2>7
  <1>7. <<takenTo, e>> \in Lines
    BY <1>3, <1>5, <1>6 DEF Lines, PositionsOK
  <1>8. SubSeq(savedInput, i + 2, Len(savedInput)) = SubSeq(stream, e + 1, readPos)
    <2>1. CASE i + 1 = Len(savedInput)
      <3>1. e + 1 > readPos /\ i + 2 > Len(savedInput)
        BY <1>1, <1>2, <1>3, <2>1
      <3> QED
        BY <1>2, <1>3, <3>1, SubSeqEmpty
    <2>2. CASE i + 1 < Len(savedInput)
      <3> DEFINE a == takenTo + 1
                 b == i + 2
                 n == readPos - takenTo
      <3>1. /\ a \in 1 .. Len(stream) /\ readPos \in 1 .. Len(stream)
            /\ b \in 1 .. readPos - a + 1 /\ n \in 1 .. readPos - a + 1
            /\ a + b - 1 = e + 1 /\ a + n - 1 = readPos
        BY <1>1, <1>2, <1>3, <2>2
      <3>2. stream \in Seq(Tokens)
        BY DEF PositionsOK
      <3> HIDE DEF a, b, n
      <3>3. SubSeq(SubSeq(stream, a, readPos), b, n)
              = SubSeq(stream, a + b - 1, a + n - 1)
        BY <3>1, <3>2, SubSeqOfSubSeq
      <3>4. savedInput = SubSeq(stream, a, readPos) /\ n = Len(savedInput)
        BY <1>2 DEF NothingLost, a, n
      <3> QED
        BY <3>1, <3>3, <3>4 DEF b
    <2> QED
      BY <1>1, <1>2, <2>1, <2>2
  <1>9. savedInput[1] = stream[takenTo + 1]
    BY <1>1, <1>2, SavedTokens
  <1>10. RestAfter(savedInput, i) = SubSeq(savedInput, i + 2, Len(savedInput))
    BY <1>3 DEF RestAfter, EndOfLine
  <1>11. RestAfter(savedInput, i) = SubSeq(stream, e + 1, readPos)
    BY <1>8, <1>10, Zenon
  <1>12. e \in 1 .. readPos
    BY <1>2, <1>3
  <1> QED
    BY <1>5, <1>7, <1>9, <1>11, <1>12, Zenon

\* A line REPLY OK was shown.
ShownOk == \E l \in Lines : l[2] <= takenTo /\ stream[l[1] + 1] = "ReplyOk"

\* Where the FSM works on the result of ProcessMsg.
Acting == {"fsm", "open", "stopTimer", "err"}

LinesInv ==
    /\ PositionsOK /\ NothingLost /\ WholeLines
    /\ authReplied => ShownOk

LEMMA InitLines == Init => LinesInv
  <1> SUFFICES ASSUME Init PROVE LinesInv
    OBVIOUS
  <1>1. stream \in Seq(Tokens)
    BY DEF Init
  <1>2. PositionsOK
    <2>1. Len(stream) = 0 /\ readPos = 0 /\ takenTo = 0 /\ takenFrom = 0
      BY DEF Init
    <2>2. closed \in BOOLEAN
      BY DEF Init
    <2> QED
      BY <1>1, <2>1, <2>2, WritesAssumption DEF PositionsOK
  <1>3. NothingLost
    BY SubSeqEmpty DEF Init, NothingLost
  <1>4. WholeLines /\ ~authReplied
    BY DEF Init, FsmInit, WholeLines, Tasks
  <1> QED
    BY <1>2, <1>3, <1>4 DEF LinesInv

\* Only Receive, ProcessLine and the server touch the lines, and only
\* ProcessLine makes the FSM act on another one.
LEMMA OtherSteps ==
    ASSUME Control, Next, ~ProcessLine,
           \A n \in 1 .. Len(stream) : ~Receive(n),
           \A w \in Writes : ~ServerWrites(w), ~ServerCloses
    PROVE  /\ UNCHANGED lineVars
           /\ authReplied' = authReplied
           /\ pc'["server"] \in Acting
                => pc["server"] \in Acting /\ LastOutputMsgType' = LastOutputMsgType
  <1> USE DEF Control, LabelsOK, Tasks, Goto, ServerLabels, NextRead, NextRecv,
              lineVars, tcpVars, Acting
  <1>1. CASE Inherited
    <2>1. CASE EndOfInput \/ SetRequestState \/ StartTimer \/ WhenAny
      BY <1>1, <2>1 DEF Inherited, EndOfInput, SetRequestState, StartTimer, WhenAny
    <2>2. CASE \E t \in LineTypes : LocalCommand(t) \/ Request(t)
      BY <1>1, <2>2 DEF Inherited, LocalCommand, Request
    <2>3. CASE TimerElapses \/ ElapsedHandler \/ CancelKeyPress
      BY <1>1, <2>3 DEF Inherited, TimerElapses, ElapsedHandler, CancelKeyPress
    <2>4. CASE RunFsmWork
      BY <1>1, <2>4 DEF Inherited, RunFsmWork, RunFsmNull, SetOpen, StopTimer
    <2> QED
      BY <1>1, <2>1, <2>2, <2>3, <2>4 DEF Inherited, User, StdinWork
  <1>2. CASE ReceiveEnd \/ ReceiveThrows
    BY <1>2 DEF ReceiveEnd, ReceiveThrows
  <1>3. CASE CatchInRunClient
    BY <1>3 DEF CatchInRunClient
  <1>4. ASSUME NEW ok \in BOOLEAN, SendErr(ok) \/ CatchInServerTasks(ok)
        PROVE  /\ UNCHANGED lineVars
               /\ authReplied' = authReplied
               /\ pc'["server"] \notin Acting
    BY <1>4 DEF SendErr, ErrSent, CatchInServerTasks, Write
  <1>5. ASSUME NEW ok \in BOOLEAN, StdinSend(ok) \/ CleanUp(ok)
        PROVE  /\ UNCHANGED lineVars
               /\ authReplied' = authReplied
               /\ pc'["server"] = pc["server"]
               /\ LastOutputMsgType' = LastOutputMsgType
    BY <1>5 DEF StdinSend, StdinSendEnds, CleanUp, Exit, Write
  <1> QED
    BY <1>1, <1>2, <1>3, <1>4, <1>5 DEF Next, ServerStep

\* What the server writes goes to the end of the stream: what was read of it
\* stays as it is, and so do the lines taken off.
LEMMA StreamGrows ==
    ASSUME LinesInv, NEW w \in Writes, ServerWrites(w)
    PROVE  LinesInv'
  <1>1. /\ stream \in Seq(Tokens) /\ w \in Seq(Tokens)
        /\ stream' = stream \o w
        /\ Len(stream') = Len(stream) + Len(w) /\ Len(stream') <= MaxWritten
        /\ Len(stream) \in Nat /\ readPos \in Nat /\ takenTo \in Nat
        /\ readPos <= Len(stream) /\ takenTo <= readPos
    BY WritesAssumption DEF LinesInv, PositionsOK, ServerWrites
  <1>2. /\ stream' \in Seq(Tokens)
        /\ Len(w) \in Nat
        /\ \A i \in 1 .. Len(stream) : stream'[i] = stream[i]
    BY <1>1
  <1>3. UNCHANGED <<fsmVars, closed, readPos, savedInput, takenFrom, takenTo>>
    BY DEF ServerWrites
  <1>4. LineEnds \subseteq LineEnds'
    BY <1>1, <1>2 DEF LineEnds
  <1>5. \A e \in LineEnds' : e <= Len(stream) => e \in LineEnds
    BY <1>1, <1>2 DEF LineEnds
  <1>6. ASSUME NEW l \in Lines
        PROVE  l \in Lines' /\ stream'[l[1] + 1] = stream[l[1] + 1]
    <2>1. /\ l \in ({0} \cup LineEnds) \X LineEnds
          /\ l[1] < l[2]
          /\ \A e \in LineEnds : ~(l[1] < e /\ e < l[2])
      BY DEF Lines
    <2>2. /\ l[2] \in 2 .. Len(stream)
          /\ l[1] \in 0 .. Len(stream)
      BY <1>1, <2>1 DEF LineEnds
    <2>3. \A e \in LineEnds' : ~(l[1] < e /\ e < l[2])
      <3> SUFFICES ASSUME NEW e \in LineEnds', l[1] < e, e < l[2]
                   PROVE  FALSE
        OBVIOUS
      <3>1. e \in Int
        BY <1>1 DEF LineEnds
      <3>2. e <= Len(stream)
        BY <1>1, <2>2, <3>1
      <3> QED
        BY <1>5, <2>1, <3>2
    <2>4. l \in ({0} \cup LineEnds') \X LineEnds'
      BY <1>4, <2>1
    <2>5. l \in Lines'
      BY <2>1, <2>3, <2>4 DEF Lines
    <2>6. l[1] + 1 \in 1 .. Len(stream)
      BY <1>1, <2>1, <2>2
    <2> QED
      BY <1>2, <2>5, <2>6
  <1>7. PositionsOK'
    <2>1. readPos' \in 0 .. Len(stream')
      BY <1>1, <1>2, <1>3
    <2>2. takenTo' \in 0 .. readPos' /\ takenFrom' \in Nat /\ closed' \in BOOLEAN
      BY <1>3 DEF LinesInv, PositionsOK
    <2>3. takenTo' # 0 => takenTo' \in LineEnds'
      BY <1>3, <1>4 DEF LinesInv, PositionsOK
    <2> QED
      BY <1>1, <1>2, <2>1, <2>2, <2>3 DEF PositionsOK
  <1>8. NothingLost'
    <2>1. SubSeq(stream \o w, takenTo + 1, readPos)
            = SubSeq(stream, takenTo + 1, readPos)
      <3>1. CASE takenTo = readPos
        BY <1>1, <1>2, <3>1, SubSeqEmpty
      <3>2. CASE takenTo < readPos
        BY <1>1, <3>2, SubSeqOfConcat1
      <3> QED
        BY <1>1, <3>1, <3>2
    <2> QED
      BY <1>1, <1>3, <2>1 DEF LinesInv, NothingLost
  <1>9. WholeLines'
    <2>1. takenTo' > 0 => <<takenFrom', takenTo'>> \in Lines'
      BY <1>3, <1>6 DEF LinesInv, WholeLines
    <2>2. ASSUME pc'["server"] \in {"fsm", "open", "stopTimer", "err"}
          PROVE  takenTo' > 0 /\ LastOutputMsgType' = stream'[takenFrom' + 1]
      <3>1. /\ takenTo > 0 /\ LastOutputMsgType = stream[takenFrom + 1]
            /\ <<takenFrom, takenTo>> \in Lines
        BY <1>3, <2>2 DEF LinesInv, WholeLines, fsmVars
      <3>2. stream'[takenFrom + 1] = stream[takenFrom + 1]
        BY <1>6, <3>1
      <3> QED
        BY <1>3, <3>1, <3>2 DEF fsmVars
    <2> QED
      BY <2>1, <2>2 DEF WholeLines
  <1>10. (authReplied => ShownOk)'
    BY <1>3, <1>6 DEF LinesInv, ShownOk, fsmVars
  <1> QED
    BY <1>7, <1>8, <1>9, <1>10 DEF LinesInv

LEMMA LinesStep == Control /\ LinesInv /\ [Next]_vars => LinesInv'
  <1> SUFFICES ASSUME Control, LinesInv, [Next]_vars PROVE LinesInv'
    OBVIOUS
  <1>1. /\ stream \in Seq(Tokens)
        /\ Len(stream) \in Nat /\ readPos \in Nat /\ takenTo \in Nat
        /\ readPos <= Len(stream) /\ takenTo <= readPos
    BY DEF LinesInv, PositionsOK
  <1>2. ASSUME NEW n \in 1 .. Len(stream), Receive(n)
        PROVE  LinesInv'
    <2> DEFINE r == readPos + n
    <2>1. /\ readPos' = r /\ r \in readPos + 1 .. Len(stream)
          /\ stream' = stream /\ closed' = closed
          /\ takenTo' = takenTo /\ takenFrom' = takenFrom
          /\ authReplied' = authReplied
          /\ savedInput' = savedInput \o SubSeq(stream, readPos + 1, r)
          /\ pc'["server"] \notin Acting
      BY <1>1, <1>2
         DEF Receive, Control, LabelsOK, Tasks, Goto, NextRecv, Acting
    <2>2. NothingLost'
      <3>1. /\ takenTo + 1 \in 1 .. Len(stream) + 1
            /\ readPos \in (takenTo + 1) - 1 .. Len(stream)
            /\ r \in readPos .. Len(stream)
        BY <1>1, <2>1
      <3> HIDE DEF r
      <3>2. SubSeq(stream, takenTo + 1, readPos) \o SubSeq(stream, readPos + 1, r)
              = SubSeq(stream, takenTo + 1, r)
        BY <1>1, <3>1, ConcatAdjacentSubSeq
      <3> QED
        BY <2>1, <3>2 DEF LinesInv, NothingLost
    <2>3. Lines' = Lines /\ LineEnds' = LineEnds
      BY <2>1 DEF Lines, LineEnds
    <2>4. PositionsOK'
      BY <1>1, <2>1, <2>3 DEF LinesInv, PositionsOK
    <2>5. WholeLines' /\ (authReplied => ShownOk)'
      BY <2>1, <2>3 DEF LinesInv, WholeLines, ShownOk, Acting
    <2> QED
      BY <2>2, <2>4, <2>5 DEF LinesInv
  <1>3. CASE ProcessLine
    <2>1. PICK i \in 1 .. Len(savedInput) :
            /\ IsIndexOfCrlf(savedInput, i)
            /\ savedInput' = RestAfter(savedInput, i)
            /\ takenFrom' = takenTo
            /\ takenTo' = takenTo + EndOfLine(i)
      BY <1>3 DEF ProcessLine
    <2> DEFINE e == takenTo + EndOfLine(i)
    <2>2. /\ e \in 1 .. readPos
          /\ e \in LineEnds
          /\ <<takenTo, e>> \in Lines
          /\ RestAfter(savedInput, i) = SubSeq(stream, e + 1, readPos)
          /\ savedInput[1] = stream[takenTo + 1]
      BY <2>1, TakesLine DEF LinesInv
    <2>3. /\ stream' = stream /\ closed' = closed /\ readPos' = readPos
          /\ takenTo' = e
      BY <1>3, <2>1 DEF ProcessLine
    <2> HIDE DEF e
    <2>4. Lines' = Lines /\ LineEnds' = LineEnds
      BY <2>3 DEF Lines, LineEnds
    <2>5. PositionsOK'
      BY <1>1, <2>1, <2>2, <2>3, <2>4 DEF LinesInv, PositionsOK
    <2>6. NothingLost'
      BY <2>1, <2>2, <2>3 DEF NothingLost, e
    <2>7. WholeLines'
      <3>1. takenTo' > 0 /\ <<takenFrom', takenTo'>> \in Lines'
        <4>1. takenTo' > 0
          BY <1>1, <2>2, <2>3
        <4>2. <<takenFrom', takenTo'>> = <<takenTo, e>>
          BY <2>1, <2>3
        <4> QED
          BY <2>2, <2>4, <4>1, <4>2
      <3>2. pc'["server"] \in Acting
              => LastOutputMsgType' = stream'[takenFrom' + 1]
        BY <1>3, <2>1, <2>2, <2>3
           DEF ProcessLine, Control, LabelsOK, Tasks, Goto, Acting
      <3> QED
        BY <3>1, <3>2 DEF WholeLines, Acting
    <2>8. (authReplied => ShownOk)'
      <3>1. CASE authReplied' /\ authReplied
        <4>1. PICK l \in Lines : l[2] <= takenTo /\ stream[l[1] + 1] = "ReplyOk"
          BY <3>1 DEF LinesInv, ShownOk
        <4>2. l[2] \in Int
          BY <1>1 DEF Lines, LineEnds
        <4>3. l[2] <= e /\ takenTo <= e
          <5>1. e = takenTo + (i + 1) /\ i \in Nat /\ takenTo \in Nat
            BY <1>1, <2>1 DEF e, EndOfLine
          <5> QED
            BY <4>1, <4>2, <5>1
        <4> QED
          BY <2>3, <2>4, <4>1, <4>3 DEF ShownOk
      <3>2. CASE authReplied' /\ ~authReplied
        <4>1. stream[takenTo + 1] = "ReplyOk"
          BY <1>3, <2>2, <3>2 DEF ProcessLine
        <4>2. <<takenTo, e>>[2] <= e /\ <<takenTo, e>>[1] = takenTo
          BY <1>1, <2>2
        <4> QED
          BY <2>2, <2>3, <2>4, <4>1, <4>2 DEF ShownOk
      <3> QED
        BY <3>1, <3>2
    <2> QED
      BY <2>5, <2>6, <2>7, <2>8 DEF LinesInv
  <1>4. CASE /\ UNCHANGED lineVars
             /\ authReplied' = authReplied
             /\ pc'["server"] \in Acting
                  => /\ pc["server"] \in Acting
                     /\ LastOutputMsgType' = LastOutputMsgType
    BY <1>4 DEF LinesInv, PositionsOK, NothingLost, WholeLines, ShownOk, Lines,
                LineEnds, lineVars, Acting
  <1>5. CASE UNCHANGED vars
    BY <1>4, <1>5 DEF vars, fsmVars, tcpVars, lineVars
  <1>6. CASE ServerCloses
    <2>1. UNCHANGED <<fsmVars, stream, readPos, savedInput, takenFrom, takenTo>>
          /\ closed' = TRUE
      BY <1>6 DEF ServerCloses
    <2> QED
      BY <2>1 DEF LinesInv, PositionsOK, NothingLost, WholeLines, ShownOk, Lines,
                  LineEnds, fsmVars
  <1> QED
    BY <1>2, <1>3, <1>4, <1>5, <1>6, OtherSteps, StreamGrows

LEMMA AlwaysLines == Spec => []LinesInv
  BY InitLines, LinesStep, AlwaysControl, PTL DEF Spec

\* No part of the stream is lost or read twice, for any stream and any chunks.
THEOREM TcpLosesNothing == Spec => []NothingLost
  BY AlwaysLines, PTL DEF LinesInv

\* ProcessMsg takes off exactly one line at a time, and the FSM acts on the type
\* of a line taken off whole.
THEOREM TcpTakesWholeLines == Spec => []WholeLines
  BY AlwaysLines, PTL DEF LinesInv

-----------------------------------------------------------------------------
(* What is sent. *)

\* The client sends messages, and the user's traffic only in an authenticated
\* session.
SentOK ==
    /\ sent \in [Tasks -> MessageTypes \cup {Null}]
    /\ sent["stdin"] \in {"Join", "Msg"} => authReplied

LEMMA InitSent == Init => SentOK
  BY DEF Init, SentOK, Tasks, Null

LEMMA SentStep ==
    Control /\ Base!FsmInv /\ SentOK /\ [Next]_vars => SentOK'
  <1> SUFFICES ASSUME Control, Base!FsmInv, SentOK, [Next]_vars PROVE SentOK'
    OBVIOUS
  <1>1. ASSUME NEW ok \in BOOLEAN, StdinSend(ok)
        PROVE  SentOK'
    <2>1. pc["stdin"] = "send" /\ authReplied' = authReplied
      BY <1>1 DEF StdinSend, StdinSendEnds
    <2>2. LastInputMsgType \in MessageTypes \cup {Null}
      BY DEF Base!FsmInv, Base!FsmTypeOK, Base!LineTypes, MessageTypes, Null, Base!Null
    <2>3. LastInputMsgType \in {"Join", "Msg"} => authReplied
      BY <2>1 DEF Base!FsmInv, Base!AuthFirst, BaseLabel, Tasks
    <2> QED
      BY <1>1, <2>1, <2>2, <2>3 DEF StdinSend, Write, SentOK, Tasks
  <1>2. ASSUME NEW ok \in BOOLEAN,
               SendErr(ok) \/ CatchInServerTasks(ok) \/ CleanUp(ok)
        PROVE  SentOK'
    BY <1>2 DEF SendErr, ErrSent, CatchInServerTasks, CleanUp, Exit, Write, SentOK,
                Tasks, MessageTypes
  <1>3. CASE UNCHANGED sent /\ (authReplied => authReplied')
    BY <1>3 DEF SentOK
  <1>4. CASE Inherited
    BY <1>3, <1>4 DEF Inherited, tcpVars, User, StdinWork, RunFsmWork, EndOfInput,
       LocalCommand, Request, SetRequestState, StartTimer, RunFsmNull, SetOpen,
       StopTimer, TimerElapses, ElapsedHandler, CancelKeyPress, WhenAny
  <1>5. CASE \E n \in 1 .. Len(stream) : Receive(n)
    BY <1>3, <1>5 DEF Receive
  <1>6. CASE ReceiveEnd \/ ReceiveThrows \/ ProcessLine \/ CatchInRunClient
    BY <1>3, <1>6 DEF ReceiveEnd, ReceiveThrows, ProcessLine, CatchInRunClient, tcpVars
  <1>7. CASE (\E w \in Writes : ServerWrites(w)) \/ ServerCloses
    BY <1>3, <1>7 DEF ServerWrites, ServerCloses, fsmVars
  <1>8. CASE UNCHANGED vars
    BY <1>3, <1>8 DEF vars, fsmVars, tcpVars
  <1> QED
    BY <1>1, <1>2, <1>4, <1>5, <1>6, <1>7, <1>8 DEF Next, ServerStep

LEMMA AlwaysSent == Spec => []SentOK
  BY InitSent, SentStep, AlwaysControl, AlwaysFsmInv, PTL DEF Spec

\* The variables of the TCP client keep their types.
THEOREM TcpTypeCorrect == Spec => []TypeOK
  <1>1. Control /\ LinesInv /\ SentOK /\ Base!FsmInv => TypeOK
    <2> SUFFICES ASSUME Control, LinesInv, SentOK, Base!FsmInv PROVE TypeOK
      OBVIOUS
    <2>1. savedInput \in Seq(Tokens)
      BY SavedTokens DEF LinesInv
    <2>2. takenTo \in Nat
      BY DEF LinesInv, PositionsOK
    <2> QED
      BY <2>1, <2>2 DEF TypeOK, Control, LabelsOK, LinesInv, PositionsOK, SentOK,
                        Base!FsmInv
  <1> QED
    BY <1>1, AlwaysControl, AlwaysLines, AlwaysSent, AlwaysFsmInv, PTL

\* No JOIN or MSG is written before a line REPLY OK was shown, for any stream,
\* any chunks and any interleaving of the two tasks.
THEOREM TcpTrafficAfterShown == Spec => []TrafficAfterShownOk
  <1>1. LinesInv /\ SentOK => TrafficAfterShownOk
    BY DEF LinesInv, SentOK, ShownOk, TrafficAfterShownOk
  <1> QED
    BY <1>1, AlwaysLines, AlwaysSent, PTL
=============================================================================
