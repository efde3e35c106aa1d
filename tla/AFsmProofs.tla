----------------------------- MODULE AFsmProofs -----------------------------
(***************************************************************************)
(* What holds of every AFsm, whatever its SnedMessage and ServerTasks are: *)
(* type correctness, authentication first, and the legal moves of State.   *)
(***************************************************************************)
EXTENDS AFsm, TLAPS

\* What each task's pending decision, taken from an older State, says about the
\* State it will overwrite.
PendingOK ==
    /\ pc["stdin"] \in {"setState", "startTimer"}
         => LastInputMsgType \in {"Auth", "Join"}
    /\ pc["stdin"] = "send" => LastInputMsgType \in {"Auth", "Join", "Msg"}
    /\ pc["stdin"] = "setState" /\ LastInputMsgType = "Auth"
         => State \in {"Start", "Auth", "Open"}
    /\ pc["stdin"] = "setState" /\ LastInputMsgType = "Join" => State = "Open"
    /\ pc["server"] = "open" => State \in {"Auth", "Join"} /\ authReplied
    /\ pc["server"] = "fsm" /\ LastOutputMsgType = "ReplyOk" => authReplied

FsmInv == FsmTypeOK /\ PendingOK /\ AuthFirst

LEMMA InitInv == FsmInit => FsmInv
  BY DEF FsmInit, FsmInv, FsmTypeOK, PendingOK, AuthFirst, Tasks, FsmStates,
         LineTypes, WireTypes, MessageTypes, Null, ServerLabels

\* The inductive step, one leaf per action.
LEMMA StepInv == FsmInv /\ [FsmNext]_fsmVars => FsmInv'
  <1> SUFFICES ASSUME FsmInv, [FsmNext]_fsmVars PROVE FsmInv'
    OBVIOUS
  <1> USE DEF FsmInv, FsmTypeOK, PendingOK, AuthFirst, Tasks, FsmStates, Goto,
              Null, ServerLabels, LineTypes, WireTypes, MessageTypes, NextRead,
              NextRecv
  <1>1. CASE EndOfInput
    BY <1>1 DEF EndOfInput
  <1>2. ASSUME NEW t \in LineTypes, LocalCommand(t) PROVE FsmInv'
    BY <1>2 DEF LocalCommand
  <1>3. ASSUME NEW t \in LineTypes, Request(t) PROVE FsmInv'
    BY <1>3 DEF Request, Accepts, FirstStep
  <1>4. CASE SetRequestState
    BY <1>4 DEF SetRequestState
  <1>5. CASE StartTimer
    BY <1>5 DEF StartTimer
  <1>6. ASSUME NEW ok \in BOOLEAN, StdinSendEnds("send", ok) PROVE FsmInv'
    BY <1>6 DEF StdinSendEnds
  <1>7. ASSUME NEW t \in WireTypes \cup {Null}, NEW l \in ServerLabels,
               ServerTasks(t, l)
        PROVE  FsmInv'
    <2>1. authReplied' \in BOOLEAN /\ (authReplied => authReplied')
      BY <1>7 DEF ServerTasks
    <2>2. l = "fsm" /\ t = "ReplyOk" => authReplied'
      BY <1>7 DEF ServerTasks
    <2>3. /\ pc' = [pc EXCEPT !["server"] = l]
          /\ l # "open"
          /\ LastOutputMsgType' = t
          /\ UNCHANGED <<State, LastInputMsgType, timer, elapsed, cancelled,
                         named>>
      BY <1>7 DEF ServerTasks
    <2> QED
      BY <2>1, <2>2, <2>3
  <1>8. CASE ReceiveCancelled
    BY <1>8 DEF ReceiveCancelled
  <1>9. CASE RunFsmNull
    BY <1>9 DEF RunFsmNull, Verdict, Replies
  <1>10. CASE SetOpen
    BY <1>10 DEF SetOpen
  <1>11. CASE StopTimer
    <2>1. timer' \in BOOLEAN
      BY <1>11 DEF StopTimer
    <2> QED
      BY <1>11, <2>1 DEF StopTimer
  <1>12. CASE CatchException
    BY <1>12 DEF CatchException
  <1>13. CASE ErrSent("err")
    BY <1>13 DEF ErrSent
  <1>14. CASE TimerElapses
    BY <1>14 DEF TimerElapses
  <1>15. CASE ElapsedHandler
    <2>1. timer' \in BOOLEAN /\ elapsed' \in BOOLEAN
      BY <1>15 DEF ElapsedHandler
    <2> QED
      BY <1>15, <2>1 DEF ElapsedHandler
  <1>16. CASE CancelKeyPress
    BY <1>16 DEF CancelKeyPress
  <1>17. CASE WhenAny
    BY <1>17 DEF WhenAny
  <1>18. CASE Exit("cleanup")
    BY <1>18 DEF Exit
  <1>19. CASE UNCHANGED fsmVars
    BY <1>19 DEF fsmVars
  <1> QED
    BY <1>1, <1>2, <1>3, <1>4, <1>5, <1>6, <1>7, <1>8, <1>9, <1>10, <1>11,
       <1>12, <1>13, <1>14, <1>15, <1>16, <1>17, <1>18, <1>19
       DEF FsmNext, User, StdinWork, ServerWork

LEMMA AlwaysInv == FsmSpec => []FsmInv
  BY InitInv, StepInv, PTL DEF FsmSpec

\* Every variable of AFsm keeps its type.
THEOREM TypeCorrect == FsmSpec => []FsmTypeOK
  BY AlwaysInv, PTL DEF FsmInv

\* Neither a JOIN, a chat message nor an open session exists before a REPLY OK
\* was handed to the FSM, in every interleaving of the two tasks.
THEOREM AuthenticatedFirst == FsmSpec => []AuthFirst
  BY AlwaysInv, PTL DEF FsmInv

\* State only makes the moves in Moves.
THEOREM MovesAreLegal == FsmSpec => LegalMoves
  <1>1. ASSUME FsmInv, [FsmNext]_fsmVars
        PROVE  [State' # State => <<State, State'>> \in Moves]_fsmVars
    <2>1. CASE SetRequestState
      BY <1>1, <2>1 DEF SetRequestState, FsmInv, PendingOK, Moves
    <2>2. CASE SetOpen
      BY <1>1, <2>2 DEF SetOpen, FsmInv, PendingOK, Moves
    <2>3. CASE State' = State
      BY <2>3
    <2> QED
      BY <1>1, <2>1, <2>2, <2>3
         DEF FsmNext, User, StdinWork, ServerWork, fsmVars, EndOfInput,
             LocalCommand, Request, StartTimer, StdinSendEnds, ServerTasks,
             ReceiveCancelled, RunFsmNull, StopTimer, CatchException, ErrSent,
             TimerElapses, ElapsedHandler, CancelKeyPress, WhenAny, Exit
  <1> QED
    BY <1>1, AlwaysInv, PTL DEF FsmSpec, LegalMoves
=============================================================================
