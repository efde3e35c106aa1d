-------------------------------- MODULE AFsm --------------------------------
(***************************************************************************)
(* The abstract class AFsm: two tasks started by RunClient (one reads      *)
(* standard input, the other the server), the finite state machine they    *)
(* share without a lock, the five-second reply timer and the shutdown.     *)
(*                                                                         *)
(* ServerTasks, SnedMessage and CleanUp are abstract in the code.  Here    *)
(* they are what AFsm relies on: SnedMessage returns or throws,            *)
(* ServerTasks hands one message type to RunFsm(null), drops the message,  *)
(* or fails.  UdpFsm and TcpFsm replace them by the real ones and each     *)
(* implements this specification.                                          *)
(*                                                                         *)
(* A step of a task is one access to a field the other task also uses;     *)
(* what is local to a task is merged with the access it belongs to.        *)
(***************************************************************************)
EXTENDS ChatTypes

VARIABLES
    State,              \* the FSM state; never "End" in this code
    LastInputMsgType,   \* type of the last line, Null before the first
    LastOutputMsgType,  \* type of the last message from the server
    timer,              \* _timer.Enabled
    elapsed,            \* an Elapsed callback is queued on the thread pool
    cancelled,          \* cts.IsCancellationRequested
    named,              \* UserProperty has a DisplayName and a MessageContent
    authReplied,        \* history: RunFsm(null) was called with a ReplyOk
    pc                  \* where each task is

fsmVars == <<State, LastInputMsgType, LastOutputMsgType, timer, elapsed,
             cancelled, named, authReplied, pc>>

\* readFromStdinTask, readFromServerTask and the code after Task.WhenAny.
Tasks == {"stdin", "server", "main"}

Goto(t, l) == pc' = [pc EXCEPT ![t] = l]

\* When the process has exited no task takes a step.
Running == pc["main"] # "exited"

\* The loop condition of each task, evaluated when an iteration ends.
NextRead == IF cancelled THEN "done" ELSE "read"
NextRecv == IF cancelled THEN "done" ELSE "recv"

-----------------------------------------------------------------------------
(* readFromStdinTask: ClientTask and the input branch of RunFsm. *)

\* Mutant: JoinState accepts /auth instead of rejecting every line.
AcceptsAuthInJoin(s, t) ==
    \/ s \in {"Start", "Auth", "Join"} /\ t = "Auth"
    \/ s = "Open" /\ t \in {"Join", "Msg"}

\* Mutant: AuthState lets every line through to the server.
AcceptsAllInAuth(s, t) ==
    \/ s \in {"Start", "Auth"} /\ t = "Auth"
    \/ s \in {"Auth", "Open"} /\ t \in {"Join", "Msg"}

\* The lines each state acts on; any other line is reported and dropped.
Accepts(s, t) ==
    \/ s \in {"Start", "Auth"} /\ t = "Auth"
    \/ s = "Open" /\ t \in {"Join", "Msg"}

\* Console.ReadLine returns null (or throws, once Console.In is disposed): the
\* task cancels and leaves its loop.
EndOfInput ==
    /\ Running /\ pc["stdin"] = "read"
    /\ cancelled' = TRUE
    /\ Goto("stdin", "done")
    /\ UNCHANGED <<State, LastInputMsgType, LastOutputMsgType, timer, elapsed,
                   named, authReplied>>

\* /rename and /help never reach the FSM.
LocalCommand(t) ==
    /\ Running /\ pc["stdin"] = "read"
    /\ t \in {"Rename", "Help"}
    /\ LastInputMsgType' = t
    /\ named' = (named \/ t = "Rename")
    /\ Goto("stdin", NextRead)
    /\ UNCHANGED <<State, LastOutputMsgType, timer, elapsed, cancelled,
                   authReplied>>

\* Mutant: OpenState stores a state for every line it accepts, MSG included.
FirstStepStoresState(t) == "setState"

\* The first step an accepted line takes: only /auth and /join change State.
FirstStep(t) == IF t = "Msg" THEN "send" ELSE "setState"

\* RunFsm(input) reads State once; what it decides is carried out in later
\* steps, whatever State has become by then.
Request(t) ==
    /\ Running /\ pc["stdin"] = "read"
    /\ t \in {"Auth", "Join", "Msg"}
    /\ LastInputMsgType' = t
    /\ Goto("stdin", IF Accepts(State, t) THEN FirstStep(t) ELSE NextRead)
    /\ UNCHANGED <<State, LastOutputMsgType, timer, elapsed, cancelled, named,
                   authReplied>>

SetRequestState ==
    /\ Running /\ pc["stdin"] = "setState"
    /\ State' = LastInputMsgType
    /\ Goto("stdin", "startTimer")
    /\ UNCHANGED <<LastInputMsgType, LastOutputMsgType, timer, elapsed,
                   cancelled, named, authReplied>>

\* _timer.Start (after a Stop in AuthState), then ModifyUserProperty.
StartTimer ==
    /\ Running /\ pc["stdin"] = "startTimer"
    /\ timer' = TRUE
    /\ named' = TRUE
    /\ Goto("stdin", "send")
    /\ UNCHANGED <<State, LastInputMsgType, LastOutputMsgType, elapsed,
                   cancelled, authReplied>>

\* The stdin task leaves SnedMessage at label l: normally, or by an exception
\* that cancels and ends the task.
StdinSendEnds(l, ok) ==
    /\ Running /\ pc["stdin"] = l
    /\ cancelled' = (cancelled \/ ~ok)
    /\ Goto("stdin", IF ok THEN NextRead ELSE "done")
    /\ UNCHANGED <<State, LastInputMsgType, LastOutputMsgType, timer, elapsed,
                   named, authReplied>>

-----------------------------------------------------------------------------
(* readFromServerTask: the server branch of RunFsm. *)

\* Mutant: AuthState treats REPLY NOK as REPLY OK.
OpensOnNok(s, t) ==
    CASE s \in {"Auth", "Join"} /\ t \in Replies     -> "open"
      [] s \in {"Open", "Join"} /\ t = "Msg"         -> NextRecv
      [] s = "Auth" /\ t = "Msg"                     -> "err"
      [] s = "Open" /\ t \in Replies                 -> "err"
      [] OTHER                                       -> "throw"

\* What RunFsm(null) does in state s with message type t: "open" accepts the
\* reply, "stopTimer" only ends the wait, "err" sends ERR and throws.
Verdict(s, t) ==
    CASE s = "Auth" /\ t = "ReplyOk"                 -> "open"
      [] s = "Auth" /\ t = "ReplyNok"                -> "stopTimer"
      [] s = "Join" /\ t \in Replies                 -> "open"
      [] s \in {"Open", "Join"} /\ t = "Msg"         -> NextRecv
      [] s = "Auth" /\ t = "Msg"                     -> "err"
      [] s = "Open" /\ t \in Replies                 -> "err"
      [] OTHER                                       -> "throw"

RunFsmNull ==
    /\ Running /\ pc["server"] = "fsm"
    /\ Goto("server", Verdict(State, LastOutputMsgType))
    /\ UNCHANGED <<State, LastInputMsgType, LastOutputMsgType, timer, elapsed,
                   cancelled, named, authReplied>>

SetOpen ==
    /\ Running /\ pc["server"] = "open"
    /\ State' = "Open"
    /\ Goto("server", "stopTimer")
    /\ UNCHANGED <<LastInputMsgType, LastOutputMsgType, timer, elapsed,
                   cancelled, named, authReplied>>

StopTimer ==
    /\ Running /\ pc["server"] = "stopTimer"
    /\ timer' = FALSE
    /\ Goto("server", NextRecv)
    /\ UNCHANGED <<State, LastInputMsgType, LastOutputMsgType, elapsed,
                   cancelled, named, authReplied>>

\* SnedMessage(Err) is over: returned or thrown, an exception leaves the task.
ErrSent(l) ==
    /\ Running /\ pc["server"] = l
    /\ Goto("server", "throw")
    /\ UNCHANGED <<State, LastInputMsgType, LastOutputMsgType, timer, elapsed,
                   cancelled, named, authReplied>>

\* The catch clause of the loop: cts.Cancel, and the loop condition fails.
CatchException ==
    /\ Running /\ pc["server"] = "throw"
    /\ cancelled' = TRUE
    /\ Goto("server", "done")
    /\ UNCHANGED <<State, LastInputMsgType, LastOutputMsgType, timer, elapsed,
                   named, authReplied>>

\* Receive(token) notices the cancellation and throws.
ReceiveCancelled ==
    /\ Running /\ pc["server"] = "recv"
    /\ cancelled
    /\ Goto("server", "throw")
    /\ UNCHANGED <<State, LastInputMsgType, LastOutputMsgType, timer, elapsed,
                   cancelled, named, authReplied>>

-----------------------------------------------------------------------------
(* The timer, Ctrl+C and the end of RunClient. *)

\* Five seconds are over: the callback passes the timer's own check and is
\* queued; a later _timer.Stop does not take it back.  AutoReset keeps the
\* timer enabled.
TimerElapses ==
    /\ Running /\ timer /\ ~elapsed
    /\ elapsed' = TRUE
    /\ UNCHANGED <<State, LastInputMsgType, LastOutputMsgType, timer,
                   cancelled, named, authReplied, pc>>

\* The Elapsed handler: cts.Cancel, _timer.Stop.
ElapsedHandler ==
    /\ Running /\ elapsed
    /\ cancelled' = TRUE
    /\ timer' = FALSE
    /\ elapsed' = FALSE
    /\ UNCHANGED <<State, LastInputMsgType, LastOutputMsgType, named,
                   authReplied, pc>>

CancelKeyPress ==
    /\ Running /\ ~cancelled
    /\ cancelled' = TRUE
    /\ UNCHANGED <<State, LastInputMsgType, LastOutputMsgType, timer, elapsed,
                   named, authReplied, pc>>

\* Mutant: RunClient awaits both tasks instead of either.
BothTasksDone == pc["stdin"] = "done" /\ pc["server"] = "done"

\* Task.WhenAny(readFromStdinTask, readFromServerTask).
AnyTaskDone == pc["stdin"] = "done" \/ pc["server"] = "done"

WhenAny ==
    /\ Running /\ pc["main"] = "wait"
    /\ AnyTaskDone
    /\ Goto("main", "cleanup")
    /\ UNCHANGED <<State, LastInputMsgType, LastOutputMsgType, timer, elapsed,
                   cancelled, named, authReplied>>

\* CleanUp has run as far as the process lets it; Main returns.
Exit(l) ==
    /\ pc["main"] = l
    /\ Goto("main", "exited")
    /\ UNCHANGED <<State, LastInputMsgType, LastOutputMsgType, timer, elapsed,
                   cancelled, named, authReplied>>

-----------------------------------------------------------------------------
(* The abstract ServerTasks and the specification of the class. *)

\* One call of ServerTasks that decodes t and ends at label l: it drops the
\* message, runs the FSM, or fails with or without an ERR.
ServerTasks(t, l) ==
    /\ Running /\ pc["server"] = "recv"
    /\ LastOutputMsgType' = t
    /\ l \in {NextRecv, "recv", "err", "throw"} \cup
             (IF t = Null THEN {} ELSE {"fsm"})
    /\ Goto("server", l)
    /\ authReplied' = (authReplied \/ (l = "fsm" /\ t = "ReplyOk"))
    /\ UNCHANGED <<State, LastInputMsgType, timer, elapsed, cancelled, named>>

ServerLabels == {"recv", "fsm", "open", "stopTimer", "err", "throw", "done"}

FsmInit ==
    /\ State = "Start"
    /\ LastInputMsgType = Null
    /\ LastOutputMsgType = Null
    /\ timer = FALSE
    /\ elapsed = FALSE
    /\ cancelled = FALSE
    /\ named = FALSE
    /\ authReplied = FALSE
    /\ pc = [t \in Tasks |-> CASE t = "stdin"  -> "read"
                               [] t = "server" -> "recv"
                               [] t = "main"   -> "wait"]

StdinWork == SetRequestState \/ StartTimer
ServerWork == RunFsmNull \/ SetOpen \/ StopTimer \/ CatchException
User == EndOfInput \/ (\E t \in LineTypes : LocalCommand(t) \/ Request(t))

FsmNext ==
    \/ User
    \/ StdinWork
    \/ \E ok \in BOOLEAN : StdinSendEnds("send", ok)
    \/ \E t \in WireTypes \cup {Null}, l \in ServerLabels : ServerTasks(t, l)
    \/ ReceiveCancelled
    \/ ServerWork
    \/ ErrSent("err")
    \/ TimerElapses \/ ElapsedHandler \/ CancelKeyPress
    \/ WhenAny
    \/ Exit("cleanup")

FsmSpec == FsmInit /\ [][FsmNext]_fsmVars

\* The scheduler runs both tasks and the thread pool; SnedMessage ends, and a
\* Receive with a cancelled token throws.  Nothing obliges the user, the
\* server or the clock.
FsmFairSpec ==
    /\ FsmSpec
    /\ WF_fsmVars(StdinWork \/ \E ok \in BOOLEAN : StdinSendEnds("send", ok))
    /\ WF_fsmVars(ServerWork \/ ErrSent("err") \/ ReceiveCancelled)
    /\ WF_fsmVars(ElapsedHandler)
    /\ WF_fsmVars(WhenAny \/ Exit("cleanup"))

-----------------------------------------------------------------------------
(* Properties. *)

FsmTypeOK ==
    /\ State \in FsmStates \ {"End"}
    /\ LastInputMsgType \in LineTypes \cup {Null}
    /\ LastOutputMsgType \in WireTypes \cup {Null}
    /\ timer \in BOOLEAN /\ elapsed \in BOOLEAN /\ cancelled \in BOOLEAN
    /\ named \in BOOLEAN /\ authReplied \in BOOLEAN
    /\ DOMAIN pc = Tasks
    /\ pc["stdin"] \in {"read", "setState", "startTimer", "send", "done"}
    /\ pc["server"] \in ServerLabels
    /\ pc["main"] \in {"wait", "cleanup", "exited"}

\* No chat message and no JOIN is ever on its way, and the session is never
\* Open or Join, before an AUTH was answered by REPLY OK -- however the two
\* tasks interleave between reading State and acting on it.
AuthFirst ==
    \/ State \in {"Open", "Join"}
    \/ pc["stdin"] \in {"setState", "startTimer", "send"}
         /\ LastInputMsgType \in {"Join", "Msg"}
    => authReplied

\* The moves of the FSM that the two tasks can make together.  The last one is
\* a race: StdinTask read State = "Auth" for a repeated /auth before
\* ServerTask stored "Open".
Moves == {<<"Start", "Auth">>, <<"Auth", "Open">>, <<"Open", "Join">>,
          <<"Join", "Open">>, <<"Open", "Auth">>}

\* A step changes State along Moves only: although each task writes a value it
\* chose from an older State, a session never skips authentication, never
\* falls back to Start and never drops a pending JOIN for an AUTH.
LegalMoves == [][State' # State => <<State, State'>> \in Moves]_fsmVars

\* A pending JOIN is watched by the reply timer: when both tasks are idle in
\* state Join, the timer runs, or its callback is queued, or the client ends.
JoinWatched ==
    State = "Join" /\ pc["stdin"] = "read" /\ pc["server"] = "recv"
    => timer \/ elapsed \/ cancelled

\* Once cancelled -- by Ctrl+C, by the timer, by end of input or by an
\* exception in either task -- the client ends, even though the stdin task may
\* stay blocked in Console.ReadLine forever.
CancelledExits == cancelled ~> pc["main"] = "exited"
=============================================================================
