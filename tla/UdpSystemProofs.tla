--------------------------- MODULE UdpSystemProofs ---------------------------
(***************************************************************************)
(* What holds of the UDP client and the mock server together, whatever the *)
(* network does to their datagrams.                                        *)
(***************************************************************************)
EXTENDS UdpSystem, UdpFsmProofs

\* The constants of the two fit together: what UdpServer assumes holds here.
LEMMA PeerFits ==
    /\ HalfRange \in Nat /\ HalfRange >= 1
    /\ DefaultPort \notin HandlerPorts
    /\ RandomIds \subseteq 1 .. Server!MaxId
    /\ AnyRequest \subseteq Server!Requests
    /\ 0 \in Nat
  <1>1. 0 .. Server!MaxId = WireIds
    BY DEF WireIds, Server!MaxId
  <1>2. AnyRequest \subseteq Server!Requests
    BY <1>1, PeerAssumption
       DEF AnyRequest, Server!Requests, Server!ServerPorts, Server!Tests
  <1> QED
    BY <1>2, UdpAssumption, PeerAssumption

-----------------------------------------------------------------------------
(* The client of the system is a client. *)

LEMMA ClientStepIsNext ==
    Server!Types /\ ClientStep => Next \/ UNCHANGED vars
  <1> SUFFICES ASSUME Server!Types, ClientStep PROVE Next
    OBVIOUS
  <1>1. CASE UserStep
    BY <1>1 DEF UserStep, Next, Inherited, User
  <1>2. CASE StdinStep
    BY <1>2 DEF StdinStep, Next, Inherited, SnedMessage, Senders
  <1>3. CASE ServerTaskStep
    BY <1>3 DEF ServerTaskStep, Next, Inherited, SnedMessage, Senders
  <1>4. CASE Delivery
    <2>1. toClient \subseteq ServerMsgs
      BY PeerAssumption DEF Server!Types
    <2> QED
      BY <1>4, <2>1 DEF Delivery, Next
  <1>5. CASE MainStep
    BY <1>5 DEF MainStep, Next, Inherited, CleanUp
  <1>6. CASE Environment
    BY <1>6 DEF Environment, Next, Inherited
  <1>7. CASE SendFails
    BY <1>7 DEF SendFails, Next
  <1> QED
    BY <1>1, <1>2, <1>3, <1>4, <1>5, <1>6, <1>7 DEF ClientStep

LEMMA SysStepIsNext ==
    Server!Types /\ [SysNext]_sysVars => [Next]_vars
  BY ClientStepIsNext DEF SysNext, sysVars, HandlerStep, ListenerStep

-----------------------------------------------------------------------------
(* What lies between the two. *)

\* The client sends to ports of the server and works on datagrams of the server.
Linked ==
    /\ Server!Types
    /\ port \in Server!ServerPorts
    /\ rx.type # Null => rx \in toClient
    /\ test \in AskedTests \cup {"none"}

LEMMA InitLinked == SysInit => Linked
  <1> SUFFICES ASSUME SysInit PROVE Linked
    OBVIOUS
  <1>1. Server!Types
    BY PeerFits, Server!InitTypes DEF SysInit
  <1> QED
    BY <1>1 DEF SysInit, Init, Linked, Server!ServerPorts

\* The types of what the client transmits.
LEMMA RequestTypes ==
    ASSUME Base!FsmInv, UdpDataOK, UdpDataOK', NEW t \in Tasks,
           \/ t \in Senders /\ (Send(t) \/ Retransmit(t))
           \/ t = "main" /\ SendBye
    PROVE  /\ sent'[t].type \in IF t = "stdin" THEN {"Auth", "Join", "Msg"} ELSE {"Err", "Bye"}
           /\ sent'[t].id \in WireIds /\ sent'[t].port = port
  <1> USE DEF UdpDataOK, Tasks, Senders
  <1>1. sent'[t].id \in WireIds
    BY DEF Transmissions
  <1>2. CASE t \in Senders /\ (Send(t) \/ Retransmit(t))
    <2>1. sent'[t].type = MsgOf(t) /\ sent'[t].port = port
      BY <1>2 DEF Send, Retransmit, Transmit
    <2>2. t = "stdin" => pc["stdin"] \in {"send", "loop"}
      BY <1>2 DEF Send, SendLabel, Retransmit
    <2>3. t = "stdin" => LastInputMsgType \in {"Auth", "Join", "Msg"}
      BY <2>2 DEF Base!FsmInv, Base!PendingOK, BaseLabel, Waiting
    <2> QED
      BY <1>1, <1>2, <2>1, <2>3 DEF MsgOf
  <1>3. CASE t = "main" /\ SendBye
    BY <1>1, <1>3 DEF SendBye, Transmit
  <1> QED
    BY <1>2, <1>3

\* A step of the client puts at most one datagram on its way.
LEMMA ClientSends ==
    ASSUME Linked, Base!FsmInv, UdpDataOK, UdpDataOK', ClientStep
    PROVE  /\ UNCHANGED <<toClient, running, at, request, plan, last, counter, answers>>
           /\ \/ toServer' = toServer
              \/ \E t \in Tasks, d \in AnyRequest :
                    /\ toServer' = toServer \cup {d}
                    /\ d.type = sent'[t].type
                    /\ d.type \in {"Join", "Msg"} => t = "stdin"
           /\ test' \in AskedTests \cup {"none"}
  <1> USE DEF Linked
  <1>1. CASE UserStep
    BY <1>1 DEF UserStep, peerVars, userVars
  <1>2. ASSUME NEW t \in Tasks, OnItsWay(t),
               \/ t \in Senders /\ (Send(t) \/ Retransmit(t))
               \/ t = "main" /\ SendBye
        PROVE  /\ UNCHANGED <<toClient, running, at, request, plan, last, counter, answers>>
               /\ \E d \in AnyRequest :
                    /\ toServer' = toServer \cup {d}
                    /\ d.type = sent'[t].type
                    /\ d.type \in {"Join", "Msg"} => t = "stdin"
               /\ test' \in AskedTests \cup {"none"}
    <2> DEFINE d == [type |-> sent'[t].type, id |-> sent'[t].id, port |-> sent'[t].port,
                     test |-> IF t = "stdin" THEN test ELSE "none"]
    <2>1. /\ sent'[t].type \in IF t = "stdin" THEN {"Auth", "Join", "Msg"} ELSE {"Err", "Bye"}
          /\ sent'[t].id \in WireIds /\ sent'[t].port = port
      BY <1>2, RequestTypes
    <2>2. d \in AnyRequest
      BY <2>1 DEF AnyRequest, Server!ServerPorts
    <2>3. d.type = sent'[t].type /\ (d.type \in {"Join", "Msg"} => t = "stdin")
      BY <2>1
    <2>4. /\ toServer' = toServer \cup {d}
          /\ UNCHANGED <<test, toClient, running, at, request, plan, last, counter, answers>>
      BY <1>2 DEF OnItsWay, userVars
    <2> HIDE DEF d
    <2> QED
      BY <2>2, <2>3, <2>4
  <1>3. CASE Silent
    BY <1>3 DEF Silent, userVars, peerVars
  <1> QED
    BY <1>1, <1>2, <1>3
       DEF ClientStep, StdinStep, ServerTaskStep, Delivery, MainStep, Environment, SendFails,
           Senders, Tasks

\* A step of the client, or of the server.
LEMMA ServerMoves ==
    ASSUME SysNext, ~ClientStep
    PROVE  UNCHANGED <<vars, userVars>> /\ Server!ServerNext
  BY DEF SysNext, HandlerStep, ListenerStep, Server!ServerNext

LEMMA ClientTypes ==
    ASSUME Linked, Base!FsmInv, UdpDataOK, UdpDataOK', ClientStep
    PROVE  Server!Types'
  <1>1. /\ UNCHANGED <<toClient, running, at, request, plan, last, counter, answers>>
        /\ toServer' \subseteq AnyRequest
    BY ClientSends DEF Linked, Server!Types
  <1> QED
    BY <1>1 DEF Linked, Server!Types

LEMMA LinkedStep ==
    Linked /\ Base!FsmInv /\ UdpDataOK /\ UdpDataOK' /\ [SysNext]_sysVars => Linked'
  <1> SUFFICES ASSUME Linked, Base!FsmInv, UdpDataOK, UdpDataOK', [SysNext]_sysVars
               PROVE  Linked'
    OBVIOUS
  <1>1. CASE ClientStep
    <2>1. Server!Types'
      BY <1>1, ClientTypes
    <2>2. toClient' = toClient /\ test' \in AskedTests \cup {"none"}
      BY <1>1, ClientSends
    <2>3. CASE Delivery
      <3>1. PICK m \in toClient : Receive(m) \/ ReceiveMalformed(m)
        BY <2>3 DEF Delivery
      <3>2. port' = m.port /\ rx' = m
        BY <3>1 DEF Receive, ReceiveMalformed
      <3>3. m.port \in Server!ServerPorts
        BY <3>1 DEF Linked, Server!Types, Server!Sent
      <3> QED
        BY <2>1, <2>2, <3>1, <3>2, <3>3 DEF Linked
    <2>4. CASE ~Delivery
      <3>1. UNCHANGED <<port, rx>>
        BY <1>1, <2>4
           DEF ClientStep, UserStep, StdinStep, ServerTaskStep, MainStep, Environment, SendFails,
               udpVars, Send, SetFlag, CopyUser, Retransmit, LeaveLoop, StdinVerdict,
               ServerStep, AssignId, Gate, Confirm, ConfirmMalformed, ServerVerdict,
               SendBye, ExitSilently, ExitAfterBye, StdinSendFails, ServerSendFails
      <3> QED
        BY <2>1, <2>2, <3>1 DEF Linked, Server!ServerPorts
    <2> QED
      BY <2>3, <2>4
  <1>2. CASE SysNext /\ ~ClientStep
    <2>1. UNCHANGED <<port, rx, test>> /\ Server!ServerNext
      BY <1>2, ServerMoves DEF vars, udpVars, userVars
    <2>2. Server!Types'
      BY <2>1, PeerFits, Server!TypesStep DEF Linked
    <2>3. toClient \subseteq toClient'
      BY <2>1 DEF Server!ServerNext, Server!Handler, Server!Listener, Server!HandleAuth,
                  Server!HandlerSends, Server!IdOverflows, Server!HandlerTimesOut,
                  Server!HandlerReceives, Server!ListenerIgnores, Server!ListenerStartsHandler,
                  Server!Lose, Server!ClientSends, Server!Shutdown, Server!ShutdownComplete
    <2> QED
      BY <2>1, <2>2, <2>3 DEF Linked, Server!ServerPorts
  <1>3. CASE UNCHANGED sysVars
    BY <1>3 DEF sysVars, vars, udpVars, userVars, peerVars, Linked, Server!Types,
                Server!ServerPorts
  <1> QED
    BY <1>1, <1>2, <1>3

-----------------------------------------------------------------------------
(* The system implements the client. *)

Joint == Linked /\ Control /\ Base!FsmInv /\ UdpDataOK /\ IdOK

LEMMA JointStep == Joint /\ [SysNext]_sysVars => [Next]_vars /\ Joint'
  <1> SUFFICES ASSUME Joint, [SysNext]_sysVars PROVE [Next]_vars /\ Joint'
    OBVIOUS
  <1>1. [Next]_vars
    BY SysStepIsNext DEF Joint, Linked
  <1>2. Control'
    BY <1>1, LabelsStep, ServerStepOK, SentStep, FlagsStep DEF Joint, Control
  <1>3. Base!FsmInv'
    BY <1>1, RefineStep, Base!StepInv DEF Joint
  <1>4. UdpDataOK' /\ IdOK'
    BY <1>1, DataStep, IdStep, BaseTypes DEF Joint
  <1>5. Linked'
    BY <1>4, LinkedStep DEF Joint
  <1> QED
    BY <1>1, <1>2, <1>3, <1>4, <1>5 DEF Joint

LEMMA AlwaysJoint == SysSpec => []Joint
  <1>1. SysInit => Joint
    BY InitLinked, InitControl, InitData, RefineInit, Base!InitInv DEF SysInit, Joint
  <1> QED
    BY <1>1, JointStep, PTL DEF SysSpec

\* Connected to the mock server the client does nothing it does not do with any
\* server, so that what is proved of it holds here.
THEOREM SystemIsClient == SysSpec => Spec
  <1>1. SysInit => Init
    BY DEF SysInit
  <1> QED
    BY <1>1, AlwaysJoint, JointStep, PTL DEF SysSpec, Spec

-----------------------------------------------------------------------------
(* Admission. *)

Admitted ==
    /\ authReplied => \E m \in toClient : m.type = "ReplyOk"
    /\ \A d \in toServer : d.type \in {"Join", "Msg"} => authReplied
    /\ Server!Origin

LEMMA AdmittedStep ==
    Joint /\ UdpDataOK' /\ TrafficOK' /\ Admitted /\ [SysNext]_sysVars => Admitted'
  <1> SUFFICES ASSUME Joint, UdpDataOK', TrafficOK', Admitted, [SysNext]_sysVars
               PROVE  Admitted'
    OBVIOUS
  <1>1. CASE ClientStep
    <2>1. /\ toClient' = toClient
          /\ \/ toServer' = toServer
             \/ \E t \in Tasks, d \in AnyRequest :
                   /\ toServer' = toServer \cup {d}
                   /\ d.type = sent'[t].type
                   /\ d.type \in {"Join", "Msg"} => t = "stdin"
      BY <1>1, ClientSends DEF Joint
    <2>2. /\ authReplied => authReplied'
          /\ authReplied' => authReplied \/ rx.type = "ReplyOk"
      <3>1. CASE Confirm
        BY <3>1, <1>1 DEF Confirm, Joint, Control, FlagsOK
      <3>2. CASE ~Confirm
        <4>1. authReplied' = authReplied
          BY <1>1, <3>2
             DEF ClientStep, UserStep, StdinStep, ServerTaskStep, Delivery, MainStep,
                 Environment, SendFails, LocalCommand, Request, EndOfInput, StdinWork,
                 SetRequestState, StartTimer, ServerWork, RunFsmNull, SetOpen, StopTimer,
                 CatchException, ReceiveCancelled, TimerElapses, ElapsedHandler,
                 CancelKeyPress, WhenAny, Receive, ReceiveMalformed, Send, SetFlag,
                 CopyUser, Retransmit, LeaveLoop, StdinVerdict, StdinSendEnds, ServerStep,
                 AssignId, Gate, ConfirmMalformed, ServerVerdict, ErrSent, SendBye,
                 ExitSilently, ExitAfterBye, Exit, StdinSendFails, ServerSendFails
        <4> QED
          BY <4>1
      <3> QED
        BY <3>1, <3>2
    <2>3. rx.type = "ReplyOk" => rx \in toClient
      BY DEF Joint, Linked, Null
    <2>4. sent'["stdin"].type \in {"Join", "Msg"} => authReplied'
      BY DEF TrafficOK
    <2>5. \A d \in toServer' : d.type \in {"Join", "Msg"} => authReplied'
      BY <2>1, <2>2, <2>4 DEF Admitted
    <2>6. Server!Origin'
      BY <2>1 DEF Admitted, Server!Origin
    <2> QED
      BY <2>1, <2>2, <2>3, <2>5, <2>6 DEF Admitted
  <1>2. CASE SysNext /\ ~ClientStep
    <2>1. authReplied' = authReplied /\ Server!ServerNext
      BY <1>2, ServerMoves DEF vars, fsmVars
    <2>2. toClient \subseteq toClient' /\ toServer' \subseteq toServer
      BY <1>2 DEF SysNext, HandlerStep, ListenerStep, Server!Handler, Server!Listener,
                  Server!HandleAuth, Server!HandlerSends, Server!IdOverflows,
                  Server!HandlerTimesOut, Server!HandlerReceives, Server!ListenerIgnores,
                  Server!ListenerStartsHandler
    <2>3. Server!Origin'
      BY <2>1, PeerFits, Server!OriginStep DEF Admitted, Joint, Linked
    <2> QED
      BY <2>1, <2>2, <2>3 DEF Admitted
  <1>3. CASE UNCHANGED sysVars
    BY <1>3 DEF sysVars, vars, fsmVars, peerVars, Admitted, Server!Origin
  <1> QED
    BY <1>1, <1>2, <1>3

\* The client takes itself for admitted only when a handler has admitted it.
THEOREM AdmissionFirst == SysSpec => []AdmittedFirst
  <1>1. SysInit => Admitted
    BY DEF SysInit, Init, FsmInit, Server!ServerInit, Admitted, Server!Origin
  <1>2. Base!FsmInv /\ Admitted => AdmittedFirst
    <2> SUFFICES ASSUME Base!FsmInv, Admitted,
                        \/ State \in {"Open", "Join"}
                        \/ \E d \in toServer : d.type \in {"Join", "Msg"}
                 PROVE  \E p \in HandlerPorts : Server!HasSent(p, {"ReplyOk"})
      BY DEF AdmittedFirst
    <2>1. authReplied
      BY DEF Base!FsmInv, Base!AuthFirst, Admitted
    <2>2. PICK m \in toClient : m.type = "ReplyOk"
      BY <2>1 DEF Admitted
    <2>3. m.port \in HandlerPorts
      BY <2>2 DEF Admitted, Server!Origin
    <2> QED
      BY <2>2, <2>3 DEF Server!HasSent
  <1>3. Joint => UdpDataOK /\ Base!FsmInv
    BY DEF Joint
  <1> QED
    BY <1>1, <1>2, <1>3, AlwaysJoint, AdmittedStep, SystemIsClient, AlwaysTraffic, PTL
       DEF SysSpec

-----------------------------------------------------------------------------
(* What the server promises holds of it when this client is its client.  Here it  *)
(* is the client that writes toServer, so that ServerSpec itself is not what the  *)
(* system does.                                                                   *)

LEMMA ServerKeeps == Joint /\ Server!HandlersOK /\ [SysNext]_sysVars => Server!HandlersOK'
  <1> SUFFICES ASSUME Joint, Server!HandlersOK, [SysNext]_sysVars
               PROVE  Server!HandlersOK'
    OBVIOUS
  <1>1. ASSUME UNCHANGED <<toClient, running, at, request, plan, last, counter, answers>>
        PROVE  Server!HandlersOK'
    <2>1. ASSUME NEW q \in HandlerPorts
          PROVE  (Server!GrantOK(q) /\ Server!NumberOK(q) /\ Server!ConfirmOK(q))'
      BY <1>1 DEF Server!HandlersOK, Server!GrantOK, Server!NumberOK, Server!ConfirmOK,
                  Server!CountsFrom, Server!From
    <2>2. Server!Origin'
      BY <1>1 DEF Server!HandlersOK, Server!Origin
    <2> QED
      BY <2>1, <2>2 DEF Server!HandlersOK
  <1>2. CASE ClientStep
    <2>1. UdpDataOK'
      BY JointStep DEF Joint
    <2> QED
      BY <1>1, <1>2, <2>1, ClientSends DEF Joint
  <1>3. CASE SysNext /\ ~ClientStep
    <2>1. Server!ServerNext
      BY <1>3, ServerMoves
    <2> QED
      BY <2>1, PeerFits, Server!HandlersStep DEF Joint, Linked
  <1>4. CASE UNCHANGED sysVars
    BY <1>1, <1>4 DEF sysVars, peerVars
  <1> QED
    BY <1>2, <1>3, <1>4

\* Whatever the client transmits, and however often: a handler admits the client before
\* it sends it anything else but a refusal, gives no id twice to what it counts, and has
\* confirmed what it last took when it waits.
THEOREM SystemServerPromises ==
    SysSpec => [](/\ Server!GrantFirst
                  /\ Server!CountedIdsUnique /\ Server!ConfirmedAtRest)
  <1>1. SysInit => Server!HandlersOK
    BY PeerFits, Server!InitHandlers DEF SysInit
  <1>2. Server!Types /\ Server!HandlersOK => /\ Server!GrantFirst
                                             /\ Server!CountedIdsUnique
                                             /\ Server!ConfirmedAtRest
    BY PeerFits, Server!HandlersPromise
  <1>3. Joint => Server!Types
    BY DEF Joint, Linked
  <1> QED
    BY <1>1, <1>2, <1>3, AlwaysJoint, ServerKeeps, PTL DEF SysSpec
=============================================================================
