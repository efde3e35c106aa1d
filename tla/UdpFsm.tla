------------------------------- MODULE UdpFsm -------------------------------
(***************************************************************************)
(* The UDP client: UdpFsm with UdpUtils, and what it relies on in          *)
(* UdpDecoder and UdpEncoder, on top of the tasks of AFsm.                 *)
(*                                                                         *)
(* The peer is any process that sends datagrams of ServerMsgs, in any      *)
(* order and any number of times: loss, duplication, delay and reordering  *)
(* are all behaviours of this specification.  Of what the client transmits *)
(* the last datagram of each task is kept.                                 *)
(*                                                                         *)
(* SnedMessage runs in two tasks.  Its accesses to MessageId and IsMsgSent *)
(* are separate steps, so are the two reads of IsMsgSent in ServerTasks.   *)
(***************************************************************************)
EXTENDS AFsm, Integers

CONSTANTS
    HalfRange,           \* 2^15: ids are 16 bits and read back as Int16
    Ports,               \* UDP ports a server sends from
    DefaultPort,         \* ProgProperty.Port at the start
    NumberOfRetransmits, \* option -r
    ServerMsgs           \* datagrams that can reach the client

\* A 16-bit id as it stands in a datagram.
WireIds == 0 .. 2 * HalfRange - 1

\* A datagram from a server.  type is DecodeServer_MsgType's answer (Null for
\* a malformed one); parses says whether ProcessMsg gets through the rest.
ServerDatagrams ==
    [type : WireTypes \cup {Null}, id : WireIds, port : Ports, parses : BOOLEAN]

ASSUME UdpAssumption ==
    /\ HalfRange \in Nat /\ HalfRange >= 2
    /\ DefaultPort \in Ports
    /\ NumberOfRetransmits \in Int
    /\ ServerMsgs \subseteq ServerDatagrams

VARIABLES
    MessageId,   \* UserProperty.MessageId
    IsMsgSent,   \* a message waits for its CONFIRM
    copyId,      \* the id in RetransmitTasks' copy of UserProperty, per task
    tries,       \* numberOfTransmits, per task
    rx,          \* the datagram ServerTasks works on
    usedNums,    \* ids whose content was printed
    shown,       \* history: datagrams whose content was printed
    port,        \* _property.Port, where the client sends to
    isMsgSent,   \* UdpUtils._isMsgSent: the socket has sent something
    sent         \* the last datagram each task transmitted

udpVars == <<MessageId, IsMsgSent, copyId, tries, rx, usedNums, shown,
             port, isMsgSent, sent>>
vars == <<fsmVars, udpVars>>

fsmData == <<State, LastInputMsgType, LastOutputMsgType, timer, elapsed, named>>

-----------------------------------------------------------------------------
(* Ids and datagrams. *)

\* Mutant: BitConverter.ToUInt16.
ToUInt16(w) == w

\* UdpDecoder: BitConverter.ToInt16 of the two id bytes.
ToInt16(w) == IF w < HalfRange THEN w ELSE w - 2 * HalfRange

\* UdpEncoder: the low 16 bits of an id, for ids -HalfRange .. 2*HalfRange-1.
ToWire(i) == IF i < 0 THEN i + 2 * HalfRange ELSE i

NoDatagram == [type |-> Null, id |-> 0, port |-> DefaultPort]

\* UdpUtils.Send by task t, to the port the last datagram came from.
Transmit(t, type, i) ==
    /\ sent' = [sent EXCEPT ![t] =
                   [type |-> type, id |-> ToWire(i), port |-> port]]
    /\ isMsgSent' = TRUE

\* The types whose content ServerTasks prints.
Displayed(m) == m.type \notin {"Confirm", "Bye", "Ping"}

\* Mutant: the ids of CONFIRMs, which are the client's own, enter usedNums too.
PrintsConfirms(m) ==
    m.type \notin {"Bye", "Ping"} /\ ToInt16(m.id) \notin usedNums

\* It prints each id once.
Prints(m) == Displayed(m) /\ ToInt16(m.id) \notin usedNums

\* A CONFIRM older than the id in use.
IsDelayedConfirm(m) == ToInt16(m.id) < MessageId /\ m.type = "Confirm"

\* Mutant: the older id of any message, not only of a CONFIRM, is left aside.
AssignsNewerId(m) == ToInt16(m.id) >= MessageId /\ ~IsMsgSent

\* Whether the id of m overwrites MessageId.
AssignsId(m) == ~(IsDelayedConfirm(m) \/ IsMsgSent)

\* Mutant: Receive does not wait for the first transmission.
NeverWaits == TRUE

\* SpinUntil in UdpUtils.Receive; it does not look at the token.
SocketReady == isMsgSent

-----------------------------------------------------------------------------
(* SnedMessage and RetransmitTasks, in the stdin task for a request and in  *)
(* the server task for an ERR.                                              *)

Senders == {"stdin", "server"}

SendLabel(t) == IF t = "stdin" THEN "send" ELSE "err"
MsgOf(t) == IF t = "stdin" THEN LastInputMsgType ELSE "Err"

\* UdpEncoder throws on a null DisplayName or MessageContent.
Send(t) ==
    /\ Running /\ pc[t] = SendLabel(t)
    /\ named
    /\ Transmit(t, MsgOf(t), MessageId)
    /\ Goto(t, "flag")
    /\ UNCHANGED <<fsmData, cancelled, authReplied, MessageId, IsMsgSent,
                   copyId, tries, rx, usedNums, shown, port>>

SetFlag(t) ==
    /\ Running /\ pc[t] = "flag"
    /\ IsMsgSent' = TRUE
    /\ Goto(t, "copy")
    /\ UNCHANGED <<fsmData, cancelled, authReplied, MessageId, copyId, tries,
                   rx, usedNums, shown, port, isMsgSent, sent>>

\* RetransmitTasks(UserProperty, ...) copies the struct, MessageId included.
CopyUser(t) ==
    /\ Running /\ pc[t] = "copy"
    /\ copyId' = [copyId EXCEPT ![t] = MessageId]
    /\ Goto(t, "loop")
    /\ UNCHANGED <<fsmData, cancelled, authReplied, MessageId, IsMsgSent, tries,
                   rx, usedNums, shown, port, isMsgSent, sent>>

\* Timeout milliseconds have passed since the last transmission.
Retransmit(t) ==
    /\ Running /\ pc[t] = "loop"
    /\ IsMsgSent /\ tries[t] < NumberOfRetransmits
    /\ Transmit(t, MsgOf(t), copyId[t])
    /\ tries' = [tries EXCEPT ![t] = @ + 1]
    /\ UNCHANGED <<fsmData, cancelled, authReplied, pc, MessageId, IsMsgSent,
                   copyId, rx, usedNums, shown, port>>

\* Mutant: the loop of RetransmitTasks does not count its transmissions.
OnlyWhenConfirmed(t) == ~IsMsgSent

\* The negated loop condition.
MayLeaveLoop(t) == ~IsMsgSent \/ tries[t] >= NumberOfRetransmits

\* The locals of RetransmitTasks go out of scope.
LeaveLoop(t) ==
    /\ Running /\ pc[t] = "loop"
    /\ MayLeaveLoop(t)
    /\ copyId' = [copyId EXCEPT ![t] = 0]
    /\ tries' = [tries EXCEPT ![t] = 0]
    /\ Goto(t, "verdict")
    /\ UNCHANGED <<fsmData, cancelled, authReplied, MessageId, IsMsgSent, rx,
                   usedNums, shown, port, isMsgSent, sent>>

\* IsMsgSent is read again: still set means "Server has timed out".
StdinVerdict ==
    /\ StdinSendEnds("verdict", ~IsMsgSent)
    /\ UNCHANGED udpVars

\* Mutant: the server task goes on after it has sent ERR.
ErrReturns ==
    /\ Running /\ pc["server"] = "verdict"
    /\ Goto("server", NextRecv)
    /\ UNCHANGED <<fsmData, cancelled, authReplied, udpVars>>

\* Whatever the outcome, an exception follows the ERR.
ServerVerdict ==
    /\ ErrSent("verdict")
    /\ UNCHANGED udpVars

-----------------------------------------------------------------------------
(* ServerTasks. *)

\* Receive returns m; SpinUntil has waited for the first transmission.  The
\* datagram is decoded, its content printed unless its id is in usedNums, and
\* IsMsgSent is read for the first time.
Receive(m) ==
    /\ Running /\ pc["server"] = "recv"
    /\ SocketReady
    /\ m.type # Null /\ m.parses
    /\ LastOutputMsgType' = m.type
    /\ rx' = m
    /\ port' = m.port
    /\ IF Prints(m)
       THEN /\ usedNums' = usedNums \cup {ToInt16(m.id)}
            /\ shown' = shown \cup {m}
       ELSE UNCHANGED <<usedNums, shown>>
    /\ Goto("server", IF AssignsId(m) THEN "assign" ELSE "gate")
    /\ UNCHANGED <<State, LastInputMsgType, timer, elapsed, named, cancelled,
                   authReplied, MessageId, IsMsgSent, copyId, tries, isMsgSent, sent>>

\* Null: CONFIRM and ERR are sent.  A datagram that decodes but does not parse
\* makes ProcessMsg throw (an empty one makes DecodeServer_MsgType throw, which
\* ends the task the same way).
ReceiveMalformed(m) ==
    /\ Running /\ pc["server"] = "recv"
    /\ SocketReady
    /\ m.type = Null \/ ~m.parses
    /\ LastOutputMsgType' = m.type
    /\ rx' = m
    /\ port' = m.port
    /\ IF m.type = Null
       THEN Goto("server", "confirmMalformed")
       ELSE Goto("server", "throw")
    /\ UNCHANGED <<State, LastInputMsgType, timer, elapsed, named, cancelled,
                   authReplied, MessageId, IsMsgSent, copyId, tries, usedNums,
                   shown, isMsgSent, sent>>

AssignId ==
    /\ Running /\ pc["server"] = "assign"
    /\ MessageId' = ToInt16(rx.id)
    /\ Goto("server", "gate")
    /\ UNCHANGED <<fsmData, cancelled, authReplied, IsMsgSent, copyId, tries,
                   rx, usedNums, shown, port, isMsgSent, sent>>

\* IsMsgSent is read again: while a message waits, a CONFIRM of any id ends the
\* wait and every other message is dropped without a CONFIRM.
Gate ==
    /\ Running /\ pc["server"] = "gate"
    /\ IF IsMsgSent
       THEN /\ IsMsgSent' = (rx.type # "Confirm")
            /\ Goto("server", NextRecv)
       ELSE /\ UNCHANGED IsMsgSent
            /\ Goto("server", "confirm")
    /\ UNCHANGED <<fsmData, cancelled, authReplied, MessageId, copyId, tries,
                   rx, usedNums, shown, port, isMsgSent, sent>>

\* SnedMessage(Confirm) and MessageId++; then RunFsm(null).
Confirm ==
    /\ Running /\ pc["server"] = "confirm"
    /\ Transmit("server", "Confirm", MessageId)
    /\ MessageId' = MessageId + 1
    /\ authReplied' = (authReplied \/ rx.type = "ReplyOk")
    /\ Goto("server", "fsm")
    /\ UNCHANGED <<fsmData, cancelled, IsMsgSent, copyId, tries, rx,
                   usedNums, shown, port>>

\* SnedMessage(Confirm) with the id in use, not the one received.
ConfirmMalformed ==
    /\ Running /\ pc["server"] = "confirmMalformed"
    /\ Transmit("server", "Confirm", MessageId)
    /\ Goto("server", "err")
    /\ UNCHANGED <<fsmData, cancelled, authReplied, MessageId, IsMsgSent,
                   copyId, tries, rx, usedNums, shown, port>>

-----------------------------------------------------------------------------
(* CleanUp is async void: it sends BYE, raises IsMsgSent and returns at its *)
(* first Task.Delay; the process exits.  Without a DisplayName UdpEncoder   *)
(* throws and no BYE is sent.                                               *)

SendBye ==
    /\ Running /\ pc["main"] = "cleanup"
    /\ named
    /\ Transmit("main", "Bye", MessageId)
    /\ Goto("main", "flag")
    /\ UNCHANGED <<fsmData, cancelled, authReplied, MessageId, IsMsgSent,
                   copyId, tries, rx, usedNums, shown, port>>

\* No BYE: UdpEncoder threw, or the host name did not resolve.
ExitSilently == Exit("cleanup") /\ UNCHANGED udpVars
ExitAfterBye == Exit("copy") /\ UNCHANGED udpVars

-----------------------------------------------------------------------------
(* UdpUtils.Send resolves the host name each time and may throw wherever a  *)
(* task sends.                                                              *)

StdinSendFails ==
    /\ pc["stdin"] \in {"send", "loop"}
    /\ StdinSendEnds(pc["stdin"], FALSE)
    /\ copyId' = [copyId EXCEPT !["stdin"] = 0]
    /\ tries' = [tries EXCEPT !["stdin"] = 0]
    /\ UNCHANGED <<MessageId, IsMsgSent, rx, usedNums, shown, port, isMsgSent,
                   sent>>

ServerSendFails ==
    /\ Running
    /\ pc["server"] \in {"confirm", "confirmMalformed", "err", "loop"}
    /\ copyId' = [copyId EXCEPT !["server"] = 0]
    /\ tries' = [tries EXCEPT !["server"] = 0]
    /\ Goto("server", "throw")
    /\ UNCHANGED <<fsmData, cancelled, authReplied, MessageId, IsMsgSent, rx,
                   usedNums, shown, port, isMsgSent, sent>>

-----------------------------------------------------------------------------
Init ==
    /\ FsmInit
    /\ MessageId = 0
    /\ IsMsgSent = FALSE
    /\ copyId = [t \in Senders |-> 0]
    /\ tries = [t \in Senders |-> 0]
    /\ rx = [type |-> Null, id |-> 0, port |-> DefaultPort, parses |-> TRUE]
    /\ usedNums = {}
    /\ shown = {}
    /\ port = DefaultPort
    /\ isMsgSent = FALSE
    /\ sent = [t \in Tasks |-> NoDatagram]

\* Steps AFsm defines completely.
Inherited ==
    /\ \/ User \/ StdinWork \/ ServerWork
       \/ (ReceiveCancelled /\ SocketReady)
       \/ TimerElapses \/ ElapsedHandler \/ CancelKeyPress
       \/ WhenAny
    /\ UNCHANGED udpVars

SnedMessage(t) ==
    Send(t) \/ SetFlag(t) \/ CopyUser(t) \/ Retransmit(t) \/ LeaveLoop(t)

ServerStep == AssignId \/ Gate \/ Confirm \/ ConfirmMalformed \/ ServerVerdict

CleanUp == SendBye \/ SetFlag("main") \/ ExitSilently \/ ExitAfterBye

Next ==
    \/ Inherited
    \/ \E t \in Senders : SnedMessage(t)
    \/ StdinVerdict
    \/ \E m \in ServerMsgs : Receive(m) \/ ReceiveMalformed(m)
    \/ ServerStep
    \/ CleanUp
    \/ StdinSendFails \/ ServerSendFails

Spec == Init /\ [][Next]_vars

\* Both tasks, the thread pool and the main task are scheduled and time passes
\* in RetransmitTasks.  Nothing obliges the user, the network or the clock.
Fairness ==
    /\ WF_vars(SnedMessage("stdin") \/ StdinVerdict
               \/ (StdinWork /\ UNCHANGED udpVars))
    /\ WF_vars(SnedMessage("server") \/ ServerStep
               \/ ((ServerWork \/ (ReceiveCancelled /\ SocketReady))
                      /\ UNCHANGED udpVars))
    /\ WF_vars(ElapsedHandler /\ UNCHANGED udpVars)
    /\ WF_vars(CleanUp \/ (WhenAny /\ UNCHANGED udpVars))

FairSpec == Spec /\ Fairness

-----------------------------------------------------------------------------
(* The class UdpFsm implements its base class: every SnedMessage is one send *)
(* of AFsm, every call of ServerTasks hands at most one type to the FSM.     *)
(* AFsmProofs is AFsm with its theorems, so that they hold of Base.          *)

Waiting == {"flag", "copy", "loop", "verdict"}

BaseLabel(t) ==
    CASE t = "stdin" /\ pc[t] \in Waiting                     -> "send"
      [] t = "server" /\ pc[t] \in {"assign", "gate", "confirm",
                                     "confirmMalformed"}      -> "recv"
      [] t = "server" /\ pc[t] \in Waiting                    -> "err"
      [] t = "main" /\ pc[t] \in {"flag", "copy"}             -> "cleanup"
      [] OTHER                                                -> pc[t]

Base == INSTANCE AFsmProofs WITH pc <- [t \in Tasks |-> BaseLabel(t)]

\* UdpFsm is an AFsm.
ImplementsAFsm == Base!FsmSpec

-----------------------------------------------------------------------------
(* Properties. *)

TypeOK ==
    /\ Base!FsmTypeOK
    /\ DOMAIN pc = Tasks
    /\ MessageId \in -HalfRange .. HalfRange + 1
    /\ IsMsgSent \in BOOLEAN /\ isMsgSent \in BOOLEAN
    /\ copyId \in [Senders -> -HalfRange .. HalfRange + 1]
    /\ tries \in [Senders -> Nat]
    /\ rx \in ServerDatagrams
    /\ usedNums \subseteq -HalfRange .. HalfRange - 1
    /\ shown \subseteq ServerMsgs
    /\ port \in Ports
    /\ sent \in [Tasks -> [type : MessageTypes \cup {Null}, id : WireIds,
                            port : Ports]]

\* ServerTasks has passed the gate with rx and is acting on it.
Acting ==
    \/ pc["server"] \in {"fsm", "open", "stopTimer"}
    \/ pc["server"] = "err" /\ rx.type # Null

ConfirmOf(m) == [type |-> "Confirm", id |-> m.id, port |-> m.port]

\* The FSM acts on a server message only after a CONFIRM with that message's
\* id went to the port it came from, although the id travels through the field
\* MessageId, which the stdin task reads, and IsMsgSent may be raised between
\* the two reads that decide whether MessageId is overwritten.
ConfirmedBeforeActed ==
    Acting /\ rx.type # "Confirm" => sent["server"] = ConfirmOf(rx)

SameMessage(a, b) == a.type = b.type /\ a.id = b.id

\* The server never uses one id for two messages.
DistinctServerIds ==
    \A a, b \in ServerMsgs :
        Displayed(a) /\ Displayed(b) /\ a.id = b.id => a.type = b.type

\* If the server's ids are unique, no message is acted on whose content was
\* not printed: a message dropped while a request waited for its CONFIRM was
\* printed then, and one suppressed as a repetition was printed before.
ShownBeforeActed ==
    DistinctServerIds /\ Acting /\ Displayed(rx)
    => \E m \in shown : SameMessage(m, rx)

\* If the server's ids are unique, no JOIN and no MSG leaves the client before
\* the user was shown a REPLY OK.
TrafficAfterShownOk ==
    DistinctServerIds /\ sent["stdin"].type \in {"Join", "Msg"}
    => \E m \in shown : m.type = "ReplyOk"

\* UdpEncoder never sees a null name in the server task: SpinUntil holds the
\* task back until a first message, with names, was sent.
NamedBeforeReceive == pc["server"] # "recv" => named

\* A message the user sends is confirmed or given up: the stdin task does not
\* stay in SnedMessage.
SendSettles ==
    pc["stdin"] \in {"send"} \cup Waiting
    ~> pc["stdin"] \in {"read", "done"} \/ pc["main"] = "exited"

\* ERR ends the client, although the server task itself waits for the CONFIRM
\* of the ERR and so nobody is left to receive it.
ErrEndsClient == pc["server"] = "err" ~> pc["main"] = "exited"

\* Cancelled, and with a first message sent, the client ends.
CancelledExitsOnceSent == cancelled /\ isMsgSent ~> pc["main"] = "exited"

-----------------------------------------------------------------------------
(* Statements of the comments that the code does not meet.                  *)

\* Ctrl+C ends the client.
CancelledExitsAlways == cancelled ~> pc["main"] = "exited"

\* "Client should ignore the second, but CONFIRM both": once the JOIN sent last is
\* answered, another REPLY is no error.
SecondReplyIgnored ==
    sent["stdin"].type = "Join" /\ pc["stdin"] = "read" /\ State = "Open"
    => ~(pc["server"] = "err" /\ rx.type \in Replies)
=============================================================================
