----------------------------- MODULE UdpSystem -----------------------------
(***************************************************************************)
(* The UDP client and the mock UDP server.  A step of the client is a step *)
(* of UdpFsm that receives only what the server has sent, to the ports the *)
(* server sends from; what it transmits is on its way to the server.       *)
(*                                                                         *)
(* Its CONFIRMs are left out of toServer: the server drops them, they are  *)
(* too short for parse_message (UdpServer).                                *)
(***************************************************************************)
EXTENDS UdpFsm

CONSTANTS
    HandlerPorts, RandomIds,   \* UdpServer; its listener has the DefaultPort
    AskedTests,                \* what the user's lines ask the server for
    MaxTyped                   \* bound: lines the user types

ASSUME TypedAssumption == MaxTyped \in Nat

VARIABLES
    typed,                     \* how many lines the user has typed
    test,                      \* what the last of them asks the server for
    toServer, toClient, running, at, request, plan, last, counter,
    answers                    \* UdpServer

\* What this client can send; how much it sends depends on the client.
AnyRequest ==
    [type : {"Auth", "Join", "Msg", "Err", "Bye"}, id : WireIds,
     port : HandlerPorts \cup {DefaultPort}, test : AskedTests \cup {"none"}]

\* UdpServerProofs is UdpServer with its theorems.
Server == INSTANCE UdpServerProofs WITH
              ListenPort <- DefaultPort,
              ClientMsgs <- AnyRequest,
              MaxSent <- 0, nsent <- 0

ASSUME PeerAssumption ==
    /\ Server!ServerPorts \subseteq Ports /\ Server!Sent \subseteq ServerMsgs
    /\ DefaultPort \notin HandlerPorts
    /\ RandomIds \subseteq 1 .. Server!MaxId
    /\ AskedTests \subseteq Server!Tests

userVars == <<typed, test>>
peerVars == <<toServer, toClient, running, at, request, plan, last, counter, answers>>
sysVars == <<vars, userVars, peerVars>>

-----------------------------------------------------------------------------
(* The client. *)

Silent == UNCHANGED <<userVars, peerVars>>

\* What task t has transmitted is on its way.  The test is part of the content,
\* which a retransmission repeats.
OnItsWay(t) ==
    /\ toServer' = toServer \cup
          {[type |-> sent'[t].type, id |-> sent'[t].id, port |-> sent'[t].port,
            test |-> IF t = "stdin" THEN test ELSE "none"]}
    /\ UNCHANGED <<userVars, toClient, running, at, request, plan, last, counter, answers>>

UserStep ==
    /\ \/ /\ typed < MaxTyped
          /\ typed' = typed + 1
          /\ test' \in AskedTests
          /\ \E t \in LineTypes : LocalCommand(t) \/ Request(t)
       \/ UNCHANGED userVars /\ EndOfInput
    /\ UNCHANGED <<udpVars, peerVars>>

StdinStep ==
    \/ (Send("stdin") \/ Retransmit("stdin")) /\ OnItsWay("stdin")
    \/ (SetFlag("stdin") \/ CopyUser("stdin") \/ LeaveLoop("stdin")) /\ Silent
    \/ StdinVerdict /\ Silent
    \/ StdinWork /\ UNCHANGED udpVars /\ Silent

ServerTaskStep ==
    \/ (Send("server") \/ Retransmit("server")) /\ OnItsWay("server")
    \/ (SetFlag("server") \/ CopyUser("server") \/ LeaveLoop("server")) /\ Silent
    \/ ServerStep /\ Silent
    \/ (ServerWork \/ (ReceiveCancelled /\ SocketReady)) /\ UNCHANGED udpVars /\ Silent

\* The network delivers any datagram the server has sent, late, repeatedly or
\* never.
Delivery ==
    /\ \E m \in toClient : Receive(m) \/ ReceiveMalformed(m)
    /\ Silent

MainStep ==
    \/ SendBye /\ OnItsWay("main")
    \/ (SetFlag("main") \/ ExitSilently \/ ExitAfterBye) /\ Silent
    \/ WhenAny /\ UNCHANGED udpVars /\ Silent

Environment ==
    (TimerElapses \/ ElapsedHandler \/ CancelKeyPress) /\ UNCHANGED udpVars /\ Silent

SendFails == (StdinSendFails \/ ServerSendFails) /\ Silent

ClientStep ==
    \/ UserStep \/ StdinStep \/ ServerTaskStep \/ Delivery \/ MainStep
    \/ Environment \/ SendFails

-----------------------------------------------------------------------------
(* The server and the network to it. *)

HandlerStep(p) == UNCHANGED <<vars, userVars>> /\ Server!Handler(p)
ListenerStep == UNCHANGED <<vars, userVars>> /\ Server!Listener

-----------------------------------------------------------------------------
SysInit ==
    /\ Init
    /\ Server!ServerInit
    /\ typed = 0 /\ test = "none"

SysNext ==
    \/ ClientStep
    \/ \E p \in HandlerPorts : HandlerStep(p)
    \/ ListenerStep

SysSpec == SysInit /\ [][SysNext]_sysVars

-----------------------------------------------------------------------------
(* Properties. *)

\* The client takes itself for admitted, and a JOIN or MSG of it is on its way, only
\* when a handler has admitted it, whatever datagrams are lost, late or repeated,
\* however many handlers its AUTHs have started, and although the random id of a
\* REPLY may be that of another message.
AdmittedFirst ==
    \/ State \in {"Open", "Join"}
    \/ \E d \in toServer : d.type \in {"Join", "Msg"}
    => \E p \in HandlerPorts : Server!HasSent(p, {"ReplyOk"})

\* "All subsequent messages (JOIN, MSG, BYE from client; ...) between that client
\* and server use the dynamic port."
TrafficOnDynamicPort ==
    \A d \in toServer : d.type \in {"Join", "Msg"} => d.port \in HandlerPorts
=============================================================================
