----------------------------- MODULE UdpServer -----------------------------
(***************************************************************************)
(* The mock UDP server (udp_ipk25_server.py) and one client: the listener  *)
(* of run_server, and the handler threads it starts, one for every AUTH    *)
(* datagram, each with a socket, a port and a message counter of its own.  *)
(*                                                                         *)
(* Datagrams to the server can be lost and overtake each other, and a      *)
(* client may send one again.  Of those to the client all are kept: the    *)
(* network may deliver each of them late, repeatedly or never.             *)
(***************************************************************************)
EXTENDS ChatTypes, Integers, Sequences

CONSTANTS
    HalfRange,      \* 2^15: ids are 16 bits
    ListenPort,     \* DEFAULT_PORT
    HandlerPorts,   \* dynamic ports; bound: as many handlers as there are ports
    RandomIds,      \* bound: what random.randint(1, 0xFFFF) returns
    ClientMsgs,     \* what the client may send
    MaxSent         \* bound: datagrams the client sends

MaxId == 2 * HalfRange - 1
ServerPorts == HandlerPorts \cup {ListenPort}

\* What the user name, the channel or the text asks the server to do; "none" is
\* the normal answer.
Tests == {"none", "fail", "timeout", "noconfirm", "servererr", "serverbye",
          "malformed"}

Requests ==
    [type : {"Auth", "Join", "Msg", "Bye", "Err", "Confirm"}, id : 0 .. MaxId,
     port : ServerPorts, test : Tests]

ASSUME UdpServerAssumption ==
    /\ HalfRange \in Nat /\ HalfRange >= 1
    /\ ListenPort \notin HandlerPorts
    /\ RandomIds \subseteq 1 .. MaxId
    /\ ClientMsgs \subseteq Requests
    /\ MaxSent \in Nat

VARIABLES
    toServer,    \* datagrams on their way to the server
    nsent,       \* how many the client has sent
    toClient,    \* all datagrams the server has sent
    running,     \* the loop condition of run_server
    at,          \* where the handler of each port is
    request,     \* the datagram it works on, or worked on last
    plan,        \* what it has yet to send for that datagram
    last,        \* it breaks when it has sent it
    counter,     \* its server_msg_id_counter
    answers      \* history: the ids of all it has sent but CONFIRMs, in order

handlerVars == <<at, request, plan, last, counter, answers>>
serverVars == <<toServer, nsent, toClient, running, handlerVars>>

NoRequest == [type |-> "Confirm", id |-> 0, port |-> ListenPort, test |-> "none"]

-----------------------------------------------------------------------------
(* What a handler sends for a datagram, in order.  A message takes the id   *)
(* of the request, the counter or a random id.                              *)

Echo(type) == [type |-> type, id |-> "request"]
Count(type) == [type |-> type, id |-> "counter"]
Random(type) == [type |-> type, id |-> "random"]
\* A MSG without the null byte at its end, which the client decodes to no type.
Truncated == Count(Null)

\* The initial AUTH; "timeout" sends no REPLY.  (A delayed REPLY is a REPLY.)
AuthPlan(test) ==
    CASE test = "timeout" -> << >>
      [] test = "fail"    -> <<Random("ReplyNok")>>
      [] OTHER            -> <<Random("ReplyOk"), Count("Msg")>>

\* Mutant: the branch of "failjoin" clears send_confirm as well.
FailsUnconfirmed(test) ==
    CASE test = "timeout" -> <<Echo("Confirm")>>
      [] test = "fail"    -> <<Count("ReplyNok")>>
      [] OTHER            -> <<Echo("Confirm"), Count("ReplyOk"), Count("Msg")>>

\* "fail" answers before it confirms.  (A duplicate REPLY is the same datagram
\* again, which the network can do as well.)
JoinPlan(test) ==
    CASE test = "timeout" -> <<Echo("Confirm")>>
      [] test = "fail"    -> <<Count("ReplyNok"), Echo("Confirm")>>
      [] OTHER            -> <<Echo("Confirm"), Count("ReplyOk"), Count("Msg")>>

\* "servererr" and "serverbye" break before the CONFIRM is sent.
MsgPlan(test) ==
    CASE test = "noconfirm" -> <<Count("Msg")>>
      [] test = "servererr" -> <<Count("Err")>>
      [] test = "serverbye" -> <<Count("Bye")>>
      [] test = "malformed" -> <<Truncated>>
      [] OTHER              -> <<Echo("Confirm"), Count("Msg")>>

\* Everything else that parses is confirmed, a second AUTH included.
PlanFor(d) ==
    CASE d.type = "Join" -> JoinPlan(d.test)
      [] d.type = "Msg"  -> MsgPlan(d.test)
      [] OTHER           -> <<Echo("Confirm")>>

\* break.
Breaks(d) ==
    d.type = "Bye" \/ (d.type = "Msg" /\ d.test \in {"servererr", "serverbye"})

\* The client's three-byte CONFIRM is "too short" for parse_message.
Parses(d) == d.type # "Confirm"

-----------------------------------------------------------------------------
(* run_server. *)

Confirmation(d, p) ==
    [type |-> "Confirm", id |-> d.id, port |-> p, parses |-> TRUE]

\* An AUTH is confirmed from the listener's port; a handler is started.
ListenerStartsHandler(d, p) ==
    /\ running
    /\ d \in toServer /\ d.port = ListenPort /\ d.type = "Auth"
    /\ at[p] = "unused"
    /\ toServer' = toServer \ {d}
    /\ toClient' = toClient \cup {Confirmation(d, ListenPort)}
    /\ at' = [at EXCEPT ![p] = "auth"]
    /\ request' = [request EXCEPT ![p] = d]
    /\ UNCHANGED <<nsent, running, plan, last, counter, answers>>

ListenerIgnores(d) ==
    /\ running
    /\ d \in toServer /\ d.port = ListenPort /\ d.type # "Auth"
    /\ toServer' = toServer \ {d}
    /\ UNCHANGED <<nsent, toClient, running, handlerVars>>

\* SIGINT: the listening socket is closed.  The handlers get up to five seconds.
Shutdown ==
    /\ running
    /\ running' = FALSE
    /\ UNCHANGED <<toServer, nsent, toClient, handlerVars>>

\* run_server returns, and the daemon threads die.
ShutdownComplete ==
    /\ ~running
    /\ \E p \in HandlerPorts : at[p] # "closed"
    /\ at' = [p \in HandlerPorts |-> "closed"]
    /\ UNCHANGED <<toServer, nsent, toClient, running, request, plan, last, counter,
                   answers>>

-----------------------------------------------------------------------------
(* client_handler. *)

\* A handler has sent its plan, or has none: authenticated, or break.
WhenSent(p, rest, breaks) ==
    IF rest # << >> THEN "send" ELSE IF breaks THEN "closed" ELSE "recv"

\* Mutant: authenticated is set beside simulate_timeout.
UnlessRefused(test) == test # "fail"

\* authenticated: a REPLY OK is sent.
Authenticates(test) == test \notin {"fail", "timeout"}

\* Initial AUTH processing.  Without a REPLY OK the loop is not entered.
HandleAuth(p) ==
    /\ at[p] = "auth"
    /\ plan' = [plan EXCEPT ![p] = AuthPlan(request[p].test)]
    /\ last' = [last EXCEPT ![p] = ~Authenticates(request[p].test)]
    /\ at' = [at EXCEPT ![p] = WhenSent(p, plan'[p], last'[p])]
    /\ UNCHANGED <<toServer, nsent, toClient, running, request, counter, answers>>

\* handler_sock.recvfrom and parse_message.
HandlerReceives(p, d) ==
    /\ at[p] = "recv"
    /\ d \in toServer /\ d.port = p
    /\ toServer' = toServer \ {d}
    /\ IF Parses(d)
       THEN /\ request' = [request EXCEPT ![p] = d]
            /\ plan' = [plan EXCEPT ![p] = PlanFor(d)]
            /\ last' = [last EXCEPT ![p] = Breaks(d)]
            /\ at' = [at EXCEPT ![p] = "send"]
       ELSE UNCHANGED <<request, plan, last, at>>
    /\ UNCHANGED <<nsent, toClient, running, counter, answers>>

\* Mutant: the REPLY to a JOIN does not count, as that to an AUTH does not.
RepliesUncounted(p, m) ==
    IF m.id = "counter" /\ m.type \notin Replies THEN counter[p] + 1 ELSE counter[p]

\* server_msg_id_counter += 1, for every message but a CONFIRM and the REPLY to
\* the AUTH.
Incremented(p, m) == IF m.id = "counter" THEN counter[p] + 1 ELSE counter[p]

IdsFor(p, m) ==
    CASE m.id = "request" -> {request[p].id}
      [] m.id = "counter" -> {Incremented(p, m)}
      [] m.id = "random"  -> RandomIds

\* handler_sock.sendto.
HandlerSends(p) ==
    /\ at[p] = "send"
    /\ LET m == Head(plan[p])
       IN  /\ \E i \in IdsFor(p, m) :
                 /\ i <= MaxId
                 /\ toClient' = toClient \cup
                       {[type |-> m.type, id |-> i, port |-> p, parses |-> TRUE]}
                 /\ answers' = IF m.type = "Confirm" THEN answers
                               ELSE [answers EXCEPT ![p] = Append(@, i)]
           /\ counter' = [counter EXCEPT ![p] = Incremented(p, m)]
    /\ plan' = [plan EXCEPT ![p] = Tail(@)]
    /\ at' = [at EXCEPT ![p] = WhenSent(p, plan'[p], last[p])]
    /\ UNCHANGED <<toServer, nsent, running, request, last>>

\* Mutant: the handler does not break after such an exception.
IdOverflowsOn(p) ==
    /\ at[p] = "send"
    /\ Head(plan[p]).id = "counter" /\ counter[p] >= MaxId
    /\ at' = [at EXCEPT ![p] = "recv"]
    /\ counter' = [counter EXCEPT ![p] = @ + 2]
    /\ UNCHANGED <<toServer, nsent, toClient, running, request, plan, last, answers>>

\* struct.pack(">BH...") of an id above 0xFFFF raises struct.error, and so does
\* that of the ERR the handler then tries to send.
IdOverflows(p) ==
    /\ at[p] = "send"
    /\ Head(plan[p]).id = "counter" /\ counter[p] >= MaxId
    /\ at' = [at EXCEPT ![p] = "closed"]
    /\ counter' = [counter EXCEPT ![p] = @ + 2]
    /\ UNCHANGED <<toServer, nsent, toClient, running, request, plan, last, answers>>

\* Mutant: continue instead of break.
TimesOutAgain(p) == at[p] = "recv" /\ UNCHANGED serverVars

\* 60 seconds without a datagram.
HandlerTimesOut(p) ==
    /\ at[p] = "recv"
    /\ at' = [at EXCEPT ![p] = "closed"]
    /\ UNCHANGED <<toServer, nsent, toClient, running, request, plan, last, counter,
                   answers>>

-----------------------------------------------------------------------------
(* The network and any client. *)

Lose(d) ==
    /\ d \in toServer
    /\ toServer' = toServer \ {d}
    /\ UNCHANGED <<nsent, toClient, running, handlerVars>>

ClientSends(d) ==
    /\ nsent < MaxSent
    /\ nsent' = nsent + 1
    /\ toServer' = toServer \cup {d}
    /\ UNCHANGED <<toClient, running, handlerVars>>

-----------------------------------------------------------------------------
ServerInit ==
    /\ toServer = {}
    /\ nsent = 0
    /\ toClient = {}
    /\ running = TRUE
    /\ at = [p \in HandlerPorts |-> "unused"]
    /\ request = [p \in HandlerPorts |-> NoRequest]
    /\ plan = [p \in HandlerPorts |-> << >>]
    /\ last = [p \in HandlerPorts |-> FALSE]
    /\ counter = [p \in HandlerPorts |-> 0]
    /\ answers = [p \in HandlerPorts |-> << >>]

Handler(p) ==
    \/ HandleAuth(p) \/ HandlerSends(p) \/ IdOverflows(p) \/ HandlerTimesOut(p)
    \/ \E d \in toServer : HandlerReceives(p, d)

Listener ==
    \E d \in toServer :
        ListenerIgnores(d) \/ \E p \in HandlerPorts : ListenerStartsHandler(d, p)

ServerNext ==
    \/ Listener \/ Shutdown \/ ShutdownComplete
    \/ \E p \in HandlerPorts : Handler(p)
    \/ \E d \in toServer : Lose(d)
    \/ \E d \in ClientMsgs : ClientSends(d)

ServerSpec == ServerInit /\ [][ServerNext]_serverVars

\* Every handler thread is scheduled, and 60 seconds pass for one that receives
\* nothing.  The network need not deliver anything.
ServerFairSpec ==
    ServerSpec /\ \A p \in HandlerPorts : WF_serverVars(Handler(p))

-----------------------------------------------------------------------------
(* Properties. *)

Sendable == {"Confirm", "ReplyOk", "ReplyNok", "Msg", "Err", "Bye", Null}
PlanItems == [type : Sendable, id : {"request", "counter", "random"}]
Sent == [type : Sendable, id : 0 .. MaxId, port : ServerPorts, parses : {TRUE}]

ServerTypeOK ==
    /\ toServer \subseteq ClientMsgs /\ nsent \in 0 .. MaxSent
    /\ toClient \subseteq Sent
    /\ running \in BOOLEAN
    /\ at \in [HandlerPorts -> {"unused", "auth", "send", "recv", "closed"}]
    /\ request \in [HandlerPorts -> Requests]
    /\ plan \in [HandlerPorts -> Seq(PlanItems)]
    /\ last \in [HandlerPorts -> BOOLEAN]
    /\ counter \in [HandlerPorts -> 0 .. MaxId + 2]
    /\ answers \in [HandlerPorts -> Seq(0 .. MaxId)]
    /\ \A p \in HandlerPorts : at[p] = "send" => plan[p] # << >>

\* This handler has sent a message of one of these types.
HasSent(p, types) == \E m \in toClient : m.port = p /\ m.type \in types

\* A handler that has not sent REPLY OK sends nothing but one REPLY NOK, and
\* never reads another datagram, whatever the AUTH asked for.
GrantFirst ==
    \A p \in HandlerPorts :
        ~HasSent(p, {"ReplyOk"}) =>
            /\ ~HasSent(p, Sendable \ {"ReplyNok"})
            /\ at[p] # "recv"
            /\ HasSent(p, {"ReplyNok"}) => at[p] = "closed"

\* A handler that waits for the next request has confirmed the last one it took
\* from its port, also where it answered before it confirmed; the exceptions are
\* the tests that ask for no CONFIRM.
ConfirmedAtRest ==
    \A p \in HandlerPorts :
        at[p] = "recv" /\ request[p].port = p
        => \/ Confirmation(request[p], p) \in toClient
           \/ request[p].type = "Msg" /\ request[p].test \in {"noconfirm", "malformed"}

\* A handler gives no id to two messages -- a REPLY to a JOIN, a MSG, an ERR, a BYE --
\* although each branch counts for itself and the counter may reach its end.  (The
\* first it sends is the REPLY to the AUTH, whose random id a later one may repeat.)
CountedIdsUnique ==
    \A p \in HandlerPorts : \A i, j \in 2 .. Len(answers[p]) :
        answers[p][i] = answers[p][j] => i = j

\* A client that falls silent leaves no handler behind, wherever it stopped.
HandlerEnds ==
    \A p \in HandlerPorts : at[p] # "unused" ~> at[p] = "closed"

-----------------------------------------------------------------------------
(* A statement of the comments that the code does not meet.                 *)

\* "Confirm the trigger message": a MSG that makes the handler send ERR or BYE and
\* end is confirmed as every other is.
TriggerConfirmed ==
    \A p \in HandlerPorts :
        running /\ at[p] = "closed" /\ HasSent(p, {"Err", "Bye"})
        => Confirmation(request[p], p) \in toClient
=============================================================================
