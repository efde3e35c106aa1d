--------------------------- MODULE UdpServerProofs ---------------------------
(***************************************************************************)
(* What holds of the mock UDP server for any client, any number of         *)
(* handlers and ids of any width, and whatever the network loses or        *)
(* reorders.                                                               *)
(***************************************************************************)
EXTENDS UdpServer, SequenceTheorems, TLAPS

(* The plans. *)

\* From its n-th message on, a plan counts all but CONFIRMs.
CountsFrom(s, n) ==
    \A i \in n .. Len(s) : s[i].type = "Confirm" \/ s[i].id = "counter"

LEMMA Items ==
    /\ \A t \in Sendable :
          /\ Echo(t) \in PlanItems /\ Count(t) \in PlanItems /\ Random(t) \in PlanItems
          /\ Echo(t).type = t /\ Count(t).type = t /\ Random(t).type = t
          /\ Count(t).id = "counter"
    /\ Truncated \in PlanItems /\ Truncated.id = "counter"
  BY DEF PlanItems, Echo, Count, Random, Truncated, Sendable

LEMMA AuthPlans ==
    ASSUME NEW test
    PROVE  /\ AuthPlan(test) \in Seq(PlanItems) /\ CountsFrom(AuthPlan(test), 2)
           /\ AuthPlan(test) = << >> => ~Authenticates(test)
           /\ AuthPlan(test) # << >> =>
                 \/ AuthPlan(test)[1].type = "ReplyOk"
                 \/ /\ AuthPlan(test)[1] = Random("ReplyNok") /\ Len(AuthPlan(test)) = 1
                    /\ ~Authenticates(test)
  <1>1. CASE test = "timeout"
    BY <1>1 DEF AuthPlan, CountsFrom, Authenticates
  <1>2. CASE test = "fail"
    BY <1>2, Items DEF AuthPlan, CountsFrom, Authenticates, Sendable
  <1>3. CASE test \notin {"timeout", "fail"}
    BY <1>3, Items DEF AuthPlan, CountsFrom, Authenticates, Sendable
  <1> QED
    BY <1>1, <1>2, <1>3

LEMMA Plans ==
    ASSUME NEW d \in Requests
    PROVE  /\ PlanFor(d) \in Seq(PlanItems) /\ CountsFrom(PlanFor(d), 1)
           /\ PlanFor(d) # << >>
           /\ \/ \E i \in 1 .. Len(PlanFor(d)) : PlanFor(d)[i] = Echo("Confirm")
              \/ Breaks(d)
              \/ d.type = "Msg" /\ d.test \in {"noconfirm", "malformed"}
  <1> USE Items DEF Sendable
  <1>1. CASE d.type = "Join"
    <2>1. PlanFor(d) \in {<<Echo("Confirm")>>, <<Count("ReplyNok"), Echo("Confirm")>>,
                          <<Echo("Confirm"), Count("ReplyOk"), Count("Msg")>>}
      BY <1>1 DEF PlanFor, JoinPlan
    <2>2. CASE PlanFor(d) = <<Echo("Confirm")>>
      BY <2>2 DEF CountsFrom
    <2>3. CASE PlanFor(d) = <<Count("ReplyNok"), Echo("Confirm")>>
      BY <2>3 DEF CountsFrom
    <2>4. CASE PlanFor(d) = <<Echo("Confirm"), Count("ReplyOk"), Count("Msg")>>
      BY <2>4 DEF CountsFrom
    <2> QED
      BY <2>1, <2>2, <2>3, <2>4
  <1>2. CASE d.type = "Msg"
    <2>1. \/ PlanFor(d) = <<Count("Msg")>> /\ d.test = "noconfirm"
          \/ PlanFor(d) = <<Count("Err")>> /\ d.test = "servererr"
          \/ PlanFor(d) = <<Count("Bye")>> /\ d.test = "serverbye"
          \/ PlanFor(d) = <<Truncated>> /\ d.test = "malformed"
          \/ PlanFor(d) = <<Echo("Confirm"), Count("Msg")>>
      BY <1>2 DEF PlanFor, MsgPlan
    <2>2. CASE PlanFor(d) = <<Count("Msg")>> /\ d.test = "noconfirm"
      BY <1>2, <2>2 DEF CountsFrom
    <2>3. CASE PlanFor(d) = <<Count("Err")>> /\ d.test = "servererr"
      BY <1>2, <2>3 DEF CountsFrom, Breaks
    <2>4. CASE PlanFor(d) = <<Count("Bye")>> /\ d.test = "serverbye"
      BY <1>2, <2>4 DEF CountsFrom, Breaks
    <2>5. CASE PlanFor(d) = <<Truncated>> /\ d.test = "malformed"
      BY <1>2, <2>5 DEF CountsFrom
    <2>6. CASE PlanFor(d) = <<Echo("Confirm"), Count("Msg")>>
      BY <2>6 DEF CountsFrom
    <2> QED
      BY <2>1, <2>2, <2>3, <2>4, <2>5, <2>6
  <1>3. CASE d.type \notin {"Join", "Msg"}
    <2>1. PlanFor(d) = <<Echo("Confirm")>>
      BY <1>3 DEF PlanFor
    <2> QED
      BY <2>1 DEF CountsFrom
  <1> QED
    BY <1>1, <1>2, <1>3

\* What is left of a plan when its first message is sent.
LEMMA RestOfPlan ==
    ASSUME NEW s \in Seq(PlanItems), s # << >>
    PROVE  /\ Tail(s) \in Seq(PlanItems)
           /\ Len(s) \in Nat \ {0} /\ Len(Tail(s)) = Len(s) - 1
           /\ Head(s) = s[1] /\ s[1] \in PlanItems
           /\ \A i \in 1 .. Len(s) - 1 : Tail(s)[i] = s[i + 1]
           /\ Len(s) = 1 <=> Tail(s) = << >>
           /\ CountsFrom(s, 2) => CountsFrom(Tail(s), 1)
           /\ CountsFrom(s, 1) => CountsFrom(s, 2)
  <1>1. Len(s) \in Nat \ {0}
    BY LenProperties, EmptySeq
  <1>2. /\ Tail(s) \in Seq(PlanItems) /\ Len(Tail(s)) = Len(s) - 1
        /\ \A i \in 1 .. Len(s) - 1 : Tail(s)[i] = s[i + 1]
        /\ Head(s) \in PlanItems /\ Head(s) = s[1]
    BY <1>1, HeadTailProperties
  <1>3. Len(s) = 1 <=> Tail(s) = << >>
    <2>1. Tail(s) = << >> <=> Len(Tail(s)) = 0
      BY <1>2, EmptySeq
    <2> QED
      BY <1>1, <1>2, <2>1
  <1>4. CountsFrom(s, 2) => CountsFrom(Tail(s), 1)
    <2>1. ASSUME NEW i \in 1 .. Len(Tail(s))
          PROVE  i + 1 \in 2 .. Len(s) /\ Tail(s)[i] = s[i + 1]
      BY <1>1, <1>2
    <2> QED
      BY <2>1 DEF CountsFrom
  <1>5. CountsFrom(s, 1) => CountsFrom(s, 2)
    <2>1. \A i \in 2 .. Len(s) : i \in 1 .. Len(s)
      BY <1>1
    <2> QED
      BY <2>1 DEF CountsFrom
  <1> QED
    BY <1>1, <1>2, <1>3, <1>4, <1>5

-----------------------------------------------------------------------------
(* Types. *)

Labels == {"unused", "auth", "send", "recv", "closed"}

Types ==
    /\ toServer \subseteq ClientMsgs /\ nsent \in 0 .. MaxSent
    /\ toClient \subseteq Sent
    /\ running \in BOOLEAN
    /\ at \in [HandlerPorts -> Labels]
    /\ request \in [HandlerPorts -> Requests]
    /\ plan \in [HandlerPorts -> Seq(PlanItems)]
    /\ last \in [HandlerPorts -> BOOLEAN]
    /\ counter \in [HandlerPorts -> 0 .. MaxId + 2]
    /\ answers \in [HandlerPorts -> Seq(0 .. MaxId)]
    /\ \A p \in HandlerPorts :
          /\ at[p] = "send" => plan[p] # << >>
          /\ at[p] # "closed" => counter[p] <= MaxId

LEMMA MaxIdNat == MaxId \in Nat \ {0}
  BY UdpServerAssumption DEF MaxId

LEMMA InitTypes == ServerInit => Types
  <1> SUFFICES ASSUME ServerInit PROVE Types
    OBVIOUS
  <1>1. NoRequest \in Requests
    BY MaxIdNat DEF NoRequest, Requests, ServerPorts, Tests
  <1>2. << >> \in Seq(PlanItems) /\ << >> \in Seq(0 .. MaxId)
    OBVIOUS
  <1>3. 0 \in 0 .. MaxSent /\ 0 \in 0 .. MaxId + 2 /\ 0 <= MaxId
    BY MaxIdNat, UdpServerAssumption
  <1> QED
    BY <1>1, <1>2, <1>3 DEF ServerInit, Types, Labels

\* What a handler sends: the first message of its plan, with an id.
LEMMA Sending ==
    ASSUME Types, NEW p \in HandlerPorts, HandlerSends(p)
    PROVE  /\ at[p] = "send" /\ plan[p] # << >>
           /\ plan[p][1] \in PlanItems
           /\ \E new \in Sent :
                 /\ toClient' = toClient \cup {new}
                 /\ new.port = p /\ new.type = plan[p][1].type
                 /\ plan[p][1].id = "request" => new.id = request[p].id
                 /\ plan[p][1].id = "counter" => new.id = counter[p] + 1
                 /\ answers'[p] = IF plan[p][1].type = "Confirm" THEN answers[p]
                                  ELSE Append(answers[p], new.id)
           /\ \A q \in HandlerPorts : q # p => answers'[q] = answers[q]
           /\ answers' \in [HandlerPorts -> Seq(0 .. MaxId)]
           /\ plan' = [plan EXCEPT ![p] = Tail(plan[p])]
           /\ plan'[p] = Tail(plan[p])
           /\ Tail(plan[p]) \in Seq(PlanItems)
           /\ counter' = [counter EXCEPT ![p] =
                            IF plan[p][1].id = "counter" THEN counter[p] + 1 ELSE counter[p]]
           /\ counter'[p] \in counter[p] .. MaxId
           /\ at' = [at EXCEPT ![p] = WhenSent(p, Tail(plan[p]), last[p])]
           /\ UNCHANGED <<toServer, nsent, running, request, last>>
  <1> DEFINE m == plan[p][1]
  <1>1. /\ at[p] = "send" /\ plan[p] # << >> /\ plan[p] \in Seq(PlanItems)
        /\ counter[p] \in 0 .. MaxId /\ request[p].id \in 0 .. MaxId
        /\ answers[p] \in Seq(0 .. MaxId)
    BY MaxIdNat DEF Types, HandlerSends, Requests
  <1>2. Head(plan[p]) = m /\ m \in PlanItems /\ Tail(plan[p]) \in Seq(PlanItems)
    BY <1>1, RestOfPlan
  <1>3. PICK i \in IdsFor(p, m) :
            /\ i <= MaxId
            /\ toClient' = toClient \cup
                  {[type |-> m.type, id |-> i, port |-> p, parses |-> TRUE]}
            /\ answers' = IF m.type = "Confirm" THEN answers
                          ELSE [answers EXCEPT ![p] = Append(@, i)]
    BY <1>2 DEF HandlerSends
  <1>4. m.id \in {"request", "counter", "random"} /\ m.type \in Sendable
    BY <1>2 DEF PlanItems
  <1>5. /\ i \in 0 .. MaxId
        /\ m.id = "request" => i = request[p].id
        /\ m.id = "counter" => i = counter[p] + 1
    BY <1>1, <1>3, <1>4, MaxIdNat, UdpServerAssumption DEF IdsFor, Incremented
  <1>6. /\ answers'[p] = IF m.type = "Confirm" THEN answers[p] ELSE Append(answers[p], i)
        /\ \A q \in HandlerPorts : q # p => answers'[q] = answers[q]
    BY <1>3 DEF Types
  <1>7. answers' \in [HandlerPorts -> Seq(0 .. MaxId)]
    <2>1. Append(answers[p], i) \in Seq(0 .. MaxId)
      BY <1>1, <1>5, AppendProperties
    <2> QED
      BY <1>3, <2>1 DEF Types
  <1>8. \E new \in Sent :
            /\ toClient' = toClient \cup {new}
            /\ new.port = p /\ new.type = m.type
            /\ m.id = "request" => new.id = request[p].id
            /\ m.id = "counter" => new.id = counter[p] + 1
            /\ answers'[p] = IF m.type = "Confirm" THEN answers[p]
                             ELSE Append(answers[p], new.id)
    <2>1. [type |-> m.type, id |-> i, port |-> p, parses |-> TRUE] \in Sent
      BY <1>4, <1>5 DEF Sent, ServerPorts
    <2> QED
      BY <1>3, <1>5, <1>6, <2>1
  <1>9. /\ counter' = [counter EXCEPT ![p] =
                          IF m.id = "counter" THEN counter[p] + 1 ELSE counter[p]]
        /\ counter'[p] = IF m.id = "counter" THEN counter[p] + 1 ELSE counter[p]
    BY <1>2 DEF HandlerSends, Incremented, Types
  <1>10. counter'[p] \in counter[p] .. MaxId
    BY <1>1, <1>3, <1>5, <1>9, MaxIdNat
  <1>11. /\ plan' = [plan EXCEPT ![p] = Tail(plan[p])]
         /\ plan'[p] = Tail(plan[p])
         /\ at' = [at EXCEPT ![p] = WhenSent(p, Tail(plan[p]), last[p])]
         /\ UNCHANGED <<toServer, nsent, running, request, last>>
    BY DEF HandlerSends, Types
  <1> QED
    BY <1>1, <1>2, <1>6, <1>7, <1>8, <1>9, <1>10, <1>11

\* What a handler takes from its socket.
LEMMA Receiving ==
    ASSUME Types, NEW p \in HandlerPorts, NEW d \in toServer, HandlerReceives(p, d), Parses(d)
    PROVE  /\ d \in Requests /\ at[p] = "recv"
           /\ request' = [request EXCEPT ![p] = d]
           /\ plan' = [plan EXCEPT ![p] = PlanFor(d)]
           /\ last' = [last EXCEPT ![p] = Breaks(d)]
           /\ Breaks(d) \in BOOLEAN
           /\ at' = [at EXCEPT ![p] = "send"]
           /\ toServer' \subseteq toServer
           /\ UNCHANGED <<nsent, toClient, running, counter, answers>>
           /\ PlanFor(d) \in Seq(PlanItems) /\ PlanFor(d) # << >>
  BY Plans, UdpServerAssumption DEF Types, HandlerReceives, Breaks

LEMMA HandlerTypes ==
    ASSUME Types, NEW p \in HandlerPorts, Handler(p)
    PROVE  Types'
  <1> USE DEF Labels
  <1>1. CASE HandleAuth(p)
    <2> DEFINE t == request[p].test
    <2>1. AuthPlan(t) \in Seq(PlanItems) /\ (~Authenticates(t)) \in BOOLEAN
      BY AuthPlans
    <2>2. /\ plan' = [plan EXCEPT ![p] = AuthPlan(t)]
          /\ last' = [last EXCEPT ![p] = ~Authenticates(t)]
          /\ at' = [at EXCEPT ![p] = WhenSent(p, AuthPlan(t), ~Authenticates(t))]
          /\ at[p] = "auth"
          /\ UNCHANGED <<toServer, nsent, toClient, running, request, counter, answers>>
      BY <1>1 DEF HandleAuth, Types
    <2>3. /\ WhenSent(p, AuthPlan(t), ~Authenticates(t)) \in Labels
          /\ WhenSent(p, AuthPlan(t), ~Authenticates(t)) = "send" => AuthPlan(t) # << >>
      BY DEF WhenSent
    <2> HIDE DEF t
    <2> QED
      BY <2>1, <2>2, <2>3 DEF Types
  <1>2. CASE HandlerSends(p)
    <2>1. /\ toClient' \subseteq Sent
          /\ plan' = [plan EXCEPT ![p] = Tail(plan[p])]
          /\ Tail(plan[p]) \in Seq(PlanItems)
          /\ answers' \in [HandlerPorts -> Seq(0 .. MaxId)]
          /\ \E n \in counter[p] .. MaxId : counter' = [counter EXCEPT ![p] = n]
          /\ at[p] = "send"
          /\ at' = [at EXCEPT ![p] = WhenSent(p, Tail(plan[p]), last[p])]
          /\ UNCHANGED <<toServer, nsent, running, request, last>>
      BY <1>2, Sending DEF Types
    <2>2. /\ WhenSent(p, Tail(plan[p]), last[p]) \in Labels
          /\ WhenSent(p, Tail(plan[p]), last[p]) = "send" => Tail(plan[p]) # << >>
      BY DEF WhenSent
    <2>3. counter[p] \in 0 .. MaxId
      BY <2>1, MaxIdNat DEF Types
    <2>4. counter' \in [HandlerPorts -> 0 .. MaxId + 2]
          /\ \A q \in HandlerPorts : at'[q] # "closed" => counter'[q] <= MaxId
      BY <2>1, <2>3, MaxIdNat DEF Types
    <2> QED
      BY <2>1, <2>2, <2>4 DEF Types
  <1>3. CASE IdOverflows(p)
    <2>1. counter[p] \in 0 .. MaxId
      BY <1>3, MaxIdNat DEF Types, IdOverflows
    <2>2. counter' \in [HandlerPorts -> 0 .. MaxId + 2]
      BY <1>3, <2>1, MaxIdNat DEF Types, IdOverflows
    <2> QED
      BY <1>3, <2>2 DEF Types, IdOverflows
  <1>4. CASE HandlerTimesOut(p)
    BY <1>4 DEF Types, HandlerTimesOut
  <1>5. ASSUME NEW d \in toServer, HandlerReceives(p, d)
        PROVE  Types'
    <2>1. CASE Parses(d)
      <3>1. /\ d \in Requests /\ at[p] = "recv"
            /\ request' = [request EXCEPT ![p] = d]
            /\ plan' = [plan EXCEPT ![p] = PlanFor(d)]
            /\ last' = [last EXCEPT ![p] = Breaks(d)]
            /\ Breaks(d) \in BOOLEAN
            /\ at' = [at EXCEPT ![p] = "send"]
            /\ toServer' \subseteq toServer
            /\ UNCHANGED <<nsent, toClient, running, counter, answers>>
            /\ PlanFor(d) # << >> /\ PlanFor(d) \in Seq(PlanItems)
        BY <1>5, <2>1, Receiving
      <3> QED
        BY <3>1 DEF Types
    <2>2. CASE ~Parses(d)
      BY <1>5, <2>2 DEF Types, HandlerReceives
    <2> QED
      BY <2>1, <2>2
  <1> QED
    BY <1>1, <1>2, <1>3, <1>4, <1>5 DEF Handler

\* The listener starts a handler with an AUTH.
LEMMA Starting ==
    ASSUME Types, NEW d \in toServer, NEW p \in HandlerPorts, ListenerStartsHandler(d, p)
    PROVE  /\ d \in Requests /\ d.port = ListenPort /\ at[p] = "unused"
           /\ Confirmation(d, ListenPort) \in Sent
           /\ toClient' = toClient \cup {Confirmation(d, ListenPort)}
           /\ Confirmation(d, ListenPort).type = "Confirm"
           /\ Confirmation(d, ListenPort).port = ListenPort
           /\ at' = [at EXCEPT ![p] = "auth"]
           /\ request' = [request EXCEPT ![p] = d]
           /\ toServer' \subseteq toServer
           /\ UNCHANGED <<nsent, running, plan, last, counter, answers>>
  <1>1. d \in Requests
    BY UdpServerAssumption DEF Types
  <1> QED
    BY <1>1 DEF ListenerStartsHandler, Confirmation, Sent, Sendable, ServerPorts, Requests

LEMMA TypesStep == Types /\ [ServerNext]_serverVars => Types'
  <1> SUFFICES ASSUME Types, [ServerNext]_serverVars PROVE Types'
    OBVIOUS
  <1> USE DEF Labels, handlerVars
  <1>1. ASSUME NEW p \in HandlerPorts, Handler(p) PROVE Types'
    BY <1>1, HandlerTypes
  <1>2. ASSUME NEW d \in toServer, NEW p \in HandlerPorts, ListenerStartsHandler(d, p)
        PROVE  Types'
    <2>1. /\ toServer' \subseteq ClientMsgs /\ toClient' \subseteq Sent
          /\ UNCHANGED <<nsent, running, plan, last, counter, answers>>
      BY <1>2, Starting DEF Types
    <2>2. at' \in [HandlerPorts -> Labels] /\ request' \in [HandlerPorts -> Requests]
      BY <1>2, Starting DEF Types
    <2>3. \A q \in HandlerPorts : at'[q] = at[q] \/ (at'[q] = "auth" /\ at[q] = "unused")
      BY <1>2, Starting DEF Types
    <2>4. ASSUME NEW q \in HandlerPorts
          PROVE  /\ (at[q] = "send" => plan[q] # << >>)'
                 /\ (at[q] # "closed" => counter[q] <= MaxId)'
      BY <2>1, <2>3 DEF Types
    <2> QED
      BY <2>1, <2>2, <2>4 DEF Types
  <1>3. ASSUME NEW d \in toServer, ListenerIgnores(d) \/ Lose(d)
        PROVE  Types'
    BY <1>3 DEF ListenerIgnores, Lose, Types
  <1>4. CASE Shutdown \/ ShutdownComplete
    BY <1>4 DEF Shutdown, ShutdownComplete, Types
  <1>5. ASSUME NEW d \in ClientMsgs, ClientSends(d)
        PROVE  Types'
    <2>1. nsent' \in 0 .. MaxSent
      BY <1>5, UdpServerAssumption DEF ClientSends, Types
    <2> QED
      BY <1>5, <2>1 DEF ClientSends, Types
  <1>6. CASE UNCHANGED serverVars
    BY <1>6 DEF serverVars, Types
  <1> QED
    BY <1>1, <1>2, <1>3, <1>4, <1>5, <1>6 DEF ServerNext, Listener

LEMMA AlwaysTypes == ServerSpec => []Types
  BY InitTypes, TypesStep, PTL DEF ServerSpec

\* The types; a counter exceeds 16 bits only when its handler is about to close.
THEOREM ServerTypeCorrect == ServerSpec => []ServerTypeOK
  <1>1. Types => ServerTypeOK
    BY DEF Types, ServerTypeOK, Labels
  <1> QED
    BY <1>1, AlwaysTypes, PTL

-----------------------------------------------------------------------------
(* The steps, as one handler sees them. *)

From(q) == {m \in toClient : m.port = q}

\* Nothing happens to it, or it ends.
Idles(q) ==
    /\ From(q)' = From(q)
    /\ request'[q] = request[q] /\ plan'[q] = plan[q] /\ last'[q] = last[q]
    /\ answers'[q] = answers[q]
    /\ \/ at'[q] = at[q] /\ counter'[q] = counter[q]
       \/ at'[q] = "closed" /\ counter'[q] \in {counter[q], counter[q] + 2}

IsStarted(q) ==
    /\ From(q)' = From(q)
    /\ plan'[q] = plan[q] /\ last'[q] = last[q] /\ counter'[q] = counter[q]
    /\ answers'[q] = answers[q]
    /\ at[q] = "unused" /\ at'[q] = "auth" /\ request'[q].port = ListenPort

TakesAuth(q) ==
    /\ From(q)' = From(q)
    /\ request'[q] = request[q] /\ counter'[q] = counter[q]
    /\ answers'[q] = answers[q]
    /\ at[q] = "auth"
    /\ plan'[q] = AuthPlan(request[q].test)
    /\ last'[q] = ~Authenticates(request[q].test)
    /\ at'[q] = WhenSent(q, plan'[q], last'[q])

TakesRequest(q) ==
    /\ From(q)' = From(q)
    /\ counter'[q] = counter[q] /\ answers'[q] = answers[q]
    /\ at[q] = "recv" /\ at'[q] = "send"
    /\ request'[q] \in Requests
    /\ plan'[q] = PlanFor(request'[q]) /\ last'[q] = Breaks(request'[q])

SendsNext(q) ==
    /\ request'[q] = request[q] /\ last'[q] = last[q]
    /\ at[q] = "send" /\ plan[q] # << >> /\ plan[q] \in Seq(PlanItems)
    /\ plan'[q] = Tail(plan[q])
    /\ at'[q] = WhenSent(q, Tail(plan[q]), last[q])
    /\ counter'[q] = IF plan[q][1].id = "counter" THEN counter[q] + 1 ELSE counter[q]
    /\ \E new \in Sent :
          /\ From(q)' = From(q) \cup {new}
          /\ new.port = q /\ new.type = plan[q][1].type
          /\ plan[q][1].id = "request" => new.id = request[q].id
          /\ plan[q][1].id = "counter" => new.id = counter[q] + 1
          /\ answers'[q] = IF plan[q][1].type = "Confirm" THEN answers[q]
                           ELSE Append(answers[q], new.id)

LEMMA HandlerView ==
    ASSUME Types, [ServerNext]_serverVars, NEW q \in HandlerPorts
    PROVE  Idles(q) \/ IsStarted(q) \/ TakesAuth(q) \/ TakesRequest(q) \/ SendsNext(q)
  <1> USE DEF handlerVars
  <1>1. ASSUME NEW p \in HandlerPorts, HandleAuth(p)
        PROVE  Idles(q) \/ TakesAuth(q)
    <2>1. From(q)' = From(q)
      BY <1>1 DEF HandleAuth, From
    <2>2. CASE p # q
      BY <1>1, <2>1, <2>2 DEF HandleAuth, Types, Idles
    <2>3. CASE p = q
      BY <1>1, <2>1, <2>3 DEF HandleAuth, Types, TakesAuth
    <2> QED
      BY <2>2, <2>3
  <1>2. ASSUME NEW p \in HandlerPorts, HandlerSends(p)
        PROVE  Idles(q) \/ SendsNext(q)
    <2>1. CASE p # q
      <3>1. From(q)' = From(q)
        BY <1>2, <2>1, Sending DEF From
      <3> QED
        BY <1>2, <2>1, <3>1, Sending DEF Types, Idles
    <2>2. CASE p = q
      <3>1. \E new \in Sent :
              /\ From(q)' = From(q) \cup {new}
              /\ new.port = q /\ new.type = plan[q][1].type
              /\ plan[q][1].id = "request" => new.id = request[q].id
              /\ plan[q][1].id = "counter" => new.id = counter[q] + 1
              /\ answers'[q] = IF plan[q][1].type = "Confirm" THEN answers[q]
                               ELSE Append(answers[q], new.id)
        <4>1. PICK new \in Sent :
                /\ toClient' = toClient \cup {new}
                /\ new.port = q /\ new.type = plan[q][1].type
                /\ plan[q][1].id = "request" => new.id = request[q].id
                /\ plan[q][1].id = "counter" => new.id = counter[q] + 1
                /\ answers'[q] = IF plan[q][1].type = "Confirm" THEN answers[q]
                                 ELSE Append(answers[q], new.id)
          BY <1>2, <2>2, Sending
        <4>2. From(q)' = From(q) \cup {new}
          BY <4>1 DEF From
        <4> QED
          BY <4>1, <4>2
      <3>2. /\ at[q] = "send" /\ plan[q] # << >> /\ plan[q] \in Seq(PlanItems)
            /\ plan'[q] = Tail(plan[q])
            /\ UNCHANGED <<request, last>>
        BY <1>2, <2>2, Sending DEF Types
      <3>3. /\ at'[q] = WhenSent(q, Tail(plan[q]), last[q])
            /\ counter'[q] = IF plan[q][1].id = "counter" THEN counter[q] + 1 ELSE counter[q]
        BY <1>2, <2>2, Sending DEF Types
      <3> QED
        BY <3>1, <3>2, <3>3 DEF SendsNext
    <2> QED
      BY <2>1, <2>2
  <1>3. ASSUME NEW p \in HandlerPorts, IdOverflows(p) \/ HandlerTimesOut(p)
        PROVE  Idles(q)
    BY <1>3 DEF IdOverflows, HandlerTimesOut, Types, Idles, From
  <1>4. ASSUME NEW p \in HandlerPorts, NEW d \in toServer, HandlerReceives(p, d)
        PROVE  Idles(q) \/ TakesRequest(q)
    <2>1. From(q)' = From(q)
      BY <1>4 DEF HandlerReceives, From
    <2>2. CASE ~Parses(d)
      BY <1>4, <2>1, <2>2 DEF HandlerReceives, Idles
    <2>3. CASE Parses(d) /\ p # q
      BY <1>4, <2>1, <2>3, Receiving DEF Types, Idles
    <2>4. CASE Parses(d) /\ p = q
      BY <1>4, <2>1, <2>4, Receiving DEF Types, TakesRequest
    <2> QED
      BY <2>2, <2>3, <2>4
  <1>5. ASSUME NEW d \in toServer, NEW p \in HandlerPorts, ListenerStartsHandler(d, p)
        PROVE  Idles(q) \/ IsStarted(q)
    <2>1. q # ListenPort
      BY UdpServerAssumption
    <2>2. From(q)' = From(q)
      BY <1>5, <2>1, Starting DEF From
    <2>3. CASE p # q
      BY <1>5, <2>2, <2>3, Starting DEF Types, Idles
    <2>4. CASE p = q
      BY <1>5, <2>2, <2>4, Starting DEF Types, IsStarted
    <2> QED
      BY <2>3, <2>4
  <1>6. CASE ShutdownComplete
    BY <1>6 DEF ShutdownComplete, Idles, From
  <1>7. CASE UNCHANGED <<toClient, handlerVars>>
    BY <1>7 DEF Idles, From
  <1>8. ASSUME NEW d, ListenerIgnores(d) \/ Lose(d) \/ ClientSends(d) \/ Shutdown
        PROVE  UNCHANGED <<toClient, handlerVars>>
    BY <1>8 DEF ListenerIgnores, Lose, ClientSends, Shutdown
  <1>9. UNCHANGED serverVars \/ Shutdown => UNCHANGED <<toClient, handlerVars>>
    BY DEF serverVars, Shutdown
  <1> QED
    BY <1>1, <1>2, <1>3, <1>4, <1>5, <1>6, <1>7, <1>8, <1>9
       DEF ServerNext, Handler, Listener

-----------------------------------------------------------------------------
(* The REPLY OK comes first. *)

GrantOK(q) ==
    (\A m \in From(q) : m.type # "ReplyOk") =>
        /\ \A m \in From(q) : m.type = "ReplyNok" /\ at[q] = "closed"
        /\ at[q] # "recv"
        /\ at[q] = "send" =>
              \/ plan[q][1].type = "ReplyOk"
              \/ plan[q][1].type = "ReplyNok" /\ Len(plan[q]) = 1 /\ last[q]

LEMMA GrantStep ==
    ASSUME Types, [ServerNext]_serverVars, NEW q \in HandlerPorts, GrantOK(q)
    PROVE  GrantOK(q)'
  <1>1. CASE Idles(q)
    BY <1>1 DEF Idles, GrantOK
  <1>2. CASE IsStarted(q)
    BY <1>2 DEF IsStarted, GrantOK
  <1>3. CASE TakesAuth(q)
    <2> DEFINE t == request[q].test
    <2>1. /\ AuthPlan(t) = << >> => ~Authenticates(t)
          /\ AuthPlan(t) # << >> =>
                \/ AuthPlan(t)[1].type = "ReplyOk"
                \/ /\ AuthPlan(t)[1].type = "ReplyNok" /\ Len(AuthPlan(t)) = 1
                   /\ ~Authenticates(t)
      BY AuthPlans DEF Random
    <2> QED
      BY <1>3, <2>1 DEF TakesAuth, GrantOK, WhenSent
  <1>4. CASE TakesRequest(q)
    BY <1>4 DEF TakesRequest, GrantOK
  <1>5. CASE SendsNext(q)
    <2>1. Len(plan[q]) = 1 => Tail(plan[q]) = << >>
      BY <1>5, RestOfPlan DEF SendsNext
    <2> QED
      BY <1>5, <2>1 DEF SendsNext, GrantOK, WhenSent
  <1> QED
    BY <1>1, <1>2, <1>3, <1>4, <1>5, HandlerView

LEMMA GrantOKs == (\A q \in HandlerPorts : GrantOK(q)) => GrantFirst
  <1> SUFFICES ASSUME NEW q \in HandlerPorts, GrantOK(q), ~HasSent(q, {"ReplyOk"})
               PROVE  /\ ~HasSent(q, Sendable \ {"ReplyNok"})
                      /\ at[q] # "recv"
                      /\ HasSent(q, {"ReplyNok"}) => at[q] = "closed"
    BY DEF GrantFirst
  <1>1. \A m \in From(q) : m.type # "ReplyOk"
    BY DEF HasSent, From
  <1>2. \A m \in toClient : m.port = q => m.type = "ReplyNok" /\ at[q] = "closed"
    BY <1>1 DEF GrantOK, From
  <1> QED
    BY <1>1, <1>2 DEF GrantOK, HasSent

-----------------------------------------------------------------------------
(* The ids a handler counts. *)

\* The first it sends, but for CONFIRMs, is the REPLY to the AUTH.  What follows takes
\* its ids from the counter, which only grows.
NumberOK(q) ==
    /\ at[q] \in {"unused", "auth"} => answers[q] = << >>
    /\ at[q] = "recv" => answers[q] # << >>
    /\ at[q] = "send" =>
          IF answers[q] = << >>
          THEN CountsFrom(plan[q], 2) /\ plan[q][1].type # "Confirm"
          ELSE CountsFrom(plan[q], 1)
    /\ \A i \in 2 .. Len(answers[q]) : answers[q][i] <= counter[q]
    /\ \A i, j \in 2 .. Len(answers[q]) : i < j => answers[q][i] < answers[q][j]

LEMMA NumberStep ==
    ASSUME Types, [ServerNext]_serverVars, NEW q \in HandlerPorts, NumberOK(q)
    PROVE  NumberOK(q)'
  <1>1. /\ counter[q] \in Nat /\ answers[q] \in Seq(0 .. MaxId)
        /\ plan[q] \in Seq(PlanItems)
    BY MaxIdNat DEF Types
  <1>2. /\ Len(answers[q]) \in Nat
        /\ \A i \in 1 .. Len(answers[q]) : answers[q][i] \in Int
    <2>1. Len(answers[q]) \in Nat
      BY <1>1, LenProperties
    <2>2. \A i \in 1 .. Len(answers[q]) : answers[q][i] \in 0 .. MaxId
      BY <1>1, ElementOfSeq
    <2> QED
      BY <2>1, <2>2, MaxIdNat
  <1>3. ASSUME answers'[q] = answers[q], counter'[q] \in Nat, counter[q] <= counter'[q]
        PROVE  /\ \A i \in 2 .. Len(answers'[q]) : answers'[q][i] <= counter'[q]
               /\ \A i, j \in 2 .. Len(answers'[q]) :
                     i < j => answers'[q][i] < answers'[q][j]
    BY <1>1, <1>2, <1>3 DEF NumberOK
  <1>4. CASE Idles(q)
    <2>1. /\ answers'[q] = answers[q] /\ plan'[q] = plan[q]
          /\ at'[q] = at[q] \/ at'[q] = "closed"
      BY <1>4 DEF Idles
    <2>2. counter'[q] \in Nat /\ counter[q] <= counter'[q]
      BY <1>1, <1>4 DEF Idles
    <2> QED
      BY <1>3, <2>1, <2>2 DEF NumberOK
  <1>5. CASE IsStarted(q)
    <2>1. counter'[q] \in Nat /\ counter[q] <= counter'[q]
      BY <1>1, <1>5 DEF IsStarted
    <2> QED
      BY <1>3, <1>5, <2>1 DEF IsStarted, NumberOK
  <1>6. CASE TakesAuth(q)
    <2> DEFINE t == request[q].test
    <2>1. /\ CountsFrom(AuthPlan(t), 2)
          /\ AuthPlan(t) = << >> => ~Authenticates(t)
          /\ AuthPlan(t) # << >> => AuthPlan(t)[1].type # "Confirm"
      BY AuthPlans DEF Random
    <2>2. /\ answers'[q] = answers[q] /\ answers[q] = << >>
          /\ plan'[q] = AuthPlan(t)
          /\ at'[q] = "send" => AuthPlan(t) # << >>
          /\ at'[q] \in {"send", "closed"}
      BY <1>6, <2>1 DEF TakesAuth, NumberOK, WhenSent
    <2>3. counter'[q] \in Nat /\ counter[q] <= counter'[q]
      BY <1>1, <1>6 DEF TakesAuth
    <2> HIDE DEF t
    <2> QED
      BY <1>3, <2>1, <2>2, <2>3 DEF NumberOK
  <1>7. CASE TakesRequest(q)
    <2>1. counter'[q] \in Nat /\ counter[q] <= counter'[q]
      BY <1>1, <1>7 DEF TakesRequest
    <2>2. CountsFrom(plan'[q], 1)
      BY <1>7, Plans DEF TakesRequest
    <2>3. /\ answers'[q] = answers[q] /\ answers[q] # << >>
          /\ at'[q] = "send"
      BY <1>7 DEF TakesRequest, NumberOK
    <2> QED
      BY <1>3, <2>1, <2>2, <2>3 DEF NumberOK
  <1>8. CASE SendsNext(q)
    <2>1. /\ at'[q] \in {"send", "recv", "closed"} /\ at[q] = "send"
          /\ plan'[q] = Tail(plan[q]) /\ plan[q] # << >>
      BY <1>8 DEF SendsNext, WhenSent
    <2>2. CountsFrom(plan[q], 2) => CountsFrom(plan'[q], 1)
      BY <1>1, <2>1, RestOfPlan
    <2>3. CountsFrom(plan[q], 1) => CountsFrom(plan[q], 2)
      BY <1>1, <2>1, RestOfPlan
    <2>4. CountsFrom(plan'[q], 1)
      BY <2>1, <2>2, <2>3 DEF NumberOK
    <2>5. counter'[q] = IF plan[q][1].id = "counter" THEN counter[q] + 1 ELSE counter[q]
      BY <1>8 DEF SendsNext
    <2>6. CASE plan[q][1].type = "Confirm"
      <3>1. answers'[q] = answers[q] /\ answers[q] # << >>
        BY <1>8, <2>1, <2>6 DEF SendsNext, NumberOK
      <3>2. counter'[q] \in Nat /\ counter[q] <= counter'[q]
        BY <1>1, <2>5
      <3> QED
        BY <1>3, <2>1, <2>4, <3>1, <3>2 DEF NumberOK
    <2>7. CASE plan[q][1].type # "Confirm"
      <3>1. PICK new \in Sent :
              /\ answers'[q] = Append(answers[q], new.id)
              /\ plan[q][1].id = "counter" => new.id = counter[q] + 1
        BY <1>8, <2>7 DEF SendsNext
      <3>2. new.id \in 0 .. MaxId
        BY DEF Sent
      <3>3. /\ Len(answers'[q]) = Len(answers[q]) + 1
            /\ \A i \in 1 .. Len(answers[q]) : answers'[q][i] = answers[q][i]
            /\ answers'[q][Len(answers[q]) + 1] = new.id
        BY <1>1, <3>1, <3>2, AppendProperties
      <3>4. answers'[q] # << >>
        BY <1>2, <3>3, EmptySeq
      <3>5. CASE answers[q] = << >>
        <4>1. Len(answers'[q]) = 1
          BY <3>3, <3>5, EmptySeq
        <4>2. 2 .. Len(answers'[q]) = {}
          BY <4>1
        <4> QED
          BY <2>1, <2>4, <3>4, <4>2 DEF NumberOK
      <3>6. CASE answers[q] # << >>
        <4>1. plan[q][1].id = "counter"
          <5>1. CountsFrom(plan[q], 1)
            BY <2>1, <3>6 DEF NumberOK
          <5>2. 1 \in 1 .. Len(plan[q])
            BY <1>1, <2>1, RestOfPlan
          <5> QED
            BY <2>7, <5>1, <5>2 DEF CountsFrom
        <4>2. new.id = counter[q] + 1 /\ counter'[q] = counter[q] + 1
          BY <2>5, <3>1, <4>1
        <4>3. ASSUME NEW i \in 2 .. Len(answers'[q])
              PROVE  \/ /\ i \in 2 .. Len(answers[q])
                        /\ answers'[q][i] = answers[q][i]
                        /\ answers[q][i] \in Int /\ answers[q][i] <= counter[q]
                     \/ i = Len(answers[q]) + 1 /\ answers'[q][i] = counter[q] + 1
          <5>1. CASE i = Len(answers[q]) + 1
            BY <3>3, <4>2, <5>1
          <5>2. CASE i # Len(answers[q]) + 1
            <6>1. i \in 2 .. Len(answers[q]) /\ i \in 1 .. Len(answers[q])
              BY <1>2, <3>3, <5>2
            <6> QED
              BY <1>2, <3>3, <6>1 DEF NumberOK
          <5> QED
            BY <5>1, <5>2
        <4>4. \A i \in 2 .. Len(answers'[q]) : answers'[q][i] <= counter'[q]
          BY <1>1, <4>2, <4>3
        <4>5. ASSUME NEW i \in 2 .. Len(answers'[q]), NEW j \in 2 .. Len(answers'[q]), i < j
              PROVE  answers'[q][i] < answers'[q][j]
          <5>1. i # Len(answers[q]) + 1
            BY <1>2, <3>3, <4>5
          <5>2. /\ i \in 2 .. Len(answers[q]) /\ answers'[q][i] = answers[q][i]
                /\ answers[q][i] \in Int /\ answers[q][i] <= counter[q]
            BY <4>3, <5>1
          <5>3. CASE j = Len(answers[q]) + 1
            <6>1. answers'[q][j] = counter[q] + 1
              BY <3>3, <4>2, <5>3
            <6> QED
              BY <1>1, <5>2, <6>1
          <5>4. CASE j # Len(answers[q]) + 1
            <6>1. j \in 2 .. Len(answers[q]) /\ answers'[q][j] = answers[q][j]
              BY <4>3, <5>4
            <6> QED
              BY <4>5, <5>2, <6>1 DEF NumberOK
          <5> QED
            BY <5>3, <5>4
        <4> QED
          BY <2>1, <2>4, <3>4, <4>4, <4>5 DEF NumberOK
      <3> QED
        BY <3>5, <3>6
    <2> QED
      BY <2>6, <2>7
  <1> QED
    BY <1>4, <1>5, <1>6, <1>7, <1>8, HandlerView

LEMMA NumberOKs ==
    Types /\ (\A q \in HandlerPorts : NumberOK(q)) => CountedIdsUnique
  <1> SUFFICES ASSUME Types, NEW q \in HandlerPorts, NumberOK(q),
                      NEW i \in 2 .. Len(answers[q]), NEW j \in 2 .. Len(answers[q]),
                      answers[q][i] = answers[q][j]
               PROVE  i = j
    BY DEF CountedIdsUnique
  <1>1. Len(answers[q]) \in Nat /\ \A k \in 1 .. Len(answers[q]) : answers[q][k] \in Int
    <2>1. answers[q] \in Seq(0 .. MaxId)
      BY DEF Types
    <2>2. Len(answers[q]) \in Nat
      BY <2>1, LenProperties
    <2>3. \A k \in 1 .. Len(answers[q]) : answers[q][k] \in 0 .. MaxId
      BY <2>1, ElementOfSeq
    <2> QED
      BY <2>2, <2>3, MaxIdNat
  <1>2. i \in 1 .. Len(answers[q]) /\ j \in 1 .. Len(answers[q])
    BY <1>1
  <1>3. ~(i < j) /\ ~(j < i)
    BY <1>1, <1>2 DEF NumberOK
  <1> QED
    BY <1>1, <1>2, <1>3

\* The listener sends CONFIRMs only.
Origin == \A m \in toClient : m.port \in HandlerPorts \/ m.type = "Confirm"

LEMMA OriginStep == Types /\ Origin /\ [ServerNext]_serverVars => Origin'
  <1> SUFFICES ASSUME Types, Origin, [ServerNext]_serverVars PROVE Origin'
    OBVIOUS
  <1>1. ASSUME NEW p \in HandlerPorts, HandlerSends(p) PROVE Origin'
    BY <1>1, Sending DEF Origin
  <1>2. ASSUME NEW d \in toServer, NEW p \in HandlerPorts, ListenerStartsHandler(d, p)
        PROVE  Origin'
    BY <1>2, Starting DEF Origin
  <1>3. CASE UNCHANGED toClient
    BY <1>3 DEF Origin
  <1>4. ASSUME NEW p \in HandlerPorts, Handler(p), ~HandlerSends(p)
        PROVE  UNCHANGED toClient
    BY <1>4 DEF Handler, HandleAuth, IdOverflows, HandlerTimesOut, HandlerReceives
  <1>5. ASSUME NEW d, ListenerIgnores(d) \/ Lose(d) \/ ClientSends(d)
        PROVE  UNCHANGED toClient
    BY <1>5 DEF ListenerIgnores, Lose, ClientSends
  <1>6. CASE Shutdown \/ ShutdownComplete \/ UNCHANGED serverVars
    BY <1>6, <1>3 DEF Shutdown, ShutdownComplete, serverVars
  <1> QED
    BY <1>1, <1>2, <1>3, <1>4, <1>5, <1>6 DEF ServerNext, Listener

-----------------------------------------------------------------------------
(* Confirmation. *)

ConfirmOK(q) ==
    /\ at[q] \in {"unused", "auth"} => request[q].port # q
    /\ request[q].port = q /\ ~last[q] /\ at[q] \in {"send", "recv"}
        => \/ Confirmation(request[q], q) \in From(q)
           \/ request[q].type = "Msg" /\ request[q].test \in {"noconfirm", "malformed"}
           \/ at[q] = "send" /\ \E i \in 1 .. Len(plan[q]) : plan[q][i] = Echo("Confirm")
    /\ at[q] = "recv" => ~last[q]

LEMMA ConfirmStep ==
    ASSUME Types, [ServerNext]_serverVars, NEW q \in HandlerPorts, ConfirmOK(q)
    PROVE  ConfirmOK(q)'
  <1>0. q # ListenPort
    BY UdpServerAssumption
  <1>1. CASE Idles(q)
    BY <1>1 DEF Idles, ConfirmOK
  <1>2. CASE IsStarted(q)
    BY <1>0, <1>2 DEF IsStarted, ConfirmOK
  <1>3. CASE TakesAuth(q)
    <2>1. request'[q].port # q
      BY <1>3 DEF TakesAuth, ConfirmOK
    <2>2. at'[q] \in {"send", "closed", "recv"} /\ (at'[q] = "recv" => ~last'[q])
      BY <1>3 DEF TakesAuth, WhenSent
    <2> QED
      BY <2>1, <2>2 DEF ConfirmOK
  <1>4. CASE TakesRequest(q)
    <2> DEFINE d == request'[q]
    <2>1. \/ \E i \in 1 .. Len(PlanFor(d)) : PlanFor(d)[i] = Echo("Confirm")
          \/ Breaks(d)
          \/ d.type = "Msg" /\ d.test \in {"noconfirm", "malformed"}
      BY <1>4, Plans DEF TakesRequest
    <2> QED
      BY <1>4, <2>1 DEF TakesRequest, ConfirmOK
  <1>5. CASE SendsNext(q)
    <2>1. /\ Len(plan[q]) \in Nat \ {0} /\ Len(Tail(plan[q])) = Len(plan[q]) - 1
          /\ \A i \in 1 .. Len(plan[q]) - 1 : Tail(plan[q])[i] = plan[q][i + 1]
          /\ (Len(plan[q]) = 1 <=> Tail(plan[q]) = << >>)
      BY <1>5, RestOfPlan DEF SendsNext
    <2>2. /\ at'[q] \in {"send", "recv", "closed"} /\ at[q] = "send"
          /\ at'[q] = "recv" => Len(plan[q]) = 1 /\ ~last'[q]
          /\ at'[q] = "send" => Len(plan[q]) # 1
          /\ request'[q] = request[q] /\ last'[q] = last[q]
          /\ plan'[q] = Tail(plan[q])
      BY <1>5, <2>1 DEF SendsNext, WhenSent
    <2>3. From(q) \subseteq From(q)'
      BY <1>5 DEF SendsNext
    <2>4. plan[q][1] = Echo("Confirm") => Confirmation(request[q], q) \in From(q)'
      <3>1. PICK new \in Sent :
              /\ From(q)' = From(q) \cup {new}
              /\ new.port = q /\ new.type = plan[q][1].type
              /\ plan[q][1].id = "request" => new.id = request[q].id
        BY <1>5 DEF SendsNext
      <3>2. ASSUME plan[q][1] = Echo("Confirm")
            PROVE  new = Confirmation(request[q], q)
        <4>1. new.type = "Confirm" /\ new.id = request[q].id
          <5>1. Echo("Confirm").type = "Confirm" /\ Echo("Confirm").id = "request"
            BY DEF Echo
          <5> QED
            BY <3>1, <3>2, <5>1, Zenon
        <4>2. new = [type |-> new.type, id |-> new.id, port |-> new.port, parses |-> TRUE]
          BY DEF Sent
        <4> QED
          BY <3>1, <4>1, <4>2 DEF Confirmation
      <3> QED
        BY <3>1, <3>2
    <2>5. ASSUME NEW i \in 1 .. Len(plan[q]), plan[q][i] = Echo("Confirm"), i # 1
          PROVE  /\ Len(plan[q]) # 1
                 /\ \E j \in 1 .. Len(plan'[q]) : plan'[q][j] = Echo("Confirm")
      <3>1. i - 1 \in 1 .. Len(plan[q]) - 1 /\ (i - 1) + 1 = i /\ Len(plan[q]) # 1
        BY <2>1, <2>5
      <3>2. plan'[q][i - 1] = Echo("Confirm") /\ i - 1 \in 1 .. Len(plan'[q])
        BY <2>1, <2>2, <2>5, <3>1
      <3> QED
        BY <3>1, <3>2
    <2>6. ASSUME request[q].port = q, ~last[q], at'[q] \in {"send", "recv"}
          PROVE  \/ Confirmation(request[q], q) \in From(q)'
                 \/ request[q].type = "Msg" /\ request[q].test \in {"noconfirm", "malformed"}
                 \/ at'[q] = "send"
                      /\ \E i \in 1 .. Len(plan'[q]) : plan'[q][i] = Echo("Confirm")
      BY <2>2, <2>3, <2>4, <2>5, <2>6 DEF ConfirmOK
    <2>7. (Confirmation(request[q], q))' = Confirmation(request[q], q)
      BY <2>2 DEF Confirmation
    <2> QED
      BY <2>2, <2>6, <2>7 DEF ConfirmOK
  <1> QED
    BY <1>1, <1>2, <1>3, <1>4, <1>5, HandlerView

LEMMA ConfirmOKs == (\A q \in HandlerPorts : ConfirmOK(q)) => ConfirmedAtRest
  BY DEF ConfirmOK, ConfirmedAtRest, From

-----------------------------------------------------------------------------
(* All of it together: what is inductive of the server, given its types. *)

HandlersOK ==
    /\ \A q \in HandlerPorts : GrantOK(q) /\ NumberOK(q) /\ ConfirmOK(q)
    /\ Origin

LEMMA InitHandlers == ServerInit => HandlersOK
  <1> SUFFICES ASSUME ServerInit PROVE HandlersOK
    OBVIOUS
  <1>1. ASSUME NEW q \in HandlerPorts PROVE GrantOK(q) /\ NumberOK(q)
    BY EmptySeq DEF ServerInit, GrantOK, NumberOK, From
  <1>2. ASSUME NEW q \in HandlerPorts PROVE ConfirmOK(q)
    BY UdpServerAssumption DEF ServerInit, ConfirmOK, NoRequest
  <1>3. Origin
    BY DEF ServerInit, Origin
  <1> QED
    BY <1>1, <1>2, <1>3 DEF HandlersOK

LEMMA HandlersStep == Types /\ HandlersOK /\ [ServerNext]_serverVars => HandlersOK'
  <1> SUFFICES ASSUME Types, HandlersOK, [ServerNext]_serverVars PROVE HandlersOK'
    OBVIOUS
  <1>1. ASSUME NEW q \in HandlerPorts
        PROVE  (GrantOK(q) /\ NumberOK(q) /\ ConfirmOK(q))'
    BY GrantStep, NumberStep, ConfirmStep DEF HandlersOK
  <1>2. Origin'
    BY OriginStep DEF HandlersOK
  <1> QED
    BY <1>1, <1>2 DEF HandlersOK

LEMMA HandlersPromise ==
    Types /\ HandlersOK => GrantFirst /\ CountedIdsUnique /\ ConfirmedAtRest
  BY GrantOKs, NumberOKs, ConfirmOKs DEF HandlersOK

LEMMA AlwaysHandlers == ServerSpec => []HandlersOK
  BY InitHandlers, HandlersStep, AlwaysTypes, PTL DEF ServerSpec

\* A handler that has not sent REPLY OK has sent nothing but a REPLY NOK, and has read
\* no datagram from its port.
THEOREM GrantsFirst == ServerSpec => []GrantFirst
  BY AlwaysTypes, AlwaysHandlers, HandlersPromise, PTL

\* No two messages a handler counts share an id, the REPLYs to a JOIN included and up to
\* the last id there is.
THEOREM CountedIdsAreUnique == ServerSpec => []CountedIdsUnique
  BY AlwaysTypes, AlwaysHandlers, HandlersPromise, PTL

\* A handler that waits for a request has confirmed the last one, but for the two
\* tests that ask it not to.
THEOREM ConfirmsAtRest == ServerSpec => []ConfirmedAtRest
  BY AlwaysTypes, AlwaysHandlers, HandlersPromise, PTL
=============================================================================
