--------------------------- MODULE TcpServerProofs ---------------------------
(***************************************************************************)
(* What holds of the mock TCP server for any client, any number of lines   *)
(* and any order of its sending threads.                                   *)
(***************************************************************************)
EXTENDS TcpServer, SequenceTheorems, TLAPS

-----------------------------------------------------------------------------
(* Where the handler is, and what it then knows. *)

Answers == {"ReplyOk", "ReplyNok", "Msg", "Err"}

\* The reply to a line fits the state in which the line was taken.
ReplyFits ==
    /\ reply \in Answers
    /\ client_state # "END_REQUESTED"
    /\ client_state = "AUTH_WAIT" => reply \in Replies
    /\ client_state = "START" => reply = "Err"
    /\ reply = "ReplyNok" => client_state \in {"AUTH_WAIT", "JOIN_WAIT"}
    /\ reply = "ReplyOk" => client_state \in {"AUTH_WAIT", "JOIN_WAIT", "OPEN"}
    /\ extra => reply = "ReplyOk"

Phase ==
    /\ at \in Labels /\ client_state \in States
    /\ buffer \in Seq(AllLines) /\ inbox \in Seq(AllLines)
    /\ reply \in {Null} \cup Answers /\ extra \in BOOLEAN
    /\ at \in {"accept", "recv", "line"} => client_state \notin {"AUTH_WAIT", "END_REQUESTED"}
    /\ at \in {"accept", "recv"} => buffer = << >>
    /\ at = "line" => buffer # << >>
    /\ at = "reply" => ReplyFits
    /\ at \in {"part2", "extra"} => client_state = "OPEN"
    /\ at \notin {"close", "done", "killed"} => client_state # "END_REQUESTED"

\* AfterLine sends the handler where Phase holds again.
LEMMA AfterLinePhase ==
    ASSUME NEW state \in States, NEW lines \in Seq(AllLines),
           state # "AUTH_WAIT"
    PROVE  LET l == AfterLine(state, lines)
           IN  /\ l \in {"recv", "line", "close"}
               /\ l = "recv" => lines = << >> /\ state # "END_REQUESTED"
               /\ l = "line" => lines # << >> /\ state # "END_REQUESTED"
  BY DEF AfterLine, States

LEMMA TakesTail ==
    ASSUME Phase, NEW type, NEW test, Takes(type, test)
    PROVE  /\ at = "line" /\ buffer' \in Seq(AllLines)
           /\ inbox' = inbox
           /\ client_state \notin {"AUTH_WAIT", "END_REQUESTED"}
  BY HeadTailProperties DEF Phase, Takes, clientVars

LEMMA RejectPhase == ASSUME Phase, NEW type, NEW test, Takes(type, test), Reject
                     PROVE  Phase'
  BY TakesTail DEF Phase, Reject, Answer, ReplyFits, Labels, Answers, States, Replies

LEMMA InitPhase == ServerInit => Phase
  BY EmptySeq DEF ServerInit, Phase, Labels, States

LEMMA LinePhase ==
    ASSUME Phase, AuthLine \/ JoinLine \/ MsgLine \/ ByeLine \/ UnknownLine
    PROVE  Phase'
  <1> USE DEF Labels, Answers, States, Replies
  <1>1. CASE AuthLine
    BY <1>1, TakesTail, RejectPhase DEF AuthLine, Phase, Answer, ReplyFits
  <1>2. ASSUME Takes("Join", {"nothing"}), client_state = "OPEN", NoAnswer("JOIN_WAIT")
        PROVE  Phase'
    <2>1. buffer' \in Seq(AllLines) /\ inbox' = inbox
      BY <1>2, TakesTail
    <2> QED
      BY <1>2, <2>1, AfterLinePhase DEF Phase, NoAnswer
  <1>3. CASE JoinLine
    BY <1>2, <1>3, TakesTail, RejectPhase DEF JoinLine, Phase, Answer, ReplyFits
  <1>4. CASE MsgLine
    BY <1>4, TakesTail, RejectPhase DEF MsgLine, Phase, Answer, ReplyFits
  <1>5. CASE ByeLine
    <2>1. buffer' \in Seq(AllLines) /\ inbox' = inbox
      BY <1>5, TakesTail DEF ByeLine
    <2> QED
      BY <1>5, <2>1 DEF ByeLine, Phase, NoAnswer, AfterLine
  <1>6. CASE UnknownLine
    BY <1>6, RejectPhase DEF UnknownLine
  <1> QED
    BY <1>1, <1>3, <1>4, <1>5, <1>6

LEMMA SendPhase ==
    ASSUME Phase, SendReply \/ SendPart2 \/ SendExtra
    PROVE  Phase'
  <1> USE DEF Labels, Answers, States, Replies
  <1>1. CASE SendReply
    <2>1. /\ at = "reply" /\ ReplyFits
          /\ client_state' = AfterReply(client_state, reply)
          /\ buffer' = buffer /\ inbox' = inbox
          /\ UNCHANGED <<reply, extra>>
          /\ at' = IF extra THEN "extra" ELSE AfterLine(client_state', buffer)
      BY <1>1 DEF SendReply, Phase, clientVars
    <2>2. /\ client_state' \in States \ {"AUTH_WAIT"}
          /\ extra => client_state' = "OPEN"
      BY <2>1 DEF ReplyFits, AfterReply, Phase
    <2>3. AfterLine(client_state', buffer) \in {"recv", "line", "close"}
          /\ (AfterLine(client_state', buffer) = "recv"
                => buffer = << >> /\ client_state' # "END_REQUESTED")
          /\ (AfterLine(client_state', buffer) = "line"
                => buffer # << >> /\ client_state' # "END_REQUESTED")
      BY <2>2, AfterLinePhase DEF Phase
    <2> QED
      BY <2>1, <2>2, <2>3 DEF Phase
  <1>2. CASE SendPart2 \/ SendExtra
    <2>1. /\ client_state = "OPEN"
          /\ at' = AfterLine(client_state, buffer)
          /\ UNCHANGED <<client_state, buffer, reply, extra, inbox>>
      BY <1>2 DEF SendPart2, SendExtra, Phase, clientVars, handlerVars
    <2> QED
      BY <2>1 DEF Phase, AfterLine
  <1> QED
    BY <1>1, <1>2

LEMMA PhaseStep == Phase /\ [ServerNext]_serverVars => Phase'
  <1> SUFFICES ASSUME Phase, [ServerNext]_serverVars PROVE Phase'
    OBVIOUS
  <1> USE DEF Labels, clientVars, handlerVars, connVars
  <1>1. CASE Accept \/ RecvEnds
    BY <1>1 DEF Accept, RecvEnds, Phase
  <1>2. ASSUME NEW n \in 1 .. Len(inbox), Recv(n)
        PROVE  Phase'
    <2>1. /\ Len(inbox) \in Nat
          /\ \A i \in 1 .. Len(inbox) : inbox[i] \in AllLines
      BY LenProperties, ElementOfSeq DEF Phase
    <2>2. /\ SubSeq(inbox, 1, n) \in Seq(AllLines)
          /\ Len(SubSeq(inbox, 1, n)) = n
          /\ SubSeq(inbox, n + 1, Len(inbox)) \in Seq(AllLines)
      BY <2>1, SubSeqProperties
    <2>3. buffer' = SubSeq(inbox, 1, n)
      BY <1>2, <2>2, ConcatEmptySeq DEF Recv, Phase
    <2>4. buffer' # << >>
      BY <2>2, <2>3, EmptySeq
    <2> QED
      BY <1>2, <2>2, <2>3, <2>4 DEF Recv, Phase
  <1>3. CASE AuthLine \/ JoinLine \/ MsgLine \/ ByeLine \/ UnknownLine
    BY <1>3, LinePhase
  <1>4. CASE SendReply \/ SendPart2 \/ SendExtra
    BY <1>4, SendPhase
  <1>5. CASE Close \/ Shutdown
    BY <1>5 DEF Close, Shutdown, Phase
  <1>6. ASSUME NEW i \in 1 .. Len(threads), SendMessageAsync(i)
        PROVE  Phase'
    BY <1>6 DEF SendMessageAsync, Phase, ReplyFits
  <1>7. ASSUME NEW line \in ClientLines, ClientWrites(line) \/ ClientLeaves(<<line>>)
        PROVE  Phase'
    <2>1. line \in AllLines
      BY ServerAssumption
    <2>2. Append(inbox, line) \in Seq(AllLines) /\ inbox \o <<line>> = Append(inbox, line)
      BY <2>1, AppendProperties, AppendIsConcat DEF Phase
    <2>3. /\ inbox' \in Seq(AllLines)
          /\ UNCHANGED <<client_state, buffer, reply, extra, at>>
      BY <1>7, <2>2 DEF ClientWrites, ClientLeaves
    <2> QED
      BY <2>3 DEF Phase, ReplyFits
  <1>8. CASE ClientLeaves(<< >>)
    BY <1>8, ConcatEmptySeq DEF ClientLeaves, Phase, ReplyFits
  <1>9. CASE UNCHANGED serverVars
    BY <1>9 DEF serverVars, Phase, ReplyFits
  <1> QED
    BY <1>1, <1>2, <1>3, <1>4, <1>5, <1>6, <1>7, <1>8, <1>9
       DEF ServerNext, Handler, Sender, Client

LEMMA AlwaysPhase == ServerSpec => []Phase
  BY InitPhase, PhaseStep, PTL DEF ServerSpec

\* recv is called between two batches only: with an empty buffer, and in no state
\* that a line has left half-way.
THEOREM BatchesFinish == ServerSpec => []BatchFinished
  <1>1. Phase => BatchFinished
    BY DEF Phase, BatchFinished
  <1> QED
    BY <1>1, AlwaysPhase, PTL

-----------------------------------------------------------------------------
(* What the sending threads send. *)

Thread == [text : Texts, status : {"started", "sent", "lost"}]

ThreadsOK == threads \in Seq(Thread)

\* A text that has the token REPLY OK in it, or ERR, is that line.
LEMMA TextTokens ==
    \A x \in Texts :
        /\ x \in Seq(Tokens)
        /\ \A k \in 1 .. Len(x) : x[k] = "ReplyOk" => x = Line("ReplyOk")
  <1> USE DEF Tokens, WireTypes, MessageTypes, CR, LF
  <1>1. \A t \in {"ReplyOk", "ReplyNok", "Msg", "Err"} :
          /\ Line(t) \in Seq(Tokens)
          /\ \A k \in 1 .. Len(Line(t)) : Line(t)[k] = "ReplyOk" => t = "ReplyOk"
    BY DEF Line
  <1>2. /\ <<"Msg">> \in Seq(Tokens)
        /\ \A k \in 1 .. Len(<<"Msg">>) : <<"Msg">>[k] # "ReplyOk"
    OBVIOUS
  <1>3. /\ <<CR, LF>> \in Seq(Tokens) /\ Len(<<CR, LF>>) = 2
        /\ \A k \in 1 .. 2 : <<CR, LF>>[k] # "ReplyOk"
    OBVIOUS
  <1>4. Line("Msg") \in Seq(Tokens) /\ Len(Line("Msg")) = 3
    BY DEF Line
  <1>5. LET x == <<CR, LF>> \o Line("Msg")
        IN  /\ x \in Seq(Tokens)
            /\ \A k \in 1 .. Len(x) : x[k] # "ReplyOk"
    <2>1. /\ <<CR, LF>> \o Line("Msg") \in Seq(Tokens)
          /\ Len(<<CR, LF>> \o Line("Msg")) = 5
          /\ \A k \in 1 .. 5 : (<<CR, LF>> \o Line("Msg"))[k]
                 = IF k <= 2 THEN <<CR, LF>>[k] ELSE Line("Msg")[k - 2]
      BY <1>3, <1>4, ConcatProperties
    <2>2. \A k \in 1 .. 3 : Line("Msg")[k] # "ReplyOk"
      BY <1>1, <1>4
    <2> QED
      BY <2>1, <2>2, <1>3
  <1> QED
    BY <1>1, <1>2, <1>5 DEF Texts

\* The lines of REPLY OK and ERR are no other text.
LEMMA TextsDiffer ==
    /\ \A t \in {"ReplyOk", "ReplyNok", "Msg", "Err"} :
          /\ Line(t) \in Texts
          /\ Line(t) = Line("ReplyOk") => t = "ReplyOk"
          /\ Line(t) = Line("Err") => t = "Err"
    /\ \A x \in {<<"Msg">>, <<CR, LF>> \o Line("Msg")} :
          /\ x \in Texts
          /\ x # Line("ReplyOk") /\ x # Line("ReplyNok") /\ x # Line("Err")
  <1>1. \A t \in {"ReplyOk", "ReplyNok", "Msg", "Err"} :
          Line(t) \in Texts /\ Line(t)[1] = t /\ Len(Line(t)) = 3
    BY DEF Texts, Line
  <1>2. Len(<<"Msg">>) = 1
    OBVIOUS
  <1>3. (<<CR, LF>> \o Line("Msg"))[1] = CR
    <2>1. ASSUME NEW a \in Seq(Tokens), NEW b \in Seq(Tokens), Len(a) = 2, Len(b) = 3
          PROVE  (a \o b)[1] = a[1]
      BY <2>1, ConcatProperties
    <2>2. <<CR, LF>> \in Seq(Tokens) /\ Len(<<CR, LF>>) = 2
      BY DEF Tokens, CR, LF
    <2>3. Line("Msg") \in Seq(Tokens) /\ Len(Line("Msg")) = 3
      BY DEF Line, Tokens, CR, LF, WireTypes, MessageTypes
    <2> QED
      BY <2>1, <2>2, <2>3
  <1> QED
    BY <1>1, <1>2, <1>3 DEF Texts, CR

LEMMA StartsThread ==
    ASSUME ThreadsOK, NEW x \in Texts, Starts(x)
    PROVE  /\ ThreadsOK'
           /\ Len(threads) \in Nat /\ Len(threads') = Len(threads) + 1
           /\ \A i \in 1 .. Len(threads) : threads'[i] = threads[i]
           /\ threads'[Len(threads) + 1].text = x
           /\ Granted' <=> Granted \/ x = Line("ReplyOk")
  <1>1. [text |-> x, status |-> "started"] \in Thread
    BY DEF Thread
  <1>2. /\ ThreadsOK'
        /\ Len(threads) \in Nat /\ Len(threads') = Len(threads) + 1
        /\ \A i \in 1 .. Len(threads) : threads'[i] = threads[i]
        /\ threads'[Len(threads) + 1] = [text |-> x, status |-> "started"]
    BY <1>1, AppendProperties, LenProperties DEF Starts, ThreadsOK
  <1> QED
    BY <1>2 DEF Granted

\* A thread that runs changes its own status only.
LEMMA RunsThread ==
    ASSUME ThreadsOK, NEW i \in 1 .. Len(threads), SendMessageAsync(i)
    PROVE  /\ ThreadsOK' /\ Len(threads') = Len(threads)
           /\ \A j \in 1 .. Len(threads) : threads'[j].text = threads[j].text
           /\ Granted' <=> Granted
  <1>1. threads[i] \in Thread
    BY ElementOfSeq DEF ThreadsOK
  <1>2. PICK s \in {"sent", "lost"} : threads' = [threads EXCEPT ![i].status = s]
    BY DEF SendMessageAsync
  <1>3. /\ threads' = [threads EXCEPT ![i] = [threads[i] EXCEPT !.status = s]]
        /\ [threads[i] EXCEPT !.status = s] \in Thread
        /\ [threads[i] EXCEPT !.status = s].text = threads[i].text
    BY <1>1, <1>2 DEF Thread
  <1>4. /\ ThreadsOK' /\ Len(threads') = Len(threads)
        /\ \A j \in 1 .. Len(threads) : threads'[j].text = threads[j].text
    BY <1>3, ExceptSeq DEF ThreadsOK
  <1> QED
    BY <1>4 DEF Granted

\* A thread that is started has yet to run.
LEMMA StartsUnsent ==
    ASSUME ThreadsOK, NEW x \in Texts, Starts(x)
    PROVE  /\ Len(threads) \in Nat /\ Len(threads') = Len(threads) + 1
           /\ \A i \in 1 .. Len(threads) : threads'[i] = threads[i]
           /\ threads'[Len(threads) + 1] = [text |-> x, status |-> "started"]
           /\ Unsent' = Unsent \cup {Len(threads) + 1}
  <1>1. [text |-> x, status |-> "started"] \in Thread
    BY DEF Thread
  <1>2. /\ Len(threads) \in Nat /\ Len(threads') = Len(threads) + 1
        /\ \A i \in 1 .. Len(threads) : threads'[i] = threads[i]
        /\ threads'[Len(threads) + 1] = [text |-> x, status |-> "started"]
    BY <1>1, AppendProperties, LenProperties DEF Starts, ThreadsOK
  <1>3. Unsent' = Unsent \cup {Len(threads) + 1}
    <2>1. [text |-> x, status |-> "started"].status = "started"
      OBVIOUS
    <2> QED
      BY <1>2, <2>1 DEF Unsent
  <1> QED
    BY <1>2, <1>3

\* A thread that runs sends its text, or loses it on a closed connection.
LEMMA RunsSent ==
    ASSUME ThreadsOK, NEW i \in 1 .. Len(threads), SendMessageAsync(i)
    PROVE  /\ Len(threads) \in Nat /\ Len(threads') = Len(threads)
           /\ \A j \in (1 .. Len(threads)) \ {i} : threads'[j] = threads[j]
           /\ threads'[i].text = threads[i].text
           /\ i \in Unsent /\ Unsent' = Unsent \ {i}
           /\ threads[i].text \in Texts
           /\ closed' = closed
           /\ \/ threads'[i].status = "sent" /\ stream' = stream \o threads[i].text
              \/ threads'[i].status = "lost" /\ closed /\ stream' = stream
  <1>1. threads[i] \in Thread
    BY ElementOfSeq DEF ThreadsOK
  <1>2. PICK s \in {"sent", "lost"} :
           /\ threads' = [threads EXCEPT ![i].status = s]
           /\ \/ s = "sent" /\ stream' = stream \o threads[i].text
              \/ s = "lost" /\ closed /\ stream' = stream
    BY DEF SendMessageAsync
  <1>3. /\ threads' = [threads EXCEPT ![i] = [threads[i] EXCEPT !.status = s]]
        /\ [threads[i] EXCEPT !.status = s] \in Thread
        /\ [threads[i] EXCEPT !.status = s].text = threads[i].text
        /\ [threads[i] EXCEPT !.status = s].status = s
    BY <1>1, <1>2 DEF Thread
  <1>4. /\ Len(threads) \in Nat /\ Len(threads') = Len(threads)
        /\ \A j \in (1 .. Len(threads)) \ {i} : threads'[j] = threads[j]
        /\ threads'[i].text = threads[i].text /\ threads'[i].status = s
    <2>1. Len(threads) \in Nat
      BY LenProperties DEF ThreadsOK
    <2> QED
      BY <1>3, <2>1, ExceptSeq DEF ThreadsOK
  <1>5. i \in Unsent /\ Unsent' = Unsent \ {i}
    BY <1>4 DEF Unsent, SendMessageAsync
  <1> QED
    BY <1>1, <1>2, <1>4, <1>5 DEF Thread, SendMessageAsync

ReplyLines == {Line("ReplyOk"), Line("ReplyNok")}

\* A text that has the token of a REPLY in it is the line of that REPLY.
LEMMA TextReplies ==
    \A x \in Texts : \A k \in 1 .. Len(x) :
        x[k] \in Replies => x = Line(x[k]) /\ k = 1
  <1> USE DEF Tokens, WireTypes, MessageTypes, CR, LF, Replies
  <1>1. \A t \in Answers : \A k \in 1 .. Len(Line(t)) :
            Line(t)[k] \in Replies => t = Line(t)[k] /\ k = 1
    BY DEF Line, Answers
  <1>2. \A k \in 1 .. Len(<<"Msg">>) : <<"Msg">>[k] \notin Replies
    OBVIOUS
  <1>3. /\ <<CR, LF>> \in Seq(Tokens) /\ Len(<<CR, LF>>) = 2
        /\ \A k \in 1 .. 2 : <<CR, LF>>[k] \notin Replies
    OBVIOUS
  <1>4. Line("Msg") \in Seq(Tokens) /\ Len(Line("Msg")) = 3
        /\ \A k \in 1 .. 3 : Line("Msg")[k] \notin Replies
    BY DEF Line
  <1>5. LET x == <<CR, LF>> \o Line("Msg")
        IN  \A k \in 1 .. Len(x) : x[k] \notin Replies
    <2>1. /\ Len(<<CR, LF>> \o Line("Msg")) = 5
          /\ \A k \in 1 .. 5 : (<<CR, LF>> \o Line("Msg"))[k]
                 = IF k <= 2 THEN <<CR, LF>>[k] ELSE Line("Msg")[k - 2]
      BY <1>3, <1>4, ConcatProperties
    <2> QED
      BY <2>1, <1>3, <1>4
  <1> QED
    BY <1>1, <1>2, <1>5 DEF Texts, Answers

\* The lines of the answers.
LEMMA AnswerLines ==
    /\ \A t \in Answers : /\ Line(t) \in Seq(Tokens) /\ Line(t) \in Texts
                                 /\ Len(Line(t)) = 3 /\ Line(t)[1] = t
                                 /\ Line(t)[2] = CR /\ Line(t)[3] = LF
    /\ \A t \in Answers : Line(t) \in ReplyLines => t \in Replies
    /\ \A x \in {<<"Msg">>, <<CR, LF>> \o Line("Msg")} :
          x \in Texts /\ x \notin ReplyLines
    /\ \A x \in Texts : x \in Seq(Tokens)
    /\ Replies \subseteq Answers
  <1>1. /\ \A t \in Answers : /\ Line(t) \in Seq(Tokens) /\ Line(t) \in Texts
                                     /\ Len(Line(t)) = 3 /\ Line(t)[1] = t
                                     /\ Line(t)[2] = CR /\ Line(t)[3] = LF
        /\ Replies \subseteq Answers
    BY DEF Line, Answers, Texts, Tokens, WireTypes, MessageTypes, CR, LF, Replies
  <1>2. \A t \in Answers : Line(t) \in ReplyLines => t \in Replies
    BY <1>1 DEF ReplyLines, Replies, Answers
  <1>3. \A x \in {<<"Msg">>, <<CR, LF>> \o Line("Msg")} :
          x \in Texts /\ x \notin ReplyLines
    <2>1. \A x \in ReplyLines : Len(x) = 3
      BY <1>1 DEF ReplyLines, Answers
    <2>2. Len(<<"Msg">>) = 1
      OBVIOUS
    <2>3. <<"Msg">> \notin ReplyLines
      BY <2>1, <2>2
    <2>4. <<CR, LF>> \o Line("Msg") \notin ReplyLines
      BY TextsDiffer DEF ReplyLines
    <2> QED
      BY <2>3, <2>4 DEF Texts
  <1>4. \A x \in Texts : x \in Seq(Tokens)
    BY TextTokens
  <1> QED
    BY <1>1, <1>2, <1>3, <1>4

-----------------------------------------------------------------------------
(* The lines on their way to the handler: what it has received and what is still
   in the socket. *)

Inward == buffer \o inbox

\* recv moves lines from the one to the other.
LEMMA RecvInward ==
    ASSUME Phase, NEW n \in 1 .. Len(inbox), Recv(n)
    PROVE  Inward' = Inward
  <1>1. /\ buffer = << >> /\ inbox \in Seq(AllLines)
        /\ buffer' = buffer \o SubSeq(inbox, 1, n)
        /\ inbox' = SubSeq(inbox, n + 1, Len(inbox))
    BY DEF Phase, Recv
  <1>2. Len(inbox) \in Nat /\ \A i \in 1 .. Len(inbox) : inbox[i] \in AllLines
    BY <1>1, LenProperties, ElementOfSeq
  <1>3. SubSeq(inbox, 1, n) \in Seq(AllLines)
    BY <1>2, SubSeqProperties
  <1>4. buffer' = SubSeq(inbox, 1, n) /\ Inward = inbox
    BY <1>1, <1>3, ConcatEmptySeq DEF Inward
  <1>5. SubSeq(inbox, 1, n) \o SubSeq(inbox, n + 1, Len(inbox)) = SubSeq(inbox, 1, Len(inbox))
    BY <1>1, <1>2, ConcatAdjacentSubSeq
  <1> QED
    BY <1>1, <1>4, <1>5, SubSeqFull DEF Inward

\* The handler takes the first one.
LEMMA TakesInward ==
    ASSUME Phase, NEW type, NEW test, Takes(type, test)
    PROVE  /\ Len(Inward) \in Nat \ {0} /\ Len(Inward') = Len(Inward) - 1
           /\ \A i \in 1 .. Len(Inward') : Inward'[i] = Inward[i + 1]
           /\ Inward[1].type = type /\ Inward[1].test \in test
  <1>1. /\ buffer \in Seq(AllLines) /\ buffer # << >> /\ inbox \in Seq(AllLines)
        /\ buffer' = Tail(buffer) /\ inbox' = inbox
        /\ Head(buffer).type = type /\ Head(buffer).test \in test
    BY DEF Phase, Takes, clientVars
  <1>2. /\ Tail(buffer) \in Seq(AllLines)
        /\ Len(buffer) \in Nat \ {0} /\ Len(inbox) \in Nat
        /\ Len(Tail(buffer)) = Len(buffer) - 1
        /\ \A i \in 1 .. Len(Tail(buffer)) : Tail(buffer)[i] = buffer[i + 1]
        /\ Head(buffer) = buffer[1]
    BY <1>1, HeadTailProperties, LenProperties, EmptySeq
  <1>3. /\ Len(Inward) = Len(buffer) + Len(inbox)
        /\ \A i \in 1 .. Len(buffer) + Len(inbox) :
              Inward[i] = IF i <= Len(buffer) THEN buffer[i] ELSE inbox[i - Len(buffer)]
    BY <1>1, ConcatProperties DEF Inward
  <1>4. /\ Len(Inward') = Len(Tail(buffer)) + Len(inbox)
        /\ \A i \in 1 .. Len(Tail(buffer)) + Len(inbox) :
              Inward'[i] = IF i <= Len(Tail(buffer)) THEN Tail(buffer)[i]
                           ELSE inbox[i - Len(Tail(buffer))]
    BY <1>1, <1>2, ConcatProperties DEF Inward
  <1>5. ASSUME NEW i \in 1 .. Len(Inward')
        PROVE  Inward'[i] = Inward[i + 1]
    <2>1. i - Len(Tail(buffer)) = i + 1 - Len(buffer)
      BY <1>2, <1>4
    <2> QED
      BY <1>2, <1>3, <1>4, <2>1
  <1> QED
    BY <1>1, <1>2, <1>3, <1>4, <1>5

\* A line of the client is the last one.
LEMMA ArrivesInward ==
    ASSUME Phase, NEW line \in AllLines, buffer' = buffer, inbox' = Append(inbox, line)
    PROVE  /\ Len(Inward) \in Nat /\ Len(Inward') = Len(Inward) + 1
           /\ \A i \in 1 .. Len(Inward) : Inward'[i] = Inward[i]
           /\ Inward'[Len(Inward) + 1] = line
  <1>1. /\ buffer \in Seq(AllLines) /\ inbox \in Seq(AllLines)
        /\ <<line>> \in Seq(AllLines)
    BY DEF Phase
  <1>2. Inward' = Append(Inward, line) /\ Inward \in Seq(AllLines)
    <2>1. /\ inbox' = inbox \o <<line>>
          /\ Inward \in Seq(AllLines)
          /\ Append(Inward, line) = Inward \o <<line>>
      BY <1>1, ConcatProperties, AppendIsConcat DEF Inward
    <2> QED
      BY <1>1, <2>1, ConcatAssociative DEF Inward
  <1> QED
    BY <1>2, AppendProperties, LenProperties

-----------------------------------------------------------------------------
(* Grants and errors. *)

\* A step of the handler starts no thread, or one with this text.
StartsNone == threads' = threads

Leaving == {"close", "done", "killed"}

Told ==
    /\ ThreadsOK
    /\ stream \in Seq(Tokens)
    /\ GrantAgrees
    /\ ErrStartedLast

LEMMA InitTold == ServerInit => Told
  BY EmptySeq DEF ServerInit, Told, ThreadsOK, GrantAgrees, ErrStartedLast, Granted

\* A step that starts no thread.
LEMMA NoThreadTold ==
    ASSUME Told, UNCHANGED <<threads, stream>>,
           client_state' \in {"OPEN", "JOIN_WAIT"} => client_state \in {"OPEN", "JOIN_WAIT"},
           client_state' \in {"START", "AUTH_WAIT"} => client_state \in {"START", "AUTH_WAIT"},
           at \in Leaving => at' \in Leaving
    PROVE  Told'
  BY DEF Told, ThreadsOK, GrantAgrees, ErrStartedLast, Granted, Leaving

\* A step that starts a thread: the state that follows agrees with its text.
LEMMA ThreadTold ==
    ASSUME Told, NEW x \in Texts, Starts(x), UNCHANGED stream,
           at \notin Leaving,
           client_state' \in {"OPEN", "JOIN_WAIT"} => Granted',
           Granted' => client_state' \notin {"START", "AUTH_WAIT"},
           x = Line("Err") => at' \in Leaving
    PROVE  Told'
  <1>1. /\ ThreadsOK'
        /\ Len(threads) \in Nat /\ Len(threads') = Len(threads) + 1
        /\ \A i \in 1 .. Len(threads) : threads'[i] = threads[i]
        /\ threads'[Len(threads) + 1].text = x
        /\ Granted => Granted'
    BY StartsThread DEF Told
  <1>2. \A i \in 1 .. Len(threads) : threads[i].text # Line("Err")
    BY DEF Told, ErrStartedLast, Leaving
  <1>3. ASSUME NEW i \in 1 .. Len(threads'), threads'[i].text = Line("Err")
        PROVE  i = Len(threads') /\ at' \in Leaving
    <2>1. i \notin 1 .. Len(threads)
      BY <1>1, <1>2, <1>3
    <2>2. i = Len(threads) + 1
      BY <1>1, <2>1
    <2> QED
      BY <1>1, <1>3, <2>2
  <1>4. GrantAgrees'
    BY <1>1 DEF Told, GrantAgrees
  <1> QED
    BY <1>1, <1>3, <1>4 DEF Told, ErrStartedLast, Leaving

\* The answer to a line is sent from a state it fits.
LEMMA ReplyTold ==
    ASSUME Phase, Told, SendReply
    PROVE  Told'
  <1>1. /\ at = "reply" /\ ReplyFits /\ reply \in Answers
        /\ Starts(Line(reply)) /\ Line(reply) \in Texts
        /\ client_state' = AfterReply(client_state, reply)
        /\ at' = IF extra THEN "extra" ELSE AfterLine(client_state', buffer)
        /\ UNCHANGED stream
    BY TextsDiffer DEF SendReply, Phase, ReplyFits, Answers, connVars
  <1>2. /\ Line(reply) = Line("ReplyOk") <=> reply = "ReplyOk"
        /\ Line(reply) = Line("Err") <=> reply = "Err"
    BY <1>1, TextsDiffer DEF Answers
  <1>3. Granted' <=> Granted \/ reply = "ReplyOk"
    BY <1>1, <1>2, StartsThread DEF Told
  <1>4. /\ client_state \in {"OPEN", "JOIN_WAIT"} => Granted
        /\ Granted => client_state \notin {"START", "AUTH_WAIT"}
    BY DEF Told, GrantAgrees
  <1>5. client_state' \in {"OPEN", "JOIN_WAIT"} => Granted'
    BY <1>1, <1>3, <1>4 DEF AfterReply, ReplyFits, Replies, Answers
  <1>6. Granted' => client_state' \notin {"START", "AUTH_WAIT"}
    BY <1>1, <1>3, <1>4 DEF AfterReply, ReplyFits, Replies, Answers
  <1>7. reply = "Err" => at' \in Leaving
    BY <1>1 DEF AfterReply, AfterLine, ReplyFits, Leaving
  <1> QED
    BY <1>1, <1>2, <1>5, <1>6, <1>7, ThreadTold DEF Leaving

\* A line is taken by the handler, which starts at most the thread of a MSG.
LEMMA LineTold ==
    ASSUME Phase, Told, AuthLine \/ JoinLine \/ MsgLine \/ ByeLine \/ UnknownLine
    PROVE  Told'
  <1>1. at = "line" /\ UNCHANGED stream
    BY DEF AuthLine, JoinLine, MsgLine, ByeLine, UnknownLine, Takes, connVars
  <1>2. /\ client_state' \in {"OPEN", "JOIN_WAIT"} => client_state \in {"OPEN", "JOIN_WAIT"}
        /\ client_state' \in {"START", "AUTH_WAIT"} => client_state \in {"START", "AUTH_WAIT"}
    BY DEF AuthLine, JoinLine, MsgLine, ByeLine, UnknownLine, Reject, Answer, NoAnswer
  <1>3. \/ threads' = threads
        \/ Starts(Line("Msg"))
        \/ Starts(<<"Msg">>)
    BY DEF AuthLine, JoinLine, MsgLine, ByeLine, UnknownLine, Reject
  <1>4. CASE threads' = threads
    BY <1>1, <1>2, <1>4, NoThreadTold DEF Leaving
  <1>5. ASSUME NEW x \in {Line("Msg"), <<"Msg">>}, Starts(x)
        PROVE  Told'
    <2>1. x \in Texts /\ x # Line("ReplyOk") /\ x # Line("Err")
      BY TextsDiffer
    <2>2. Granted' <=> Granted
      BY <1>5, <2>1, StartsThread DEF Told
    <2> QED
      BY <1>1, <1>2, <1>5, <2>1, <2>2, ThreadTold DEF Told, GrantAgrees, Leaving
  <1> QED
    BY <1>3, <1>4, <1>5

\* The second thread of a line is that of a MSG.
LEMMA SecondTold ==
    ASSUME Phase, Told, SendPart2 \/ SendExtra
    PROVE  Told'
  <1>1. PICK x \in {Line("Msg"), <<CR, LF>> \o Line("Msg")} : Starts(x)
    BY DEF SendPart2, SendExtra
  <1>2. /\ x \in Texts /\ x # Line("ReplyOk") /\ x # Line("Err")
        /\ at \in {"part2", "extra"}
        /\ UNCHANGED <<stream, client_state>>
    BY TextsDiffer DEF SendPart2, SendExtra, connVars, handlerVars
  <1>3. Granted' <=> Granted
    BY <1>1, <1>2, StartsThread DEF Told
  <1> QED
    BY <1>1, <1>2, <1>3, ThreadTold DEF Told, GrantAgrees, Leaving

\* A thread that runs sends what it was started with.
LEMMA SenderTold ==
    ASSUME Told, NEW i \in 1 .. Len(threads), SendMessageAsync(i)
    PROVE  Told'
  <1>1. /\ ThreadsOK' /\ Len(threads') = Len(threads)
        /\ \A j \in 1 .. Len(threads) : threads'[j].text = threads[j].text
        /\ Granted' <=> Granted
        /\ UNCHANGED <<at, client_state>>
    BY RunsThread DEF Told, SendMessageAsync, handlerVars
  <1>2. threads[i].text \in Texts
    <2>1. threads[i] \in Thread
      BY ElementOfSeq DEF Told, ThreadsOK
    <2> QED
      BY <2>1 DEF Thread
  <1>3. CASE stream' = stream
    BY <1>1, <1>3 DEF Told, GrantAgrees, ErrStartedLast
  <1>4. CASE stream' = stream \o threads[i].text
    <2> DEFINE x == threads[i].text
    <2>1. /\ x \in Seq(Tokens)
          /\ \A k \in 1 .. Len(x) : x[k] = "ReplyOk" => x = Line("ReplyOk")
      BY <1>2, TextTokens
    <2>2. x = Line("ReplyOk") => Granted
      BY DEF Granted
    <2> HIDE DEF x
    <2>3. stream \in Seq(Tokens) /\ stream' = stream \o x
      BY <1>4 DEF Told, x
    <2>4. /\ stream' \in Seq(Tokens)
          /\ \A k \in 1 .. Len(stream') :
                \/ k \in 1 .. Len(stream) /\ stream'[k] = stream[k]
                \/ k - Len(stream) \in 1 .. Len(x) /\ stream'[k] = x[k - Len(stream)]
      <3>1. Len(stream) \in Nat /\ Len(x) \in Nat
        BY <2>1, <2>3, LenProperties
      <3>2. /\ stream' \in Seq(Tokens)
            /\ Len(stream') = Len(stream) + Len(x)
            /\ \A k \in 1 .. Len(stream) + Len(x) :
                  stream'[k] = IF k <= Len(stream) THEN stream[k] ELSE x[k - Len(stream)]
        BY <2>1, <2>3, ConcatProperties
      <3> QED
        BY <3>1, <3>2
    <2>5. \A k \in 1 .. Len(stream') : stream'[k] = "ReplyOk" => Granted
      BY <2>1, <2>2, <2>4 DEF Told, GrantAgrees
    <2>6. GrantAgrees'
      BY <1>1, <2>5 DEF Told, GrantAgrees
    <2>7. ErrStartedLast'
      BY <1>1 DEF Told, ErrStartedLast
    <2> QED
      BY <1>1, <2>4, <2>6, <2>7 DEF Told
  <1> QED
    BY <1>3, <1>4 DEF SendMessageAsync

LEMMA ToldStep == Phase /\ Told /\ [ServerNext]_serverVars => Told'
  <1> SUFFICES ASSUME Phase, Told, [ServerNext]_serverVars PROVE Told'
    OBVIOUS
  <1>1. CASE AuthLine \/ JoinLine \/ MsgLine \/ ByeLine \/ UnknownLine
    BY <1>1, LineTold
  <1>2. CASE SendReply
    BY <1>2, ReplyTold
  <1>3. CASE SendPart2 \/ SendExtra
    BY <1>3, SecondTold
  <1>4. ASSUME NEW i \in 1 .. Len(threads), SendMessageAsync(i)
        PROVE  Told'
    BY <1>4, SenderTold
  <1>5. CASE Accept \/ RecvEnds \/ Close \/ Shutdown \/ Client
             \/ UNCHANGED serverVars \/ \E n \in 1 .. Len(inbox) : Recv(n)
    <2>1. /\ UNCHANGED <<threads, stream, client_state>>
          /\ at \in Leaving => at' \in Leaving
      BY <1>5 DEF Accept, RecvEnds, Close, Shutdown, Client, ClientWrites, ClientLeaves,
                  Recv, serverVars, handlerVars, connVars, Leaving
    <2> QED
      BY <2>1, NoThreadTold
  <1> QED
    BY <1>1, <1>2, <1>3, <1>4, <1>5 DEF ServerNext, Handler, Sender

LEMMA AlwaysTold == ServerSpec => []Told
  BY InitTold, InitPhase, PhaseStep, ToldStep, PTL DEF ServerSpec

\* The server's idea of the client agrees with what it has started to tell the client,
\* whatever the client writes and in whatever order the threads run.
THEOREM GrantsAgree == ServerSpec => []GrantAgrees
  <1>1. Told => GrantAgrees
    BY DEF Told
  <1> QED
    BY <1>1, AlwaysTold, PTL

\* No thread is started after that of an ERR, however many lines are waiting.
THEOREM ErrsAreStartedLast == ServerSpec => []ErrStartedLast
  <1>1. Told => ErrStartedLast
    BY DEF Told
  <1> QED
    BY <1>1, AlwaysTold, PTL

-----------------------------------------------------------------------------
(* Types. *)

Ends ==
    /\ clientGone \in BOOLEAN /\ written \in 0 .. MaxLines
    /\ closed \in BOOLEAN /\ (closed <=> at \in {"done", "killed"})

LEMMA InitEnds == ServerInit => Ends
  <1>1. 0 \in 0 .. MaxLines
    BY ServerAssumption
  <1>2. ServerInit => clientGone = FALSE /\ written = 0 /\ closed = FALSE /\ at = "accept"
    BY DEF ServerInit
  <1> QED
    BY <1>1, <1>2 DEF Ends

LEMMA EndsStep == Phase /\ Ends /\ [ServerNext]_serverVars => Ends'
  <1> SUFFICES ASSUME Phase, Ends, [ServerNext]_serverVars PROVE Ends'
    OBVIOUS
  <1> USE ServerAssumption DEF clientVars, handlerVars, connVars
  <1>1. CASE AuthLine \/ JoinLine \/ MsgLine \/ ByeLine \/ UnknownLine
    <2>1. at = "line" /\ UNCHANGED <<clientGone, written, closed>>
      BY <1>1 DEF AuthLine, JoinLine, MsgLine, ByeLine, UnknownLine, Takes
    <2>2. at' \notin {"done", "killed"}
      BY <1>1 DEF AuthLine, JoinLine, MsgLine, ByeLine, UnknownLine, Reject, Answer,
                  NoAnswer, AfterLine
    <2> QED
      BY <2>1, <2>2 DEF Ends
  <1>2. CASE SendReply \/ SendPart2 \/ SendExtra
    <2>1. at \notin {"done", "killed"} /\ UNCHANGED <<clientGone, written, closed>>
      BY <1>2 DEF SendReply, SendPart2, SendExtra
    <2>2. at' \notin {"done", "killed"}
      BY <1>2 DEF SendReply, SendPart2, SendExtra, AfterLine
    <2> QED
      BY <2>1, <2>2 DEF Ends
  <1>3. CASE Accept \/ RecvEnds \/ UNCHANGED serverVars
             \/ (\E n \in 1 .. Len(inbox) : Recv(n))
             \/ (\E i \in 1 .. Len(threads) : SendMessageAsync(i))
    <2>1. /\ UNCHANGED <<clientGone, written, closed>>
          /\ at' = at \/ {at, at'} \subseteq {"accept", "recv", "line", "close"}
      BY <1>3 DEF Accept, RecvEnds, serverVars, Recv, SendMessageAsync
    <2> QED
      BY <2>1 DEF Ends
  <1>4. CASE Close \/ Shutdown
    BY <1>4 DEF Close, Shutdown, Ends
  <1>5. CASE Client
    <2>1. PICK n \in Nat : /\ written + n <= MaxLines
                           /\ written' = written + n
                           /\ clientGone' \in BOOLEAN
                           /\ UNCHANGED <<at, closed>>
      <3>1. ASSUME NEW line, ClientWrites(line)
            PROVE  written + 1 <= MaxLines /\ written' = written + 1
        BY <3>1 DEF ClientWrites, Ends
      <3>2. ASSUME NEW line, ClientLeaves(<<line>>)
            PROVE  written + 1 <= MaxLines /\ written' = written + 1
        <4>1. Len(<<line>>) = 1
          OBVIOUS
        <4> QED
          BY <3>2, <4>1 DEF ClientLeaves
      <3>3. ASSUME ClientLeaves(<< >>)
            PROVE  written + 0 <= MaxLines /\ written' = written + 0
        <4>1. Len(<< >>) = 0
          OBVIOUS
        <4> QED
          BY <3>3, <4>1 DEF ClientLeaves
      <3>4. clientGone' \in BOOLEAN /\ UNCHANGED <<at, closed>>
        BY <1>5 DEF Client, ClientWrites, ClientLeaves, Ends
      <3> QED
        BY <1>5, <3>1, <3>2, <3>3, <3>4 DEF Client
    <2> QED
      BY <2>1 DEF Ends
  <1> QED
    BY <1>1, <1>2, <1>3, <1>4, <1>5 DEF ServerNext, Handler, Sender

LEMMA AlwaysEnds == ServerSpec => []Ends
  BY InitEnds, InitPhase, EndsStep, PhaseStep, PTL DEF ServerSpec

\* The types, and that the connection is closed exactly when the handler has
\* returned or the process has ended.
THEOREM ServerTypeCorrect == ServerSpec => []ServerTypeOK
  <1>1. Phase /\ Told /\ Ends => ServerTypeOK
    BY DEF Phase, Told, ThreadsOK, Thread, Ends, ServerTypeOK, Answers
  <1> QED
    BY <1>1, AlwaysPhase, AlwaysTold, AlwaysEnds, PTL

-----------------------------------------------------------------------------
(* What a step of the server does to the lines, to the threads and to its idea
   of the client, without the rest of it. *)

Leaves == at' \in {"recv", "line", "close"}

\* Nothing, but for the place of the handler.
QuietMove ==
    /\ Inward' = Inward
    /\ UNCHANGED <<threads, stream, client_state, reply>>
    /\ at \in Leaving => at' \in Leaving
    /\ at' \in {"recv", "line", "close", "done", "killed"}
    /\ at = "reply" => at' = "killed"
    /\ closed => closed'

\* The handler takes the first line, ...
LineMove ==
    /\ at = "line" /\ UNCHANGED <<stream, closed>>
    /\ Len(Inward) \in Nat \ {0} /\ Len(Inward') = Len(Inward) - 1
    /\ \A i \in 1 .. Len(Inward') : Inward'[i] = Inward[i + 1]

\* which is out of place, or asks for an ERR,
Rejected ==
    /\ client_state' = client_state /\ threads' = threads
    /\ at' = "reply" /\ reply' = "Err"

\* or which it takes for an AUTH, a JOIN, a MSG or a BYE.
AuthTaken ==
    /\ Inward[1].type = "Auth"
    /\ client_state = "START" /\ client_state' = "AUTH_WAIT"
    /\ at' = "reply" /\ reply' \in Replies
    /\ threads' = threads \/ Starts(Line("Msg"))

JoinTaken ==
    /\ Inward[1].type = "Join"
    /\ client_state = "OPEN" /\ client_state' = "JOIN_WAIT"
    /\ (at' = "reply" /\ reply' \in Replies) \/ Leaves
    /\ threads' = threads \/ Starts(Line("Msg"))

MsgTaken ==
    /\ Inward[1].type = "Msg"
    /\ client_state = "OPEN" /\ client_state' = "OPEN"
    /\ \/ /\ at' = "reply" /\ threads' = threads
          /\ reply' = "Msg" \/ Inward[1].test = "unexpectedReply"
       \/ at' = "part2" /\ Starts(<<"Msg">>)

ByeTaken ==
    /\ Inward[1].type = "Bye"
    /\ client_state' = "END_REQUESTED" /\ at' = "close" /\ threads' = threads

\* The handler sends a reply, or what follows it.
ReplyMove ==
    /\ Inward' = Inward /\ UNCHANGED <<stream, closed, reply>>
    /\ at = "reply" /\ ReplyFits /\ Starts(Line(reply))
    /\ client_state' = AfterReply(client_state, reply)
    /\ at' = "extra" \/ Leaves
    /\ reply = "Err" => at' = "close"

SecondMove ==
    /\ Inward' = Inward /\ UNCHANGED <<stream, closed, client_state, reply>>
    /\ \/ at = "extra" /\ Starts(Line("Msg"))
       \/ at = "part2" /\ Starts(<<CR, LF>> \o Line("Msg"))
    /\ Leaves

\* A thread sends.
ThreadMove(i) ==
    /\ SendMessageAsync(i)
    /\ Inward' = Inward
    /\ UNCHANGED <<client_state, reply, at>>

\* That is all the handler does with a line.
LEMMA LineMoves ==
    ASSUME Phase, AuthLine \/ JoinLine \/ MsgLine \/ ByeLine \/ UnknownLine
    PROVE  LineMove /\ (Rejected \/ AuthTaken \/ JoinTaken \/ MsgTaken \/ ByeTaken)
  <1>1. ASSUME NEW type, NEW test, Takes(type, test)
        PROVE  LineMove /\ Inward[1].type = type /\ Inward[1].test \in test
    BY <1>1, TakesInward DEF LineMove, Takes, connVars
  <1>2. CASE AuthLine
    BY <1>1, <1>2 DEF AuthLine, Reject, Answer, Rejected, AuthTaken, Replies
  <1>3. CASE JoinLine
    <2>1. AfterLine("JOIN_WAIT", buffer') \in {"recv", "line", "close"}
      BY DEF AfterLine
    <2> QED
      BY <1>1, <1>3, <2>1 DEF JoinLine, Reject, Answer, NoAnswer, Rejected, JoinTaken,
                              Leaves, Replies
  <1>4. CASE MsgLine
    BY <1>1, <1>4 DEF MsgLine, Reject, Answer, Rejected, MsgTaken
  <1>5. CASE ByeLine
    BY <1>1, <1>5 DEF ByeLine, NoAnswer, AfterLine, ByeTaken
  <1>6. CASE UnknownLine
    BY <1>1, <1>6 DEF UnknownLine, Reject, Answer, Rejected
  <1> QED
    BY <1>2, <1>3, <1>4, <1>5, <1>6

\* Nor does it send more than that.
LEMMA SendMoves ==
    ASSUME Phase, SendReply \/ SendPart2 \/ SendExtra
    PROVE  ReplyMove \/ SecondMove
  <1>1. \A state, lines : AfterLine(state, lines) \in {"recv", "line", "close"}
    BY DEF AfterLine
  <1>2. UNCHANGED <<inbox, buffer, stream, closed, reply>> /\ Inward' = Inward
    BY DEF SendReply, SendPart2, SendExtra, clientVars, handlerVars, connVars, Inward
  <1>3. CASE SendReply
    <2>1. at = "reply" /\ ReplyFits /\ Starts(Line(reply))
          /\ client_state' = AfterReply(client_state, reply)
          /\ at' = IF extra THEN "extra" ELSE AfterLine(client_state', buffer)
      BY <1>3 DEF SendReply, Phase
    <2>2. reply = "Err" => at' = "close"
      BY <2>1 DEF ReplyFits, AfterReply, AfterLine
    <2> QED
      BY <1>1, <1>2, <2>1, <2>2 DEF ReplyMove, Leaves
  <1>4. CASE SendPart2 \/ SendExtra
    BY <1>1, <1>2, <1>4 DEF SendPart2, SendExtra, handlerVars, SecondMove, Leaves
  <1> QED
    BY <1>3, <1>4

\* A step of the server is one of these.
LEMMA HandlerMoves ==
    ASSUME Phase, Handler \/ Sender \/ Shutdown
    PROVE  \/ QuietMove
           \/ LineMove /\ (Rejected \/ AuthTaken \/ JoinTaken \/ MsgTaken \/ ByeTaken)
           \/ ReplyMove \/ SecondMove
           \/ \E i \in 1 .. Len(threads) : ThreadMove(i)
  <1>1. CASE Accept \/ RecvEnds \/ Close \/ Shutdown
    BY <1>1 DEF Accept, RecvEnds, Close, Shutdown, clientVars, handlerVars, connVars, Inward,
                Leaving, QuietMove
  <1>2. ASSUME NEW n \in 1 .. Len(inbox), Recv(n)
        PROVE  QuietMove
    BY <1>2, RecvInward DEF Recv, connVars, Leaving, QuietMove
  <1>3. ASSUME NEW i \in 1 .. Len(threads), SendMessageAsync(i)
        PROVE  ThreadMove(i)
    BY <1>3 DEF SendMessageAsync, clientVars, handlerVars, Inward, ThreadMove
  <1> QED
    BY <1>1, <1>2, <1>3, LineMoves, SendMoves DEF Handler, Sender
=============================================================================
