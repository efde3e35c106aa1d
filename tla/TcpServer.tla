----------------------------- MODULE TcpServer -----------------------------
(***************************************************************************)
(* The mock TCP server (tcp_ipk25_server.py) and one client: the handler   *)
(* thread handle_client, with its own idea of the client's state, and the  *)
(* daemon threads it starts to send (send_message_async).  Nothing makes   *)
(* those threads wait for each other, nor the handler for them: it closes  *)
(* the connection while some have yet to run.                              *)
(*                                                                         *)
(* A line of the client is its type and the test its text asks for.        *)
(***************************************************************************)
EXTENDS TcpLines, Integers

CONSTANTS
    ClientLines,   \* the lines a client may write
    MaxLines,      \* bound: lines it writes during one connection
    InOrder        \* the sending threads run in the order they are started

\* What the display name, the channel or the text of a line asks the server
\* to do; "none" is the normal answer.
Tests == {"none", "refused", "unexpectedMsg", "nothing", "err", "split",
          "unexpectedReply"}

AllLines == [type : {"Auth", "Join", "Msg", "Bye", "Err"}, test : Tests]

ASSUME ServerAssumption ==
    ClientLines \subseteq AllLines /\ MaxLines \in Nat /\ InOrder \in BOOLEAN

VARIABLES
    inbox,          \* lines in the socket, not yet received
    clientGone,     \* the client has closed its end
    written,        \* how many lines it has written
    client_state,   \* the server's idea of the client's FSM
    buffer,         \* received lines not yet processed
    reply,          \* the reply to the current line,
    extra,          \* and whether extra_msg_after_reply follows it
    at,             \* where the handler is
    threads,        \* the sending threads, in the order they were started
    stream,         \* what was sent to the client
    closed          \* conn.close has been called

clientVars == <<inbox, clientGone, written>>
handlerVars == <<client_state, buffer, reply, extra>>
connVars == <<stream, closed>>
serverVars == <<clientVars, handlerVars, at, threads, connVars>>

-----------------------------------------------------------------------------
(* Sending. *)

\* threading.Thread(target=send_message_async, ...).start().
Starts(text) == threads' = Append(threads, [text |-> text, status |-> "started"])

Unsent == {i \in 1 .. Len(threads) : threads[i].status = "started"}

\* A thread calls sendall.  On a closed connection that is an exception, which
\* is printed, and the message is lost.
SendMessageAsync(i) ==
    /\ i \in Unsent
    /\ InOrder => \A j \in Unsent : i <= j
    /\ \/ /\ ~closed
          /\ stream' = stream \o threads[i].text
          /\ threads' = [threads EXCEPT ![i].status = "sent"]
       \/ /\ closed
          /\ threads' = [threads EXCEPT ![i].status = "lost"]
          /\ UNCHANGED stream
    /\ UNCHANGED <<clientVars, handlerVars, at, closed>>

-----------------------------------------------------------------------------
(* The loop of handle_client. *)

\* Mutant: only the outer loop looks for END_REQUESTED.
DrainsBuffer(state, lines) ==
    IF lines # << >> THEN "line"
    ELSE IF state = "END_REQUESTED" THEN "close" ELSE "recv"

\* Mutant: if instead of while, one line for each recv.
OneLine(state, lines) == IF state = "END_REQUESTED" THEN "close" ELSE "recv"

\* Where the handler goes when it is done with a line.
AfterLine(state, lines) ==
    IF state = "END_REQUESTED" THEN "close"
    ELSE IF lines # << >> THEN "line" ELSE "recv"

\* run_server starts a handler for the connection.
Accept ==
    /\ at = "accept"
    /\ at' = "recv"
    /\ UNCHANGED <<clientVars, handlerVars, threads, connVars>>

\* conn.recv: some of the lines in the socket.  (A part of a line stays in the
\* buffer until the rest of it is there; a time-out only repeats the call.)
Recv(n) ==
    /\ at = "recv"
    /\ n \in 1 .. Len(inbox)
    /\ buffer' = buffer \o SubSeq(inbox, 1, n)
    /\ inbox' = SubSeq(inbox, n + 1, Len(inbox))
    /\ at' = "line"
    /\ UNCHANGED <<clientGone, written, client_state, reply, extra, threads,
                   connVars>>

\* Mutant: b'' is taken for a time-out.
RecvAgain ==
    /\ at = "recv"
    /\ clientGone
    /\ UNCHANGED serverVars

\* recv returns b'', or the connection is reset and what is in the socket is
\* lost.
RecvEnds ==
    /\ at = "recv"
    /\ clientGone
    /\ at' = "close"
    /\ UNCHANGED <<clientVars, handlerVars, threads, connVars>>

\* The current line, of this type and asking for this test.
Takes(type, test) ==
    /\ at = "line"
    /\ Head(buffer).type = type /\ Head(buffer).test \in test
    /\ buffer' = Tail(buffer)
    /\ UNCHANGED <<clientVars, connVars>>

\* The line is answered by this reply, with or without a MSG after it.
Answer(state, answer, more) ==
    /\ client_state' = state
    /\ reply' = answer /\ extra' = more
    /\ at' = "reply"

\* The line is not answered.
NoAnswer(state) ==
    /\ client_state' = state
    /\ at' = AfterLine(state, buffer')
    /\ UNCHANGED <<reply, extra>>

\* An ERR; terminate_after_send.
Reject == Answer(client_state, "Err", FALSE) /\ UNCHANGED threads

AuthLine ==
    \/ /\ Takes("Auth", Tests) /\ client_state # "START"
       /\ Reject
    \/ /\ Takes("Auth", {"unexpectedMsg"}) /\ client_state = "START"
       /\ Starts(Line("Msg"))
       /\ Answer("AUTH_WAIT", "ReplyOk", FALSE)
    \/ /\ Takes("Auth", {"refused"}) /\ client_state = "START"
       /\ Answer("AUTH_WAIT", "ReplyNok", FALSE)
       /\ UNCHANGED threads
    \/ /\ Takes("Auth", {"none"}) /\ client_state = "START"
       /\ Answer("AUTH_WAIT", "ReplyOk", TRUE)
       /\ UNCHANGED threads

JoinLine ==
    \/ /\ Takes("Join", Tests) /\ client_state # "OPEN"
       /\ Reject
    \/ /\ Takes("Join", {"unexpectedMsg"}) /\ client_state = "OPEN"
       /\ Starts(Line("Msg"))
       /\ Answer("JOIN_WAIT", "ReplyOk", FALSE)
    \/ /\ Takes("Join", {"refused"}) /\ client_state = "OPEN"
       /\ Answer("JOIN_WAIT", "ReplyNok", FALSE)
       /\ UNCHANGED threads
    \/ /\ Takes("Join", {"none"}) /\ client_state = "OPEN"
       /\ Answer("JOIN_WAIT", "ReplyOk", TRUE)
       /\ UNCHANGED threads
    \/ /\ Takes("Join", {"nothing"}) /\ client_state = "OPEN"
       /\ NoAnswer("JOIN_WAIT")
       /\ UNCHANGED threads

\* "split" sends a line without its end, and its end two seconds later.
MsgLine ==
    \/ /\ Takes("Msg", Tests) /\ client_state # "OPEN"
       /\ Reject
    \/ /\ Takes("Msg", {"err"}) /\ client_state = "OPEN"
       /\ Reject
    \/ /\ Takes("Msg", {"unexpectedReply"}) /\ client_state = "OPEN"
       /\ Answer("OPEN", "ReplyOk", FALSE)
       /\ UNCHANGED threads
    \/ /\ Takes("Msg", {"none"}) /\ client_state = "OPEN"
       /\ Answer("OPEN", "Msg", FALSE)
       /\ UNCHANGED threads
    \/ /\ Takes("Msg", {"split"}) /\ client_state = "OPEN"
       /\ Starts(<<"Msg">>)
       /\ at' = "part2"
       /\ UNCHANGED <<client_state, reply, extra>>

SendPart2 ==
    /\ at = "part2"
    /\ Starts(<<CR, LF>> \o Line("Msg"))
    /\ at' = AfterLine(client_state, buffer)
    /\ UNCHANGED <<clientVars, handlerVars, connVars>>

ByeLine ==
    /\ Takes("Bye", Tests)
    /\ NoAnswer("END_REQUESTED")
    /\ UNCHANGED threads

\* The ERR of a client is no command the server knows.
UnknownLine ==
    /\ Takes("Err", Tests)
    /\ Reject

\* Mutant: a refused JOIN ends like a refused AUTH.
NokRestarts(state, answer) ==
    CASE answer = "ReplyOk" /\ state \in {"AUTH_WAIT", "JOIN_WAIT"} -> "OPEN"
      [] answer = "ReplyNok"                                        -> "START"
      [] answer = "Err"                                             -> "END_REQUESTED"
      [] OTHER                                                      -> state

\* "State transition happens *after* sending the reply".
AfterReply(state, answer) ==
    CASE answer = "ReplyOk" /\ state \in {"AUTH_WAIT", "JOIN_WAIT"} -> "OPEN"
      [] answer = "ReplyNok" /\ state = "AUTH_WAIT"                 -> "START"
      [] answer = "ReplyNok" /\ state = "JOIN_WAIT"                 -> "OPEN"
      [] answer = "Err"                                             -> "END_REQUESTED"
      [] OTHER                                                      -> state

SendReply ==
    /\ at = "reply"
    /\ Starts(Line(reply))
    /\ client_state' = AfterReply(client_state, reply)
    /\ at' = IF extra THEN "extra" ELSE AfterLine(client_state', buffer)
    /\ UNCHANGED <<clientVars, buffer, reply, extra, connVars>>

\* extra_msg_after_reply, 50 ms after the thread of the reply was started.
SendExtra ==
    /\ at = "extra"
    /\ Starts(Line("Msg"))
    /\ at' = AfterLine(client_state, buffer)
    /\ UNCHANGED <<clientVars, handlerVars, connVars>>

\* Mutant: an exception of shutdown skips close.
ShutdownThrows ==
    /\ at = "close"
    /\ at' = "done"
    /\ UNCHANGED <<clientVars, handlerVars, threads, connVars>>

\* The finally clause: shutdown and close, whatever has yet to be sent.
Close ==
    /\ at = "close"
    /\ closed' = TRUE
    /\ at' = "done"
    /\ UNCHANGED <<clientVars, handlerVars, threads, stream>>

\* Ctrl+C: run_server returns and the daemon threads die with the process.
Shutdown ==
    /\ at \notin {"done", "killed"}
    /\ closed' = TRUE
    /\ at' = "killed"
    /\ UNCHANGED <<clientVars, handlerVars, threads, stream>>

-----------------------------------------------------------------------------
(* Any client. *)

ClientWrites(line) ==
    /\ ~clientGone /\ written < MaxLines
    /\ inbox' = Append(inbox, line)
    /\ written' = written + 1
    /\ UNCHANGED <<clientGone, handlerVars, at, threads, connVars>>

\* The client closes, after a last line or without one.
ClientLeaves(last) ==
    /\ ~clientGone /\ written + Len(last) <= MaxLines
    /\ inbox' = inbox \o last
    /\ written' = written + Len(last)
    /\ clientGone' = TRUE
    /\ UNCHANGED <<handlerVars, at, threads, connVars>>

-----------------------------------------------------------------------------
ServerInit ==
    /\ inbox = << >>
    /\ clientGone = FALSE
    /\ written = 0
    /\ client_state = "START"
    /\ buffer = << >>
    /\ reply = Null
    /\ extra = FALSE
    /\ at = "accept"
    /\ threads = << >>
    /\ stream = << >>
    /\ closed = FALSE

\* What a handler does of itself.
Handler ==
    \/ Accept
    \/ \E n \in 1 .. Len(inbox) : Recv(n)
    \/ RecvEnds
    \/ AuthLine \/ JoinLine \/ MsgLine \/ ByeLine \/ UnknownLine
    \/ SendReply \/ SendPart2 \/ SendExtra
    \/ Close

Sender == \E i \in 1 .. Len(threads) : SendMessageAsync(i)

Client ==
    \/ \E line \in ClientLines : ClientWrites(line) \/ ClientLeaves(<<line>>)
    \/ ClientLeaves(<< >>)

ServerNext == Handler \/ Sender \/ Shutdown \/ Client

ServerSpec == ServerInit /\ [][ServerNext]_serverVars

\* The interpreter runs every thread; nothing obliges the client or the user
\* who stops the server.
ServerFairSpec == ServerSpec /\ WF_serverVars(Handler) /\ WF_serverVars(Sender)

-----------------------------------------------------------------------------
(* Properties. *)

States == {"START", "AUTH_WAIT", "OPEN", "JOIN_WAIT", "END_REQUESTED"}
Labels == {"accept", "recv", "line", "reply", "part2", "extra", "close", "done",
           "killed"}
Texts == {Line(t) : t \in {"ReplyOk", "ReplyNok", "Msg", "Err"}}
         \cup {<<"Msg">>, <<CR, LF>> \o Line("Msg")}

ServerTypeOK ==
    /\ inbox \in Seq(AllLines) /\ buffer \in Seq(AllLines)
    /\ clientGone \in BOOLEAN /\ written \in 0 .. MaxLines
    /\ client_state \in States
    /\ reply \in {Null, "ReplyOk", "ReplyNok", "Msg", "Err"} /\ extra \in BOOLEAN
    /\ at \in Labels
    /\ threads \in Seq([text : Texts, status : {"started", "sent", "lost"}])
    /\ stream \in Seq(Tokens)
    /\ closed \in BOOLEAN /\ (closed <=> at \in {"done", "killed"})

\* The inner loop leaves no line behind and no state half-way: recv is called
\* with an empty buffer, never while an AUTH waits for its reply and never after
\* END_REQUESTED (so the check after a time-out of recv never finds it).
BatchFinished ==
    /\ at \in {"accept", "recv"}
         => buffer = << >> /\ client_state \notin {"AUTH_WAIT", "END_REQUESTED"}
    /\ at = "line" => buffer # << >>

\* A thread for a REPLY OK was started: it has sent it, lost it, or has yet to run.
Granted == \E i \in 1 .. Len(threads) : threads[i].text = Line("ReplyOk")

\* The server's idea of the client agrees with what the client was told, in
\* whatever order the threads tell it: once a REPLY OK is on its way the server
\* never again takes the client for one that has yet to authenticate, and it
\* takes none for authenticated for which no REPLY OK was started.
GrantAgrees ==
    /\ client_state \in {"OPEN", "JOIN_WAIT"} => Granted
    /\ Granted => client_state \notin {"START", "AUTH_WAIT"}
    /\ \A k \in 1 .. Len(stream) : stream[k] = "ReplyOk" => Granted

\* After the thread of an ERR no other is started, however many lines the client has
\* already written, and the handler is on its way out.  (A thread started before it may
\* still send after it.)
ErrStartedLast ==
    \A i \in 1 .. Len(threads) :
        threads[i].text = Line("Err")
        => i = Len(threads) /\ at \in {"close", "done", "killed"}

\* However a client leaves, the server closes its end.
ClientGoneCloses == clientGone ~> closed

-----------------------------------------------------------------------------
(* A statement of the comments that the code does not meet.                 *)

\* "Flag to break after sending ERR/BYE": when the handler has ended of itself, its ERR
\* has been sent.
ErrSentBeforeClose ==
    at = "done" =>
        \A i \in 1 .. Len(threads) :
            threads[i].text = Line("Err") => threads[i].status = "sent"
=============================================================================
