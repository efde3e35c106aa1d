---------------------------- MODULE MCTcpSystem ----------------------------
(***************************************************************************)
(* What the user of TcpSystem makes the client write in each run.          *)
(***************************************************************************)
EXTENDS TcpSystem

MCWrites == Server!Texts

Asking(type, tests) == [type : {type}, test : tests]

\* What the client writes of itself.
OwnLines == Asking("Err", {"none"}) \cup Asking("Bye", {"none"})

\* Sessions with every kind of answer to AUTH and JOIN, and messages that are
\* answered by an ERR or in two pieces.
Chat == OwnLines \cup Asking("Auth", {"none", "refused"})
                 \cup Asking("Join", {"none", "refused", "nothing"})
                 \cup Asking("Msg", {"err", "split"})
=============================================================================
