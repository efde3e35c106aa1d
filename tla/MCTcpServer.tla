---------------------------- MODULE MCTcpServer ----------------------------
(***************************************************************************)
(* The lines of small clients for model-checking TcpServer.                *)
(***************************************************************************)
EXTENDS TcpServer

Asking(type, tests) == [type : {type}, test : tests]

\* Every line the server tells from every other.
EveryLine ==
    Asking("Auth", {"none", "refused", "unexpectedMsg"})
    \cup Asking("Join", {"none", "refused", "unexpectedMsg", "nothing"})
    \cup Asking("Msg", {"none", "err", "split", "unexpectedReply"})
    \cup Asking("Bye", {"none"}) \cup Asking("Err", {"none"})
=============================================================================
