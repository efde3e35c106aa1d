---------------------------- MODULE MCUdpServer ----------------------------
(***************************************************************************)
(* The datagrams of small clients for model-checking UdpServer.  Ids have  *)
(* two bits.                                                               *)
(***************************************************************************)
EXTENDS UdpServer

OnePort == {"dynamic"}
MCRandomIds == {1, 3}

Asking(type, i, p, tests) == [type : {type}, id : {i}, port : {p}, test : tests]

\* Every request the server tells from every other, sent to the right port; and
\* a JOIN, a CONFIRM and a second AUTH sent to the wrong one.
EveryRequest ==
    Asking("Auth", 0, "listener", {"none", "fail", "timeout"})
    \cup Asking("Join", 1, "dynamic", {"none", "fail", "timeout"})
    \cup Asking("Msg", 2, "dynamic", {"none", "noconfirm", "servererr",
                                      "serverbye", "malformed"})
    \cup Asking("Auth", 3, "dynamic", {"none"})
    \cup Asking("Bye", 3, "dynamic", {"none"})
    \cup Asking("Confirm", 1, "dynamic", {"none"})
    \cup Asking("Join", 1, "listener", {"none"})
=============================================================================
