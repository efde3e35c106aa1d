---------------------------- MODULE MCUdpSystem ----------------------------
(***************************************************************************)
(* Small servers and users for model-checking UdpSystem.  Ids have two     *)
(* bits; what the network can deliver is what the server can send.         *)
(***************************************************************************)
EXTENDS UdpSystem

OnePort == {"dynamic"}
MCPorts == OnePort \cup {"listener"}
MCRandomIds == {1}

MCServerMsgs == Server!Sent

\* AUTH and JOIN are answered as usual, a MSG by one the client cannot decode.
Malformed == {"malformed"}
=============================================================================
