------------------------------ MODULE MCUdpFsm ------------------------------
(***************************************************************************)
(* Small servers for model-checking UdpFsm.  Ids have two bits, read back  *)
(* as -2 .. 1; one retransmission; a listener and a dynamic port.          *)
(***************************************************************************)
EXTENDS UdpFsm

MCPorts == {"listener", "dynamic"}
OnePort == {"dynamic"}

From(p, t, i) == [type |-> t, id |-> i, port |-> p, parses |-> TRUE]
Truncated(t, i) == [type |-> t, id |-> i, port |-> "dynamic", parses |-> FALSE]

\* A CONFIRM and a REPLY OK with one id, beyond the sign bit, and one datagram for
\* each way ServerTasks can end.  Displayed ids are unique.
OtherMsgs == {From("dynamic", "Confirm", 3), From("dynamic", "ReplyOk", 3),
              From("dynamic", Null, 2), Truncated("Err", 1)}

\* A CONFIRM and one REPLY.
ReplyMsgs == {From("dynamic", "Confirm", 0), From("dynamic", "ReplyOk", 1)}
=============================================================================
