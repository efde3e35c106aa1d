----------------------------- MODULE ChatTypes -----------------------------
(***************************************************************************)
(* The enumerations of IPK25-CHAT/src/structs and the classification of a  *)
(* line of standard input (Input.MsgType).  Every other module of the      *)
(* client is written in terms of these names.                              *)
(***************************************************************************)

\* enum FsmStates.
FsmStates == {"Start", "Auth", "Open", "Join", "End"}

\* enum MessageTypes.
MessageTypes == {"Auth", "Bye", "Confirm", "Err", "Join", "Msg", "Ping",
                 "ReplyOk", "ReplyNok", "Rename", "Help"}

\* MessageTypes? is nullable: the value of a datagram that does not decode.
Null == "null"

\* What Input.MsgType makes of a line: a well-formed command is its own type,
\* every other line (a malformed command included) is a chat message.
LineTypes == {"Auth", "Join", "Rename", "Help", "Msg"}

\* What a decoder can make of bytes from the server.
WireTypes == MessageTypes \ {"Rename", "Help"}

\* The two values a server's REPLY decodes to.
Replies == {"ReplyOk", "ReplyNok"}
=============================================================================
