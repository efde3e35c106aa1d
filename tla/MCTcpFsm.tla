------------------------------ MODULE MCTcpFsm ------------------------------
(***************************************************************************)
(* Small servers for model-checking TcpFsm: lines and stray line ends,     *)
(* written in any order and cut into chunks everywhere.                    *)
(***************************************************************************)
EXTENDS TcpFsm

\* A line whose terminator arrives in pieces, stray line ends, which also make a
\* line the client does not display, and a MSG, which is an error before the REPLY.
MCWrites == {<<"ReplyOk", CR>>, <<LF>>, Line("Msg")}

\* REPLY OK and MSG, as after every AUTH.
Welcome == {Line("ReplyOk"), Line("Msg")}
=============================================================================
