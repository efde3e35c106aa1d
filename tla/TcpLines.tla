------------------------------ MODULE TcpLines ------------------------------
(***************************************************************************)
(* The text that TCP carries from the server to the client, shared by the  *)
(* client and the server.                                                  *)
(***************************************************************************)
EXTENDS ChatTypes, Sequences

CR == "CR"
LF == "LF"

\* The text of a line up to its terminator is one token: the type its first
\* word stands for, or "Other".  A chunk that ends within the text and one that
\* ends after it are alike: whoever reads it puts the text together.
Tokens == WireTypes \cup {"Other", CR, LF}

Line(text) == <<text, CR, LF>>
=============================================================================
