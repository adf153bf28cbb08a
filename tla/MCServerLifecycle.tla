------------------------- MODULE MCServerLifecycle -------------------------
(***************************************************************************)
(* An instance of ServerLifecycle for TLC.                                 *)
(***************************************************************************)
EXTENDS ServerLifecycle

\* A request that needs a login and a message that does not parse: the two
\* ways a frame ends, with an answer or with a stop.
FewKinds == {"chats", "garbage"}
=============================================================================
