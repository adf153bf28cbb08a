-------------------------- MODULE MCServerSession --------------------------
(***************************************************************************)
(* Instances of ServerSession for TLC.                                     *)
(***************************************************************************)
EXTENDS ServerSession

\* Every kind of frame.
AllKinds == RequestKinds \cup BadKinds

\* A login, a request behind it and a message that does not parse: enough to
\* tell identities and stops apart when connections run side by side.
FewKinds == {"login", "chats", "garbage"}
=============================================================================
