---------------------------- MODULE MCClientApp ----------------------------
(***************************************************************************)
(* An instance of ClientApp for TLC: two users, one of them in both chats. *)
(***************************************************************************)
EXTENDS ClientApp

CONSTANTS u1, u2, c1, c2

MCUsers == {u1, u2}
MCChats == {c1, c2}
MCChatsOf == [u \in MCUsers |-> IF u = u1 THEN {c1, c2} ELSE {c2}]
=============================================================================
