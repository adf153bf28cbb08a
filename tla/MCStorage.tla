------------------------------ MODULE MCStorage ------------------------------
(***************************************************************************)
(* Instances of Storage for TLC.                                           *)
(***************************************************************************)
EXTENDS Storage, TLC

ContactOps == {"registration", "login", "add_contact", "get_contacts"}
ChatOps == {"create_chat", "send_message", "get_chats", "get_messages"}

\* Workers are interchangeable; users are not when only some are registered.
WorkerSymmetry == Permutations(Workers)
=============================================================================
