---------------------------- MODULE RequestReply ----------------------------
(***************************************************************************)
(* What the server promises a client, with no threads, buffers or jobs in  *)
(* sight: a connection is a list of requests and a list of replies.  The   *)
(* server answers the first request that has no answer yet, for the user   *)
(* the replies so far say is logged in, and hangs up only on a client that *)
(* left or on a frame that is no request.  ServerSession implements it.    *)
(***************************************************************************)
EXTENDS Integers, Sequences

CONSTANTS Sessions,     \* connections
          Requests,     \* frames a client may send: [kind, user]
          NoUser        \* nobody has logged in

VARIABLES
  peer,      \* the client: "none" before it connects, "up", "closed"
  closed,    \* the server has hung up (or has not been called yet)
  sent,      \* frames sent, in order
  replies,   \* replies received, in order
  user       \* whom the connection acts for

vars == <<peer, closed, sent, replies, user>>

\* The replies that answer request b on a connection that acts for u.
Answers(b, u) ==
  LET loggedIn(kinds) == IF u = NoUser THEN [kind : {"empty"}, as : {NoUser}]
                                       ELSE [kind : kinds, as : {u}]
  IN CASE b.kind = "register" -> [kind : {"accepted", "rejected"}, as : {NoUser}]
       [] b.kind = "login" -> {[kind |-> "profile", as |-> b.user],
                               [kind |-> "no_profile", as |-> NoUser]}
       [] b.kind \in {"chats", "contacts", "messages"} -> loggedIn({b.kind})
       [] b.kind \in {"send_mesg", "add_contact", "create_chat"} ->
            loggedIn({"accepted", "rejected"})
       [] OTHER -> {}

Init ==
  /\ peer = [s \in Sessions |-> "none"]
  /\ closed = [s \in Sessions |-> TRUE]
  /\ sent = [s \in Sessions |-> <<>>]
  /\ replies = [s \in Sessions |-> <<>>]
  /\ user = [s \in Sessions |-> NoUser]

Connect(s) ==
  /\ peer[s] = "none"
  /\ peer' = [peer EXCEPT ![s] = "up"]
  /\ closed' = [closed EXCEPT ![s] = FALSE]
  /\ UNCHANGED <<sent, replies, user>>

Send(s, b) ==
  /\ peer[s] = "up"
  /\ sent' = [sent EXCEPT ![s] = Append(@, b)]
  /\ UNCHANGED <<peer, closed, replies, user>>

Leave(s) ==
  /\ peer[s] = "up"
  /\ peer' = [peer EXCEPT ![s] = "closed"]
  /\ UNCHANGED <<closed, sent, replies, user>>

\* The next request without an answer.
Pending(s) == Len(replies[s]) < Len(sent[s])
NextRequest(s) == sent[s][Len(replies[s]) + 1]

\* A login that succeeds makes its user the one later requests act for.
Serve(s) ==
  /\ ~closed[s]
  /\ Pending(s)
  /\ \E r \in Answers(NextRequest(s), user[s]) :
       /\ replies' = [replies EXCEPT ![s] = Append(@, r)]
       /\ user' = [user EXCEPT ![s] = IF r.kind = "profile" THEN r.as ELSE @]
  /\ UNCHANGED <<peer, closed, sent>>

HangUp(s) ==
  /\ ~closed[s]
  /\ \/ peer[s] = "closed"
     \/ Pending(s) /\ Answers(NextRequest(s), user[s]) = {}
  /\ closed' = [closed EXCEPT ![s] = TRUE]
  /\ UNCHANGED <<peer, sent, replies, user>>

Next ==
  \E s \in Sessions :
    \/ Connect(s)
    \/ \E b \in Requests : Send(s, b)
    \/ Leave(s)
    \/ Serve(s)
    \/ HangUp(s)

Spec == Init /\ [][Next]_vars
=============================================================================
