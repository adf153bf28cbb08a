-------------------------- MODULE Server_refinement -------------------------
(***************************************************************************)
(* Proofs about the whole server, for any set of clients and workers.      *)
(*                                                                         *)
(* First, ServerSession answers requests in order and implements           *)
(* RequestReply.  This rests on the token invariant of                     *)
(* ServerSession_proofs: since one party at a time holds a session, it is  *)
(* enough to say what each holder knows of the request under way.          *)
(*                                                                         *)
(* Then, ServerLifecycle: the acceptor, the signal handler and run() leave *)
(* the sessions alone, so that everything proved of ServerSession holds of *)
(* the whole server, and the acceptor itself is right.                     *)
(***************************************************************************)
EXTENDS ServerLifecycle, ServerSession_proofs, WellFoundedInduction

\* A set of numbers up to n that is not empty has a greatest element.
LEMMA Greatest ==
  ASSUME NEW n \in Nat, NEW S \in SUBSET (1..n), S # {}
  PROVE  \E i \in S : \A j \in S : j <= i
<1> DEFINE T == {n - i : i \in S}
<1>1. T \subseteq Nat /\ T # {}
  <2>1. PICK i \in S : TRUE
    OBVIOUS
  <2>2. n - i \in T
    OBVIOUS
  <2>3. T \subseteq Nat
    OBVIOUS
  <2> QED
    BY <2>2, <2>3
<1>2. \E x \in T : \A y \in T : ~(<<y, x>> \in OpToRel(<, Nat))
  BY <1>1, WFMin, NatLessThanWellFounded
<1>3. PICK x \in T : \A y \in T : ~(<<y, x>> \in OpToRel(<, Nat))
  BY <1>2
<1>4. \A y \in T : ~(y < x)
  BY <1>1, <1>3 DEF OpToRel
<1>5. PICK i \in S : x = n - i
  OBVIOUS
<1>6. ASSUME NEW j \in S PROVE j <= i
  <2>1. n - j \in T
    OBVIOUS
  <2> QED
    BY <1>4, <1>5, <2>1
<1> QED
  BY <1>6

\* UserAfter as a function of a list of replies.
UserOf(seq, n) ==
  LET logins == {i \in 1..n : seq[i].kind = "profile"} IN
  IF logins = {} THEN NoUser
  ELSE seq[CHOOSE i \in logins : \A j \in logins : j <= i].as

\* In any state the two agree.
LEMMA UserAfterIsUserOf ==
  /\ \A s, n : UserAfter(s, n) = UserOf(replies[s], n)
  /\ \A s, n : UserAfter(s, n)' = UserOf(replies'[s], n)
  BY DEF UserAfter, UserOf

\* The last login is among the replies counted.
LEMMA LastLogin ==
  ASSUME NEW seq, NEW n \in Nat, NEW i \in 1..n, seq[i].kind = "profile",
         \A j \in 1..n : seq[j].kind = "profile" => j <= i
  PROVE  UserOf(seq, n) = seq[i].as
<1> DEFINE logins == {k \in 1..n : seq[k].kind = "profile"}
<1>1. i \in logins /\ \A j \in logins : j <= i
  OBVIOUS
<1>2. (CHOOSE k \in logins : \A j \in logins : j <= k) = i
  <2> DEFINE c == CHOOSE k \in logins : \A j \in logins : j <= k
  <2>1. c \in logins /\ \A j \in logins : j <= c
    BY <1>1
  <2>2. c <= i /\ i <= c /\ c \in Int /\ i \in Int
    BY <1>1, <2>1
  <2> QED
    BY <2>2
<1> QED
  BY <1>1, <1>2 DEF UserOf

\* Replies that come later do not change whom the earlier ones logged in.
LEMMA UserOfPrefix ==
  ASSUME NEW n \in Nat, NEW p, NEW q, \A i \in 1..n : p[i] = q[i]
  PROVE  UserOf(p, n) = UserOf(q, n)
<1> DEFINE logins == {i \in 1..n : p[i].kind = "profile"}
<1>1. CASE logins = {}
  <2>1. {i \in 1..n : q[i].kind = "profile"} = {}
    BY <1>1
  <2> QED
    BY <1>1, <2>1 DEF UserOf
<1>2. CASE logins # {}
  <2>1. PICK i \in logins : \A j \in logins : j <= i
    BY <1>2, Greatest
  <2>2. UserOf(p, n) = p[i].as
    BY <2>1, LastLogin
  <2>3. UserOf(q, n) = q[i].as
    BY <2>1, LastLogin
  <2> QED
    BY <2>2, <2>3
<1> QED
  BY <1>1, <1>2

\* One more reply changes the user exactly if it is a profile.
LEMMA UserOfNext ==
  ASSUME NEW n \in Nat, NEW seq
  PROVE  UserOf(seq, n + 1) = IF seq[n + 1].kind = "profile" THEN seq[n + 1].as ELSE UserOf(seq, n)
<1>1. CASE seq[n + 1].kind = "profile"
  BY <1>1, LastLogin
<1>2. CASE seq[n + 1].kind # "profile"
  <2> DEFINE logins == {i \in 1..n : seq[i].kind = "profile"}
  <2>1. CASE logins = {}
    <3>1. {i \in 1..(n + 1) : seq[i].kind = "profile"} = {}
      BY <1>2, <2>1
    <3> QED
      BY <1>2, <2>1, <3>1 DEF UserOf
  <2>2. CASE logins # {}
    <3>1. PICK i \in logins : \A j \in logins : j <= i
      BY <2>2, Greatest
    <3>2. UserOf(seq, n) = seq[i].as
      BY <3>1, LastLogin
    <3>3. UserOf(seq, n + 1) = seq[i].as
      BY <1>2, <3>1, LastLogin
    <3> QED
      BY <1>2, <3>2, <3>3
  <2> QED
    BY <2>1, <2>2
<1> QED
  BY <1>1, <1>2

-----------------------------------------------------------------------------
(* What the holder of a session knows of the request under way. *)

\* The user the client has been told, and the first request without a reply.
Told(s) == UserAfter(s, Len(replies[s]))
Current(s) == sent[s][Len(replies[s]) + 1]

\* Every request read has its reply.
Fresh(s) == nread[s] = Len(replies[s]) /\ state[s] = Told(s)

\* The current request has been read, and req is that request, or stands for
\* it as the job that has yet to parse it.
Asked(s, req) ==
  /\ nread[s] = Len(replies[s]) + 1
  /\ state[s] = Told(s)
  /\ IF req = ParseReq THEN buf[s] = [part |-> "body", body |-> Current(s)] ELSE req = Current(s)

\* The current request has been read, and r is a right answer to it that the
\* session's state already reflects.
Answered(s, r) ==
  /\ nread[s] = Len(replies[s]) + 1
  /\ r \in Abstract!Answers(Current(s), Told(s))
  /\ state[s] = IF r.kind = "profile" THEN r.as ELSE Told(s)

AtSocketInv(s) ==
  /\ ops[s] \cap {"read_prefix", "read_message"} # {} => Fresh(s)
  /\ "write" \in ops[s] => buf[s].part = "reply" /\ Answered(s, buf[s].reply)

OnNetInv(s) ==
  net.s = s =>
    IF net.err THEN peer[s] = "closed"
    ELSE /\ net.h = "on_read_prefix" => /\ Fresh(s)
                                        /\ Len(replies[s]) < Len(sent[s])
                                        /\ buf[s] = [part |-> "prefix", body |-> Current(s)]
         /\ net.h = "on_read_message" => Asked(s, ParseReq)
         /\ net.h = "on_write" => Fresh(s)

InPoolInv(s) == \A i \in 1..Len(pool) : pool[i].s = s => Asked(s, pool[i].req)

OnWorkerInv(s) ==
  \A w \in Workers : wjob[w].s = s =>
    /\ wpc[w] = "parse" => wjob[w].req = ParseReq
    /\ wpc[w] \in {"parse", "run"} => Asked(s, wjob[w].req)
    /\ wpc[w] = "reply" => Answered(s, wres[w])

\* The streams: replies stay behind the frames read, those behind the frames
\* sent, and the replies so far are right.
StreamInv(s) ==
  /\ Len(replies[s]) <= nread[s]
  /\ nread[s] <= Len(sent[s])
  /\ \A n \in 1..Len(replies[s]) :
       replies[s][n] \in Abstract!Answers(sent[s][n], UserAfter(s, n - 1))

\* All of it; a connection nobody has made yet has no history.
OrderInv(s) ==
  /\ StreamInv(s)
  /\ AtSocketInv(s) /\ OnNetInv(s) /\ InPoolInv(s) /\ OnWorkerInv(s)
  /\ peer[s] = "none" => Fresh(s)

Orders == \A s \in Sessions : OrderInv(s)

\* What answers a request, by its kind.
LEMMA RightAnswers ==
  ASSUME NEW b, NEW u
  PROVE  /\ b.kind = "register" => \A k \in {"accepted", "rejected"} :
              [kind |-> k, as |-> NoUser] \in Abstract!Answers(b, u)
         /\ b.kind = "login" => /\ [kind |-> "profile", as |-> b.user] \in Abstract!Answers(b, u)
                                /\ [kind |-> "no_profile", as |-> NoUser] \in Abstract!Answers(b, u)
         /\ b.kind \in {"chats", "contacts", "messages"} /\ u # NoUser =>
              [kind |-> b.kind, as |-> u] \in Abstract!Answers(b, u)
         /\ b.kind \in {"send_mesg", "add_contact", "create_chat"} /\ u # NoUser =>
              \A k \in {"accepted", "rejected"} : [kind |-> k, as |-> u] \in Abstract!Answers(b, u)
         /\ b.kind \in AuthKinds /\ u = NoUser =>
              [kind |-> "empty", as |-> NoUser] \in Abstract!Answers(b, u)
         /\ b.kind \notin RequestKinds => Abstract!Answers(b, u) = {}
  BY DEF Abstract!Answers, AuthKinds, RequestKinds

\* Whoever holds a session is the only one with something to say about it, so
\* after a step only the new holder's part has to be shown.
LEMMA HeldAtSocket ==
  ASSUME IInv', NEW s \in Sessions, AtSocket(s)', StreamInv(s)', AtSocketInv(s)'
  PROVE  OrderInv(s)'
  BY DEF IInv, PeerInv, Tokens, Token, OnNet, InPool, OnWorker, OrderInv, OnNetInv, InPoolInv, OnWorkerInv

\* The same for a session the network thread is on,
LEMMA HeldOnNet ==
  ASSUME IInv', NEW s \in Sessions, OnNet(s)', StreamInv(s)', OnNetInv(s)'
  PROVE  OrderInv(s)'
  BY DEF IInv, PeerInv, Tokens, Token, AtSocket, InPool, OnWorker, OrderInv, AtSocketInv, InPoolInv, OnWorkerInv

\* for one in the queue of the pool,
LEMMA HeldInPool ==
  ASSUME IInv', NEW s \in Sessions, InPool(s)', StreamInv(s)', InPoolInv(s)'
  PROVE  OrderInv(s)'
  BY DEF IInv, PeerInv, Tokens, Token, AtSocket, OnNet, OnWorker, OrderInv, AtSocketInv, OnNetInv, OnWorkerInv

\* for one a worker is on,
LEMMA HeldOnWorker ==
  ASSUME IInv', NEW s \in Sessions, OnWorker(s)', StreamInv(s)', OnWorkerInv(s)'
  PROVE  OrderInv(s)'
  BY DEF IInv, PeerInv, Tokens, Token, AtSocket, OnNet, InPool, OrderInv, AtSocketInv, OnNetInv, InPoolInv

\* and for one that has been stopped, of which only the streams are left.
LEMMA HeldByNobody ==
  ASSUME IInv', NEW s \in Sessions, stopped'[s], peer'[s] # "none", StreamInv(s)'
  PROVE  OrderInv(s)'
  BY DEF IInv, Tokens, Token, AtSocket, OnNet, InPool, OnWorker, OrderInv, AtSocketInv, OnNetInv,
         InPoolInv, OnWorkerInv

\* The streams of t only grow at the client's end, and t's members stay.
Untouched(t) ==
  /\ nread'[t] = nread[t] /\ replies'[t] = replies[t] /\ state'[t] = state[t] /\ buf'[t] = buf[t]
  /\ Len(sent[t]) <= Len(sent'[t])
  /\ \A i \in 1..Len(sent[t]) : sent'[t][i] = sent[t][i]

\* Untouched streams are as right as they were.
LEMMA StreamKept ==
  ASSUME TypeOK, NEW t \in Sessions, StreamInv(t), Untouched(t), sent'[t] \in Seq(Body)
  PROVE  /\ StreamInv(t)' /\ Told(t)' = Told(t)
         /\ Fresh(t) => Fresh(t)'
         /\ Len(replies[t]) < Len(sent[t]) => Current(t)' = Current(t)
         /\ \A req : Asked(t, req) => Asked(t, req)'
         /\ \A r : Answered(t, r) => Answered(t, r)'
<1>1. /\ Len(replies[t]) \in Nat /\ Len(sent[t]) \in Nat /\ Len(sent'[t]) \in Nat /\ nread[t] \in Nat
  BY DEF TypeOK
<1>2. \A n : UserAfter(t, n)' = UserAfter(t, n)
  BY UserAfterIsUserOf DEF Untouched
<1>3. Told(t)' = Told(t)
  BY <1>2 DEF Told, Untouched
<1>4. StreamInv(t)'
  BY <1>1, <1>2 DEF StreamInv, Untouched
<1>5. Fresh(t) => Fresh(t)'
  BY <1>3 DEF Fresh, Untouched
<1>6. Len(replies[t]) < Len(sent[t]) => Current(t)' = Current(t)
  BY <1>1 DEF Current, Untouched
<1>7. \A req : Asked(t, req) => Asked(t, req)'
  BY <1>1, <1>3, <1>6 DEF Asked, Untouched, StreamInv
<1>8. \A r : Answered(t, r) => Answered(t, r)'
  BY <1>1, <1>3, <1>6 DEF Answered, Untouched, StreamInv
<1> QED
  BY <1>3, <1>4, <1>5, <1>6, <1>7, <1>8

\* A step that gives nobody a part in t leaves all of it right.
LEMMA Frame ==
  ASSUME TypeOK, NEW t \in Sessions, OrderInv(t), Untouched(t), sent'[t] \in Seq(Body),
         ops'[t] \subseteq ops[t],
         peer'[t] = peer[t] \/ (peer[t] = "up" /\ peer'[t] = "closed"),
         net' = net \/ net'.s # t,
         \A i \in 1..Len(pool') : pool'[i].s = t => \E j \in 1..Len(pool) : pool[j] = pool'[i],
         \A w \in Workers : wjob'[w].s = t =>
           wjob'[w] = wjob[w] /\ wpc'[w] = wpc[w] /\ wres'[w] = wres[w]
  PROVE  OrderInv(t)'
<1>1. /\ StreamInv(t)' /\ Told(t)' = Told(t)
      /\ Fresh(t) => Fresh(t)'
      /\ Len(replies[t]) < Len(sent[t]) => Current(t)' = Current(t)
      /\ \A req : Asked(t, req) => Asked(t, req)'
      /\ \A r : Answered(t, r) => Answered(t, r)'
  BY StreamKept DEF OrderInv
<1>2. AtSocketInv(t)'
  BY <1>1 DEF OrderInv, AtSocketInv, Untouched
<1>3. OnNetInv(t)'
  <2>1. Len(replies'[t]) = Len(replies[t]) /\ Len(sent[t]) <= Len(sent'[t])
    BY DEF Untouched
  <2>2. Len(replies[t]) \in Nat /\ Len(sent[t]) \in Nat /\ Len(sent'[t]) \in Nat
    BY DEF TypeOK
  <2> QED
    BY <1>1, <2>1, <2>2 DEF OrderInv, OnNetInv, Untouched
<1>4. InPoolInv(t)'
  BY <1>1 DEF OrderInv, InPoolInv
<1>5. OnWorkerInv(t)'
  BY <1>1 DEF OrderInv, OnWorkerInv
<1> QED
  BY <1>1, <1>2, <1>3, <1>4, <1>5 DEF OrderInv

\* A worker that has run a job with a right answer holds that answer.
LEMMA Composed ==
  ASSUME IInv, IInv', NEW w \in Workers, NEW k, NEW u, NEW t \in Sessions, OrderInv(t),
         wpc[w] = "run", Compose(w, k, u),
         \A s \in Sessions : s # wjob[w].s => state'[s] = state[s],
         wjob[w].s = t =>
           /\ [kind |-> k, as |-> u] \in Abstract!Answers(Current(t), Told(t))
           /\ state'[t] = IF k = "profile" THEN u ELSE Told(t)
  PROVE  OrderInv(t)'
<1>1. UNCHANGED <<peer, sent, nread, replies, stopped, buf, ops, net, pool, wjob>>
  BY DEF Compose, clientVars
<1>2. sent'[t] \in Seq(Body)
  BY DEF IInv, TypeOK
<1>3. CASE wjob[w].s = t
  <2>1. OnWorker(t)'
    BY <1>1, <1>3 DEF OnWorker
  <2>2. \A v \in Workers : wjob[v].s = t => v = w
    BY <1>3 DEF IInv, Tokens, Token, OneWorker
  <2>3. Asked(t, wjob[w].req)
    BY <1>3 DEF OrderInv, OnWorkerInv
  <2>4. \A n : UserAfter(t, n)' = UserAfter(t, n)
    BY <1>1, UserAfterIsUserOf
  <2>5. StreamInv(t)'
    BY <1>1, <2>4 DEF OrderInv, StreamInv
  <2>6. wpc'[w] = "reply" /\ wres'[w] = [kind |-> k, as |-> u]
    BY DEF Compose, IInv, TypeOK
  <2>7. Told(t)' = Told(t) /\ Current(t)' = Current(t)
    BY <1>1, <2>4 DEF Told, Current
  <2>8. Answered(t, wres[w])'
    BY <1>1, <1>3, <2>3, <2>6, <2>7 DEF Answered, Asked
  <2>9. OnWorkerInv(t)'
    BY <1>1, <2>2, <2>6, <2>8 DEF OnWorkerInv
  <2> QED
    BY <2>1, <2>5, <2>9, HeldOnWorker
<1>4. CASE wjob[w].s # t
  <2>1. Untouched(t)
    BY <1>1, <1>4 DEF Untouched, IInv, TypeOK
  <2>2. \A v \in Workers : wjob'[v].s = t =>
           wjob'[v] = wjob[v] /\ wpc'[v] = wpc[v] /\ wres'[v] = wres[v]
    BY <1>1, <1>4 DEF Compose, IInv, TypeOK
  <2> QED
    BY <1>1, <1>2, <2>1, <2>2, Frame DEF IInv
<1> QED
  BY <1>3, <1>4

\* A handler or a job that stops its session leaves its history right.
LEMMA StoppedOrder ==
  ASSUME IInv, IInv', NEW s \in Sessions, OrderInv(s), ~stopped[s], stopped'[s],
         UNCHANGED <<peer, sent, nread, replies, state>>
  PROVE  OrderInv(s)'
<1>1. \A n : UserAfter(s, n)' = UserAfter(s, n)
  BY UserAfterIsUserOf
<1>2. StreamInv(s)'
  BY <1>1 DEF OrderInv, StreamInv
<1>3. peer'[s] # "none"
  BY DEF IInv, PeerInv
<1> QED
  BY <1>2, <1>3, HeldByNobody

\* The network thread's steps.
LEMMA NetworkOrder ==
  ASSUME IInv, IInv', Orders, NEW s \in Sessions, NEW t \in Sessions,
         \/ HandleAccept(s) \/ CompleteReadPrefix(s) \/ CompleteReadMessage(s)
         \/ CompleteWrite(s) \/ CompleteWithError(s)
         \/ OnReadPrefix(s) \/ OnReadMessage(s) \/ OnWrite(s)
  PROVE  OrderInv(t)'
<1> USE DEF IInv
<1>T. OrderInv(t) /\ OrderInv(s) /\ sent'[t] \in Seq(Body)
  BY DEF Orders, TypeOK
<1>0. /\ Len(replies[s]) \in Nat /\ Len(sent[s]) \in Nat /\ nread[s] \in Nat
      /\ Len(replies[s]) <= nread[s] /\ nread[s] <= Len(sent[s])
  BY <1>T DEF TypeOK, OrderInv, StreamInv
\* Another session's step.
<1>1. ASSUME t # s PROVE OrderInv(t)'
  <2> DEFINE Others == /\ UNCHANGED <<sent, state, wpc, wjob, wres>>
                       /\ nread'[t] = nread[t] /\ replies'[t] = replies[t] /\ buf'[t] = buf[t]
                       /\ ops'[t] = ops[t] /\ peer'[t] = peer[t]
                       /\ net' = net \/ net'.s # t
                       /\ pool' = pool \/ pool' = Append(pool, [s |-> s, req |-> ParseReq])
  <2>0. NetIdle.s # t
    BY NoSessionAssumption DEF NetIdle
  <2>1. ASSUME HandleAccept(s) PROVE Others
    BY <1>1, <2>1 DEF TypeOK, HandleAccept, Start, DoAsyncReadPrefix, AsyncRead, workerVars
  <2>2. ASSUME NEW op, NEW h, NEW err, Enter(s, op, h, err), nread'[t] = nread[t],
               replies'[t] = replies[t], buf'[t] = buf[t]
        PROVE  Others
    <3>1. net'.s = s
      BY <2>2 DEF Enter
    <3>2. ops'[t] = ops[t]
      BY <1>1, <2>2 DEF Enter, TypeOK
    <3> QED
      BY <1>1, <2>2, <3>1, <3>2 DEF Enter, clientVars, workerVars
  <2>3. ASSUME CompleteReadPrefix(s) PROVE Others
    BY <1>1, <2>2, <2>3 DEF CompleteReadPrefix, TypeOK
  <2>4. ASSUME CompleteReadMessage(s) PROVE Others
    BY <1>1, <2>2, <2>4 DEF CompleteReadMessage, TypeOK
  <2>5. ASSUME CompleteWrite(s) PROVE Others
    <3>1. replies'[t] = replies[t]
      BY <1>1, <2>5 DEF CompleteWrite, TypeOK
    <3> QED
      BY <2>2, <2>5, <3>1 DEF CompleteWrite
  <2>6. ASSUME CompleteWithError(s) PROVE Others
    BY <2>2, <2>6 DEF CompleteWithError
  <2>7. ASSUME NEW h, Leave(h), ops'[t] = ops[t], buf'[t] = buf[t],
               pool' = pool \/ pool' = Append(pool, [s |-> s, req |-> ParseReq])
        PROVE  Others
    BY <2>0, <2>7 DEF Leave, clientVars, workerVars
  <2>8. ASSUME Stop(s) \/ DoAsyncReadPrefix(s) \/ DoAsyncReadMessage(s)
        PROVE  ops'[t] = ops[t] /\ buf'[t] = buf[t]
    BY <1>1, <2>8 DEF Stop, DoAsyncReadPrefix, DoAsyncReadMessage, AsyncRead, TypeOK
  <2>9. ASSUME OnReadPrefix(s) PROVE Others
    BY <2>7, <2>8, <2>9 DEF OnReadPrefix
  <2>10. ASSUME OnReadMessage(s) PROVE Others
    BY <2>7, <2>8, <2>10 DEF OnReadMessage, Post
  <2>11. ASSUME OnWrite(s) PROVE Others
    BY <2>7, <2>8, <2>11 DEF OnWrite
  <2>12. Others
    BY <2>1, <2>3, <2>4, <2>5, <2>6, <2>9, <2>10, <2>11
  <2>13. \A i \in 1..Len(pool') : pool'[i].s = t => \E j \in 1..Len(pool) : pool[j] = pool'[i]
    <3>1. CASE pool' = pool
      BY <3>1
    <3>2. CASE pool' = Append(pool, [s |-> s, req |-> ParseReq])
      <4>1. /\ Len(pool) \in Nat /\ Len(pool') = Len(pool) + 1
            /\ \A i \in 1..Len(pool) : pool'[i] = pool[i]
            /\ pool'[Len(pool) + 1] = [s |-> s, req |-> ParseReq]
        BY <3>2 DEF TypeOK
      <4> QED
        BY <1>1, <4>1
    <3> QED
      BY <2>12, <3>1, <3>2
  <2>14. Untouched(t)
    BY <1>T, <2>12 DEF Untouched, TypeOK
  <2>15. \A w \in Workers : wjob'[w].s = t =>
            wjob'[w] = wjob[w] /\ wpc'[w] = wpc[w] /\ wres'[w] = wres[w]
    BY <2>12
  <2>16. ops'[t] \subseteq ops[t] /\ peer'[t] = peer[t] /\ (net' = net \/ net'.s # t)
    BY <2>12
  <2> QED
    BY <1>T, <2>13, <2>14, <2>15, <2>16, Frame
\* What is kept while the replies are.
<1>2. ASSUME UNCHANGED <<sent, replies>>
      PROVE  /\ \A n : UserAfter(s, n)' = UserAfter(s, n)
             /\ Told(s)' = Told(s) /\ Current(s)' = Current(s)
             /\ nread'[s] \in {nread[s], nread[s] + 1} /\ nread'[s] <= Len(sent[s]) => StreamInv(s)'
  <2>1. \A n : UserAfter(s, n)' = UserAfter(s, n)
    BY <1>2, UserAfterIsUserOf
  <2>2. Told(s)' = Told(s) /\ Current(s)' = Current(s)
    BY <1>2, <2>1 DEF Told, Current
  <2>3. nread'[s] \in {nread[s], nread[s] + 1} /\ nread'[s] <= Len(sent[s]) => StreamInv(s)'
    BY <1>0, <1>2, <1>T, <2>1 DEF StreamInv, OrderInv
  <2> QED
    BY <2>1, <2>2, <2>3
<1>3. ASSUME HandleAccept(s) PROVE OrderInv(s)'
  <2>1. UNCHANGED <<sent, nread, replies, state>> /\ ops'[s] = {"read_prefix"}
    <3>1. ops[s] = {}
      BY <1>3 DEF HandleAccept, PeerInv, Tokens, Token, AtSocket
    <3> QED
      BY <1>3, <3>1 DEF HandleAccept, Start, DoAsyncReadPrefix, AsyncRead, TypeOK
  <2>2. Fresh(s)
    BY <1>3, <1>T DEF HandleAccept, OrderInv
  <2>3. Fresh(s)' /\ StreamInv(s)'
    BY <1>0, <1>2, <2>1, <2>2 DEF Fresh
  <2> QED
    BY <2>1, <2>3, HeldAtSocket DEF AtSocket, AtSocketInv
\* A completed operation: the session was at the socket, with this one.
<1>4. ASSUME NEW op, NEW h, NEW err, Enter(s, op, h, err)
      PROVE  /\ ops[s] = {op} /\ ~stopped[s]
             /\ net'.h = h /\ net'.s = s /\ net'.err = err /\ OnNet(s)'
             /\ UNCHANGED <<peer, sent, stopped, state>>
  <2>1. net' = [h |-> h, s |-> s, err |-> err]
    BY <1>4 DEF Enter
  <2>2. net'.h = h /\ net'.s = s /\ net'.err = err
    BY <2>1
  <2>3. ops[s] = {op} /\ ~stopped[s]
    BY <1>4 DEF Enter, Tokens, Token, OneOp, AtSocket
  <2> QED
    BY <1>4, <2>2, <2>3 DEF Enter, clientVars, OnNet
<1>5. ASSUME CompleteReadPrefix(s) PROVE OrderInv(s)'
  <2>1. Enter(s, "read_prefix", "on_read_prefix", FALSE)
    BY <1>5 DEF CompleteReadPrefix
  <2>0. /\ ops[s] = {"read_prefix"} /\ OnNet(s)' /\ UNCHANGED <<peer, sent, stopped, state>>
        /\ net'.s = s /\ net'.h = "on_read_prefix" /\ net'.err = FALSE
    BY <1>4, <2>1
  <2>2. Fresh(s)
    BY <1>T, <2>0 DEF OrderInv, AtSocketInv
  <2>3. /\ UNCHANGED <<nread, replies>> /\ nread[s] < Len(sent[s])
        /\ buf'[s] = [part |-> "prefix", body |-> sent[s][nread[s] + 1]]
    BY <1>5 DEF CompleteReadPrefix, TypeOK
  <2>4. buf'[s] = [part |-> "prefix", body |-> Current(s)']
    BY <1>2, <2>0, <2>2, <2>3 DEF Fresh, Current
  <2>5. StreamInv(s)' /\ Fresh(s)'
    BY <1>0, <1>2, <2>0, <2>2, <2>3 DEF Fresh
  <2>6. OnNetInv(s)'
    BY <1>0, <2>0, <2>2, <2>3, <2>4, <2>5 DEF OnNetInv, Fresh
  <2> QED
    BY <2>0, <2>5, <2>6, HeldOnNet
<1>6. ASSUME CompleteReadMessage(s) PROVE OrderInv(s)'
  <2>1. Enter(s, "read_message", "on_read_message", FALSE)
    BY <1>6 DEF CompleteReadMessage
  <2>0. /\ ops[s] = {"read_message"} /\ OnNet(s)' /\ UNCHANGED <<peer, sent, stopped, state>>
        /\ net'.s = s /\ net'.h = "on_read_message" /\ net'.err = FALSE
    BY <1>4, <2>1
  <2>2. Fresh(s)
    BY <1>T, <2>0 DEF OrderInv, AtSocketInv
  <2>3. /\ UNCHANGED replies /\ nread'[s] = nread[s] + 1 /\ nread[s] < Len(sent[s])
        /\ buf'[s] = [part |-> "body", body |-> sent[s][nread[s] + 1]]
    BY <1>6 DEF CompleteReadMessage, TypeOK
  <2>4. Asked(s, ParseReq)'
    BY <1>2, <2>0, <2>2, <2>3 DEF Fresh, Asked, Current
  <2>5. StreamInv(s)'
    BY <1>0, <1>2, <2>0, <2>3
  <2>6. OnNetInv(s)'
    BY <2>0, <2>4 DEF OnNetInv
  <2> QED
    BY <2>0, <2>5, <2>6, HeldOnNet
<1>7. ASSUME CompleteWrite(s) PROVE OrderInv(s)'
  <2> DEFINE r == buf[s].reply
             n == Len(replies[s])
  <2>1. Enter(s, "write", "on_write", FALSE)
    BY <1>7 DEF CompleteWrite
  <2>0. /\ ops[s] = {"write"} /\ OnNet(s)' /\ UNCHANGED <<peer, sent, stopped, state>>
        /\ net'.s = s /\ net'.h = "on_write" /\ net'.err = FALSE
    BY <1>4, <2>1
  <2>2. buf[s].part = "reply" /\ Answered(s, r)
    BY <1>T, <2>0 DEF OrderInv, AtSocketInv
  <2>3. UNCHANGED <<nread, buf>> /\ replies'[s] = Append(replies[s], r)
    BY <1>7, <2>2 DEF CompleteWrite, TypeOK
  <2>4. /\ n \in Nat /\ Len(replies'[s]) = n + 1
        /\ \A i \in 1..n : replies'[s][i] = replies[s][i]
        /\ replies'[s][n + 1] = r
    BY <2>3 DEF TypeOK
  <2>5. ASSUME NEW i \in 0..n PROVE UserAfter(s, i)' = UserAfter(s, i)
    <3>1. i \in Nat /\ \A j \in 1..i : replies'[s][j] = replies[s][j]
      BY <2>4
    <3> QED
      BY <3>1, UserAfterIsUserOf, UserOfPrefix
  <2>6. Told(s)' = IF r.kind = "profile" THEN r.as ELSE Told(s)
    <3>1. Told(s)' = UserOf(replies'[s], n + 1) /\ Told(s) = UserOf(replies[s], n)
      BY <2>4, UserAfterIsUserOf DEF Told
    <3>2. UserOf(replies'[s], n) = UserOf(replies[s], n)
      BY <2>4, UserOfPrefix
    <3> QED
      BY <2>4, <3>1, <3>2, UserOfNext
  <2>7. Fresh(s)'
    BY <2>0, <2>2, <2>3, <2>4, <2>6 DEF Fresh, Answered
  <2>8. StreamInv(s)'
    <3>1. ASSUME NEW i \in 1..(n + 1)
          PROVE  replies'[s][i] \in Abstract!Answers(sent'[s][i], UserAfter(s, i - 1)')
      <4>1. CASE i = n + 1
        BY <2>0, <2>2, <2>4, <2>5, <4>1 DEF Answered, Current, Told
      <4>2. CASE i # n + 1
        BY <1>T, <2>0, <2>4, <2>5, <4>2 DEF OrderInv, StreamInv
      <4> QED
        BY <4>1, <4>2
    <3>2. Len(replies'[s]) <= nread'[s] /\ nread'[s] <= Len(sent'[s])
      BY <1>0, <2>0, <2>2, <2>3, <2>4 DEF Answered
    <3> QED
      BY <2>4, <3>1, <3>2 DEF StreamInv
  <2>9. OnNetInv(s)'
    BY <2>0, <2>7 DEF OnNetInv
  <2> QED
    BY <2>0, <2>8, <2>9, HeldOnNet
<1>8. ASSUME CompleteWithError(s) PROVE OrderInv(s)'
  <2>1. PICK op, h : Enter(s, op, h, TRUE)
    BY <1>8 DEF CompleteWithError
  <2>2. UNCHANGED <<nread, replies>> /\ peer'[s] = "closed" /\ net'.err = TRUE
    BY <1>4, <1>8, <2>1 DEF CompleteWithError, MayFail
  <2>3. StreamInv(s)'
    BY <1>0, <1>2, <1>4, <2>1, <2>2
  <2>4. OnNetInv(s)'
    BY <2>2 DEF OnNetInv
  <2> QED
    BY <1>4, <2>1, <2>3, <2>4, HeldOnNet
\* A handler: the session is on the network thread.
<1>9. ASSUME net.s = s
      PROVE  ~stopped[s] /\ ops[s] = {}
  BY <1>9 DEF Tokens, Token, OnNet, AtSocket
<1>10. ASSUME net.s = s, Stop(s), UNCHANGED <<peer, sent, nread, replies, state>> PROVE OrderInv(s)'
  <2>1. stopped'[s]
    BY <1>10 DEF Stop, TypeOK
  <2> QED
    BY <1>9, <1>10, <1>T, <2>1, StoppedOrder
\* Reading goes on, with a session whose requests are all answered.
<1>11. ASSUME NEW op \in {"read_prefix", "read_message"}, net.s = s, Fresh(s), AsyncRead(s, op),
              UNCHANGED <<sent, nread, replies, state>>
       PROVE  OrderInv(s)'
  <2>1. ops'[s] = {op}
    BY <1>9, <1>11 DEF AsyncRead, TypeOK
  <2>2. StreamInv(s)' /\ Fresh(s)'
    BY <1>0, <1>2, <1>11 DEF Fresh
  <2> QED
    BY <2>1, <2>2, HeldAtSocket DEF AtSocket, AtSocketInv
<1>12. ASSUME OnReadPrefix(s) PROVE OrderInv(s)'
  <2>1. net.s = s /\ net.h = "on_read_prefix" /\ UNCHANGED <<peer, sent, nread, replies, state>>
    BY <1>12 DEF OnReadPrefix, Leave, clientVars
  <2>2. CASE Stop(s)
    BY <1>10, <2>1, <2>2
  <2>3. CASE ~net.err /\ DoAsyncReadMessage(s)
    BY <1>11, <1>T, <2>1, <2>3 DEF OrderInv, OnNetInv, DoAsyncReadMessage
  <2> QED
    BY <1>12, <2>2, <2>3 DEF OnReadPrefix
<1>13. ASSUME OnWrite(s) PROVE OrderInv(s)'
  <2>1. net.s = s /\ net.h = "on_write" /\ UNCHANGED <<peer, sent, nread, replies, state>>
    BY <1>13 DEF OnWrite, Leave, clientVars
  <2>2. CASE Stop(s)
    BY <1>10, <2>1, <2>2
  <2>3. CASE ~net.err /\ DoAsyncReadPrefix(s)
    BY <1>11, <1>T, <2>1, <2>3 DEF OrderInv, OnNetInv, DoAsyncReadPrefix
  <2> QED
    BY <1>13, <2>2, <2>3 DEF OnWrite
<1>14. ASSUME OnReadMessage(s) PROVE OrderInv(s)'
  <2>1. net.s = s /\ net.h = "on_read_message" /\ UNCHANGED <<peer, sent, nread, replies, state>>
    BY <1>14 DEF OnReadMessage, Leave, clientVars
  <2>2. CASE Stop(s)
    BY <1>10, <2>1, <2>2
  <2>3. CASE ~net.err /\ Post([s |-> s, req |-> ParseReq]) /\ UNCHANGED buf
    <3>1. Asked(s, ParseReq)
      BY <1>T, <2>1, <2>3 DEF OrderInv, OnNetInv
    <3>2. Asked(s, ParseReq)' /\ StreamInv(s)'
      BY <1>0, <1>2, <2>1, <2>3, <3>1 DEF Asked
    <3>3. /\ Len(pool) \in Nat /\ Len(pool') = Len(pool) + 1
          /\ \A i \in 1..Len(pool) : pool'[i] = pool[i]
          /\ pool'[Len(pool) + 1] = [s |-> s, req |-> ParseReq]
      BY <2>3 DEF Post, TypeOK
    <3>4. \A i \in 1..Len(pool) : pool[i].s # s
      BY <2>1 DEF Tokens, Token, OnNet, InPool
    <3>5. InPool(s)' /\ InPoolInv(s)'
      BY <3>2, <3>3, <3>4 DEF InPool, InPoolInv
    <3> QED
      BY <3>2, <3>5, HeldInPool
  <2> QED
    BY <1>14, <2>2, <2>3 DEF OnReadMessage
<1> QED
  BY <1>1, <1>3, <1>5, <1>6, <1>7, <1>8, <1>12, <1>13, <1>14

\* The workers' steps.
LEMMA WorkerOrder ==
  ASSUME IInv, IInv', Orders, NEW w \in Workers, NEW t \in Sessions, Worker(w)
  PROVE  OrderInv(t)'
<1> USE DEF IInv
<1>T. OrderInv(t) /\ sent'[t] \in Seq(Body)
  BY DEF Orders, TypeOK
<1>0. /\ Len(replies[t]) \in Nat /\ Len(sent[t]) \in Nat /\ nread[t] \in Nat
      /\ Len(replies[t]) <= nread[t] /\ nread[t] <= Len(sent[t])
  BY <1>T DEF TypeOK, OrderInv, StreamInv
\* A worker's step that leaves session t's members alone keeps its history.
<1>1. ASSUME UNCHANGED <<sent, nread, replies, state>>
      PROVE  /\ Told(t)' = Told(t) /\ Current(t)' = Current(t)
             /\ StreamInv(t)'
             /\ \A r : Answered(t, r) => Answered(t, r)'
  <2>1. \A n : UserAfter(t, n)' = UserAfter(t, n)
    BY <1>1, UserAfterIsUserOf
  <2>2. Told(t)' = Told(t) /\ Current(t)' = Current(t)
    BY <1>1, <2>1 DEF Told, Current
  <2>3. StreamInv(t)'
    BY <1>1, <1>T, <2>1 DEF StreamInv, OrderInv
  <2>4. \A r : Answered(t, r) => Answered(t, r)'
    BY <1>1, <2>2 DEF Answered
  <2> QED
    BY <2>2, <2>3, <2>4
<1>2. ASSUME TakeJob(w) PROVE OrderInv(t)'
  <2>0. PICK job : job = Head(pool)
    OBVIOUS
  <2>1. /\ Len(pool) \in Nat /\ Len(pool) >= 1 /\ job = pool[1] /\ job \in Job
        /\ Len(pool') = Len(pool) - 1
        /\ \A i \in 1..Len(pool') : pool'[i] = pool[i + 1]
    BY <1>2, <2>0 DEF TakeJob, TypeOK
  <2>2. UNCHANGED <<peer, sent, nread, replies, stopped, state, buf, ops, net, wres>>
    BY <1>2 DEF TakeJob, clientVars
  <2>3. /\ wjob'[w] = job /\ wpc'[w] = IF job.req = ParseReq THEN "parse" ELSE "run"
        /\ \A v \in Workers : v # w => wjob'[v] = wjob[v] /\ wpc'[v] = wpc[v]
    BY <1>2, <2>0 DEF TakeJob, TypeOK
  <2>4. CASE job.s = t
    <3>1. Asked(t, job.req)
      BY <1>T, <2>1, <2>4 DEF OrderInv, InPoolInv
    <3>2. Asked(t, job.req)'
      BY <1>1, <2>2, <3>1 DEF Asked
    <3>3. OnWorker(t)' /\ \A v \in Workers : wjob'[v].s = t => v = w
      BY <2>3, <2>4 DEF OnWorker, Tokens, Token, OneWorker
    <3>4. OnWorkerInv(t)'
      BY <2>3, <3>2, <3>3 DEF OnWorkerInv
    <3> QED
      BY <1>1, <2>2, <3>3, <3>4, HeldOnWorker
  <2>5. CASE job.s # t
    <3>1. \A i \in 1..Len(pool') : pool'[i].s = t => \E j \in 1..Len(pool) : pool[j] = pool'[i]
      <4> SUFFICES ASSUME NEW i \in 1..Len(pool') PROVE \E j \in 1..Len(pool) : pool[j] = pool'[i]
        OBVIOUS
      <4>1. i + 1 \in 1..Len(pool) /\ pool[i + 1] = pool'[i]
        BY <2>1
      <4> QED
        BY <4>1
    <3>2. \A v \in Workers : wjob'[v].s = t =>
            wjob'[v] = wjob[v] /\ wpc'[v] = wpc[v] /\ wres'[v] = wres[v]
      BY <2>2, <2>3, <2>5
    <3>3. Untouched(t)
      BY <1>0, <2>2 DEF Untouched
    <3> QED
      BY <1>T, <2>2, <3>1, <3>2, <3>3, Frame
  <2> QED
    BY <2>4, <2>5
<1>3. ASSUME WorkerReturn(w) PROVE OrderInv(t)'
  <2>1. UNCHANGED <<peer, sent, nread, replies, stopped, state, buf, ops, net, pool, wjob, wres>>
    BY <1>3 DEF WorkerReturn, clientVars
  <2>2. wjob[w].s # t
    BY <1>3, NoSessionAssumption DEF WorkerReturn, WorkerInv, NoJob
  <2>3. \A v \in Workers : wjob'[v].s = t =>
          wjob'[v] = wjob[v] /\ wpc'[v] = wpc[v] /\ wres'[v] = wres[v]
    BY <1>3, <2>1, <2>2 DEF WorkerReturn, TypeOK
  <2>4. Untouched(t)
    BY <1>0, <2>1 DEF Untouched
  <2> QED
    BY <1>T, <2>1, <2>3, <2>4, Frame
\* The job in hand, and what it leaves when it is through.
<1>4. ASSUME wjob[w].s = t
      PROVE  /\ ~stopped[t] /\ ops[t] = {} /\ \A i \in 1..Len(pool) : pool[i].s # t
             /\ wpc[w] = "parse" => /\ nread[t] = Len(replies[t]) + 1 /\ state[t] = Told(t)
                                    /\ buf[t] = [part |-> "body", body |-> Current(t)]
             /\ wpc[w] = "run" => wjob[w].req = Current(t) /\ state[t] = Told(t)
             /\ wpc[w] = "reply" => Answered(t, wres[w])
  <2>1. ~stopped[t] /\ ops[t] = {} /\ \A i \in 1..Len(pool) : pool[i].s # t
    BY <1>4 DEF Tokens, Token, OnWorker, AtSocket, InPool
  <2>2. wpc[w] = "parse" => Asked(t, ParseReq)
    BY <1>4, <1>T DEF OrderInv, OnWorkerInv
  <2>3. wpc[w] = "run" => Asked(t, wjob[w].req) /\ wjob[w].req # ParseReq
    BY <1>4, <1>T DEF OrderInv, OnWorkerInv, WorkerInv
  <2>4. wpc[w] = "reply" => Answered(t, wres[w])
    BY <1>4, <1>T DEF OrderInv, OnWorkerInv
  <2> QED
    BY <2>1, <2>2, <2>3, <2>4 DEF Asked
<1>5. ASSUME Finish(w), wjob[w].s # t, UNCHANGED <<sent, nread, replies, state, net, peer>>,
             buf'[t] = buf[t], ops'[t] = ops[t],
             \A i \in 1..Len(pool') : pool'[i].s = t => \E j \in 1..Len(pool) : pool[j] = pool'[i]
      PROVE  OrderInv(t)'
  <2>1. Untouched(t)
    BY <1>0, <1>5 DEF Untouched
  <2>2. \A v \in Workers : wjob'[v].s = t =>
          wjob'[v] = wjob[v] /\ wpc'[v] = wpc[v] /\ wres'[v] = wres[v]
    BY <1>5, NoSessionAssumption DEF Finish, NoJob, TypeOK
  <2>3. ops'[t] \subseteq ops[t] /\ peer'[t] = peer[t] /\ net' = net
    BY <1>5
  <2> QED
    BY <1>5, <1>T, <2>1, <2>2, <2>3, Frame
<1>6. ASSUME ParseCommandJob(w) PROVE OrderInv(t)'
  <2> DEFINE s == wjob[w].s
  <2>1. /\ wpc[w] = "parse" /\ Finish(w) /\ s \in Sessions
        /\ UNCHANGED <<peer, sent, nread, replies, state, net>>
    BY <1>6 DEF ParseCommandJob, clientVars, WorkerInv, Job
  <2>2. CASE IsRequest(buf[s])
    <3>0. PICK job : job = [s |-> s, req |-> buf[s].body]
      OBVIOUS
    <3>1. pool' = Append(pool, job) /\ UNCHANGED <<stopped, ops, buf>>
      BY <1>6, <2>2, <3>0 DEF ParseCommandJob, Post
    <3>2. /\ Len(pool) \in Nat /\ Len(pool') = Len(pool) + 1
          /\ \A i \in 1..Len(pool) : pool'[i] = pool[i]
          /\ pool'[Len(pool) + 1] = job
      BY <3>1 DEF TypeOK
    <3>3. job.s = s /\ job.req = buf[s].body
      BY <3>0
    <3>4. CASE s = t
      <4>1. /\ nread[t] = Len(replies[t]) + 1 /\ state[t] = Told(t)
            /\ buf[t] = [part |-> "body", body |-> Current(t)]
            /\ \A i \in 1..Len(pool) : pool[i].s # t
        BY <1>4, <2>1, <3>4
      <4>2. job.req = Current(t) /\ job.req # ParseReq
        BY <2>2, <3>3, <3>4, <4>1 DEF IsRequest, RequestKinds, AuthKinds, ParseReq
      <4>3. Asked(t, job.req)'
        BY <1>1, <2>1, <4>1, <4>2 DEF Asked
      <4>4. InPool(t)'
        BY <3>2, <3>3, <3>4 DEF InPool
      <4>5. InPoolInv(t)'
        BY <3>2, <4>1, <4>3 DEF InPoolInv
      <4> QED
        BY <1>1, <2>1, <4>4, <4>5, HeldInPool
    <3>5. CASE s # t
      <4>1. \A i \in 1..Len(pool') : pool'[i].s = t => \E j \in 1..Len(pool) : pool[j] = pool'[i]
        BY <3>2, <3>3, <3>5
      <4> QED
        BY <1>5, <2>1, <3>1, <3>5, <4>1
    <3> QED
      BY <3>4, <3>5
  <2>3. CASE ~IsRequest(buf[s])
    <3>1. Stop(s) /\ UNCHANGED pool
      BY <1>6, <2>3 DEF ParseCommandJob
    <3>2. CASE s = t
      <4>1. ~stopped[t] /\ stopped'[t]
        BY <1>4, <2>1, <3>1, <3>2 DEF Stop, TypeOK
      <4> QED
        BY <1>T, <2>1, <4>1, StoppedOrder
    <3>3. CASE s # t
      BY <1>5, <2>1, <3>1, <3>3 DEF Stop
    <3> QED
      BY <3>2, <3>3
  <2> QED
    BY <2>2, <2>3
<1>7. ASSUME DoAsyncWrite(w) PROVE OrderInv(t)'
  <2> DEFINE s == wjob[w].s
  <2>1. /\ wpc[w] = "reply" /\ Finish(w) /\ s \in Sessions
        /\ UNCHANGED <<peer, sent, nread, replies, stopped, state, net, pool>>
    BY <1>7 DEF DoAsyncWrite, clientVars, WorkerInv, Job
  <2>2. CASE s = t
    <3>1. ~stopped[t] /\ ops[t] = {} /\ Answered(t, wres[w])
      BY <1>4, <2>1, <2>2
    <3>2. buf'[t] = [part |-> "reply", reply |-> wres[w]] /\ ops'[t] = {"write"}
      BY <1>7, <2>2, <3>1 DEF DoAsyncWrite, TypeOK
    <3>3. Answered(t, buf[t].reply)'
      <4>1. buf'[t].reply = wres[w]
        BY <3>2
      <4>2. ASSUME NEW r, r = wres[w] PROVE Answered(t, r)'
        BY <1>1, <2>1, <3>1, <4>2
      <4> QED
        BY <4>1, <4>2
    <3>4. AtSocketInv(t)' /\ AtSocket(t)'
      BY <3>2, <3>3 DEF AtSocketInv, AtSocket
    <3> QED
      BY <1>1, <2>1, <3>4, HeldAtSocket
  <2>3. CASE s # t
    <3>1. buf'[t] = buf[t] /\ ops'[t] = ops[t]
      BY <1>7, <2>3 DEF DoAsyncWrite, TypeOK
    <3> QED
      BY <1>5, <2>1, <2>3, <3>1
  <2> QED
    BY <2>2, <2>3
\* The jobs that ask the storage, each with an answer to its own request.
<1>8. ASSUME NEW k, NEW u, wpc[w] = "run", Compose(w, k, u),
             \A s \in Sessions : s # wjob[w].s => state'[s] = state[s],
             wjob[w].s = t =>
               /\ [kind |-> k, as |-> u] \in Abstract!Answers(wjob[w].req, state[t])
               /\ state'[t] = IF k = "profile" THEN u ELSE state[t]
      PROVE  OrderInv(t)'
  <2>1. wjob[w].s = t => wjob[w].req = Current(t) /\ state[t] = Told(t)
    BY <1>4, <1>8
  <2> QED
    BY <1>8, <1>T, <2>1, Composed
<1>9. ASSUME RegisterRequestJob(w) PROVE OrderInv(t)'
  BY <1>8, <1>9, RightAnswers DEF RegisterRequestJob, Running
<1>10. ASSUME LoginRequestJob(w) PROVE OrderInv(t)'
  <2>1. wjob[w].s \in Sessions
    BY <1>10 DEF LoginRequestJob, Running, WorkerInv, Job
  <2>2. CASE Compose(w, "profile", wjob[w].req.user) /\ state' = [state EXCEPT ![wjob[w].s] = wjob[w].req.user]
    <3>1. /\ \A s \in Sessions : s # wjob[w].s => state'[s] = state[s]
          /\ state'[wjob[w].s] = wjob[w].req.user
      BY <2>1, <2>2 DEF TypeOK
    <3> QED
      BY <1>8, <1>10, <2>2, <3>1, RightAnswers DEF LoginRequestJob, Running
  <2>3. CASE Compose(w, "no_profile", NoUser) /\ UNCHANGED state
    BY <1>8, <1>10, <2>3, RightAnswers DEF LoginRequestJob, Running
  <2> QED
    BY <1>10, <2>2, <2>3 DEF LoginRequestJob
<1>11. ASSUME NEW ks, wpc[w] = "run", IfLoggedIn(w, ks),
              wjob[w].req.kind \in AuthKinds, "profile" \notin ks,
              \A k \in ks : state[wjob[w].s] # NoUser =>
                [kind |-> k, as |-> state[wjob[w].s]] \in Abstract!Answers(wjob[w].req, state[wjob[w].s])
       PROVE  OrderInv(t)'
  <2>1. CASE state[wjob[w].s] # NoUser
    BY <1>8, <1>11, <2>1 DEF IfLoggedIn
  <2>2. CASE state[wjob[w].s] = NoUser
    BY <1>8, <1>11, <2>2, RightAnswers DEF IfLoggedIn
  <2> QED
    BY <2>1, <2>2
<1>12. ASSUME ChatsRequestJob(w) PROVE OrderInv(t)'
  <2>1. wpc[w] = "run" /\ wjob[w].req.kind = "chats" /\ IfLoggedIn(w, {"chats"})
    BY <1>12 DEF ChatsRequestJob, Running
  <2>2. /\ wjob[w].req.kind \in AuthKinds /\ "profile" \notin {"chats"}
        /\ \A k \in {"chats"} : state[wjob[w].s] # NoUser =>
             [kind |-> k, as |-> state[wjob[w].s]] \in Abstract!Answers(wjob[w].req, state[wjob[w].s])
    BY <2>1, RightAnswers DEF AuthKinds
  <2> QED
    BY <1>11, <2>1, <2>2
<1>13. ASSUME ContactsRequestJob(w) PROVE OrderInv(t)'
  <2>1. wpc[w] = "run" /\ wjob[w].req.kind = "contacts" /\ IfLoggedIn(w, {"contacts"})
    BY <1>13 DEF ContactsRequestJob, Running
  <2>2. /\ wjob[w].req.kind \in AuthKinds /\ "profile" \notin {"contacts"}
        /\ \A k \in {"contacts"} : state[wjob[w].s] # NoUser =>
             [kind |-> k, as |-> state[wjob[w].s]] \in Abstract!Answers(wjob[w].req, state[wjob[w].s])
    BY <2>1, RightAnswers DEF AuthKinds
  <2> QED
    BY <1>11, <2>1, <2>2
<1>14. ASSUME MessagesRequestJob(w) PROVE OrderInv(t)'
  <2>1. wpc[w] = "run" /\ wjob[w].req.kind = "messages" /\ IfLoggedIn(w, {"messages"})
    BY <1>14 DEF MessagesRequestJob, Running
  <2>2. /\ wjob[w].req.kind \in AuthKinds /\ "profile" \notin {"messages"}
        /\ \A k \in {"messages"} : state[wjob[w].s] # NoUser =>
             [kind |-> k, as |-> state[wjob[w].s]] \in Abstract!Answers(wjob[w].req, state[wjob[w].s])
    BY <2>1, RightAnswers DEF AuthKinds
  <2> QED
    BY <1>11, <2>1, <2>2
<1>15. ASSUME SendMesgRequestJob(w) PROVE OrderInv(t)'
  <2>1. wpc[w] = "run" /\ wjob[w].req.kind = "send_mesg" /\ IfLoggedIn(w, {"accepted", "rejected"})
    BY <1>15 DEF SendMesgRequestJob, Running
  <2>2. /\ wjob[w].req.kind \in AuthKinds /\ "profile" \notin {"accepted", "rejected"}
        /\ \A k \in {"accepted", "rejected"} : state[wjob[w].s] # NoUser =>
             [kind |-> k, as |-> state[wjob[w].s]] \in Abstract!Answers(wjob[w].req, state[wjob[w].s])
    BY <2>1, RightAnswers DEF AuthKinds
  <2> QED
    BY <1>11, <2>1, <2>2
<1>16. ASSUME AddContactRequestJob(w) PROVE OrderInv(t)'
  <2>1. wpc[w] = "run" /\ wjob[w].req.kind = "add_contact" /\ IfLoggedIn(w, {"accepted", "rejected"})
    BY <1>16 DEF AddContactRequestJob, Running
  <2>2. /\ wjob[w].req.kind \in AuthKinds /\ "profile" \notin {"accepted", "rejected"}
        /\ \A k \in {"accepted", "rejected"} : state[wjob[w].s] # NoUser =>
             [kind |-> k, as |-> state[wjob[w].s]] \in Abstract!Answers(wjob[w].req, state[wjob[w].s])
    BY <2>1, RightAnswers DEF AuthKinds
  <2> QED
    BY <1>11, <2>1, <2>2
<1>17. ASSUME CreateChatRequestJob(w) PROVE OrderInv(t)'
  <2>1. wpc[w] = "run" /\ wjob[w].req.kind = "create_chat" /\ IfLoggedIn(w, {"accepted", "rejected"})
    BY <1>17 DEF CreateChatRequestJob, Running
  <2>2. /\ wjob[w].req.kind \in AuthKinds /\ "profile" \notin {"accepted", "rejected"}
        /\ \A k \in {"accepted", "rejected"} : state[wjob[w].s] # NoUser =>
             [kind |-> k, as |-> state[wjob[w].s]] \in Abstract!Answers(wjob[w].req, state[wjob[w].s])
    BY <2>1, RightAnswers DEF AuthKinds
  <2> QED
    BY <1>11, <2>1, <2>2
<1> QED
  BY <1>2, <1>3, <1>6, <1>7, <1>9, <1>10, <1>12, <1>13, <1>14,
     <1>15, <1>16, <1>17 DEF Worker

\* Every step keeps what the holders know right.
LEMMA OrderStep == IInv /\ Orders /\ [Next]_vars => IInv' /\ Orders'
<1> SUFFICES ASSUME IInv, Orders, [Next]_vars PROVE IInv' /\ Orders'
  OBVIOUS
<1>1. IInv'
  BY TypeStep, WorkerInvStep, PeerStep, TokenStep DEF IInv
<1> SUFFICES ASSUME NEW t \in Sessions PROVE OrderInv(t)'
  BY <1>1 DEF Orders
<1>2. OrderInv(t) /\ TypeOK /\ sent'[t] \in Seq(Body) /\ Len(sent[t]) \in Nat
  BY <1>1 DEF Orders, IInv, TypeOK
\* Steps of the client, or none at all.
<1>3. ASSUME UNCHANGED <<nread, replies, state, buf, ops, net, pool, wpc, wjob, wres>>,
             peer'[t] = peer[t] \/ (peer[t] = "up" /\ peer'[t] = "closed"),
             Len(sent[t]) <= Len(sent'[t]), \A i \in 1..Len(sent[t]) : sent'[t][i] = sent[t][i]
      PROVE  OrderInv(t)'
  <2>1. Untouched(t)
    BY <1>3 DEF Untouched
  <2> QED
    BY <1>2, <1>3, <2>1, Frame
<1>4. ASSUME NEW s \in Sessions, NEW b \in Frames, ClientSend(s, b) PROVE OrderInv(t)'
  <2>1. sent[s] \in Seq(Body) /\ sent[t] \in Seq(Body) /\ b \in Body
    BY <1>2 DEF TypeOK, Frames
  <2>2. sent'[t] = IF t = s THEN Append(sent[t], b) ELSE sent[t]
    BY <1>2, <1>4 DEF ClientSend, TypeOK
  <2>3. Len(sent[t]) <= Len(sent'[t]) /\ \A i \in 1..Len(sent[t]) : sent'[t][i] = sent[t][i]
    BY <1>2, <2>1, <2>2
  <2> QED
    BY <1>3, <1>4, <2>3 DEF ClientSend, workerVars
<1>5. ASSUME NEW s \in Sessions, ClientClose(s) PROVE OrderInv(t)'
  <2>1. peer'[t] = peer[t] \/ (peer[t] = "up" /\ peer'[t] = "closed")
    BY <1>2, <1>5 DEF ClientClose, TypeOK
  <2> QED
    BY <1>2, <1>3, <1>5, <2>1 DEF ClientClose, workerVars
<1>6. ASSUME NetworkThread PROVE OrderInv(t)'
  BY <1>1, <1>6, NetworkOrder DEF NetworkThread
<1>7. ASSUME NEW w \in Workers, Worker(w) PROVE OrderInv(t)'
  BY <1>1, <1>7, WorkerOrder
<1>8. ASSUME UNCHANGED vars PROVE OrderInv(t)'
  BY <1>2, <1>3, <1>8 DEF vars
<1> QED
  BY <1>4, <1>5, <1>6, <1>7, <1>8 DEF Next

\* Before the first connection there is nothing to answer.
LEMMA OrderInit == Init => IInv /\ Orders
<1> SUFFICES ASSUME Init, NEW s \in Sessions PROVE OrderInv(s)
  BY InitInvariant DEF Orders
<1>1. UserAfter(s, 0) = NoUser
  BY DEF UserAfter
<1>2. StreamInv(s) /\ Fresh(s)
  BY <1>1 DEF Init, StreamInv, Fresh, Told
<1> QED
  BY <1>2, NoSessionAssumption
     DEF Init, OrderInv, AtSocketInv, OnNetInv, InPoolInv, OnWorkerInv, NetIdle, NoJob

\* The inductive invariant behind the order of the replies.
THEOREM OrderInvariant == Spec => [](IInv /\ Orders)
  BY OrderInit, OrderStep, PTL DEF Spec

\* One response for every request, in order, for the user the client was told:
\* for any number of sessions and workers and any pipelining by the clients.
THEOREM AnswersInOrder == Spec => []RepliesAnswerInOrder
<1>1. IInv /\ Orders => RepliesAnswerInOrder
  BY DEF Orders, OrderInv, StreamInv, RepliesAnswerInOrder
<1> QED
  BY <1>1, OrderInvariant, PTL

-----------------------------------------------------------------------------
(* The refinement: a reply reaches the wire in CompleteWrite, the server    *)
(* hangs up in stop(), and all the rest of the pipeline is stuttering.      *)

\* The abstract connection with nothing happening to it.
Quiet == UNCHANGED <<peer, sent, replies, stopped>>

\* The abstract user depends on the replies alone.
LEMMA UserKept ==
  UNCHANGED replies =>
    [s \in Sessions |-> UserAfter(s, Len(replies[s]))]' = [s \in Sessions |-> UserAfter(s, Len(replies[s]))]
<1> SUFFICES ASSUME UNCHANGED replies, NEW s \in Sessions
             PROVE  UserAfter(s, Len(replies[s]))' = UserAfter(s, Len(replies[s]))
  OBVIOUS
<1>1. \A n : UserAfter(s, n)' = UserAfter(s, n)
  BY UserAfterIsUserOf
<1> QED
  BY <1>1

\* So a step that touches nothing of the abstract connection stutters.
LEMMA QuietStutters == Quiet => UNCHANGED Abstract!vars
  BY UserKept DEF Quiet, Abstract!vars

\* stop() on a session whose client has left, or whose next frame is no
\* request, is the abstract HangUp.
LEMMA StopHangsUp ==
  ASSUME IInv, NEW s \in Sessions, OrderInv(s), ~stopped[s], Stop(s), UNCHANGED <<peer, sent, replies>>,
         \/ peer[s] = "closed"
         \/ Len(replies[s]) < Len(sent[s]) /\ Current(s).kind \notin RequestKinds
  PROVE  Abstract!HangUp(s)
<1> DEFINE user == [x \in Sessions |-> UserAfter(x, Len(replies[x]))]
<1>1. user' = user
  BY UserKept
<1>2. stopped' = [stopped EXCEPT ![s] = TRUE]
  BY DEF Stop
<1>3. CASE peer[s] = "closed"
  BY <1>1, <1>2, <1>3 DEF Abstract!HangUp
<1>4. CASE Len(replies[s]) < Len(sent[s]) /\ Current(s).kind \notin RequestKinds
  <2>1. Abstract!Answers(sent[s][Len(replies[s]) + 1], user[s]) = {}
    BY <1>4, RightAnswers DEF Current
  <2> QED
    BY <1>1, <1>2, <1>4, <2>1 DEF Abstract!HangUp, Abstract!Pending, Abstract!NextRequest
<1> QED
  BY <1>3, <1>4

\* The write that completes is the abstract Serve.
LEMMA WriteServes ==
  ASSUME IInv, NEW s \in Sessions, OrderInv(s), CompleteWrite(s)
  PROVE  Abstract!Serve(s)
<1> DEFINE user == [x \in Sessions |-> UserAfter(x, Len(replies[x]))]
           n == Len(replies[s])
<1>1. /\ ~stopped[s] /\ "write" \in ops[s] /\ UNCHANGED <<peer, sent, stopped>>
      /\ replies' = [replies EXCEPT ![s] = Append(@, IF buf[s].part = "reply" THEN buf[s].reply ELSE NoReply)]
  BY DEF CompleteWrite, Enter, clientVars
<1>2. PICK r : r = buf[s].reply
  OBVIOUS
<1>3. buf[s].part = "reply" /\ Answered(s, r)
  BY <1>1, <1>2 DEF OrderInv, AtSocketInv
<1>4. replies' = [replies EXCEPT ![s] = Append(@, r)]
  BY <1>1, <1>2, <1>3
<1>5. r \in Abstract!Answers(sent[s][n + 1], user[s])
  BY <1>3 DEF Answered, Current, Told
<1>6. n < Len(sent[s])
  BY <1>3 DEF IInv, TypeOK, Answered, OrderInv, StreamInv
<1>7. n \in Nat /\ replies[s] \in Seq(Reply) /\ r \in Reply
  BY <1>2, <1>3, BufferTypes DEF IInv, TypeOK
<1>8. /\ replies'[s] = Append(replies[s], r)
      /\ \A x \in Sessions : x # s => replies'[x] = replies[x]
  BY <1>4 DEF IInv, TypeOK
<1>9. /\ Len(replies'[s]) = n + 1 /\ replies'[s][n + 1] = r
      /\ \A i \in 1..n : replies'[s][i] = replies[s][i]
  BY <1>7, <1>8
<1>10. UserAfter(s, Len(replies[s]))' = IF r.kind = "profile" THEN r.as ELSE user[s]
  <2>1. UserAfter(s, Len(replies[s]))' = UserOf(replies'[s], n + 1)
    BY <1>9, UserAfterIsUserOf
  <2>2. UserOf(replies'[s], n) = UserOf(replies[s], n)
    BY <1>7, <1>9, UserOfPrefix
  <2>3. user[s] = UserOf(replies[s], n)
    BY UserAfterIsUserOf
  <2>4. UserOf(replies'[s], n + 1) = IF r.kind = "profile" THEN r.as ELSE UserOf(replies'[s], n)
    BY <1>7, <1>9, UserOfNext
  <2> QED
    BY <2>1, <2>2, <2>3, <2>4
<1>11. \A x \in Sessions : x # s => UserAfter(x, Len(replies[x]))' = user[x]
  BY <1>8, UserAfterIsUserOf
<1>12. user' = [user EXCEPT ![s] = IF r.kind = "profile" THEN r.as ELSE @]
  BY <1>10, <1>11
<1> QED
  BY <1>1, <1>4, <1>5, <1>6, <1>12 DEF Abstract!Serve, Abstract!Pending, Abstract!NextRequest

\* Every step of the pipeline is a step of the abstract connection or none.
LEMMA RefinementStep == IInv /\ Orders /\ [Next]_vars => [Abstract!Next]_(Abstract!vars)
<1> SUFFICES ASSUME IInv, Orders, [Next]_vars PROVE [Abstract!Next]_(Abstract!vars)
  OBVIOUS
<1> USE DEF IInv
<1>1. ASSUME Quiet PROVE [Abstract!Next]_(Abstract!vars)
  BY <1>1, QuietStutters
<1>2. ASSUME NEW s \in Sessions, Abstract!HangUp(s) PROVE [Abstract!Next]_(Abstract!vars)
  BY <1>2 DEF Abstract!Next
<1>3. ASSUME NEW s \in Sessions, NEW b \in Frames, ClientSend(s, b) PROVE [Abstract!Next]_(Abstract!vars)
  <2>1. Abstract!Send(s, b)
    BY <1>3, UserKept DEF ClientSend, Abstract!Send
  <2> QED
    BY <2>1 DEF Abstract!Next
<1>4. ASSUME NEW s \in Sessions, ClientClose(s) PROVE [Abstract!Next]_(Abstract!vars)
  <2>1. Abstract!Leave(s)
    BY <1>4, UserKept DEF ClientClose, Abstract!Leave
  <2> QED
    BY <2>1 DEF Abstract!Next
<1>5. ASSUME NEW s \in Sessions, HandleAccept(s) PROVE [Abstract!Next]_(Abstract!vars)
  <2>1. Abstract!Connect(s)
    BY <1>5, UserKept DEF HandleAccept, Start, Abstract!Connect
  <2> QED
    BY <2>1 DEF Abstract!Next
<1>6. ASSUME NEW s \in Sessions, CompleteReadPrefix(s) \/ CompleteReadMessage(s) \/ CompleteWithError(s)
      PROVE  Quiet
  BY <1>6 DEF CompleteReadPrefix, CompleteReadMessage, CompleteWithError, Enter, clientVars, Quiet
<1>7. ASSUME NEW s \in Sessions, CompleteWrite(s) PROVE [Abstract!Next]_(Abstract!vars)
  <2>1. Abstract!Serve(s)
    BY <1>7, WriteServes DEF Orders
  <2> QED
    BY <2>1 DEF Abstract!Next
\* The network thread's handlers: stop() after an error or a bad prefix.
<1>8. ASSUME NEW s \in Sessions, net.s = s PROVE ~stopped[s] /\ OrderInv(s) /\ OnNetInv(s)
  BY <1>8 DEF Orders, OrderInv, Tokens, Token, OnNet
<1>9. ASSUME NEW s \in Sessions, OnReadPrefix(s) PROVE [Abstract!Next]_(Abstract!vars)
  <2>1. net.s = s /\ net.h = "on_read_prefix" /\ UNCHANGED <<peer, sent, replies>>
    BY <1>9 DEF OnReadPrefix, Leave, clientVars
  <2>2. ~stopped[s] /\ OrderInv(s) /\ OnNetInv(s)
    BY <1>8, <2>1
  <2>3. CASE net.err
    <3>1. Stop(s) /\ peer[s] = "closed"
      BY <1>9, <2>1, <2>2, <2>3 DEF OnReadPrefix, OnNetInv
    <3> QED
      BY <1>2, <2>1, <2>2, <3>1, StopHangsUp
  <2>4. CASE ~net.err /\ ~PrefixParses(buf[s])
    <3>1. Stop(s)
      BY <1>9, <2>4 DEF OnReadPrefix
    <3>2. buf[s] = [part |-> "prefix", body |-> Current(s)] /\ Len(replies[s]) < Len(sent[s])
      BY <2>1, <2>2, <2>4 DEF OnNetInv
    <3>3. Current(s).kind \notin RequestKinds
      BY <2>4, <3>2 DEF PrefixParses, RequestKinds, AuthKinds
    <3> QED
      BY <1>2, <2>1, <2>2, <3>1, <3>2, <3>3, StopHangsUp
  <2>5. CASE ~net.err /\ PrefixParses(buf[s])
    BY <1>1, <1>9, <2>1, <2>2, <2>5 DEF OnReadPrefix, Quiet
  <2> QED
    BY <2>3, <2>4, <2>5
<1>10. ASSUME NEW s \in Sessions, OnReadMessage(s) \/ OnWrite(s) PROVE [Abstract!Next]_(Abstract!vars)
  <2>1. net.s = s /\ UNCHANGED <<peer, sent, replies>>
    BY <1>10 DEF OnReadMessage, OnWrite, Leave, clientVars
  <2>2. ~stopped[s] /\ OrderInv(s) /\ OnNetInv(s)
    BY <1>8, <2>1
  <2>3. CASE net.err
    <3>1. Stop(s) /\ peer[s] = "closed"
      BY <1>10, <2>1, <2>2, <2>3 DEF OnReadMessage, OnWrite, OnNetInv
    <3> QED
      BY <1>2, <2>1, <2>2, <3>1, StopHangsUp
  <2>4. CASE ~net.err
    BY <1>1, <1>10, <2>1, <2>2, <2>4 DEF OnReadMessage, OnWrite, Quiet
  <2> QED
    BY <2>3, <2>4
\* The workers: stop() on a message that is no request.
<1>11. ASSUME NEW w \in Workers, ParseCommandJob(w) PROVE [Abstract!Next]_(Abstract!vars)
  <2>0. PICK s : s = wjob[w].s
    OBVIOUS
  <2>1. s \in Sessions /\ wpc[w] = "parse" /\ UNCHANGED <<peer, sent, replies>>
    BY <1>11, <2>0 DEF ParseCommandJob, clientVars, WorkerInv, Job
  <2>2. CASE IsRequest(buf[s])
    BY <1>1, <1>11, <2>0, <2>1, <2>2 DEF ParseCommandJob, Quiet
  <2>3. CASE ~IsRequest(buf[s])
    <3>1. Stop(s)
      BY <1>11, <2>0, <2>3 DEF ParseCommandJob
    <3>2. ~stopped[s] /\ OrderInv(s)
      BY <2>0, <2>1 DEF Orders, Tokens, Token, OnWorker
    <3>3. Asked(s, ParseReq)
      BY <2>0, <2>1, <3>2 DEF OrderInv, OnWorkerInv
    <3>4. buf[s] = [part |-> "body", body |-> Current(s)] /\ nread[s] = Len(replies[s]) + 1
      BY <3>3 DEF Asked
    <3>5. Current(s).kind \notin RequestKinds
      BY <2>3, <3>4 DEF IsRequest
    <3>6. Len(replies[s]) < Len(sent[s])
      BY <2>1, <3>2, <3>4 DEF OrderInv, StreamInv, TypeOK
    <3> QED
      BY <1>2, <2>1, <3>1, <3>2, <3>5, <3>6, StopHangsUp
  <2> QED
    BY <2>2, <2>3
<1>12. ASSUME NEW w \in Workers, NEW k, NEW u, Compose(w, k, u) PROVE Quiet
  BY <1>12 DEF Compose, clientVars, Quiet
<1>13. ASSUME NEW w \in Workers, NEW ks, IfLoggedIn(w, ks) PROVE Quiet
  BY <1>12, <1>13 DEF IfLoggedIn
<1>14. ASSUME NEW w \in Workers, TakeJob(w) \/ DoAsyncWrite(w) \/ WorkerReturn(w) PROVE Quiet
  BY <1>14 DEF TakeJob, DoAsyncWrite, WorkerReturn, clientVars, Quiet
<1>15. ASSUME NEW w \in Workers, RegisterRequestJob(w) \/ LoginRequestJob(w) PROVE Quiet
  BY <1>12, <1>15 DEF RegisterRequestJob, LoginRequestJob
<1>16. ASSUME NEW w \in Workers,
              \/ ChatsRequestJob(w) \/ ContactsRequestJob(w) \/ MessagesRequestJob(w)
              \/ SendMesgRequestJob(w) \/ AddContactRequestJob(w) \/ CreateChatRequestJob(w)
       PROVE  Quiet
  BY <1>13, <1>16 DEF ChatsRequestJob, ContactsRequestJob, MessagesRequestJob, SendMesgRequestJob,
                      AddContactRequestJob, CreateChatRequestJob
<1>17. ASSUME UNCHANGED vars PROVE Quiet
  BY <1>17 DEF vars, Quiet
<1>18. ASSUME NEW w \in Workers, Worker(w) PROVE [Abstract!Next]_(Abstract!vars)
  BY <1>1, <1>11, <1>14, <1>15, <1>16, <1>18 DEF Worker
<1>19. ASSUME NetworkThread PROVE [Abstract!Next]_(Abstract!vars)
  BY <1>1, <1>5, <1>6, <1>7, <1>9, <1>10, <1>19 DEF NetworkThread
<1> QED
  BY <1>1, <1>3, <1>4, <1>17, <1>18, <1>19 DEF Next

\* The pipeline implements RequestReply for any number of sessions, workers
\* and requests: threads, buffers and the two jobs per request are invisible.
THEOREM Refinement == Spec => ImplementsRequestReply
<1>1. Init => Abstract!Init
  <2> SUFFICES ASSUME Init PROVE Abstract!Init
    OBVIOUS
  <2>1. \A s \in Sessions : replies[s] = <<>> /\ UserAfter(s, 0) = NoUser
    BY DEF Init, UserAfter
  <2>2. [s \in Sessions |-> UserAfter(s, Len(replies[s]))] = [s \in Sessions |-> NoUser]
    BY <2>1
  <2> QED
    BY <2>2 DEF Init, Abstract!Init
<1> QED
  BY <1>1, OrderInvariant, RefinementStep, PTL DEF Spec, ImplementsRequestReply, Abstract!Spec

-----------------------------------------------------------------------------
(***************************************************************************)
(* The acceptor, the signals and the sessions together.                    *)
(***************************************************************************)

\* A step of the server is a step of one session's pipeline or leaves the
\* pipeline alone.
LEMMA SessionStep == [LNext]_lvars => [Next]_vars
<1> SUFFICES ASSUME [LNext]_lvars PROVE [Next]_vars
  OBVIOUS
<1>1. ASSUME NEW s \in Sessions, ClientConnect(s) \/ AcceptCompletes(s) PROVE UNCHANGED vars
  BY <1>1 DEF ClientConnect, AcceptCompletes
<1>2. ASSUME AcceptFails \/ RaiseSignal \/ AcceptCanceled \/ AcceptError \/ SignalHandler \/ RunReturns
             \/ \E s \in Sessions : ReadPrefixThrows(s)
      PROVE  UNCHANGED vars
  BY <1>2 DEF AcceptFails, RaiseSignal, AcceptCanceled, AcceptError, SignalHandler, RunReturns,
              ReadPrefixThrows
<1>3. ASSUME ClientStep PROVE Next
  BY <1>3 DEF ClientStep, Next
<1>4. ASSUME NEW s \in Sessions, AcceptClient(s) PROVE Next
  BY <1>4 DEF AcceptClient, NetworkThread, Next
<1>5. ASSUME SessionHandler PROVE Next
  BY <1>5 DEF SessionHandler, NetworkThread, Next
<1>6. ASSUME NEW w \in Workers, WorkerStep(w) PROVE Next
  BY <1>6 DEF WorkerStep, Next
<1> QED
  BY <1>1, <1>2, <1>3, <1>4, <1>5, <1>6 DEF LNext, NetworkStep, lvars

\* The module is built so that every behaviour of the server is one of
\* ServerSession; with it the theorems about sessions carry over.
LEMMA SessionsInServer == LSpec => Spec
<1>1. LInit => Init
  BY DEF LInit
<1> QED
  BY <1>1, SessionStep, PTL DEF LSpec, Spec

\* So the sessions of a running server are never raced over, never abandoned
\* and quiet once stopped, whatever is accepted and signalled meanwhile.
THEOREM ServerSessionsSafe == LSpec => [](ExclusiveAccess /\ NeverAbandoned /\ StoppedIsQuiet)
  BY SessionsInServer, NoDataRace, NoLeak, QuietAfterStop, PTL

\* And the whole server keeps what RequestReply promises a client.
THEOREM ServerRefinesRequestReply == LSpec => ImplementsRequestReply
  BY SessionsInServer, Refinement, PTL

\* In particular a client of a server that accepts, is signalled and shuts
\* down gets its answers in the order of its requests.
THEOREM ServerAnswersInOrder == LSpec => []RepliesAnswerInOrder
  BY SessionsInServer, AnswersInOrder, PTL

-----------------------------------------------------------------------------
\* The outcomes of an accept are told apart by their state.
LEMMA AcceptStates ==
  /\ NoAccept # Accepting /\ Canceled # NoAccept /\ Failed # NoAccept
  /\ Canceled # Accepting /\ Failed # Accepting /\ Failed # Canceled
  /\ \A s : Accepted(s) \notin {NoAccept, Accepting, Canceled, Failed}
  /\ \A s \in Sessions : \A a \in {NoAccept, Accepting, Canceled, Failed} : a.s # s
  /\ \A s : Accepted(s).s = s
  BY NoSessionAssumption DEF NoAccept, Accepting, Canceled, Failed, Accepted

\* An accept is cancelled only by the close of the acceptor, and the client it
\* has taken has left the backlog.
AcceptInv ==
  /\ accept = Canceled => acceptor = "closed"
  /\ accept.s \notin backlog

\* The inductive invariant of the acceptor.
LInv == IInv /\ AcceptorTypes /\ AlwaysAccepting /\ AcceptInv

\* The server starts with one open accept.
LEMMA LInitInvariant == LInit => LInv
<1> SUFFICES ASSUME LInit PROVE LInv
  OBVIOUS
<1>1. IInv
  BY InitInvariant DEF LInit
<1>2. AcceptorTypes
  BY DEF LInit, AcceptorTypes
<1>3. AlwaysAccepting /\ AcceptInv
  BY AcceptStates DEF LInit, Init, AlwaysAccepting, AcceptInv
<1> QED
  BY <1>1, <1>2, <1>3 DEF LInv

\* Accepting, cancelling and starting anew keep the acceptor's invariant.
LEMMA AcceptorStep == LInv /\ [LNext]_lvars => (AcceptorTypes /\ AlwaysAccepting /\ AcceptInv)'
<1> SUFFICES ASSUME LInv, [LNext]_lvars PROVE (AcceptorTypes /\ AlwaysAccepting /\ AcceptInv)'
  OBVIOUS
<1> DEFINE Good == AcceptorTypes /\ AlwaysAccepting /\ AcceptInv
<1> USE DEF LInv
<1>1. ASSUME NEW s \in Sessions, ClientConnect(s) PROVE Good'
  BY <1>1 DEF ClientConnect, AcceptorTypes, AlwaysAccepting, AcceptInv, vars
<1>2. ASSUME NEW s \in Sessions, AcceptCompletes(s) PROVE Good'
  BY <1>2, AcceptStates DEF AcceptCompletes, AcceptorTypes, AlwaysAccepting, AcceptInv, vars
<1>3. ASSUME AcceptFails PROVE Good'
  BY <1>3, AcceptStates DEF AcceptFails, AcceptorTypes, AlwaysAccepting, AcceptInv, vars
<1>4. ASSUME RaiseSignal PROVE Good'
  BY <1>4 DEF RaiseSignal, AcceptorTypes, AlwaysAccepting, AcceptInv, vars
\* A step of a session that is not its start.
<1>5. ASSUME UNCHANGED acceptVars, \A s \in Sessions : peer[s] = "none" <=> peer'[s] = "none"
      PROVE  Good'
  BY <1>5 DEF acceptVars, AcceptorTypes, AlwaysAccepting, AcceptInv
<1>6. ASSUME ClientStep PROVE Good'
  BY <1>5, <1>6 DEF ClientStep, ClientSend, ClientClose, IInv, TypeOK
<1>7. ASSUME SessionHandler PROVE Good'
  BY <1>5, <1>7
     DEF SessionHandler, CompleteReadPrefix, CompleteReadMessage, CompleteWrite, CompleteWithError,
         Enter, OnReadPrefix, OnReadMessage, OnWrite, Leave, clientVars
<1>8. ASSUME NEW w \in Workers, WorkerStep(w) PROVE Good'
  <2>1. UNCHANGED peer
    BY <1>8 DEF WorkerStep, Worker, TakeJob, WorkerReturn, ParseCommandJob, DoAsyncWrite,
         RegisterRequestJob, LoginRequestJob, ChatsRequestJob, ContactsRequestJob,
         MessagesRequestJob, SendMesgRequestJob, AddContactRequestJob, CreateChatRequestJob,
         IfLoggedIn, Compose, clientVars
  <2> QED
    BY <1>5, <1>8, <2>1 DEF WorkerStep
<1>9. ASSUME NEW s \in Sessions, AcceptClient(s) PROVE Good'
  BY <1>9, AcceptStates
     DEF AcceptClient, HandleAccept, AsyncAccept, AcceptorTypes, AlwaysAccepting, AcceptInv, IInv, TypeOK
<1>10. ASSUME AcceptCanceled PROVE Good'
  BY <1>10, AcceptStates, NoSessionAssumption
     DEF AcceptCanceled, NoAccept, AcceptorTypes, AlwaysAccepting, AcceptInv, vars
<1>11. ASSUME AcceptError PROVE Good'
  BY <1>11, AcceptStates, NoSessionAssumption
     DEF AcceptError, NoAccept, AcceptorTypes, AlwaysAccepting, AcceptInv, vars
<1>12. ASSUME NEW s \in Sessions, ReadPrefixThrows(s) PROVE Good'
  BY <1>12 DEF ReadPrefixThrows, AcceptorTypes, AlwaysAccepting, AcceptInv, vars
<1>13. ASSUME SignalHandler PROVE Good'
  BY <1>13, AcceptStates DEF SignalHandler, AcceptorTypes, AlwaysAccepting, AcceptInv, vars
<1>14. ASSUME RunReturns PROVE Good'
  BY <1>14 DEF RunReturns, AcceptorTypes, AlwaysAccepting, AcceptInv, vars
<1>15. ASSUME UNCHANGED lvars PROVE Good'
  BY <1>5, <1>15 DEF lvars, vars
<1> QED
  BY <1>1, <1>2, <1>3, <1>4, <1>6, <1>7, <1>8, <1>9, <1>10, <1>11, <1>12, <1>13, <1>14, <1>15
     DEF LNext, NetworkStep

\* The invariant of the server: the sessions' and the acceptor's.
THEOREM LInvariant == LSpec => []LInv
<1>1. LInv /\ [LNext]_lvars => LInv'
  <2>1. IInv /\ [Next]_vars => IInv'
    BY TypeStep, WorkerInvStep, PeerStep, TokenStep DEF IInv
  <2> QED
    BY <2>1, AcceptorStep, SessionStep DEF LInv
<1> QED
  BY <1>1, LInitInvariant, PTL DEF LSpec

\* The sessions' variables and the acceptor's keep their types through accepts,
\* signals and exceptions.
THEOREM LTypeCorrect == LSpec => []LTypeOK
<1>1. LInv => LTypeOK
  BY DEF LInv, IInv, LTypeOK
<1> QED
  BY <1>1, LInvariant, PTL

\* handle_accept and signal_handler between them keep exactly the accept
\* outstanding that the server needs, and never a client in two places.
THEOREM AcceptingTheorem == LSpec => []AlwaysAccepting
<1>1. LInv => AlwaysAccepting
  BY DEF LInv
<1> QED
  BY <1>1, LInvariant, PTL

\* run() can leave a live connection only while its request is with the pool.
THEOREM ReturnTheorem == LSpec => ReturnsOnlyUnderWork
<1>1. LInv /\ [LNext]_lvars =>
        [run = "running" /\ run' = "returned" =>
           \A s \in Sessions : ~stopped[s] => InPool(s) \/ OnWorker(s)]_lvars
  <2> SUFFICES ASSUME LInv, LNext, run = "running", run' = "returned", NEW s \in Sessions, ~stopped[s]
               PROVE  InPool(s) \/ OnWorker(s)
    BY DEF lvars
  <2>1. RunReturns
    BY DEF LNext, ClientConnect, AcceptCompletes, AcceptFails, RaiseSignal, ClientStep, NetworkStep,
           AcceptClient, AcceptCanceled, AcceptError, ReadPrefixThrows, SignalHandler, SessionHandler,
           WorkerStep, acceptVars
  <2>2. ~AtSocket(s) /\ ~OnNet(s)
    BY <2>1, NoSessionAssumption DEF RunReturns, AtSocket, OnNet, NetIdle
  <2> QED
    BY <2>2 DEF LInv, IInv, Tokens, Token
<1> QED
  BY <1>1, LInvariant, PTL DEF LSpec, ReturnsOnlyUnderWork

=============================================================================
