------------------------ MODULE ServerSession_proofs ------------------------
(***************************************************************************)
(* Proofs about ServerSession, for any set of sessions, workers and users  *)
(* and any bound on the requests.                                          *)
(***************************************************************************)
EXTENDS ServerSession, TLAPS

\* What read_buffer_ may be given, and what may be taken out of it.
LEMMA BufferTypes ==
  /\ Unset \in Buffer
  /\ \A p \in {"prefix", "body"}, b \in Body : [part |-> p, body |-> b] \in Buffer
  /\ \A r \in Reply : [part |-> "reply", reply |-> r] \in Buffer
  /\ \A b \in Buffer : b.part \in {"prefix", "body"} => b.body \in Body
  /\ \A b \in Buffer : b.part = "reply" => b.reply \in Reply
  BY DEF Unset, Buffer

\* Starting or ending a socket operation leaves a set of operations.
LEMMA OpsType ==
  ASSUME NEW f \in [Sessions -> SUBSET OpKinds], NEW s \in Sessions, NEW op \in OpKinds
  PROVE  /\ [f EXCEPT ![s] = @ \cup {op}] \in [Sessions -> SUBSET OpKinds]
         /\ [f EXCEPT ![s] = @ \ {op}] \in [Sessions -> SUBSET OpKinds]
  OBVIOUS

\* Starting a read keeps the types of what it touches.
LEMMA AsyncReadType ==
  ASSUME TypeOK, NEW s \in Sessions, NEW op \in OpKinds, AsyncRead(s, op)
  PROVE  ops' \in [Sessions -> SUBSET OpKinds] /\ buf' \in [Sessions -> Buffer]
<1>1. ops' \in [Sessions -> SUBSET OpKinds]
  BY OpsType DEF TypeOK, AsyncRead
<1>2. buf' \in [Sessions -> Buffer]
  BY BufferTypes DEF TypeOK, AsyncRead
<1> QED
  BY <1>1, <1>2

\* The reply a worker starts out with has a reply's type.
LEMMA NoReplyType == NoReply \in Reply
  BY DEF NoReply, Reply, ReplyKinds, UserOrNone

\* What a worker's place says of its job: it has one exactly while it is on
\* one, and ParseCommandJob is the job without a request.
WorkerInv ==
  \A w \in Workers :
    /\ wpc[w] \in {"idle", "leaving"} <=> wjob[w] = NoJob
    /\ wpc[w] \in {"parse", "run", "reply"} <=> wjob[w] \in Job
    /\ wpc[w] = "run" => wjob[w].req # ParseReq

\* No step gives a variable a value outside its type.
LEMMA TypeStep == TypeOK /\ WorkerInv /\ [Next]_vars => TypeOK'
<1> SUFFICES ASSUME TypeOK, WorkerInv, [Next]_vars PROVE TypeOK'
  OBVIOUS
<1> USE DEF TypeOK
<1>1. ASSUME NEW s \in Sessions, NEW b \in Frames, ClientSend(s, b) PROVE TypeOK'
  BY <1>1 DEF ClientSend, workerVars, Frames
<1>2. ASSUME NEW s \in Sessions, ClientClose(s) PROVE TypeOK'
  BY <1>2 DEF ClientClose, workerVars
<1>3. ASSUME NEW s \in Sessions, HandleAccept(s) PROVE TypeOK'
  <2>1. ops' \in [Sessions -> SUBSET OpKinds] /\ buf' \in [Sessions -> Buffer]
    BY <1>3, AsyncReadType DEF HandleAccept, Start, DoAsyncReadPrefix, OpKinds
  <2>2. /\ peer' = [peer EXCEPT ![s] = "up"]
        /\ stopped' = [stopped EXCEPT ![s] = FALSE]
        /\ UNCHANGED <<sent, nread, replies, state, net, pool, wpc, wjob, wres>>
    BY <1>3 DEF HandleAccept, Start, workerVars
  <2> QED
    BY <2>1, <2>2
<1>0. ASSUME NEW s \in Sessions, NEW op \in OpKinds, NEW h \in Handlers, NEW err \in BOOLEAN,
             Enter(s, op, h, err), buf' \in [Sessions -> Buffer],
             nread' \in [Sessions -> Nat], replies' \in [Sessions -> Seq(Reply)]
      PROVE  TypeOK'
  <2>1. ops' \in [Sessions -> SUBSET OpKinds]
    BY <1>0, OpsType DEF Enter
  <2>2. net' \in [h : Handlers, s : Sessions, err : BOOLEAN]
    BY <1>0 DEF Enter
  <2>3. UNCHANGED <<peer, sent, stopped, state, pool, wpc, wjob, wres>>
    BY <1>0 DEF Enter, clientVars, workerVars
  <2> QED
    BY <1>0, <2>1, <2>2, <2>3
<1>4. ASSUME NEW s \in Sessions, CompleteReadPrefix(s) PROVE TypeOK'
  <2>1. Enter(s, "read_prefix", "on_read_prefix", FALSE)
    BY <1>4 DEF CompleteReadPrefix
  <2>2. sent[s][nread[s] + 1] \in Body
    BY <1>4 DEF CompleteReadPrefix
  <2>3. buf' \in [Sessions -> Buffer]
    BY <1>4, <2>2, BufferTypes DEF CompleteReadPrefix
  <2>4. nread' \in [Sessions -> Nat] /\ replies' = replies
    BY <1>4 DEF CompleteReadPrefix
  <2> QED
    BY <1>0, <2>1, <2>3, <2>4 DEF Handlers, OpKinds
<1>5. ASSUME NEW s \in Sessions, CompleteReadMessage(s) PROVE TypeOK'
  <2>1. Enter(s, "read_message", "on_read_message", FALSE)
    BY <1>5 DEF CompleteReadMessage
  <2>2. sent[s][nread[s] + 1] \in Body
    BY <1>5 DEF CompleteReadMessage
  <2>3. buf' \in [Sessions -> Buffer]
    BY <1>5, <2>2, BufferTypes DEF CompleteReadMessage
  <2>4. nread' \in [Sessions -> Nat] /\ replies' = replies
    BY <1>5 DEF CompleteReadMessage
  <2> QED
    BY <1>0, <2>1, <2>3, <2>4 DEF Handlers, OpKinds
<1>6. ASSUME NEW s \in Sessions, CompleteWrite(s) PROVE TypeOK'
  <2>1. Enter(s, "write", "on_write", FALSE)
    BY <1>6 DEF CompleteWrite
  <2>2. replies' \in [Sessions -> Seq(Reply)]
    BY <1>6, BufferTypes, NoReplyType DEF CompleteWrite
  <2>3. UNCHANGED <<nread, buf>>
    BY <1>6 DEF CompleteWrite
  <2> QED
    BY <1>0, <2>1, <2>2, <2>3 DEF Handlers, OpKinds
<1>7. ASSUME NEW s \in Sessions, CompleteWithError(s) PROVE TypeOK'
  BY <1>0, <1>7 DEF CompleteWithError, Handlers, OpKinds
<1>8. ASSUME NEW s \in Sessions, OnReadPrefix(s) PROVE TypeOK'
  <2>1. net' = NetIdle /\ UNCHANGED <<peer, sent, nread, replies, state, pool, wpc, wjob, wres>>
    BY <1>8 DEF OnReadPrefix, Leave, workerVars, clientVars
  <2>2. CASE Stop(s)
    BY <2>1, <2>2 DEF Stop
  <2>3. CASE DoAsyncReadMessage(s) /\ UNCHANGED stopped
    <3>1. ops' \in [Sessions -> SUBSET OpKinds] /\ buf' \in [Sessions -> Buffer]
      BY <2>3, AsyncReadType DEF DoAsyncReadMessage, OpKinds
    <3> QED
      BY <2>1, <2>3, <3>1
  <2> QED
    BY <1>8, <2>2, <2>3 DEF OnReadPrefix
<1>9. ASSUME NEW s \in Sessions, OnReadMessage(s) PROVE TypeOK'
  <2>1. net' = NetIdle /\ UNCHANGED <<peer, sent, nread, replies, state, wpc, wjob, wres>>
    BY <1>9 DEF OnReadMessage, Leave, workerVars, clientVars
  <2>2. CASE Stop(s) /\ UNCHANGED pool
    BY <2>1, <2>2 DEF Stop
  <2>3. CASE Post([s |-> s, req |-> ParseReq]) /\ UNCHANGED <<stopped, buf, ops>>
    <3>1. [s |-> s, req |-> ParseReq] \in Job
      BY DEF Job
    <3>2. pool' \in Seq(Job)
      BY <2>3, <3>1 DEF Post
    <3> QED
      BY <2>1, <2>3, <3>2
  <2> QED
    BY <1>9, <2>2, <2>3 DEF OnReadMessage
<1>10. ASSUME NEW s \in Sessions, OnWrite(s) PROVE TypeOK'
  <2>1. net' = NetIdle /\ UNCHANGED <<peer, sent, nread, replies, state, pool, wpc, wjob, wres>>
    BY <1>10 DEF OnWrite, Leave, workerVars, clientVars
  <2>2. CASE Stop(s)
    BY <2>1, <2>2 DEF Stop
  <2>3. CASE DoAsyncReadPrefix(s) /\ UNCHANGED stopped
    <3>1. ops' \in [Sessions -> SUBSET OpKinds] /\ buf' \in [Sessions -> Buffer]
      BY <2>3, AsyncReadType DEF DoAsyncReadPrefix, OpKinds
    <3> QED
      BY <2>1, <2>3, <3>1
  <2> QED
    BY <1>10, <2>2, <2>3 DEF OnWrite
<1>11. ASSUME NEW w \in Workers, TakeJob(w) PROVE TypeOK'
  <2>1. Head(pool) \in Job /\ Tail(pool) \in Seq(Job)
    BY <1>11 DEF TakeJob
  <2> QED
    BY <1>11, <2>1 DEF TakeJob, clientVars
<1>12. ASSUME NEW w \in Workers, WorkerReturn(w) PROVE TypeOK'
  BY <1>12 DEF WorkerReturn, clientVars
<1>13. ASSUME NEW w \in Workers, WorkerInv, ParseCommandJob(w) PROVE TypeOK'
  <2> DEFINE s == wjob[w].s
  <2>1. s \in Sessions
    BY <1>13 DEF ParseCommandJob, WorkerInv, Job
  <2>2. /\ UNCHANGED <<peer, sent, nread, replies, state, net>>
        /\ wpc' \in [Workers -> {"idle", "parse", "run", "reply", "leaving"}]
        /\ wjob' \in [Workers -> Job \cup {NoJob}]
        /\ wres' \in [Workers -> Reply]
    BY <1>13, NoReplyType DEF ParseCommandJob, Finish, clientVars
  <2>3. CASE IsRequest(buf[s])
    <3>1. [s |-> s, req |-> buf[s].body] \in Job
      BY <2>1, <2>3, BufferTypes DEF IsRequest, Job
    <3>2. Post([s |-> s, req |-> buf[s].body]) /\ UNCHANGED <<stopped, ops, buf>>
      BY <1>13, <2>3 DEF ParseCommandJob
    <3>3. pool' \in Seq(Job)
      BY <3>1, <3>2 DEF Post
    <3> QED
      BY <2>2, <3>2, <3>3
  <2>4. CASE ~IsRequest(buf[s])
    <3>1. Stop(s) /\ UNCHANGED pool
      BY <1>13, <2>4 DEF ParseCommandJob
    <3> QED
      BY <2>1, <2>2, <3>1 DEF Stop
  <2> QED
    BY <2>3, <2>4
<1>14. ASSUME NEW w \in Workers, NEW k \in ReplyKinds, NEW u \in UserOrNone, Compose(w, k, u),
              state' \in [Sessions -> UserOrNone]
       PROVE  TypeOK'
  <2>1. [kind |-> k, as |-> u] \in Reply
    BY DEF Reply
  <2> QED
    BY <1>14, <2>1 DEF Compose, clientVars
<1>15. NoUser \in UserOrNone
  BY DEF UserOrNone
<1>16. ASSUME NEW w \in Workers, RegisterRequestJob(w) PROVE TypeOK'
  BY <1>14, <1>15, <1>16 DEF RegisterRequestJob, ReplyKinds
<1>17. ASSUME NEW w \in Workers, WorkerInv, LoginRequestJob(w) PROVE TypeOK'
  <2>1. wjob[w] \in Job /\ wjob[w].req # ParseReq
    BY <1>17 DEF LoginRequestJob, Running, WorkerInv
  <2>2. wjob[w].req.user \in UserOrNone
    BY <2>1 DEF Job, Body
  <2>3. state' \in [Sessions -> UserOrNone]
    BY <1>17, <2>2 DEF LoginRequestJob
  <2> QED
    BY <1>14, <1>15, <1>17, <2>2, <2>3 DEF LoginRequestJob, ReplyKinds
<1>18. ASSUME NEW w \in Workers, NEW ks \in SUBSET ReplyKinds, WorkerInv,
              wpc[w] = "run", IfLoggedIn(w, ks)
       PROVE  TypeOK'
  <2>1. state[wjob[w].s] \in UserOrNone
    BY <1>18 DEF WorkerInv, Job
  <2>2. "empty" \in ReplyKinds
    BY DEF ReplyKinds
  <2> QED
    BY <1>14, <1>15, <1>18, <2>1, <2>2 DEF IfLoggedIn
<1>19. ASSUME NEW w \in Workers, DoAsyncWrite(w), WorkerInv PROVE TypeOK'
  <2> DEFINE s == wjob[w].s
  <2>1. s \in Sessions
    BY <1>19 DEF DoAsyncWrite, WorkerInv, Job
  <2>2. /\ UNCHANGED <<peer, sent, nread, replies, stopped, state, net, pool>>
        /\ wpc' \in [Workers -> {"idle", "parse", "run", "reply", "leaving"}]
        /\ wjob' \in [Workers -> Job \cup {NoJob}]
        /\ wres' \in [Workers -> Reply]
    BY <1>19, NoReplyType DEF DoAsyncWrite, Finish, clientVars
  <2>3. [part |-> "reply", reply |-> wres[w]] \in Buffer
    BY BufferTypes
  <2>4. CASE UNCHANGED <<ops, buf>>
    BY <2>2, <2>4
  <2>5. CASE /\ buf' = [buf EXCEPT ![s] = [part |-> "reply", reply |-> wres[w]]]
             /\ ops' = [ops EXCEPT ![s] = @ \cup {"write"}]
    <3>1. ops' \in [Sessions -> SUBSET OpKinds]
      BY <2>1, <2>5, OpsType DEF OpKinds
    <3>2. buf' \in [Sessions -> Buffer]
      BY <2>1, <2>3, <2>5
    <3> QED
      BY <2>2, <3>1, <3>2
  <2> QED
    BY <1>19, <2>4, <2>5 DEF DoAsyncWrite
<1>20. ASSUME UNCHANGED vars PROVE TypeOK'
  BY <1>20 DEF vars
<1> QED
  <2>1. ASSUME NEW w \in Workers, Worker(w) PROVE TypeOK'
    BY <1>11, <1>12, <1>13, <1>16, <1>17, <1>18, <1>19, <2>1
       DEF Worker, ChatsRequestJob, ContactsRequestJob, MessagesRequestJob, SendMesgRequestJob,
           AddContactRequestJob, CreateChatRequestJob, Running, ReplyKinds
  <2>2. ASSUME NetworkThread PROVE TypeOK'
    BY <1>3, <1>4, <1>5, <1>6, <1>7, <1>8, <1>9, <1>10, <2>2 DEF NetworkThread
  <2> QED
    BY <1>1, <1>2, <1>20, <2>1, <2>2 DEF Next

\* A worker has a job exactly while it is on one.
LEMMA WorkerInvStep == TypeOK /\ WorkerInv /\ [Next]_vars => WorkerInv'
<1> SUFFICES ASSUME TypeOK, WorkerInv, [Next]_vars PROVE WorkerInv'
  OBVIOUS
<1>1. NoJob \notin Job
  BY NoSessionAssumption DEF NoJob, Job
<1>2. ASSUME UNCHANGED <<wpc, wjob>> PROVE WorkerInv'
  BY <1>2 DEF WorkerInv
<1>3. ASSUME NEW w \in Workers, Finish(w) PROVE WorkerInv'
  BY <1>1, <1>3 DEF Finish, WorkerInv, TypeOK
<1>4. ASSUME NEW w \in Workers, TakeJob(w) PROVE WorkerInv'
  <2>1. Head(pool) \in Job
    BY <1>4 DEF TakeJob, TypeOK
  <2> QED
    BY <1>1, <1>4, <2>1 DEF TakeJob, WorkerInv, TypeOK
<1>5. ASSUME NEW w \in Workers, WorkerReturn(w) PROVE WorkerInv'
  BY <1>1, <1>5 DEF WorkerReturn, WorkerInv, TypeOK
<1>6. ASSUME NEW w \in Workers, wpc[w] = "run", NEW k, NEW u, Compose(w, k, u) PROVE WorkerInv'
  BY <1>1, <1>6 DEF Compose, WorkerInv, TypeOK
<1>7. ASSUME NEW w \in Workers, Worker(w) PROVE WorkerInv'
  BY <1>3, <1>4, <1>5, <1>6, <1>7
     DEF Worker, ParseCommandJob, DoAsyncWrite, RegisterRequestJob, LoginRequestJob,
         ChatsRequestJob, ContactsRequestJob, MessagesRequestJob, SendMesgRequestJob,
         AddContactRequestJob, CreateChatRequestJob, IfLoggedIn, Running
<1>8. ASSUME NetworkThread PROVE WorkerInv'
  BY <1>2, <1>8
     DEF NetworkThread, HandleAccept, CompleteReadPrefix, CompleteReadMessage, CompleteWrite,
         CompleteWithError, Enter, OnReadPrefix, OnReadMessage, OnWrite, Leave, workerVars
<1>9. ASSUME NEW s \in Sessions, (\E b \in Frames : ClientSend(s, b)) \/ ClientClose(s)
      PROVE  WorkerInv'
  BY <1>2, <1>9 DEF ClientSend, ClientClose, workerVars
<1> QED
  BY <1>2, <1>7, <1>8, <1>9 DEF Next, vars

-----------------------------------------------------------------------------
(* Where a session can be, and what each kind of step does to that. *)

\* Starting a first socket operation puts a session at the socket, once, and
\* leaves the other sessions where they are.
LEMMA OpStart ==
  ASSUME TypeOK, NEW s \in Sessions, NEW op \in OpKinds, NEW t \in Sessions,
         OneOp(t), ~AtSocket(s), ops' = [ops EXCEPT ![s] = @ \cup {op}]
  PROVE  OneOp(t)' /\ (AtSocket(t)' <=> AtSocket(t) \/ t = s)
  BY DEF TypeOK, OneOp, AtSocket

\* Completing the only operation takes a session off the socket.
LEMMA OpEnd ==
  ASSUME TypeOK, NEW s \in Sessions, NEW op \in ops[s], NEW t \in Sessions,
         OneOp(s), OneOp(t), ops' = [ops EXCEPT ![s] = @ \ {op}]
  PROVE  OneOp(t)' /\ (AtSocket(t)' <=> AtSocket(t) /\ t # s)
  BY DEF TypeOK, OneOp, AtSocket

\* boost::asio::post of a first job puts a session into the pool's queue, once.
LEMMA JobQueued ==
  ASSUME TypeOK, NEW job \in Job, NEW t \in Sessions,
         OneJob(t), ~InPool(job.s), pool' = Append(pool, job)
  PROVE  OneJob(t)' /\ (InPool(t)' <=> InPool(t) \/ t = job.s)
<1>1. /\ Len(pool') = Len(pool) + 1
      /\ Len(pool) \in Nat
      /\ \A i \in 1..Len(pool) : pool'[i] = pool[i]
      /\ pool'[Len(pool) + 1] = job
  BY DEF TypeOK
<1> QED
  BY <1>1 DEF OneJob, InPool

\* Taking the head of the queue removes that session's only job and no other's.
LEMMA JobTaken ==
  ASSUME TypeOK, pool # <<>>, NEW t \in Sessions,
         OneJob(Head(pool).s), OneJob(t), pool' = Tail(pool)
  PROVE  OneJob(t)' /\ (InPool(t)' <=> InPool(t) /\ t # Head(pool).s)
<1>1. /\ Len(pool) \in Nat
      /\ Len(pool) >= 1
      /\ Len(pool') = Len(pool) - 1
      /\ \A i \in 1..Len(pool') : pool'[i] = pool[i + 1]
      /\ Head(pool) = pool[1]
  BY DEF TypeOK
<1>2. OneJob(t)'
  BY <1>1 DEF OneJob
<1>3. ASSUME InPool(t)' PROVE InPool(t) /\ t # Head(pool).s
  BY <1>1, <1>3 DEF OneJob, InPool
<1>4. ASSUME InPool(t), t # Head(pool).s PROVE InPool(t)'
  <2>1. PICK i \in 1..Len(pool) : pool[i].s = t
    BY <1>4 DEF InPool
  <2>2. i - 1 \in 1..Len(pool') /\ pool'[i - 1].s = t
    BY <1>1, <1>4, <2>1
  <2> QED
    BY <2>2 DEF InPool
<1> QED
  BY <1>2, <1>3, <1>4

\* An idle worker that takes a job is on that job's session.
LEMMA WorkerTakes ==
  ASSUME TypeOK, NEW w \in Workers, NEW job \in Job, NEW t \in Sessions, wjob[w] = NoJob,
         OneWorker(t), ~OnWorker(job.s), wjob' = [wjob EXCEPT ![w] = job]
  PROVE  OneWorker(t)' /\ (OnWorker(t)' <=> OnWorker(t) \/ t = job.s)
  BY NoSessionAssumption DEF TypeOK, OneWorker, OnWorker, NoJob

\* A worker that is through with its job is on no session.
LEMMA WorkerDone ==
  ASSUME TypeOK, NEW w \in Workers, NEW t \in Sessions, wjob[w].s \in Sessions,
         OneWorker(wjob[w].s), OneWorker(t), wjob' = [wjob EXCEPT ![w] = NoJob]
  PROVE  OneWorker(t)' /\ (OnWorker(t)' <=> OnWorker(t) /\ t # wjob[w].s)
  BY NoSessionAssumption DEF TypeOK, OneWorker, OnWorker, NoJob

-----------------------------------------------------------------------------
\* Exactly one party holds a running session, and none a stopped one.
Token(s) ==
  /\ OneOp(s) /\ OneJob(s) /\ OneWorker(s)
  /\ AtSocket(s) => ~InPool(s) /\ ~OnNet(s) /\ ~OnWorker(s)
  /\ InPool(s) => ~OnNet(s) /\ ~OnWorker(s)
  /\ OnNet(s) => ~OnWorker(s)
  /\ stopped[s] <=> ~AtSocket(s) /\ ~InPool(s) /\ ~OnNet(s) /\ ~OnWorker(s)

Tokens == \A s \in Sessions : Token(s)

\* A session that has not been accepted is stopped.
PeerInv == \A s \in Sessions : peer[s] = "none" => stopped[s]

\* The inductive invariant.
IInv == TypeOK /\ WorkerInv /\ PeerInv /\ Tokens

\* Only handle_accept starts a session, so one not accepted stays stopped.
LEMMA PeerStep == IInv /\ [Next]_vars => PeerInv'
<1> SUFFICES ASSUME IInv, [Next]_vars PROVE PeerInv'
  OBVIOUS
<1> USE DEF IInv
<1>1. ASSUME UNCHANGED peer, UNCHANGED stopped PROVE PeerInv'
  BY <1>1 DEF PeerInv
<1>2. ASSUME NEW s \in Sessions, UNCHANGED peer, Stop(s) PROVE PeerInv'
  BY <1>2 DEF PeerInv, Stop, TypeOK
<1>3. ASSUME NEW s \in Sessions, HandleAccept(s) PROVE PeerInv'
  BY <1>3 DEF HandleAccept, Start, PeerInv, TypeOK
<1>4. ASSUME NEW s \in Sessions, ClientClose(s) PROVE PeerInv'
  BY <1>4 DEF ClientClose, PeerInv, TypeOK
<1>5. ASSUME NEW w \in Workers, Worker(w) PROVE PeerInv'
  <2>1. UNCHANGED peer
    BY <1>5 DEF Worker, TakeJob, WorkerReturn, ParseCommandJob, DoAsyncWrite, RegisterRequestJob,
         LoginRequestJob, ChatsRequestJob, ContactsRequestJob, MessagesRequestJob,
         SendMesgRequestJob, AddContactRequestJob, CreateChatRequestJob, IfLoggedIn, Compose,
         clientVars
  <2>2. CASE ParseCommandJob(w)
    <3>1. wjob[w].s \in Sessions
      BY <2>2 DEF ParseCommandJob, WorkerInv, Job
    <3> QED
      BY <1>1, <1>2, <2>1, <2>2, <3>1 DEF ParseCommandJob
  <2>3. CASE ~ParseCommandJob(w)
    <3>1. UNCHANGED stopped
      BY <1>5, <2>3 DEF Worker, TakeJob, WorkerReturn, DoAsyncWrite, RegisterRequestJob,
         LoginRequestJob, ChatsRequestJob, ContactsRequestJob, MessagesRequestJob,
         SendMesgRequestJob, AddContactRequestJob, CreateChatRequestJob, IfLoggedIn, Compose
    <3> QED
      BY <1>1, <2>1, <3>1
  <2> QED
    BY <2>2, <2>3
<1>6. ASSUME NEW s \in Sessions, OnReadPrefix(s) \/ OnReadMessage(s) \/ OnWrite(s) PROVE PeerInv'
  <2>1. UNCHANGED peer
    BY <1>6 DEF OnReadPrefix, OnReadMessage, OnWrite, Leave, clientVars
  <2>2. Stop(s) \/ UNCHANGED stopped
    BY <1>6 DEF OnReadPrefix, OnReadMessage, OnWrite
  <2> QED
    BY <1>1, <1>2, <2>1, <2>2
<1>7. ASSUME NetworkThread PROVE PeerInv'
  BY <1>1, <1>3, <1>6, <1>7
     DEF NetworkThread, CompleteReadPrefix, CompleteReadMessage, CompleteWrite,
         CompleteWithError, Enter, clientVars
<1> QED
  BY <1>1, <1>4, <1>5, <1>7 DEF Next, ClientSend, vars

\* Every step hands the session on, keeps it or drops it with a stop.
LEMMA TokenStep == IInv /\ [Next]_vars => Tokens'
<1> SUFFICES ASSUME IInv, [Next]_vars, NEW t \in Sessions PROVE Token(t)'
  BY DEF Tokens
<1> USE DEF IInv
<1>0. NetIdle.s \notin Sessions
  BY NoSessionAssumption DEF NetIdle
<1>T. Token(t)
  BY DEF Tokens
\* What an unchanged variable leaves alone.
<1>U. /\ ops' = ops => (AtSocket(t)' <=> AtSocket(t)) /\ (OneOp(t)' <=> OneOp(t))
      /\ pool' = pool => (InPool(t)' <=> InPool(t)) /\ (OneJob(t)' <=> OneJob(t))
      /\ net' = net => (OnNet(t)' <=> OnNet(t))
      /\ wjob' = wjob => (OnWorker(t)' <=> OnWorker(t)) /\ (OneWorker(t)' <=> OneWorker(t))
  BY DEF AtSocket, OneOp, InPool, OneJob, OnNet, OnWorker, OneWorker
<1>1. ASSUME UNCHANGED <<ops, pool, net, wjob, stopped>> PROVE Token(t)'
  BY <1>U, <1>T, <1>1 DEF Token
<1>2. ASSUME NEW s \in Sessions, HandleAccept(s) PROVE Token(t)'
  <2>1. Token(s) /\ stopped[s]
    BY <1>2 DEF HandleAccept, Start, PeerInv, Tokens
  <2>2. OneOp(t)' /\ (AtSocket(t)' <=> AtSocket(t) \/ t = s)
    BY <1>2, <1>T, <2>1, OpStart DEF HandleAccept, Start, DoAsyncReadPrefix, AsyncRead, OpKinds, Token
  <2>3. stopped'[t] <=> stopped[t] /\ t # s
    BY <1>2 DEF HandleAccept, Start, TypeOK
  <2>4. UNCHANGED <<pool, net, wjob>>
    BY <1>2 DEF HandleAccept, Start, workerVars
  <2> QED
    BY <1>U, <1>T, <2>1, <2>2, <2>3, <2>4 DEF Token
<1>3. ASSUME NEW s \in Sessions, NEW op, NEW h, NEW err, Enter(s, op, h, err) PROVE Token(t)'
  <2>1. Token(s) /\ AtSocket(s)
    BY <1>3 DEF Enter, Tokens, AtSocket
  <2>2. OneOp(t)' /\ (AtSocket(t)' <=> AtSocket(t) /\ t # s)
    BY <1>3, <1>T, <2>1, OpEnd DEF Enter, Token
  <2>3. (OnNet(t)' <=> t = s) /\ ~OnNet(t)
    BY <1>0, <1>3 DEF Enter, OnNet
  <2>4. UNCHANGED <<pool, wjob, stopped>>
    BY <1>3 DEF Enter, workerVars
  <2> QED
    BY <1>U, <1>T, <2>1, <2>2, <2>3, <2>4 DEF Token
<1>4. ASSUME NEW s \in Sessions, OnReadPrefix(s) PROVE Token(t)'
  <2>1. net.s = s /\ net' = NetIdle /\ UNCHANGED <<pool, wjob>>
    BY <1>4 DEF OnReadPrefix, Leave, workerVars
  <2>2. OnNet(t)' <=> OnNet(t) /\ t # s
    BY <1>0, <2>1 DEF OnNet
  <2>3. Token(s) /\ OnNet(s)
    BY <2>1 DEF Tokens, OnNet
  <2>4. CASE Stop(s)
    <3>1. ops' = ops /\ (stopped'[t] <=> stopped[t] \/ t = s)
      BY <2>4 DEF Stop, TypeOK
    <3> QED
      BY <1>U, <1>T, <2>1, <2>2, <2>3, <3>1 DEF Token
  <2>5. CASE DoAsyncReadMessage(s) /\ UNCHANGED stopped
    <3>1. OneOp(t)' /\ (AtSocket(t)' <=> AtSocket(t) \/ t = s)
      BY <1>T, <2>3, <2>5, OpStart DEF DoAsyncReadMessage, AsyncRead, OpKinds, Token
    <3> QED
      BY <1>U, <1>T, <2>1, <2>2, <2>3, <2>5, <3>1 DEF Token
  <2> QED
    BY <1>4, <2>4, <2>5 DEF OnReadPrefix
<1>5. ASSUME NEW s \in Sessions, OnReadMessage(s) PROVE Token(t)'
  <2>1. net.s = s /\ net' = NetIdle /\ UNCHANGED <<ops, wjob>>
    BY <1>5 DEF OnReadMessage, Leave, Stop, workerVars
  <2>2. OnNet(t)' <=> OnNet(t) /\ t # s
    BY <1>0, <2>1 DEF OnNet
  <2>3. Token(s) /\ OnNet(s)
    BY <2>1 DEF Tokens, OnNet
  <2>4. CASE Stop(s) /\ UNCHANGED pool
    <3>1. stopped'[t] <=> stopped[t] \/ t = s
      BY <2>4 DEF Stop, TypeOK
    <3> QED
      BY <1>U, <1>T, <2>1, <2>2, <2>3, <2>4, <3>1 DEF Token
  <2>5. CASE Post([s |-> s, req |-> ParseReq]) /\ UNCHANGED <<stopped, buf, ops>>
    <3>1. [s |-> s, req |-> ParseReq] \in Job
      BY DEF Job
    <3>2. OneJob(t)' /\ (InPool(t)' <=> InPool(t) \/ t = s)
      BY <1>T, <2>3, <2>5, <3>1, JobQueued DEF Post, Token
    <3> QED
      BY <1>U, <1>T, <2>1, <2>2, <2>3, <2>5, <3>2 DEF Token
  <2> QED
    BY <1>5, <2>4, <2>5 DEF OnReadMessage
<1>6. ASSUME NEW s \in Sessions, OnWrite(s) PROVE Token(t)'
  <2>1. net.s = s /\ net' = NetIdle /\ UNCHANGED <<pool, wjob>>
    BY <1>6 DEF OnWrite, Leave, workerVars
  <2>2. OnNet(t)' <=> OnNet(t) /\ t # s
    BY <1>0, <2>1 DEF OnNet
  <2>3. Token(s) /\ OnNet(s)
    BY <2>1 DEF Tokens, OnNet
  <2>4. CASE Stop(s)
    <3>1. ops' = ops /\ (stopped'[t] <=> stopped[t] \/ t = s)
      BY <2>4 DEF Stop, TypeOK
    <3> QED
      BY <1>U, <1>T, <2>1, <2>2, <2>3, <3>1 DEF Token
  <2>5. CASE DoAsyncReadPrefix(s) /\ UNCHANGED stopped
    <3>1. OneOp(t)' /\ (AtSocket(t)' <=> AtSocket(t) \/ t = s)
      BY <1>T, <2>3, <2>5, OpStart DEF DoAsyncReadPrefix, AsyncRead, OpKinds, Token
    <3> QED
      BY <1>U, <1>T, <2>1, <2>2, <2>3, <2>5, <3>1 DEF Token
  <2> QED
    BY <1>6, <2>4, <2>5 DEF OnWrite
<1>7. ASSUME NEW w \in Workers, TakeJob(w) PROVE Token(t)'
  <2>1. Head(pool) \in Job /\ Head(pool).s \in Sessions
    <3>1. Head(pool) \in Job
      BY <1>7 DEF TakeJob, TypeOK
    <3> QED
      BY <3>1 DEF Job
  <2>2. InPool(Head(pool).s) /\ Token(Head(pool).s)
    <3>1. pool # <<>> /\ Len(pool) \in Nat /\ 1 \in 1..Len(pool) /\ Head(pool) = pool[1]
      BY <1>7 DEF TakeJob, TypeOK
    <3> QED
      BY <2>1, <3>1 DEF InPool, Tokens
  <2>3. OneJob(t)' /\ (InPool(t)' <=> InPool(t) /\ t # Head(pool).s)
    BY <1>7, <1>T, <2>1, <2>2, JobTaken DEF TakeJob, Token
  <2>4. OneWorker(t)' /\ (OnWorker(t)' <=> OnWorker(t) \/ t = Head(pool).s)
    BY <1>7, <1>T, <2>1, <2>2, WorkerTakes DEF TakeJob, Token, WorkerInv
  <2>5. UNCHANGED <<ops, net, stopped>>
    BY <1>7 DEF TakeJob
  <2> QED
    BY <1>U, <1>T, <2>2, <2>3, <2>4, <2>5 DEF Token
\* A worker that finishes: the session goes to the queue, to the socket or down.
<1>8. ASSUME NEW w \in Workers, wjob[w] \in Job, Finish(w) PROVE
         /\ wjob[w].s \in Sessions /\ Token(wjob[w].s) /\ OnWorker(wjob[w].s)
         /\ OneWorker(t)' /\ (OnWorker(t)' <=> OnWorker(t) /\ t # wjob[w].s)
  <2>1. wjob[w].s \in Sessions
    BY <1>8 DEF Job
  <2>2. Token(wjob[w].s) /\ OnWorker(wjob[w].s)
    BY <2>1 DEF Tokens, OnWorker
  <2> QED
    BY <1>8, <1>T, <2>1, <2>2, WorkerDone DEF Finish, Token
<1>9. ASSUME NEW w \in Workers, ParseCommandJob(w) PROVE Token(t)'
  <2> DEFINE s == wjob[w].s
  <2>1. wjob[w] \in Job /\ Finish(w) /\ UNCHANGED <<net, ops>>
    BY <1>9 DEF ParseCommandJob, WorkerInv, Stop
  <2>2. /\ s \in Sessions /\ Token(s) /\ OnWorker(s)
        /\ OneWorker(t)' /\ (OnWorker(t)' <=> OnWorker(t) /\ t # s)
    BY <1>8, <2>1
  <2> HIDE DEF s
  <2>3. CASE Stop(s) /\ UNCHANGED pool
    <3>1. stopped'[t] <=> stopped[t] \/ t = s
      BY <2>2, <2>3 DEF Stop, TypeOK
    <3> QED
      BY <1>U, <1>T, <2>1, <2>2, <2>3, <3>1 DEF Token
  <2>4. CASE IsRequest(buf[s]) /\ Post([s |-> s, req |-> buf[s].body]) /\ UNCHANGED stopped
    <3>1. [s |-> s, req |-> buf[s].body] \in Job
      BY <2>2, <2>4, BufferTypes DEF IsRequest, Job, TypeOK
    <3>2. OneJob(t)' /\ (InPool(t)' <=> InPool(t) \/ t = s)
      BY <1>T, <2>2, <2>4, <3>1, JobQueued DEF Post, Token
    <3> QED
      BY <1>U, <1>T, <2>1, <2>2, <2>4, <3>2 DEF Token
  <2> QED
    BY <1>9, <2>3, <2>4 DEF ParseCommandJob, s
<1>10. ASSUME NEW w \in Workers, DoAsyncWrite(w) PROVE Token(t)'
  <2> DEFINE s == wjob[w].s
  <2>1. wjob[w] \in Job /\ Finish(w) /\ UNCHANGED <<net, pool, stopped>>
    BY <1>10 DEF DoAsyncWrite, WorkerInv
  <2>2. /\ s \in Sessions /\ Token(s) /\ OnWorker(s)
        /\ OneWorker(t)' /\ (OnWorker(t)' <=> OnWorker(t) /\ t # s)
    BY <1>8, <2>1
  <2>3. ~stopped[s]
    BY <2>2 DEF Token
  <2>4. ops' = [ops EXCEPT ![s] = @ \cup {"write"}]
    BY <1>10, <2>3 DEF DoAsyncWrite
  <2>5. OneOp(t)' /\ (AtSocket(t)' <=> AtSocket(t) \/ t = s)
    BY <1>T, <2>2, <2>4, OpStart DEF OpKinds, Token
  <2> QED
    BY <1>U, <1>T, <2>1, <2>2, <2>5 DEF Token
<1>11. ASSUME NEW w \in Workers, NEW k, NEW u, Compose(w, k, u) PROVE Token(t)'
  BY <1>1, <1>11 DEF Compose
<1>12. ASSUME NEW w \in Workers, Worker(w) PROVE Token(t)'
  BY <1>1, <1>7, <1>9, <1>10, <1>11, <1>12
     DEF Worker, WorkerReturn, RegisterRequestJob, LoginRequestJob, ChatsRequestJob,
         ContactsRequestJob, MessagesRequestJob, SendMesgRequestJob, AddContactRequestJob,
         CreateChatRequestJob, IfLoggedIn
<1>13. ASSUME NetworkThread PROVE Token(t)'
  BY <1>2, <1>3, <1>4, <1>5, <1>6, <1>13
     DEF NetworkThread, CompleteReadPrefix, CompleteReadMessage, CompleteWrite, CompleteWithError
<1>14. ASSUME NEW s \in Sessions, (\E b \in Frames : ClientSend(s, b)) \/ ClientClose(s)
       PROVE  Token(t)'
  BY <1>1, <1>14 DEF ClientSend, ClientClose, workerVars
<1> QED
  BY <1>1, <1>12, <1>13, <1>14 DEF Next, vars

\* Before the first connection nothing is held and everything is stopped.
LEMMA InitInvariant == Init => IInv
<1> SUFFICES ASSUME Init PROVE IInv
  OBVIOUS
<1>1. TypeOK
  BY BufferTypes, NoReplyType DEF Init, TypeOK, UserOrNone
<1>2. WorkerInv
  BY NoSessionAssumption DEF Init, WorkerInv, NoJob, Job
<1>3. PeerInv
  BY DEF Init, PeerInv
<1>4. Tokens
  BY NoSessionAssumption
     DEF Init, Tokens, Token, OneOp, OneJob, OneWorker, AtSocket, InPool, OnNet, OnWorker,
         NetIdle, NoJob
<1> QED
  BY <1>1, <1>2, <1>3, <1>4 DEF IInv

\* The invariant of the pipeline: every session has one holder or is stopped.
THEOREM Invariant == Spec => []IInv
<1>1. IInv /\ [Next]_vars => IInv'
  BY TypeStep, WorkerInvStep, PeerStep, TokenStep DEF IInv
<1> QED
  BY <1>1, InitInvariant, PTL DEF Spec

\* The members of a session, the job queue and the threads keep their types.
THEOREM TypeCorrect == Spec => []TypeOK
<1>1. IInv => TypeOK
  BY DEF IInv
<1> QED
  BY <1>1, Invariant, PTL

\* ClientSession needs no lock: in any number of sessions and pool threads no
\* two parties are ever on the same session.
THEOREM NoDataRace == Spec => []ExclusiveAccess
<1>1. IInv => ExclusiveAccess
  BY DEF IInv, Tokens, Token, ExclusiveAccess
<1> QED
  BY <1>1, Invariant, PTL

\* No open connection is ever left without someone who will act on it.
THEOREM NoLeak == Spec => []NeverAbandoned
<1>1. IInv => NeverAbandoned
  BY DEF IInv, Tokens, Token, NeverAbandoned
<1> QED
  BY <1>1, Invariant, PTL

\* stop() leaves nothing of the session pending, so no reply is dropped.
THEOREM QuietAfterStop == Spec => []StoppedIsQuiet
<1>1. IInv => StoppedIsQuiet
  BY DEF IInv, Tokens, Token, StoppedIsQuiet
<1> QED
  BY <1>1, Invariant, PTL
\* A stopped session that was accepted is nobody's, so no step can touch it.
LEMMA StopStep ==
  ASSUME IInv, [Next]_vars, NEW t \in Sessions, stopped[t], peer[t] # "none"
  PROVE  stopped'[t] /\ nread'[t] = nread[t] /\ replies'[t] = replies[t] /\ state'[t] = state[t]
<1> DEFINE Kept == stopped'[t] /\ nread'[t] = nread[t] /\ replies'[t] = replies[t] /\ state'[t] = state[t]
<1> USE DEF IInv
<1>1. /\ ops[t] = {}
      /\ net.s # t
      /\ \A w \in Workers : wjob[w].s # t
  BY DEF Tokens, Token, AtSocket, OnNet, OnWorker
<1>2. CASE UNCHANGED <<stopped, nread, replies, state>>
  BY <1>2
<1>3. ASSUME NEW s \in Sessions, HandleAccept(s) PROVE Kept
  <2>1. s # t
    BY <1>3 DEF HandleAccept
  <2> QED
    BY <1>3, <2>1 DEF HandleAccept, Start, TypeOK
<1>4. ASSUME NEW s \in Sessions, CompleteReadMessage(s) \/ CompleteWrite(s) PROVE Kept
  <2>1. s # t
    BY <1>1, <1>4 DEF CompleteReadMessage, CompleteWrite, Enter
  <2>2. UNCHANGED <<stopped, state>>
    BY <1>4 DEF CompleteReadMessage, CompleteWrite, Enter
  <2> QED
    BY <1>4, <2>1, <2>2 DEF CompleteReadMessage, CompleteWrite, TypeOK
<1>5. ASSUME NEW s \in Sessions, UNCHANGED <<nread, replies, state>>, Stop(s) PROVE Kept
  BY <1>5 DEF Stop, TypeOK
<1>6. ASSUME NEW s \in Sessions, OnReadPrefix(s) \/ OnReadMessage(s) \/ OnWrite(s) PROVE Kept
  <2>1. UNCHANGED <<nread, replies, state>>
    BY <1>6 DEF OnReadPrefix, OnReadMessage, OnWrite, Leave
  <2>2. Stop(s) \/ UNCHANGED stopped
    BY <1>6 DEF OnReadPrefix, OnReadMessage, OnWrite
  <2> QED
    BY <1>2, <1>5, <2>1, <2>2
<1>7. CASE NetworkThread
  BY <1>2, <1>3, <1>4, <1>6, <1>7 DEF NetworkThread, CompleteReadPrefix, CompleteWithError, Enter
<1>8. ASSUME NEW w \in Workers, ParseCommandJob(w) PROVE Kept
  <2>1. wjob[w].s \in Sessions
    BY <1>8 DEF ParseCommandJob, WorkerInv, Job
  <2>2. UNCHANGED <<nread, replies, state>>
    BY <1>8 DEF ParseCommandJob
  <2> QED
    BY <1>2, <1>5, <1>8, <2>1, <2>2 DEF ParseCommandJob
<1>9. ASSUME NEW w \in Workers, LoginRequestJob(w) PROVE Kept
  <2>1. wjob[w].s # t
    BY <1>1
  <2>2. UNCHANGED <<stopped, nread, replies>>
    BY <1>9 DEF LoginRequestJob, Compose
  <2> QED
    BY <1>9, <2>1, <2>2 DEF LoginRequestJob, TypeOK
<1>10. ASSUME NEW w \in Workers, Worker(w) PROVE Kept
  <2>1. CASE ~ParseCommandJob(w) /\ ~LoginRequestJob(w)
    <3>1. UNCHANGED <<stopped, nread, replies, state>>
      BY <1>10, <2>1
         DEF Worker, TakeJob, WorkerReturn, DoAsyncWrite, RegisterRequestJob, ChatsRequestJob,
             ContactsRequestJob, MessagesRequestJob, SendMesgRequestJob, AddContactRequestJob,
             CreateChatRequestJob, IfLoggedIn, Compose
    <3> QED
      BY <1>2, <3>1
  <2> QED
    BY <1>8, <1>9, <2>1
<1> QED
  BY <1>2, <1>7, <1>10 DEF Next, ClientSend, ClientClose, vars

\* stop() is the end of a connection: never reopened, nothing read from it or
\* written to it, its login left as it was.
THEOREM StopTheorem == Spec => StopIsFinal
<1>1. IInv /\ [Next]_vars =>
        [\A s \in Sessions : stopped[s] /\ peer[s] # "none" =>
           stopped'[s] /\ UNCHANGED <<nread[s], replies[s], state[s]>>]_vars
  BY StopStep
<1> QED
  BY <1>1, Invariant, PTL DEF Spec, StopIsFinal
=============================================================================
