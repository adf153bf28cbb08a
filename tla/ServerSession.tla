--------------------------- MODULE ServerSession ---------------------------
(***************************************************************************)
(* The server's request pipeline: ClientSession (server/session.cpp), the  *)
(* jobs it runs (jobs/jobs.cpp) and the two kinds of threads that run      *)
(* them: the network thread inside io_service::run(), which runs one       *)
(* completion handler at a time, and the workers of the thread pool.       *)
(*                                                                         *)
(* No lock protects a session.  read_buffer_ is shared by every read and   *)
(* every write, stopped_ and state_ are plain members, and all of them are *)
(* touched by both kinds of threads.  What keeps the threads apart is the  *)
(* order in which one asynchronous step starts the next, so that is what   *)
(* the module models: a step that a thread takes on a session is split     *)
(* into the moment the thread picks the work up and the moment it acts,    *)
(* and everything else may happen in between.                              *)
(*                                                                         *)
(* The peer and TCP are the environment.  A frame is a length prefix and a *)
(* message; a reply is what Response carries, with the user on whose       *)
(* behalf the job ran as a ghost field.  Storage answers arbitrarily here; *)
(* its own behaviour is the module Storage.                                *)
(***************************************************************************)
EXTENDS Integers, Sequences, FiniteSets

CONSTANTS Sessions,     \* ClientSession objects, one per connection
          Workers,      \* threads of job_pool_ (WORKER_THREADS in server.h)
          Users,        \* rows of Client
          Kinds,        \* kinds of frames the peers send
          MaxRequests,  \* bound: frames sent per connection
          NoSession,    \* "this thread is on no session"
          NoUser        \* state_ == nullptr

\* The requests that need a login, and all that can arrive on a connection.
AuthKinds == {"chats", "contacts", "messages", "send_mesg", "add_contact", "create_chat"}
RequestKinds == AuthKinds \cup {"register", "login"}
BadKinds == {"bad_prefix", "garbage", "response", "unsupported"}

ASSUME KindsAssumption == Kinds \subseteq (RequestKinds \cup BadKinds)
ASSUME BoundAssumption == MaxRequests \in Nat
ASSUME NoSessionAssumption == NoSession \notin Sessions
ASSUME NoUserAssumption == NoUser \notin Users

VARIABLES
  peer,      \* the client's end: "none", "up" or "closed"
  sent,      \* frames the client wrote to the socket, in order
  nread,     \* how many of them the server has taken off the socket
  replies,   \* replies that reached the socket, in order
  stopped,   \* ClientSession::stopped_
  state,     \* ClientSession::state_, the user or NoUser
  buf,       \* ClientSession::read_buffer_
  ops,       \* asynchronous socket operations outstanding on a session
  net,       \* the completion handler the network thread is in
  pool,      \* the queue of job_pool_
  wpc,       \* where a worker is
  wjob,      \* the job a worker runs
  wres       \* the reply a worker has composed

clientVars == <<peer, sent>>
workerVars == <<wpc, wjob, wres>>
vars == <<peer, sent, nread, replies, stopped, state, buf, ops, net, pool, wpc, wjob, wres>>

UserOrNone == Users \cup {NoUser}
Body == [kind : Kinds, user : UserOrNone]
ReplyKinds == {"accepted", "rejected", "profile", "no_profile",
               "chats", "contacts", "messages", "empty", "corrupt"}
Reply == [kind : ReplyKinds, as : UserOrNone]
NoReply == [kind |-> "corrupt", as |-> NoUser]

\* What read_buffer_ holds: bytes no operation has filled yet, one part of a
\* frame, or a serialized reply.
Unset == [part |-> "unset"]
Buffer == {Unset} \cup [part : {"prefix", "body"}, body : Body]
                  \cup [part : {"reply"}, reply : Reply]

ParseReq == [kind |-> "parse", user |-> NoUser]
Job == [s : Sessions, req : Body \cup {ParseReq}]
NoJob == [s |-> NoSession, req |-> ParseReq]
OpKinds == {"read_prefix", "read_message", "write"}
Handlers == {"on_read_prefix", "on_read_message", "on_write"}
NetIdle == [h |-> "idle", s |-> NoSession, err |-> FALSE]

\* The frames a client may send: only a login names a user.
Frames == {b \in Body : (b.kind = "login") <=> (b.user # NoUser)}

Init ==
  /\ peer = [s \in Sessions |-> "none"]
  /\ sent = [s \in Sessions |-> <<>>]
  /\ nread = [s \in Sessions |-> 0]
  /\ replies = [s \in Sessions |-> <<>>]
  /\ stopped = [s \in Sessions |-> TRUE]
  /\ state = [s \in Sessions |-> NoUser]
  /\ buf = [s \in Sessions |-> Unset]
  /\ ops = [s \in Sessions |-> {}]
  /\ net = NetIdle
  /\ pool = <<>>
  /\ wpc = [w \in Workers |-> "idle"]
  /\ wjob = [w \in Workers |-> NoJob]
  /\ wres = [w \in Workers |-> NoReply]

-----------------------------------------------------------------------------
(* The client's end of the connection and TCP. *)

ClientSend(s, b) ==
  /\ peer[s] = "up"
  /\ Len(sent[s]) < MaxRequests
  /\ sent' = [sent EXCEPT ![s] = Append(@, b)]
  /\ UNCHANGED <<peer, nread, replies, stopped, state, buf, ops, net, pool, workerVars>>

ClientClose(s) ==
  /\ peer[s] = "up"
  /\ peer' = [peer EXCEPT ![s] = "closed"]
  /\ UNCHANGED <<sent, nread, replies, stopped, state, buf, ops, net, pool, workerVars>>

\* A socket operation can fail once either end has closed.
MayFail(s) == peer[s] = "closed" \/ stopped[s]

-----------------------------------------------------------------------------
(* ClientSession's own operations, as conjuncts of the steps that call them. *)

\* Starting a read resizes read_buffer_ and hands it to the operation.
AsyncRead(s, op) ==
  /\ ops' = [ops EXCEPT ![s] = @ \cup {op}]
  /\ buf' = [buf EXCEPT ![s] = Unset]

DoAsyncReadPrefix(s) == AsyncRead(s, "read_prefix")
DoAsyncReadMessage(s) == AsyncRead(s, "read_message")

\* The socket's pending operations now end with an error, see MayFail.
Stop(s) ==
  /\ stopped' = [stopped EXCEPT ![s] = TRUE]
  /\ UNCHANGED <<ops, buf>>

Start(s) ==
  /\ stopped' = [stopped EXCEPT ![s] = FALSE]
  /\ DoAsyncReadPrefix(s)

Post(job) == pool' = Append(pool, job)

-----------------------------------------------------------------------------
(* The network thread.  A completed operation is first picked up (the       *)
(* reactor moves the bytes and the handler is entered), then the handler    *)
(* acts.                                                                    *)

\* handle_accept with no error, and the session's start().
HandleAccept(s) ==
  /\ net = NetIdle
  /\ peer[s] = "none"
  /\ peer' = [peer EXCEPT ![s] = "up"]
  /\ Start(s)
  /\ UNCHANGED <<sent, nread, replies, state, net, pool, workerVars>>

Enter(s, op, handler, err) ==
  /\ net = NetIdle
  /\ op \in ops[s]
  /\ ops' = [ops EXCEPT ![s] = @ \ {op}]
  /\ net' = [h |-> handler, s |-> s, err |-> err]
  /\ UNCHANGED <<clientVars, stopped, state, pool, workerVars>>

CompleteReadPrefix(s) ==
  /\ Enter(s, "read_prefix", "on_read_prefix", FALSE)
  /\ ~stopped[s]
  /\ nread[s] < Len(sent[s])
  /\ buf' = [buf EXCEPT ![s] = [part |-> "prefix", body |-> sent[s][nread[s] + 1]]]
  /\ UNCHANGED <<nread, replies>>

CompleteReadMessage(s) ==
  /\ Enter(s, "read_message", "on_read_message", FALSE)
  /\ ~stopped[s]
  /\ nread[s] < Len(sent[s])
  /\ buf' = [buf EXCEPT ![s] = [part |-> "body", body |-> sent[s][nread[s] + 1]]]
  /\ nread' = [nread EXCEPT ![s] = @ + 1]
  /\ UNCHANGED replies

\* The bytes sent are those read_buffer_ holds while the operation runs.
CompleteWrite(s) ==
  /\ Enter(s, "write", "on_write", FALSE)
  /\ ~stopped[s]
  /\ replies' = [replies EXCEPT
                  ![s] = Append(@, IF buf[s].part = "reply" THEN buf[s].reply ELSE NoReply)]
  /\ UNCHANGED <<nread, buf>>

CompleteWithError(s) ==
  /\ MayFail(s)
  /\ \/ Enter(s, "read_prefix", "on_read_prefix", TRUE)
     \/ Enter(s, "read_message", "on_read_message", TRUE)
     \/ Enter(s, "write", "on_write", TRUE)
  /\ UNCHANGED <<nread, replies, buf>>

Leave(handler) ==
  /\ net.h = handler
  /\ net' = NetIdle
  /\ UNCHANGED <<clientVars, nread, replies, state, workerVars>>

PrefixParses(b) == b.part = "prefix" /\ b.body.kind # "bad_prefix"

OnReadPrefix(s) ==
  /\ net.s = s
  /\ Leave("on_read_prefix")
  /\ IF net.err \/ stopped[s] \/ ~PrefixParses(buf[s])
     THEN Stop(s)
     ELSE DoAsyncReadMessage(s) /\ UNCHANGED stopped
  /\ UNCHANGED pool

\* A slip of the kind that keeping the connection busy invites: reading the
\* next frame while the job for this one is still queued.
OnReadMessage_ReadAhead(s) ==
  /\ net.s = s
  /\ Leave("on_read_message")
  /\ IF net.err \/ stopped[s]
     THEN Stop(s) /\ UNCHANGED pool
     ELSE /\ Post([s |-> s, req |-> ParseReq])
          /\ ops' = [ops EXCEPT ![s] = @ \cup {"read_prefix"}]
          /\ UNCHANGED <<stopped, buf>>

OnReadMessage(s) ==
  /\ net.s = s
  /\ Leave("on_read_message")
  /\ IF net.err \/ stopped[s]
     THEN Stop(s) /\ UNCHANGED pool
     ELSE Post([s |-> s, req |-> ParseReq]) /\ UNCHANGED <<stopped, buf, ops>>

\* A failed write that returns without stop().
OnWrite_NoStop(s) ==
  /\ net.s = s
  /\ Leave("on_write")
  /\ IF net.err \/ stopped[s]
     THEN UNCHANGED <<stopped, ops, buf>>
     ELSE DoAsyncReadPrefix(s) /\ UNCHANGED stopped
  /\ UNCHANGED pool

OnWrite(s) ==
  /\ net.s = s
  /\ Leave("on_write")
  /\ IF net.err \/ stopped[s]
     THEN Stop(s)
     ELSE DoAsyncReadPrefix(s) /\ UNCHANGED stopped
  /\ UNCHANGED pool

NetworkThread ==
  \E s \in Sessions :
    \/ HandleAccept(s)
    \/ CompleteReadPrefix(s)
    \/ CompleteReadMessage(s)
    \/ CompleteWrite(s)
    \/ CompleteWithError(s)
    \/ OnReadPrefix(s)
    \/ OnReadMessage(s)
    \/ OnWrite(s)

-----------------------------------------------------------------------------
(* The workers. *)

TakeJob(w) ==
  /\ wpc[w] = "idle"
  /\ pool # <<>>
  /\ pool' = Tail(pool)
  /\ wjob' = [wjob EXCEPT ![w] = Head(pool)]
  /\ wpc' = [wpc EXCEPT ![w] = IF Head(pool).req = ParseReq THEN "parse" ELSE "run"]
  /\ UNCHANGED <<clientVars, nread, replies, stopped, state, buf, ops, net, wres>>

\* The worker is through with the session; it still has to return from the job.
Finish(w) ==
  /\ wpc' = [wpc EXCEPT ![w] = "leaving"]
  /\ wjob' = [wjob EXCEPT ![w] = NoJob]
  /\ wres' = [wres EXCEPT ![w] = NoReply]

WorkerReturn(w) ==
  /\ wpc[w] = "leaving"
  /\ wpc' = [wpc EXCEPT ![w] = "idle"]
  /\ UNCHANGED <<clientVars, nread, replies, stopped, state, buf, ops, net, pool, wjob, wres>>

\* A message is a request this server knows, or the session is stopped.
IsRequest(b) == b.part = "body" /\ b.body.kind \in RequestKinds

\* An "unsupported request" branch that forgets session_->stop().
ParseCommandJob_NoStop(w) ==
  LET s == wjob[w].s IN
  /\ wpc[w] = "parse"
  /\ Finish(w)
  /\ IF IsRequest(buf[s])
     THEN Post([s |-> s, req |-> buf[s].body])
     ELSE UNCHANGED pool
  /\ UNCHANGED <<clientVars, nread, replies, state, net, stopped, ops, buf>>

\* A job that is handed the whole WrappedMessage instead of its request.
ParseCommandJob_WholeMessage(w) ==
  LET s == wjob[w].s IN
  /\ wpc[w] = "parse"
  /\ Finish(w)
  /\ IF IsRequest(buf[s])
     THEN /\ Post([s |-> s, req |-> buf[s]])
          /\ UNCHANGED <<stopped, ops, buf>>
     ELSE Stop(s) /\ UNCHANGED pool
  /\ UNCHANGED <<clientVars, nread, replies, state, net>>

\* Hanging up on a request that comes before the login it needs.
ParseCommandJob_LoginFirst(w) ==
  LET s == wjob[w].s IN
  /\ wpc[w] = "parse"
  /\ Finish(w)
  /\ IF IsRequest(buf[s]) /\ (buf[s].body.kind \in AuthKinds => state[s] # NoUser)
     THEN /\ Post([s |-> s, req |-> buf[s].body])
          /\ UNCHANGED <<stopped, ops, buf>>
     ELSE Stop(s) /\ UNCHANGED pool
  /\ UNCHANGED <<clientVars, nread, replies, state, net>>

ParseCommandJob(w) ==
  LET s == wjob[w].s IN
  /\ wpc[w] = "parse"
  /\ Finish(w)
  /\ IF IsRequest(buf[s])
     THEN /\ Post([s |-> s, req |-> buf[s].body])
          /\ UNCHANGED <<stopped, ops, buf>>
     ELSE Stop(s) /\ UNCHANGED pool
  /\ UNCHANGED <<clientVars, nread, replies, state, net>>

\* The storage call of a job has returned and the Response is composed.
Compose(w, kind, as) ==
  /\ wpc' = [wpc EXCEPT ![w] = "reply"]
  /\ wres' = [wres EXCEPT ![w] = [kind |-> kind, as |-> as]]
  /\ UNCHANGED <<clientVars, nread, replies, stopped, buf, ops, net, pool, wjob>>

Running(w, kind) == wpc[w] = "run" /\ wjob[w].req.kind = kind

RegisterRequestJob(w) ==
  /\ Running(w, "register")
  /\ \E kind \in {"accepted", "rejected"} : Compose(w, kind, NoUser)
  /\ UNCHANGED state

\* A failed login that resets the session's state.
LoginRequestJob_Reset(w) ==
  LET s == wjob[w].s
      u == wjob[w].req.user
  IN
  /\ Running(w, "login")
  /\ \/ Compose(w, "profile", u) /\ state' = [state EXCEPT ![s] = u]
     \/ Compose(w, "no_profile", NoUser) /\ state' = [state EXCEPT ![s] = NoUser]

\* A failed login leaves an earlier login of the session in place.
LoginRequestJob(w) ==
  LET s == wjob[w].s
      u == wjob[w].req.user
  IN
  /\ Running(w, "login")
  /\ \/ Compose(w, "profile", u) /\ state' = [state EXCEPT ![s] = u]
     \/ Compose(w, "no_profile", NoUser) /\ UNCHANGED state

\* The jobs behind a login: without one the Response is empty.
IfLoggedIn(w, kinds) ==
  LET u == state[wjob[w].s] IN
  /\ IF u # NoUser
     THEN \E kind \in kinds : Compose(w, kind, u)
     ELSE Compose(w, "empty", NoUser)
  /\ UNCHANGED state

ChatsRequestJob(w) == Running(w, "chats") /\ IfLoggedIn(w, {"chats"})
ContactsRequestJob(w) == Running(w, "contacts") /\ IfLoggedIn(w, {"contacts"})
MessagesRequestJob(w) == Running(w, "messages") /\ IfLoggedIn(w, {"messages"})
SendMesgRequestJob(w) == Running(w, "send_mesg") /\ IfLoggedIn(w, {"accepted", "rejected"})
AddContactRequestJob(w) == Running(w, "add_contact") /\ IfLoggedIn(w, {"accepted", "rejected"})
CreateChatRequestJob(w) == Running(w, "create_chat") /\ IfLoggedIn(w, {"accepted", "rejected"})

\* ClientSession::write, called by every job: on a stopped session the reply
\* is dropped, and nothing is started.
DoAsyncWrite(w) ==
  LET s == wjob[w].s IN
  /\ wpc[w] = "reply"
  /\ Finish(w)
  /\ IF stopped[s]
     THEN UNCHANGED <<ops, buf>>
     ELSE /\ buf' = [buf EXCEPT ![s] = [part |-> "reply", reply |-> wres[w]]]
          /\ ops' = [ops EXCEPT ![s] = @ \cup {"write"}]
  /\ UNCHANGED <<clientVars, nread, replies, stopped, state, net, pool>>

Worker(w) ==
  \/ TakeJob(w)
  \/ ParseCommandJob(w)
  \/ RegisterRequestJob(w)
  \/ LoginRequestJob(w)
  \/ ChatsRequestJob(w)
  \/ ContactsRequestJob(w)
  \/ MessagesRequestJob(w)
  \/ SendMesgRequestJob(w)
  \/ AddContactRequestJob(w)
  \/ CreateChatRequestJob(w)
  \/ DoAsyncWrite(w)
  \/ WorkerReturn(w)

-----------------------------------------------------------------------------
Next ==
  \/ \E s \in Sessions : (\E b \in Frames : ClientSend(s, b)) \/ ClientClose(s)
  \/ NetworkThread
  \/ \E w \in Workers : Worker(w)

Spec == Init /\ [][Next]_vars

-----------------------------------------------------------------------------
\* Type invariant of the session members, the queues and the threads.
TypeOK ==
  /\ peer \in [Sessions -> {"none", "up", "closed"}]
  /\ sent \in [Sessions -> Seq(Body)]
  /\ nread \in [Sessions -> Nat]
  /\ replies \in [Sessions -> Seq(Reply)]
  /\ stopped \in [Sessions -> BOOLEAN]
  /\ state \in [Sessions -> UserOrNone]
  /\ buf \in [Sessions -> Buffer]
  /\ ops \in [Sessions -> SUBSET OpKinds]
  /\ net \in [h : Handlers, s : Sessions, err : BOOLEAN] \cup {NetIdle}
  /\ pool \in Seq(Job)
  /\ wpc \in [Workers -> {"idle", "parse", "run", "reply", "leaving"}]
  /\ wjob \in [Workers -> Job \cup {NoJob}]
  /\ wres \in [Workers -> Reply]

\* Who can be holding session s: the socket, the pool's queue, the network
\* thread or a worker.
AtSocket(s) == ops[s] # {}
InPool(s) == \E i \in 1..Len(pool) : pool[i].s = s
OnNet(s) == net.s = s
OnWorker(s) == \E w \in Workers : wjob[w].s = s

\* At most one party holds s in each of these places.
OneOp(s) == \A a, b \in ops[s] : a = b
OneJob(s) == \A i, j \in 1..Len(pool) : pool[i].s = s /\ pool[j].s = s => i = j
OneWorker(s) == \A v, w \in Workers : wjob[v].s = s /\ wjob[w].s = s => v = w

\* No data race on a session, though nothing locks it: read_buffer_, stopped_
\* and state_ are never within reach of two threads, and no thread is on the
\* session while an asynchronous operation owns the buffer (do_async_write in
\* a worker against the handlers of the network thread).
ExclusiveAccess ==
  \A s \in Sessions :
    /\ OneOp(s) /\ OneJob(s) /\ OneWorker(s)
    /\ AtSocket(s) => ~InPool(s) /\ ~OnNet(s) /\ ~OnWorker(s)
    /\ InPool(s) => ~OnNet(s) /\ ~OnWorker(s)
    /\ OnNet(s) => ~OnWorker(s)

\* A session that is not stopped is always in someone's hands: no path through
\* the handlers and the jobs leaves an open socket nobody reads or writes
\* again, which no timeout would ever notice.
NeverAbandoned ==
  \A s \in Sessions : ~stopped[s] => AtSocket(s) \/ InPool(s) \/ OnNet(s) \/ OnWorker(s)

\* Once stop() has run nothing of the session is left behind, so the
\* "if (stopped_) return" of do_async_write never swallows a reply and the
\* last shared_ptr to the session goes.
StoppedIsQuiet ==
  \A s \in Sessions :
    stopped[s] => ~AtSocket(s) /\ ~InPool(s) /\ ~OnNet(s) /\ ~OnWorker(s)

\* The user a session acts for after its first n replies: the last login that
\* came back with a profile.
UserAfter(s, n) ==
  LET logins == {i \in 1..n : replies[s][i].kind = "profile"} IN
  IF logins = {} THEN NoUser
  ELSE replies[s][CHOOSE i \in logins : \A j \in logins : j <= i].as

\* The abstract connection behind a session: the user is the one its replies
\* tell the client, not state_.
Abstract == INSTANCE RequestReply WITH
  Requests <- Frames,
  closed <- stopped,
  user <- [s \in Sessions |-> UserAfter(s, Len(replies[s]))]

\* The pipeline implements RequestReply: though a request changes hands
\* between the network thread, the pool and two workers, a client sees its
\* requests answered one at a time in order for the user it was told, and the
\* server hangs up (ClientSession::stop) only on a client that left or on a
\* frame that is no request, never on a request it owes an answer.
ImplementsRequestReply == Abstract!Spec

\* One response for every request (session.h), in order: the n-th reply on the
\* wire answers the n-th frame of that connection, computed for the user that
\* the replies before it say is logged in, however many clients pipeline and
\* whichever workers run the jobs.
RepliesAnswerInOrder ==
  \A s \in Sessions :
    /\ Len(replies[s]) <= nread[s]
    /\ \A n \in 1..Len(replies[s]) : replies[s][n] \in Abstract!Answers(sent[s][n], UserAfter(s, n - 1))

\* After stop() the connection is over: it is never reopened, nothing more is
\* read from it or written to it, and its login state stays as it was.
StopIsFinal ==
  [][\A s \in Sessions :
       stopped[s] /\ peer[s] # "none" =>
         stopped'[s] /\ UNCHANGED <<nread[s], replies[s], state[s]>>]_vars

\* What test_send_packets.py expects of a login that fails: a status response
\* REJECTED.
FailedLoginIsRejected ==
  \A s \in Sessions : \A n \in 1..Len(replies[s]) :
    sent[s][n].kind = "login" => replies[s][n].kind \in {"profile", "rejected"}
=============================================================================
