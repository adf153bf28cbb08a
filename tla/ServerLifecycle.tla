-------------------------- MODULE ServerLifecycle --------------------------
(***************************************************************************)
(* ElegramServer (server/server.cpp): how the server accepts clients, what *)
(* its signal handler does, and when run() ends.  The sessions are those   *)
(* of ServerSession; this module adds the acceptor and the one accept that *)
(* is outstanding at a time.                                               *)
(*                                                                         *)
(* An accept that has completed (Asio tries it already inside              *)
(* async_accept) waits in the queue of io_service for its handler, and the *)
(* signal handler may run first.  run() returns when io_service has        *)
(* nothing left to wait for, which counts socket operations and handlers,  *)
(* not the jobs of the pool.                                               *)
(***************************************************************************)
EXTENDS ServerSession

VARIABLES
  backlog,   \* clients connected to the listening socket, not yet accepted
  accept,    \* the outstanding async_accept and the client it has taken
  acceptor,  \* acceptor_: "open" or "closed"
  signal,    \* the signal wait: "waiting", "raised" (handler queued), "handled"
  run        \* ElegramServer::run: "running", "returned" or "thrown"

acceptVars == <<backlog, accept, acceptor, signal, run>>
lvars == <<vars, acceptVars>>

NoAccept == [st |-> "none", s |-> NoSession]
Accepting == [st |-> "pending", s |-> NoSession]
Canceled == [st |-> "canceled", s |-> NoSession]
Failed == [st |-> "failed", s |-> NoSession]
Accepted(s) == [st |-> "done", s |-> s]

\* run() up to network_service_.run(): the signal wait and the first accept.
LInit ==
  /\ Init
  /\ backlog = {}
  /\ accept = Accepting
  /\ acceptor = "open"
  /\ signal = "waiting"
  /\ run = "running"

\* acceptor_.async_accept: on a closed acceptor it completes at once with
\* "bad file descriptor".
AsyncAccept == accept' = IF acceptor = "open" THEN Accepting ELSE Failed

-----------------------------------------------------------------------------
(* Clients, the operating system and whoever stops the server. *)

ClientConnect(s) ==
  /\ run = "running"
  /\ acceptor = "open"
  /\ peer[s] = "none" /\ s \notin backlog /\ accept.s # s
  /\ backlog' = backlog \cup {s}
  /\ UNCHANGED <<vars, accept, acceptor, signal, run>>

AcceptCompletes(s) ==
  /\ run = "running"
  /\ net = NetIdle
  /\ accept = Accepting
  /\ s \in backlog
  /\ backlog' = backlog \ {s}
  /\ accept' = Accepted(s)
  /\ UNCHANGED <<vars, acceptor, signal, run>>

\* accept() fails, for instance because no descriptor is left.
AcceptFails ==
  /\ run = "running"
  /\ net = NetIdle
  /\ accept = Accepting
  /\ backlog # {}
  /\ accept' = Failed
  /\ UNCHANGED <<vars, backlog, acceptor, signal, run>>

RaiseSignal ==
  /\ run = "running"
  /\ signal = "waiting"
  /\ signal' = "raised"
  /\ UNCHANGED <<vars, backlog, accept, acceptor, run>>

ClientStep ==
  /\ \E s \in Sessions : (\E b \in Frames : ClientSend(s, b)) \/ ClientClose(s)
  /\ UNCHANGED acceptVars

-----------------------------------------------------------------------------
(* Handlers of the network thread. *)

\* A server that forgets to wait for the next connection.
AcceptClient_Once(s) ==
  /\ run = "running"
  /\ accept = Accepted(s)
  /\ HandleAccept(s)
  /\ accept' = NoAccept
  /\ UNCHANGED <<backlog, acceptor, signal, run>>

\* The next connection is accepted into the session that was just started.
AcceptClient_SameSession(s) ==
  /\ run = "running"
  /\ net = NetIdle
  /\ accept = Accepted(s)
  /\ peer' = [peer EXCEPT ![s] = "up"]
  /\ Start(s)
  /\ UNCHANGED <<sent, nread, replies, state, net, pool, workerVars>>
  /\ accept' = IF backlog = {} THEN Accepting ELSE Accepted(s)
  /\ UNCHANGED <<backlog, acceptor, signal, run>>

\* handle_accept without an error: the session starts and the next accept is
\* started, whether or not the acceptor has been closed meanwhile.
AcceptClient(s) ==
  /\ run = "running"
  /\ accept = Accepted(s)
  /\ HandleAccept(s)
  /\ AsyncAccept
  /\ UNCHANGED <<backlog, acceptor, signal, run>>

\* handle_accept with operation_canceled.
AcceptCanceled ==
  /\ run = "running"
  /\ net = NetIdle
  /\ accept = Canceled
  /\ accept' = NoAccept
  /\ UNCHANGED <<vars, backlog, acceptor, signal, run>>

\* handle_accept with any other error: the exception leaves run() and main().
AcceptError ==
  /\ run = "running"
  /\ net = NetIdle
  /\ accept = Failed
  /\ accept' = NoAccept
  /\ run' = "thrown"
  /\ UNCHANGED <<vars, backlog, acceptor, signal>>

\* A handler that only logs.
SignalHandler_LogOnly ==
  /\ run = "running"
  /\ net = NetIdle
  /\ signal = "raised"
  /\ signal' = "handled"
  /\ UNCHANGED <<vars, backlog, accept, acceptor, run>>

\* acceptor_.close() cancels a pending accept and resets the clients that
\* wait; an accept that has already completed is not recalled.
SignalHandler ==
  /\ run = "running"
  /\ net = NetIdle
  /\ signal = "raised"
  /\ signal' = "handled"
  /\ acceptor' = "closed"
  /\ backlog' = {}
  /\ accept' = IF accept = Accepting THEN Canceled ELSE accept
  /\ UNCHANGED <<vars, run>>

SessionHandler ==
  /\ run = "running"
  /\ \E s \in Sessions :
       \/ CompleteReadPrefix(s)
       \/ CompleteReadMessage(s)
       \/ CompleteWrite(s)
       \/ CompleteWithError(s)
       \/ OnReadPrefix(s)
       \/ OnReadMessage(s)
       \/ OnWrite(s)
  /\ UNCHANGED acceptVars

\* on_read_prefix with a length that read_buffer_ cannot be resized to: the
\* exception of resize() leaves the handler and, like AcceptError, run().
ReadPrefixThrows(s) ==
  /\ run = "running"
  /\ net.s = s /\ net.h = "on_read_prefix"
  /\ ~net.err /\ ~stopped[s] /\ PrefixParses(buf[s])
  /\ run' = "thrown"
  /\ UNCHANGED <<vars, backlog, accept, acceptor, signal>>

\* network_service_.run() has no operation and no handler left.
RunReturns ==
  /\ run = "running"
  /\ net = NetIdle
  /\ signal = "handled"
  /\ accept = NoAccept
  /\ \A s \in Sessions : ops[s] = {}
  /\ run' = "returned"
  /\ UNCHANGED <<vars, backlog, accept, acceptor, signal>>

NetworkStep ==
  \/ \E s \in Sessions : AcceptClient(s) \/ ReadPrefixThrows(s)
  \/ AcceptCanceled
  \/ AcceptError
  \/ SignalHandler
  \/ SessionHandler
  \/ RunReturns

-----------------------------------------------------------------------------
\* After run() has returned, the workers run on until main() ends; an
\* exception ends the process, workers included.
WorkerStep(w) ==
  /\ run # "thrown"
  /\ Worker(w)
  /\ UNCHANGED acceptVars

LNext ==
  \/ \E s \in Sessions : ClientConnect(s) \/ AcceptCompletes(s)
  \/ AcceptFails
  \/ RaiseSignal
  \/ ClientStep
  \/ NetworkStep
  \/ \E w \in Workers : WorkerStep(w)

LSpec == LInit /\ [][LNext]_lvars

\* The reactor notices a waiting client, the network thread runs its handlers
\* and the pool its jobs.  Clients and signals promise nothing.
LFairSpec ==
  /\ LSpec
  /\ \A s \in Sessions : WF_lvars(AcceptCompletes(s))
  /\ WF_lvars(NetworkStep)
  /\ \A w \in Workers : WF_lvars(WorkerStep(w))

-----------------------------------------------------------------------------
AcceptorTypes ==
  /\ backlog \subseteq Sessions
  /\ accept \in {NoAccept, Accepting, Canceled, Failed} \cup {Accepted(s) : s \in Sessions}
  /\ acceptor \in {"open", "closed"}
  /\ signal \in {"waiting", "raised", "handled"}
  /\ run \in {"running", "returned", "thrown"}

\* Type invariant of the whole server: the sessions' pipeline, with the jobs
\* and buffers that handlers and workers pass on, and the acceptor.
LTypeOK == TypeOK /\ AcceptorTypes

\* Around handle_accept and signal_handler: while the acceptor is open there
\* is always an accept outstanding, or no client could connect again; once it
\* is closed none is pending, or run() would wait for it for ever; and a
\* client is in one place only, the backlog, the accept or its session.
AlwaysAccepting ==
  run = "running" =>
    /\ acceptor = "open" => accept # NoAccept
    /\ acceptor = "closed" => accept # Accepting /\ backlog = {}
    /\ \A s \in Sessions : peer[s] # "none" => s \notin backlog /\ accept.s # s

\* run() returns under a live connection only while that connection's request
\* is with the pool or a worker (whose reply is then never written); a
\* connection that waits for its client keeps the server up.
ReturnsOnlyUnderWork ==
  [][run = "running" /\ run' = "returned" =>
       \A s \in Sessions : ~stopped[s] => InPool(s) \/ OnWorker(s)]_lvars

\* A client that reached the listening socket gets its session, unless the
\* server is being stopped or dies.
EveryClientAccepted ==
  \A s \in Sessions :
    s \in backlog ~> peer[s] # "none" \/ acceptor = "closed" \/ run # "running"

\* A request taken off the socket is answered, or its session is stopped, or
\* run() is over: nothing is forgotten between the threads.
EveryRequestServedWhileRunning ==
  \A s \in Sessions : \A n \in 1..MaxRequests :
    nread[s] >= n ~> Len(replies[s]) >= n \/ stopped[s] \/ run # "running"

\* Once the signal is handled the server ends when its clients have left,
\* though nothing in signal_handler touches the sessions.
ShutdownEnds ==
  (signal = "handled" /\ \A s \in Sessions : peer[s] # "up") ~> run # "running"
=============================================================================
