# Elegram in TLA+

Elegram is a small messenger: a C++ server (Boost.Asio, PostgreSQL) and a Qt
client that speak protobuf messages with a length prefix over TCP. This directory
holds TLA+ modules of its core, the configurations TLC checks them with, and
proofs for TLAPS.

    tlc -workers 2 -config MCServerSession.cfg MCServerSession
    tlapm ServerSession_proofs.tla

`PROJECT.json` lists the runs, maps every definition to the lines it models, and
names the hazards the properties are aimed at.

## The system

| component | state | operations | talks to |
|---|---|---|---|
| `ElegramServer` (`server/server.cpp`) | acceptor, signal set, thread pool | `run`, `handle_accept`, `signal_handler` | creates and starts sessions |
| `ClientSession` (`server/session.cpp`) | `stopped_`, `state_` (the user), `read_buffer_`, socket | `start`, `stop`, `write`, `on_read_prefix`, `on_read_message`, `on_write` | posts jobs to the pool; handlers run in `io_service::run()` |
| server jobs (`jobs/jobs.cpp`) | the request, a pointer to the session | `ParseCommandJob` and eight request jobs | run on a pool thread; call the storage and `session->write` or `session->stop` |
| `PostgresStorageConnection` | one connection per session; the tables of `gen_schema.sql` | `registration`, `login`, `send_message`, `add_contact`, `create_chat`, three queries | called by jobs, several at once on different connections |
| client `Session` (`network/network_session.cpp`) | `m_bytesReaded`, `m_messageSize`, `m_callback`, socket | `request`, `connect`, the socket's slots | hands a response to `m_callback` |
| `BackEndFacade`, `Backend` | `m_availible`, profile, models | one method per button, one slot per signal | start jobs; release the flag |
| client jobs (`client/src/jobs`) | what to ask | execute, callback | `Session::request`, signals of `Backend` |
| lists and models (`client/src/model`) | messages per chat, current chat, chats, contacts | `setItems`, `setCurrentChatId` | filled by jobs, shown by windows |
| QML windows (`client/qml`) | the stack of windows, `chatsState.current_chat` | a click, a reaction, `Component.onCompleted` | call the facade, react to its signals |
| message factory, generated protobuf code | none; message objects and bytes | build, size, serialise, parse | both ends of a connection |

One request travels: client button → `m_availible` lowered → `Session::request`
→ socket → `on_read_prefix` → `on_read_message` → pool → `ParseCommandJob` → pool
→ request job → storage → `write` → socket → `on_write` → `onReadyRead` →
`m_callback` → `m_availible` raised.

What is hard here:

* **Threads without locks.** The network thread and two workers share
  `read_buffer_`, `stopped_` and `state_`. Only the order in which one
  asynchronous step starts the next keeps them apart. A session is correct if
  nobody is ever on it twice, if nobody ever drops it while it is open, and if
  `stop()` leaves nothing behind.
* **Order and identity.** Clients may pipeline requests and log in repeatedly;
  replies must stay in order and be computed for the user the client was told.
* **Transactions side by side.** Operations are several statements in READ
  COMMITTED. Contacts must be mutual, chats complete, answers true of what is
  stored, and nobody may wait for good.
* **Byte streams and reconnects.** The client counts bytes across callbacks and
  connections, and has one callback and one flag for everything.
* **Windows over shared state.** Windows open, close and react to signals whether the
  facade is free or not, and share the lists, the message cache and two notions of the
  current chat with whoever logs in next. They are correct if what is shown belongs to
  the user and the chat it is shown for.
* **Starting and stopping.** One accept is outstanding at a time, a signal may come
  between its completion and its handler, and `run()` ends when the sockets are quiet,
  not when the pool is. Clients must get their sessions, and the server must end.
* **Sizes and defaults.** Messages are written into buffers cut by sizes computed
  beforehand, and a default value is not written at all. What is taken out at the other
  end must be what was put in.

## Modules

| module | models | uses |
|---|---|---|
| `RequestReply` | abstract: what a connection promises a client | |
| `ServerSession` | sessions, jobs, network thread, worker pool | `INSTANCE RequestReply` |
| `ServerSession_proofs` | the theorems about `ServerSession` | extends it |
| `ServerLifecycle` | acceptor, signal handler, `run()`, around the sessions | extends `ServerSession` |
| `Server_refinement` | answers in order, `ServerSession` implements `RequestReply`, and the theorems about `ServerLifecycle` | extends it and `ServerSession_proofs` |
| `Storage` | every storage operation, statement by statement | |
| `Storage_proofs` | the theorems about `Storage` | extends it |
| `NetworkSession` | the client's framing, its callback and its flag | |
| `NetworkSession_proofs` | the theorems about `NetworkSession` | extends it |
| `ClientApp` | the client above its connection: windows, facade, jobs, lists | |
| `ClientApp_proofs` | the theorems about `ClientApp` | extends it |
| `Messages` | the generated code: every message, its bytes, its parser | |
| `Wire` | one connection byte by byte: factory, framing, dispatch, answers | extends `Messages` |
| `Recursion`, `Folding` | what a recursive function and a fold compute, for any equation and any operator | instantiated by `Wire_proofs` |
| `Wire_proofs` | the theorems about `Messages` and `Wire` | extends `Wire` |

Each specification has an `MC` module with the sets TLC uses (`RequestReply` is checked through
`ServerSession`). A few operators are not part of a specification but
plausible mistakes in the definition that follows them (`OnWrite_NoStop` before
`OnWrite`); `PROJECT.json` lists each with the property that catches it.

### RequestReply

A connection is a list of requests and a list of replies. `Serve` answers the first
request without an answer, with one of `Answers` for the user that connection acts for;
`HangUp` is allowed only on a client that left or on a frame that is no request.
`ServerSession` is mapped to it by `closed <- stopped`, and its `user` is the one the
replies written so far tell the client, not `state_`: a login takes effect when its
answer is on the wire (`Abstract` in `ServerSession`).

### ServerSession

`stopped`, `state`, `buf` are the members of `ClientSession`; `ops` the socket
operations outstanding on it, `net` the handler the network thread is in, `pool`
the queue of `job_pool_`, `wpc`/`wjob`/`wres` where each worker is, its job and the
reply it has composed. `peer`, `sent`, `nread`, `replies` describe the connection.

A step of a thread on a session is split into picking the work up
(`CompleteReadPrefix`, `TakeJob`, ...) and acting (`OnReadPrefix`,
`ParseCommandJob`, ...), because in between anything else may happen; a request
job is split again where its storage call returns (`Compose`) and where it calls
`write` (`DoAsyncWrite`). After `write` or `post` the worker is still inside the job
(`leaving`) while the operation it started may already complete. One action stands
for one handler or job with everything it calls.

Abstractions: a frame is its kind and, for a login, the user it names; a bad frame
is one of `bad_prefix`, `garbage`, `response`, `unsupported`, the four ways the
code tells them apart. `buf` tells a prefix, a body and a reply apart, so that a
handler which finds the wrong thing in `read_buffer_` behaves as the parser would.
A reply carries the user it was computed for as a ghost field. The storage answers
arbitrarily. `async_read` completes without an error only with the whole buffer
full, so the handlers' comparisons of sizes can only fail together with an error
and are not separate cases. Here `handle_accept` is its path without an error; the
others are in `ServerLifecycle`.

### ServerLifecycle

Adds `backlog` (connected, not yet accepted), `accept` (the outstanding
`async_accept`: pending, done with a client, canceled, failed), `acceptor`, `signal` and
`run` to the variables of `ServerSession`. `AcceptClient`, `AcceptCanceled` and
`AcceptError` are the three ways through `handle_accept`; `AcceptError` is the exception
that leaves `run()` and ends the process. `SignalHandler` closes the acceptor, which
cancels a pending accept and drops the backlog but does not recall an accept that has
completed; its handler then accepts on a closed acceptor and fails. `RunReturns` is
enabled when no accept, signal wait or socket operation is left, whatever is in the
pool. Sessions take the steps of `ServerSession`: handlers while `run()` runs, jobs until
the process ends.
`ReadPrefixThrows` is the one way in which a session ends the server: a length that
`read_buffer_` cannot have makes `resize` throw out of the handler and, like
`AcceptError`, out of `run()`.

### Storage

`db` is the set of committed rows, `own[w]` the rows of worker `w`'s open
transaction, `pc[w]` its next statement; `acked` and `seen` are ghosts that remember
which rows were answered with success. PostgreSQL is external and modelled as the
code relies on it: a statement sees what is committed and its own rows (READ
COMMITTED, the default of `pqxx::work`); an insert into a unique index waits for an
uncommitted equal key; of two transactions that wait for each other one fails; a
connection may break at any statement, and at `COMMIT` either before or after the
rows are stored (`ConnectionLost`). Destroying a `pqxx::work` rolls back (`Fail`).
Each statement is one action, in the order of the source. `Requested(w)` is what worker
`w` was asked to store, and `AnswersAreTrue` compares it with `db` when the answer is given.

Abstractions: a user stands for its id, name and email; a title is the name it
mentions; tables are sets, so the two equal rows of a chat with oneself are one row;
the outcome of the password comparison is arbitrary.

### NetworkSession

`inbuf` is what the socket has received and nobody has read, `wire` what is still
to arrive; units know their place in their frame, so reading at the wrong place
shows. `OnReadyRead(k)` is the slot with `k` new units, with its branches as
`ReadPrefix`, `ReadMessage`, `NotEnough`. Units that are no prefix parse as a failure
or as some length (`JunkLengths`), which a `fixed64` cast to `qint64` may make negative;
of such a length, as of zero, `read` takes nothing (`Unread`). Units that are no message
parse as a failure or as a message without a response.
`availible` is the flag of `BackEndFacade`; `called`
remembers the last callback called and whose response it got. Of the jobs only the
number of requests matters: `LoadDataJob` ("contacts") sends a second request from
the callback of the first.

### ClientApp

Everything in the client runs in the GUI thread, so a click, a response or a
disconnection is one action with all the signals, reactions and `onCompleted` handlers
it sets off. `stack` is the `StackView`; `availible`, `profile`, `lists`, `cache`,
`items`, `currentChatId` and `current_chat` are the members of the same names. `conn`
and `wire` are the connection, with at most one request or response under way, which is
what `NetworkSession` is about; `serverUser` is the user the server's session has.
`Exec` is a facade operation that was let through, down to `Session::request`.
`owed` is a ghost: the version a list must have reached because a change was accepted
while the window that reloads was there.

Abstractions: data is whose it is and the version of the server's data when it was asked for;
an accepted change makes a new version, bounded by `MaxChanges`. Empty input fields and
invalid addresses change nothing and are left out. A server that fails a query answers
with an empty list, which is a list of that user and that version here: `ChangesAreReloaded`
says that a list was asked for again after a change, not that the server's query succeeded.

### Messages and Wire

A message object is a record, a `oneof` a record of its case and value, encoded data a
sequence of bytes. For a message type `T`, `T_New`, `T_set`, `T_Serialize`,
`T_ByteSize` and `T_MergePartial` are the methods of the generated class, written in the
terms the generated code uses (tags, `WireFormatLite`, cached sizes); requests are the
client's copy when written and the server's when read, responses the reverse. The
library's coded streams and `WireFormatLite` are external. Reading takes bytes from the
front of what is left of the input: `ReadVarint`, `ReadValue`, `ReadField` give the value
and the rest, `Fields` all fields up to the end, and `Merged` is the parse, one step of
`T_MergePartial` for each of them.

`Wire` sends every request of `MessageFactory` and every response a job can build from
one end to the other: `Frame` is the buffer that `Session::request` and
`do_async_write` fill, with `Stale` where nothing was written since the resize, and
`ParsePrefix`, `ParseMessage` what both ends do with what they read. Bytes arrive whole
and in order here. `SizesAssumption` says that every message, with its prefix, has a size
that an `int` can hold: `ByteSize` returns an `int`, the cached sizes are `int`s, and
both programs resize their buffer to a sum of `int`s, so a greater message cannot be
sent at all.

## Runs

All configurations switch deadlock checking off: a client, or a user, may simply do
nothing any more, and the bounds on requests, calls and connections end every
behaviour.

| run | instance | shows |
|---|---|---|
| `session_requests` | 1 session, 2 workers, 2 users, all kinds, 3 frames | replies in order and for the right user, no data race, no abandoned session, nothing pending after `stop()`, `stop()` is final; the session implements `RequestReply` |
| `failed_login` | 1 session | violated: a failed login is not answered with REJECTED |
| `server_lifecycle` | 2 clients, 2 workers, 1 frame each, fair | there is always an accept while the acceptor is open and none once it is closed; `run()` returns under a live connection only while its job is in the pool; no two threads are on one session although every accept starts another; clients are accepted, requests served, a signalled server ends |
| `storage_contacts` | 2 workers, 3 users (one unregistered), 3 calls, fair | mutual contacts, answers true of the tables (all after true, all or nothing after a failure), accepted rows in later lists, refusals have a reason, every call returns, crosswise `add_contact` included |
| `storage_chats` | 2 workers, 3 users, 3 calls | complete chats, only members write, answers true of the tables (nothing of a refused chat or message), later lists show what was accepted |
| `storage_chat_race` | 2 workers, 2 calls | violated: two chats for one pair |
| `client_pieces` | up to 4 pieces, 3 operations, 3 connections, fair | until step is lost: the client is in step, the flag is down only while an answer is due, responses reach their own callbacks, every operation ends |
| `client_three_pieces` | three pieces, 1 connection | violated: the count of bytes read is forgotten |
| `client_reconnect` | two pieces, 2 connections | violated: the count outlives its connection |
| `client_windows` | 2 users, 2 chats (one shared), 2 changes | windows, profile and server agree on the user; lists are the user's own by the time the client is free; messages are filed under their chat; accepted changes are reloaded; the facade is busy exactly while it waits |
| `client_window_chat` | 2 users, 2 chats, 1 change | violated: a window opened while the facade is busy shows another chat |
| `messages` | ids 0, 1, 300; strings of 0, 2 and 130 bytes; up to 2 rows | nothing stale is sent, requests and responses arrive field by field, announced fields are skipped |

Each passing run also checks its module's type invariant, except that `storage_contacts`
leaves it to `storage_chats`.

Bounds. `WORKER_THREADS` is 2 in the source, so two workers are the real number. Three
frames are enough for a login, another login and a request that tells which of them
counts; two sessions, in `server_lifecycle`, for two threads to meet on the wrong
session and for one to be accepted while the other is served. Three calls of the storage
let two workers add each other and one of them read or try again, or a chat be created
while another call reads or writes. `PrefixSize` is scaled from 9 bytes to 2 units, so
that a cut can fall before, inside and after a prefix, with messages shorter (1) and
longer (3) than it; three connections let the second be lost like the first. For
`ClientApp`, a chat of both users and a chat of one tell whose list is shown, and two
changes let a reload be older than the change it is for; the stack of windows is bounded
by itself. In `Wire`, 0 is the value that is not written, 300 takes two bytes, 130
makes lengths take two bytes at every level, and two rows show whether one leaks into
the next.

Fairness. On the server, weak fairness of accepting, of the network thread as a whole
and of each worker: `io_service::run()` and the pool take ready work as long as there
is any. It is enough for one session not to be starved because clients send finitely
many frames here; with endless traffic one would rely on Asio's queues being first in,
first out. `ShutdownEnds` assumes nothing about clients: it speaks of the time when they
have left. In the storage, weak fairness of every worker's next statement and of the
deadlock detector. On the client, weak fairness of the network: the server answers and
TCP delivers, or the connection ends. Nothing is assumed of clients, users and signals.

### What disagrees

* `create_chat` looks for a common chat and inserts one in READ COMMITTED, with no
  constraint behind it. Two users who create the chat with each other at the same
  time get two (`storage_chat_race`).
* `onReadyRead` resets `m_bytesReaded` in its last branch also when a prefix has been
  read and its message is not complete yet (`client_three_pieces`).
* `m_bytesReaded` and `m_messageSize` are not reset when a connection ends
  (`client_reconnect`).
* `test_send_packets.py` expects a status response REJECTED for a wrong password; the
  server sends a `LoginResponse` without a profile (`failed_login`).
* `MessagesWindow` says it will load the messages of its chat and does so only if the
  facade is free; opened during another operation it shows the previous chat's messages
  (`client_window_chat`).

## Proofs

The theorems hold for every value of the constants that the `ASSUME`s of the modules
allow: any sets of sessions, workers, users, chats and kinds of frames, any prefix and
message lengths, any identifiers and strings, any bound on frames, operations, calls,
connections, changes and rows. The assumptions say no more than that bounds are numbers,
that the empty prefix and the empty message do not occur, that `NoSession`, `NoUser` and
the like are nothing real, and that the size of a message is an `int`. Every inductive
invariant was checked with TLC on the instance of the
component's run before it was proved.

| module | theorem | states |
|---|---|---|
| `ServerSession_proofs` | `Invariant`, `TypeCorrect` | `[]IInv`, `[]TypeOK` |
| | `NoDataRace` | `[]ExclusiveAccess` |
| | `NoLeak` | `[]NeverAbandoned` |
| | `QuietAfterStop` | `[]StoppedIsQuiet` |
| | `StopTheorem` | `StopIsFinal` |
| `Server_refinement` | `OrderInvariant` | `[](IInv /\ Orders)` |
| | `AnswersInOrder` | `[]RepliesAnswerInOrder` |
| | `Refinement` | `ImplementsRequestReply` |
| | `ServerSessionsSafe` | `[](ExclusiveAccess /\ NeverAbandoned /\ StoppedIsQuiet)`, for `LSpec` |
| | `ServerRefinesRequestReply`, `ServerAnswersInOrder` | `ImplementsRequestReply`, `[]RepliesAnswerInOrder`, for `LSpec` |
| | `LInvariant`, `LTypeCorrect` | `[]LInv`, `[]LTypeOK` |
| | `AcceptingTheorem` | `[]AlwaysAccepting` |
| | `ReturnTheorem` | `ReturnsOnlyUnderWork` |
| `Storage_proofs` | `Invariant`, `TypeCorrect` | `[]IInv`, `[]TypeOK` |
| | `MutualContacts`, `CompleteChats` | `[]ContactsAreMutual`, `[]ChatsAreComplete` |
| | `MembersWrite` | `[]SendersAreMembers` |
| | `TrueAnswers`, `ReadYourWrites` | `[]AnswersAreTrue`, `[]ReadsSeeAccepted` |
| | `RefusalHasReason` | `AddContactRefusal` |
| `NetworkSession_proofs` | `Invariant`, `TypeCorrect` | `[]IInv`, `[]TypeOK` |
| | `InStep` | `[]InStepUntilLost` |
| | `LockedWhileWaiting` | `[]LockedOnlyWhileWaiting` |
| | `CallbackMatches` | `[]ResponseMeetsItsCallback` |
| `ClientApp_proofs` | `Invariant`, `TypeCorrect` | `[]IInv`, `[]TypeOK` |
| | `LoginMatches`, `OneOperation` | `[]WindowsMatchLogin`, `[]BusyWhileWaiting` |
| | `OwnData`, `FiledMessages` | `[]OwnDataWhenFree`, `[]CacheIsFiled` |
| | `ReloadedChanges` | `[]ChangesAreReloaded` |
| `Wire_proofs` | `VarintRoundTrip`, `Fixed64RoundTrip` | numbers are read back from their bytes |
| | `WrappedMessage_Size` | `ByteSize` is the number of bytes serialised, at every level |
| | `WrappedMessage_RoundTrip` | parsing what was serialised gives the message back |
| | `PhasesFollow`, `TypeCorrect` | `[]Inv`, `[]TypeOK` |
| | `OnlyTheMessageIsSent` | `[]NothingStaleIsSent` |
| | `JobsGetTheRequest`, `CallbacksGetTheResponse` | `[]RequestArrives`, `[]ResponseArrives` |
| | `PlannedFieldsAreNoObstacle` | `[]PlannedFieldsAreSkipped` |

**The server's pipeline.** A running session is like a token. Exactly one of the
socket, the pool's queue, the network thread and a worker holds it, and a stopped
session is held by none (`Token`). Every handler and job passes the token on, keeps it,
or drops it together with `stop()`. None of the three safety properties is inductive by
itself: that a step leaves one holder needs that there was exactly one before, that a
session is not stopped while it is held, and the converse. Two more conjuncts are
needed. `WorkerInv`: a worker has a job exactly while it is on one, so that taking and
finishing jobs moves the token. `PeerInv`: a session that was not accepted is stopped,
so that `handle_accept` starts a session nobody holds. The lemmas `OpStart`, `OpEnd`,
`JobQueued`, `JobTaken`, `WorkerTakes`, `WorkerDone` say once what each kind of step does
to a holder, and `TokenStep` combines them, one step per action. `StopStep` then shows
that a stopped session is out of every action's reach.

**Order and refinement.** Since one party holds a session, it is enough to say what that
party knows of the request under way: nothing is asked (the socket waits for a prefix,
or the handler has just got one), a request is asked and unanswered (its body is being
read, its job is queued or with a worker), or it is answered and the reply is not yet
written. `Orders` says this for every holder, and that the replies written are the
answers to the requests read before, each for the user of the logins answered by then.
The refinement maps the step that writes a reply to `Serve`, a stop to `HangUp`,
a step of the client to the same step and everything in between to nothing, and needs from `Orders` that the reply written is an answer to the first
request without one. The user of a connection is that of the last `profile` among its
replies, a `CHOOSE` of a greatest index; `Greatest`, `LastLogin`, `UserOfPrefix` and
`UserOfNext` are what the proof knows of it.

**The whole server.** `ServerLifecycle` is built from the steps of `ServerSession`
(`SessionsInServer`), so all of the above, the refinement of `RequestReply` included,
carries over to the whole server. For the acceptor
`AlwaysAccepting` needs `AcceptInv`: an accept is cancelled only when the acceptor
closes, and an accepted client has left the backlog. `ReturnTheorem` uses the token: a
live session that is neither at its socket nor with the network thread is in the pool
or with a worker.

**The storage.** What a transaction has inserted is a function of the statement it has
come to (`Inserted`), so a commit is known from its worker's place to add a whole pair
of contacts or a whole chat. That the rows of two chats never mix needs the serial:
`FreshChat`, `ChatsApart` and `IdsGiven` say that the id of a chat under construction
was given out, to nobody else, and is in no committed row. `AnswerInv` is for the
answers: before its commit nothing of the chat or message that a worker was asked to
store is in the tables (`NothingStored`), because it bears a mark nobody else's rows
bear, the serial or the text (`Marked`, `MarksApart`, `MarksGiven`). A contact has no
such mark, and another connection may store it meanwhile, but then it stores the pair
(`ContactsAreMutual`), so that a failed `add_contact` finds both rows or none.
`ReadInv` carries what a read
must show from its start to its end. `OneChatPerPair` is not among the theorems: the
code does not keep it (`storage_chat_race`).

**The client's connection.** Until Session loses step, the client is idle, or one
request is with the server, or what lies ahead of the reader is the rest of one frame
from exactly the place `m_bytesReaded` says (`StreamInv`); then a prefix read is the
prefix of that frame, a message read is its message, and `NotEnough` is either before
the prefix or the step in which step is lost. `Arrival` says once that what was received
and what is still to come make up what was ahead, however it is cut. The types hold also
out of step, where any length may be read; they need that a piece is left while units
are on the wire (`CutsInv`).
`FramingInSync` itself fails (`client_three_pieces`, `client_reconnect`).

**The client's windows.** The properties are about the moment the facade is free. While
it is busy, `WireInv` says which request or response can be under way for which job;
`DataInv` that the lists are the user's, or `LoadDataJob` is on its way to the one that
is not; `OwedInv` that a list that is behind is being read again for a user the server
knows; `StackInv` that `LoginWindow` is only at the bottom and nothing opens above
`MessagesWindow`.

**The bytes.** What `Wire` says is a round trip: what is parsed is what was serialised, for
all strings, identifiers and lists. This is an induction over data, done in three parts.

* `Recursion` shows, for any equation whose right-hand side looks at smaller arguments
  only, that some function satisfies it, so that a recursive function of TLA+ may be
  unfolded. `Folding` uses it to say what a fold computes: nothing on the empty
  sequence, one step more for an element at the front (`FoldFront`), and in general the
  end of any chain of intermediate results (`FoldTrace`). The provers cannot instantiate
  a theorem with an operator as its parameter, but an `INSTANCE` can: both modules take
  the equation or the operator as a `CONSTANT`, and `Wire_proofs` instantiates them for
  `Varint`, `ReadVarint`, `Fields`, for the parser of each message (`T_P`) and for each
  list. Induction over the numbers is a statement about sets there, a hypothesis of the
  two modules that `Wire_proofs` proves from the well-foundedness of `<` (`Induction`).
* The codec is then proved from the inside out. A field that was written is read as its
  tag and value whatever follows (`IsWritten`), and a parser that meets it does one step
  and goes on with the rest (`Reads`). For a message of strings and numbers, reading its
  bytes with any bytes `t` behind them is going on with `t` on the complete message
  (`T_Takes`): a default value, which is not written, is already there in the new
  object. From this follow the messages that hold messages, the lists (one row more for
  each field, by `FoldTrace`) and the wrapped message. In step with it, `T_Size` shows
  that the bytes are as many as `ByteSize` announced, which the length in front of every
  inner message relies on. `UnknownFields` is `T_Takes` with two unknown fields as `t`.
* A frame is a prefix of nine bytes, because the size is not zero and is a fixed64, and
  the message (`MessageTravels`); both fill their part of the buffer, so nothing stale is
  left in it. `Inv` names the six phases of a request (idle; request sent, announced,
  received; response sent, announced) and says of each what the two streams hold and
  which objects are set. It is needed because none of the five invariants says what is
  *in* a stream whose prefix was read, and parsing depends on that. `CallbackIsGivenTheResponse`
  is about the copy of a login response: `MergeFrom` leaves out defaults only.

Left to TLC, because they are out of the prover's reach: the liveness properties
`EveryRequestServedWhileRunning`, `EveryClientAccepted`, `ShutdownEnds`,
`EveryCallReturns` and `EveryJobEnds`, which need fairness and `ENABLED`.

## Not modelled

* The rows that the list models announce to their views, and the index of contacts by
  id: what a view does inside those signals is Qt's. Two hazards say what could be
  wrong there.
* Of the generated code: descriptors, reflection, arenas, `Swap`, `CopyFrom` and the
  `MergeFrom` methods that nothing calls. Groups do not occur in the protocol.
  Truncated or otherwise unreadable input is one `Failure`, which is all that the
  callers see of it.
* `hashing.cpp` (a pure call of the library), the lazy connection wrapper (a connection
  that fails late is a first statement that fails), `main.cpp` and the command line on
  both sides, `MessageParser` (never called), QML layout, the test scripts.

## Plan

Done: `ServerSession`, `ServerLifecycle`, `RequestReply`, `Storage`, `NetworkSession`,
`ClientApp`, `Messages` and `Wire`, and the proofs above. Every invariant and every
action property of the passing runs is a theorem, and so is the refinement. What
could come next:

* the list models with the signals they emit while they reset, for the two hazards at
  their rows that no property covers yet;
* one specification of client and server together, with `NetworkSession` at one end and
  `ServerSession` at the other.
