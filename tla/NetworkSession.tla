--------------------------- MODULE NetworkSession ---------------------------
(***************************************************************************)
(* The client's end of the connection: Session (network/network_session)   *)
(* with the flag of BackEndFacade that lets one operation at a time go to  *)
(* it.  Everything runs in the Qt event loop, so a slot is one step; what  *)
(* is left to chance is how TCP cuts a response into pieces, when the      *)
(* connection breaks, and when the user presses a button.                  *)
(*                                                                         *)
(* A response on the wire is a frame of PrefixSize + m units, m its body's *)
(* length; a unit knows its place in its frame, so reading at the wrong    *)
(* place shows.  Bytes that are not a prefix parse as a failure or as some *)
(* length, bytes that are not a message as a failure, as a message without *)
(* a response, or as one with a response nobody sent.                      *)
(*                                                                         *)
(* Of the jobs only what matters to the connection is kept: LoadDataJob    *)
(* sends a second request from its callback, the others send one.          *)
(***************************************************************************)
EXTENDS Integers, Sequences

CONSTANTS PrefixSize,   \* PREFIX_SIZE, scaled down
          BodySizes,    \* lengths a response's message may have
          JunkLengths,  \* lengths that bytes which are no prefix may parse as
          Pieces,       \* bound: pieces TCP delivers one response in
          MaxJobs,      \* bound: operations the user starts
          MaxConnects   \* bound: connections attempted

ASSUME PrefixAssumption == PrefixSize \in Nat \ {0}
ASSUME SizesAssumption == BodySizes \subseteq (Nat \ {0}) /\ JunkLengths \subseteq Int
ASSUME BoundsAssumption == Pieces \in Nat \ {0} /\ MaxJobs \in Nat /\ MaxConnects \in Nat \ {0}

VARIABLES
  conn,         \* state of m_sock: "down", "connecting" or "up"
  connects,     \* connections attempted
  asked,        \* requests on their way to the server, or with it
  wire,         \* response units sent and not yet arrived
  cuts,         \* pieces the response under way has arrived in
  inbuf,        \* units m_sock has received and nobody has read
  bytesReaded,  \* m_bytesReaded
  messageSize,  \* m_messageSize
  callback,     \* whose callback m_callback is
  availible,    \* BackEndFacade::m_availible
  jobs,         \* operations started
  called,       \* ghost: the last callback called, and the job of the response it got
  lost          \* ghost: the count of a prefix read was dropped before its message

vars == <<conn, connects, asked, wire, cuts, inbuf, bytesReaded, messageSize, callback,
          availible, jobs, called, lost>>

ParseError == -1
Kinds == {"plain", "contacts", "chats", "empty"}
Jobs == 0..MaxJobs

\* A request waiting for its answer: the job it belongs to and what it asks.
Asked == [job : Jobs, what : {"plain", "contacts", "chats"}]
Unit == [job : Jobs, kind : Kinds, size : Nat, at : Nat \ {0}]
Frame(job, kind, m) ==
  [i \in 1..(PrefixSize + m) |-> [job |-> job, kind |-> kind, size |-> m, at |-> i]]

Init ==
  /\ conn = "connecting"
  /\ connects = 1
  /\ asked = <<>>
  /\ wire = <<>>
  /\ cuts = 0
  /\ inbuf = <<>>
  /\ bytesReaded = 0
  /\ messageSize = 0
  /\ callback = 0
  /\ availible = TRUE
  /\ jobs = 0
  /\ called = <<0, 0>>
  /\ lost = FALSE

-----------------------------------------------------------------------------
(* The server and the network. *)

\* The server answers a request with what it asks for, or with an empty
\* Response when the connection is not logged in.
ServerAnswers ==
  /\ asked # <<>>
  /\ \E m \in BodySizes, kind \in {Head(asked).what, "empty"} :
       wire' = wire \o Frame(Head(asked).job, kind, m)
  /\ asked' = Tail(asked)
  /\ cuts' = 0
  /\ UNCHANGED <<conn, connects, inbuf, bytesReaded, messageSize, callback, availible, jobs, called, lost>>

\* What goes when a connection ends; the framing state stays as it is.
StreamLost ==
  /\ asked' = <<>>
  /\ wire' = <<>>
  /\ cuts' = 0
  /\ inbuf' = <<>>

\* disconnected() is emitted: BackEndFacade's slot.
OnDisconnection_Locked ==
  /\ conn' = "down"
  /\ StreamLost
  /\ UNCHANGED availible

OnDisconnection ==
  /\ conn' = "down"
  /\ StreamLost
  /\ availible' = TRUE

\* The peer closes or the connection breaks: onError, then onDisconnection.
ConnectionEnds ==
  /\ conn = "up"
  /\ OnDisconnection
  /\ lost' = (lost \/ bytesReaded = PrefixSize)
  /\ UNCHANGED <<connects, bytesReaded, messageSize, callback, jobs, called>>

OnConnection ==
  /\ conn = "connecting"
  /\ conn' = "up"
  /\ UNCHANGED <<connects, asked, wire, cuts, inbuf, bytesReaded, messageSize, callback,
                 availible, jobs, called, lost>>

\* Host not found, connection refused: operationAborted.
OnError ==
  /\ conn = "connecting"
  /\ conn' = "down"
  /\ availible' = TRUE
  /\ UNCHANGED <<connects, asked, wire, cuts, inbuf, bytesReaded, messageSize, callback, jobs, called, lost>>

-----------------------------------------------------------------------------
(* The user. *)

\* Session::request for a job: sent, or aborted, which raises the flag again.
Request(job, what) ==
  IF conn = "up"
  THEN /\ callback' = job
       /\ asked' = Append(asked, [job |-> job, what |-> what])
       /\ availible' = FALSE
  ELSE availible' = TRUE /\ UNCHANGED <<callback, asked>>

\* An operation that does not look at the flag.
StartJob_Unguarded(what) ==
  /\ jobs < MaxJobs
  /\ jobs' = jobs + 1
  /\ Request(jobs', what)
  /\ UNCHANGED <<conn, connects, wire, cuts, inbuf, bytesReaded, messageSize, called, lost>>

\* An operation of BackEndFacade and the job behind it: nothing happens
\* without the flag.
StartJob(what) ==
  /\ availible
  /\ jobs < MaxJobs
  /\ jobs' = jobs + 1
  /\ Request(jobs', what)
  /\ UNCHANGED <<conn, connects, wire, cuts, inbuf, bytesReaded, messageSize, called, lost>>

\* updateConnectionSettings with an address that is valid: the socket is
\* aborted and connects anew.  (With an invalid one nothing changes.)
UpdateConnectionSettings ==
  /\ availible
  /\ connects < MaxConnects
  /\ connects' = connects + 1
  /\ conn' = "connecting"
  /\ StreamLost
  /\ availible' = TRUE
  /\ lost' = (lost \/ bytesReaded = PrefixSize)
  /\ UNCHANGED <<bytesReaded, messageSize, callback, jobs, called>>

-----------------------------------------------------------------------------
(* Reading. *)

Drop(seq, n) == SubSeq(seq, n + 1, Len(seq))

\* readPrefix: the lengths the first units may parse as.
PrefixLengths(units) ==
  IF \A i \in 1..PrefixSize : units[i].at = i
  THEN {units[1].size}
  ELSE JunkLengths \cup {ParseError}

\* readMessage: whether the first n units are the message of one frame.
IsMessage(units, n) ==
  n > 0 /\ \A i \in 1..n : units[i].at = PrefixSize + i /\ units[i].size = n

\* What m_sock holds once k more units have arrived, and what is left to come.
Received(k) == inbuf \o SubSeq(wire, 1, k)
Arrive(k) == wire' = Drop(wire, k) /\ cuts' = cuts + 1

\* The job's callback: LoadDataJob goes on from the contacts to the chats, any
\* other response ends its job.  request() finds the socket connected here.
ProcessResponse(r) ==
  /\ called' = <<callback, r.job>>
  /\ IF r.kind = "contacts"
     THEN Request(callback, "chats")
     ELSE availible' = TRUE /\ UNCHANGED <<asked, callback>>
  /\ UNCHANGED conn

\* m_sock->abort().
Abort ==
  /\ OnDisconnection
  /\ UNCHANGED <<callback, called>>

\* Nothing is delivered to a job.
Wait == UNCHANGED <<conn, asked, callback, availible, called>>

\* The responses that units which are no message may parse as: a callback of
\* LoadDataJob may take one for the contacts.
JunkResponses(unit) ==
  [job : {unit.job}, kind : IF unit.kind \in {"contacts", "chats"} THEN {"empty", "contacts"}
                                                                  ELSE {"empty"}]

\* What read() leaves: of a length that is zero or negative it takes nothing.
Unread(units, n) == IF n > 0 THEN Drop(units, n) ELSE units

\* load_mesg: n units are read.  What is no message fails to parse, or parses
\* as one without a response and is only warned about, or as some response;
\* no units at all parse as a message without a response, and after a negative
\* length ParseFromArray gets the -1 of read(), which may go either way.
LoadMesg(k, units, n) ==
  \/ /\ IsMessage(units, n)
     /\ Arrive(k)
     /\ inbuf' = Unread(units, n)
     /\ ProcessResponse(units[1])
  \/ /\ ~IsMessage(units, n)
     /\ Arrive(k)
     /\ inbuf' = Unread(units, n)
     /\ Wait
  \/ /\ ~IsMessage(units, n) /\ n > 0
     /\ Arrive(k)
     /\ inbuf' = Unread(units, n)
     /\ \E r \in JunkResponses(units[1]) : ProcessResponse(r)
  \/ /\ ~IsMessage(units, n) /\ n # 0
     /\ Abort

\* The same slip where prefix and message arrive together.
ReadPrefix_KeepCount(k) ==
  LET units == Received(k)
      rest == Drop(units, PrefixSize)
  IN
  /\ bytesReaded < PrefixSize /\ Len(units) >= PrefixSize
  /\ \E m \in PrefixLengths(units) :
       /\ messageSize' = m
       /\ \/ /\ m = ParseError
             /\ bytesReaded' = 0
             /\ Abort
          \/ /\ m # ParseError /\ m = Len(rest)
             /\ bytesReaded' = PrefixSize + m
             /\ LoadMesg(k, rest, m)
          \/ /\ m # ParseError /\ m # Len(rest)
             /\ bytesReaded' = PrefixSize
             /\ Arrive(k)
             /\ inbuf' = rest
             /\ Wait
  /\ UNCHANGED lost

\* The prefix is there and has not been read.
ReadPrefix(k) ==
  LET units == Received(k)
      rest == Drop(units, PrefixSize)
  IN
  /\ bytesReaded < PrefixSize /\ Len(units) >= PrefixSize
  /\ \E m \in PrefixLengths(units) :
       /\ messageSize' = m
       /\ \/ /\ m = ParseError
             /\ bytesReaded' = 0
             /\ Abort
          \/ /\ m # ParseError /\ m = Len(rest)
             /\ bytesReaded' = 0
             /\ LoadMesg(k, rest, m)
          \/ /\ m # ParseError /\ m # Len(rest)
             /\ bytesReaded' = PrefixSize
             /\ Arrive(k)
             /\ inbuf' = rest
             /\ Wait
  /\ UNCHANGED lost

\* Without the "m_bytesReaded = 0" that ends a message.
ReadMessage_KeepCount(k) ==
  LET units == Received(k) IN
  /\ bytesReaded = PrefixSize /\ Len(units) >= messageSize
  /\ bytesReaded' = bytesReaded + messageSize
  /\ LoadMesg(k, units, messageSize)
  /\ UNCHANGED <<messageSize, lost>>

\* The prefix was read before, and now the message is there.
ReadMessage(k) ==
  LET units == Received(k) IN
  /\ bytesReaded = PrefixSize /\ Len(units) >= messageSize
  /\ bytesReaded' = 0
  /\ LoadMesg(k, units, messageSize)
  /\ UNCHANGED <<messageSize, lost>>

\* Neither: the units stay in m_sock, and the count starts again.
NotEnough(k) ==
  LET units == Received(k) IN
  /\ ~(bytesReaded < PrefixSize /\ Len(units) >= PrefixSize)
  /\ ~(bytesReaded = PrefixSize /\ Len(units) >= messageSize)
  /\ bytesReaded' = 0
  /\ Arrive(k)
  /\ inbuf' = units
  /\ lost' = (lost \/ bytesReaded = PrefixSize)
  /\ Wait
  /\ UNCHANGED messageSize

\* k units arrive and readyRead is emitted.  TCP cuts a response as it likes.
OnReadyRead(k) ==
  /\ conn = "up"
  /\ cuts = Pieces - 1 => k = Len(wire)
  /\ ReadPrefix(k) \/ ReadMessage(k) \/ NotEnough(k)
  /\ UNCHANGED <<connects, jobs>>

-----------------------------------------------------------------------------
Network ==
  \/ ServerAnswers
  \/ \E k \in 1..Len(wire) : OnReadyRead(k)
  \/ OnConnection

Next ==
  \/ Network
  \/ ConnectionEnds
  \/ OnError
  \/ \E what \in {"plain", "contacts"} : StartJob(what)
  \/ UpdateConnectionSettings

Spec == Init /\ [][Next]_vars

\* The server answers what it has read and TCP delivers what was sent, or the
\* connection ends; nothing is assumed of the user.
FairSpec == Spec /\ WF_vars(Network)

-----------------------------------------------------------------------------
\* Type invariant of Session's members and the stream.
TypeOK ==
  /\ conn \in {"down", "connecting", "up"}
  /\ connects \in 1..MaxConnects
  /\ asked \in Seq(Asked)
  /\ wire \in Seq(Unit)
  /\ cuts \in 0..Pieces
  /\ inbuf \in Seq(Unit)
  /\ bytesReaded \in {0, PrefixSize}
  /\ messageSize \in Int
  /\ callback \in Jobs
  /\ availible \in BOOLEAN
  /\ jobs \in Jobs
  /\ called \in Jobs \X Jobs
  /\ lost \in BOOLEAN

\* Session's count of what it has read agrees with the stream: either it is at
\* the start of a response, or it has read exactly the prefix of the response
\* whose message comes next and knows that message's length.
\* (onReadyRead: "prefix was already read", "else wait new data".)
FramingInSync ==
  conn = "up" =>
    LET ahead == inbuf \o wire IN
    IF ahead = <<>> THEN bytesReaded = 0
    ELSE \/ bytesReaded = 0 /\ ahead[1].at = 1
         \/ /\ bytesReaded = PrefixSize
            /\ ahead[1].at = PrefixSize + 1
            /\ ahead[1].size = messageSize

\* Session leaves step with the stream in two ways only: onReadyRead resets
\* m_bytesReaded while the message of a prefix is still coming in, or the
\* connection ends between a prefix and its message.  Until then, however TCP
\* cuts the responses, it is in step.
InStepUntilLost == ~lost => FramingInSync

\* Until then the flag is down only while a response is on its way, so that it
\* will come up again: a locked client can do nothing but be killed.
LockedOnlyWhileWaiting ==
  ~availible /\ ~lost => conn = "up" /\ (asked # <<>> \/ wire # <<>>)

\* docs/client.md: while a request waits for its response no other is sent, so
\* the single m_callback is the one the next response is for.
ResponseMeetsItsCallback ==
  ~lost =>
    /\ called[1] = called[2]
    /\ availible => asked = <<>> /\ wire = <<>>
    /\ Len(asked) <= 1
    /\ \A i \in 1..Len(asked) : asked[i].job = callback
    /\ \A i \in 1..Len(wire) : wire[i].job = callback

\* Every operation ends: the flag comes up again, by the response or because
\* the connection is gone, unless the client has lost step with the stream.
EveryJobEnds == ~availible ~> availible \/ lost
=============================================================================
