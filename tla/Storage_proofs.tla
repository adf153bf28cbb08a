--------------------------- MODULE Storage_proofs ---------------------------
(***************************************************************************)
(* Proofs about Storage, for any number of users, workers and calls.  The  *)
(* rows a transaction has inserted are a function of where it stands, so   *)
(* what a commit adds to the tables is known from the worker's place; the  *)
(* serial of Chat.id keeps the chats of different transactions apart.      *)
(***************************************************************************)
EXTENDS Storage, TLAPS

\* The statements each operation consists of, and who takes part in it.
PlaceInv(w) ==
  LET r == req[w] IN
  /\ pc[w] \in {"lookup", "add1", "add2"} => r.op = "add_contact"
  /\ pc[w] \in {"check", "create", "info", "connect1", "connect2"} => r.op = "create_chat"
  /\ pc[w] = "can_write" => r.op = "send_message"
  /\ pc[w] = "insert" => r.op \in {"registration", "send_message"}
  /\ pc[w] = "select" => r.op \in {"login", "get_chats", "get_contacts", "get_messages"}
  /\ pc[w] = "commit" => r.op \in AllOps \ {"login"}
  /\ pc[w] # "idle" => r \in Request /\ r.user \in Users
  /\ pc[w] # "idle" /\ r.op \in {"add_contact", "create_chat"} => r.whom \in Users

Committing(w, op) == pc[w] = "commit" /\ req[w].op = op

\* The rows the transaction of w has inserted when it is about to execute the
\* statement at pc[w].
Inserted(w) ==
  LET u == req[w].user
      v == req[w].whom
      c == chat[w]
  IN CASE pc[w] = "add2" -> {Contact(u, v)}
       [] pc[w] \in {"info", "connect1"} -> {Chat(c)}
       [] pc[w] = "connect2" -> {Chat(c), Member(c, u, v)}
       [] Committing(w, "registration") -> {Client(u)}
       [] Committing(w, "send_message") -> {Message(req[w].chat, u, req[w].n)}
       [] Committing(w, "add_contact") -> {Contact(u, v), Contact(v, u)}
       [] Committing(w, "create_chat") -> {Chat(c), Member(c, u, v), Member(c, v, u)}
       [] OTHER -> {}

\* The rows are those, nobody is made a contact of oneself, and a
\* message goes to a chat of its sender.
OwnInv(w) ==
  /\ own[w] = Inserted(w)
  /\ Committing(w, "add_contact") => req[w].user # req[w].whom
  /\ pc[w] \in {"insert", "commit"} /\ req[w].op = "send_message" =>
       req[w].chat \in ChatsOf(db, req[w].user)

\* A chat under construction has an id that was given out and that no
\* committed row mentions.
InChat(r) == r.table \in {"chat", "member", "message"}
Creating(w) == pc[w] \in {"info", "connect1", "connect2"} \/ Committing(w, "create_chat")
FreshChat(w) == Creating(w) => chat[w] < nextChat /\ \A r \in db : InChat(r) => r.chat # chat[w]

\* The rows a query must show.
Relevant(q, r) ==
  \/ q.op = "get_chats" /\ r.table = "member" /\ r.who = q.user
  \/ q.op = "get_contacts" /\ r.table = "contact" /\ r.who = q.user
  \/ q.op = "get_messages" /\ r.table = "message" /\ r.chat = q.chat

ReadInv(w) ==
  /\ seen[w] \subseteq acked
  /\ pc[w] = "commit" \/ (pc[w] = "done" /\ outcome[w] = "ok") =>
       \A r \in seen[w] : Relevant(req[w], r) => r \in got[w]

WorkerInv(w) == PlaceInv(w) /\ OwnInv(w) /\ FreshChat(w) /\ ReadInv(w)

\* Two transactions never construct the same chat.
ChatsApart == \A v, w \in Workers : Creating(v) /\ Creating(w) /\ chat[v] = chat[w] => v = w

\* Ids of committed chats have been given out.
IdsGiven == \A r \in db : InChat(r) => r.chat < nextChat

\* Rows are never deleted, so what was accepted is there for every later query.
AckedInTables == acked \subseteq db

\* The inductive invariant of the tables and the transactions under way.
IInv ==
  /\ TypeOK
  /\ \A w \in Workers : WorkerInv(w)
  /\ ChatsApart
  /\ IdsGiven
  /\ ContactsAreMutual
  /\ ChatsAreComplete
  /\ SendersAreMembers
  /\ AckedInTables

-----------------------------------------------------------------------------
(* The rows. *)

\* What the rows of each table look like.
LEMMA RowTypes ==
  ASSUME NEW u \in UserOrNone, NEW v \in UserOrNone, NEW c \in Nat, NEW n \in Nat
  PROVE  /\ Client(u) \in Row /\ Contact(u, v) \in Row /\ Chat(c) \in Row
         /\ Member(c, u, v) \in Row /\ Message(c, u, n) \in Row
  BY DEF Row, UserOrNone, Client, Contact, Chat, Member, Message

\* The columns the invariants read.
LEMMA RowFields ==
  ASSUME NEW u, NEW v, NEW c, NEW n
  PROVE  /\ Client(u).table = "client" /\ Contact(u, v).table = "contact" /\ Chat(c).table = "chat"
         /\ Member(c, u, v).table = "member" /\ Message(c, u, n).table = "message"
         /\ Contact(u, v).who = u /\ Contact(u, v).whom = v
         /\ Chat(c).chat = c /\ Member(c, u, v).chat = c /\ Message(c, u, n).chat = c
         /\ Member(c, u, v).who = u /\ Message(c, u, n).who = u /\ Message(c, u, n).text = n
  BY DEF Client, Contact, Chat, Member, Message

\* Where a request may begin.
LEMMA FirstStatements ==
  ASSUME NEW op \in AllOps
  PROVE  /\ FirstStatement[op] \in Statements
         /\ FirstStatement[op] \notin {"idle", "done", "commit", "add1", "add2", "create", "info",
                                       "connect1", "connect2"}
         /\ FirstStatement[op] = "insert" => op = "registration"
         /\ FirstStatement[op] = "lookup" => op = "add_contact"
         /\ FirstStatement[op] = "check" => op = "create_chat"
         /\ FirstStatement[op] = "can_write" => op = "send_message"
         /\ FirstStatement[op] = "select" =>
              op \in {"login", "get_chats", "get_contacts", "get_messages"}
  BY DEF FirstStatement, AllOps, Statements

-----------------------------------------------------------------------------
(* Types. *)

\* A request's arguments have their types.
LEMMA BeginType ==
  ASSUME TypeOK, NEW w \in Workers, NEW op \in Ops, NEW u \in Users, NEW v \in UserOrNone,
         NEW c \in Nat, Begin(w, op, u, v, c)
  PROVE  TypeOK'
<1>1. op \in AllOps /\ FirstStatement[op] \in Statements
  BY OpsAssumption, FirstStatements
<1>2. pc' \in [Workers -> Statements] /\ seen' \in [Workers -> SUBSET Row]
  BY <1>1 DEF TypeOK, Begin, Goto
<1>3. calls \in Nat /\ calls' \in 0..MaxCalls
  BY MaxCallsAssumption DEF TypeOK, Begin
<1>4. [op |-> op, user |-> u, whom |-> v, chat |-> c, n |-> calls] \in Request
  BY <1>3 DEF Request, UserOrNone
<1>5. req' \in [Workers -> Request \cup {NoRequest}]
  BY <1>4 DEF TypeOK, Begin
<1> QED
  BY <1>2, <1>3, <1>5 DEF TypeOK, Begin

\* The ends of an operation keep the types.
LEMMA EndType ==
  ASSUME TypeOK, NEW w \in Workers,
         \/ \E how \in {"no", "error"} : Fail(w, how)
         \/ Commit(w) \/ Return(w) \/ ConnectionLost(w)
  PROVE  TypeOK'
<1>1. "done" \in Statements /\ "idle" \in Statements
  BY DEF Statements
<1>2. ASSUME NEW how \in {"no", "error"}, Fail(w, how) PROVE TypeOK'
  BY <1>1, <1>2 DEF TypeOK, Fail, Goto
<1>3. ASSUME Commit(w) PROVE TypeOK'
  BY <1>1, <1>3 DEF TypeOK, Commit, Goto
<1>4. ASSUME Return(w) PROVE TypeOK'
  BY <1>1, <1>4 DEF TypeOK, Return, Goto
<1>5. ASSUME ConnectionLost(w) PROVE TypeOK'
  BY <1>1, <1>2, <1>5 DEF TypeOK, ConnectionLost, Goto
<1> QED
  BY <1>2, <1>3, <1>4, <1>5

\* An insert of a row keeps the types.
LEMMA InsertType ==
  ASSUME TypeOK, NEW w \in Workers, NEW row \in Row, NEW next \in Statements,
         Insert(w, row, next), nextChat' \in Nat \ {0}, chat' \in [Workers -> Nat]
  PROVE  TypeOK'
<1>1. own' \in [Workers -> SUBSET Row] /\ pc' \in [Workers -> Statements]
  BY DEF TypeOK, Insert, Goto
<1> QED
  BY <1>1 DEF TypeOK, Insert

\* So does one into a table with a unique index, done or refused.
LEMMA InsertUniqueType ==
  ASSUME TypeOK, NEW w \in Workers, NEW row \in Row, NEW next \in Statements,
         InsertUnique(w, row, next)
  PROVE  TypeOK'
<1>1. CASE Fail(w, "no")
  BY <1>1, EndType
<1>2. CASE Insert(w, row, next) /\ UNCHANGED <<nextChat, chat>>
  <2>1. nextChat' \in Nat \ {0} /\ chat' \in [Workers -> Nat]
    BY <1>2 DEF TypeOK
  <2> QED
    BY <1>2, <2>1, InsertType
<1> QED
  BY <1>1, <1>2 DEF InsertUnique

\* The type invariant is inductive by itself.
LEMMA TypeStep == TypeOK /\ [Next]_vars => TypeOK'
<1> SUFFICES ASSUME TypeOK, [Next]_vars PROVE TypeOK'
  OBVIOUS
<1>1. ASSUME NEW w \in Workers, Call(w) PROVE TypeOK'
  <2>1. NoUser \in UserOrNone /\ Users \subseteq UserOrNone /\ ChatIds \subseteq Nat /\ 0 \in Nat
    BY DEF UserOrNone, ChatIds, TypeOK
  <2> QED
    BY <1>1, <2>1, BeginType DEF Call
<1>2. ASSUME NEW w \in Workers PROVE
        /\ req[w].user \in UserOrNone /\ req[w].whom \in UserOrNone /\ req[w].chat \in Nat
        /\ req[w].n \in Nat /\ chat[w] \in Nat
  BY DEF TypeOK, Request, NoRequest, UserOrNone
<1>3. {"commit", "add2", "info", "connect2"} \subseteq Statements
  BY DEF Statements
<1>4. ASSUME NEW w \in Workers, Registration(w) \/ AddContact1(w) \/ AddContact2(w) PROVE TypeOK'
  BY <1>2, <1>3, <1>4, RowTypes, InsertUniqueType DEF Registration, AddContact1, AddContact2
<1>5. ASSUME NEW w \in Workers, SendMessage(w) \/ ConnectUser(w) \/ ConnectFriend(w) PROVE TypeOK'
  <2>1. nextChat' \in Nat \ {0} /\ chat' \in [Workers -> Nat]
    BY <1>5 DEF TypeOK, SendMessage, ConnectUser, ConnectFriend
  <2>2. CASE SendMessage(w)
    BY <1>2, <1>3, <2>1, <2>2, RowTypes, InsertType DEF SendMessage
  <2>3. CASE ConnectUser(w)
    BY <1>2, <1>3, <2>1, <2>3, RowTypes, InsertType DEF ConnectUser
  <2>4. CASE ConnectFriend(w)
    BY <1>2, <1>3, <2>1, <2>4, RowTypes, InsertType DEF ConnectFriend
  <2> QED
    BY <1>5, <2>2, <2>3, <2>4
<1>6. ASSUME NEW w \in Workers, CreateChat(w) PROVE TypeOK'
  <2>1. nextChat' \in Nat \ {0} /\ chat' \in [Workers -> Nat] /\ nextChat \in Nat
    BY <1>6 DEF TypeOK, CreateChat
  <2>2. Chat(nextChat) \in Row
    BY <1>2, <2>1, RowTypes
  <2> QED
    BY <1>3, <1>6, <2>1, <2>2, InsertType DEF CreateChat
<1>7. ASSUME NEW w \in Workers, \E how \in {"no", "error"} : Fail(w, how) PROVE TypeOK'
  BY <1>7, EndType
<1>8. ASSUME NEW w \in Workers, NEW next \in Statements, Goto(w, next),
             outcome' \in [Workers -> {"pending", "ok", "no", "error"}],
             got' \in [Workers -> SUBSET Row],
             UNCHANGED <<db, nextChat, calls, req, own, chat, acked, seen>>
      PROVE  TypeOK'
  BY <1>8 DEF TypeOK, Goto
<1>9. ASSUME NEW w \in Workers,
             CanWrite(w) \/ LookupContact(w) \/ CheckCommonChat(w) \/ FriendInfo(w) PROVE TypeOK'
  <2>1. {"insert", "add1", "create", "connect1"} \subseteq Statements
    BY DEF Statements
  <2>2. outcome \in [Workers -> {"pending", "ok", "no", "error"}] /\ got \in [Workers -> SUBSET Row]
    BY DEF TypeOK
  <2>3. CASE CanWrite(w)
    BY <1>7, <1>8, <2>1, <2>2, <2>3 DEF CanWrite
  <2>4. CASE LookupContact(w)
    BY <1>7, <1>8, <2>1, <2>2, <2>4 DEF LookupContact
  <2>5. CASE CheckCommonChat(w)
    BY <1>7, <1>8, <2>1, <2>2, <2>5 DEF CheckCommonChat
  <2>6. CASE FriendInfo(w)
    BY <1>7, <1>8, <2>1, <2>2, <2>6 DEF FriendInfo
  <2> QED
    BY <1>9, <2>3, <2>4, <2>5, <2>6
<1>10. ASSUME NEW w \in Workers, Login(w) PROVE TypeOK'
  <2>1. CASE Fail(w, "no")
    BY <1>7, <2>1
  <2>2. CASE ~Fail(w, "no")
    BY <1>8, <1>10, <2>2 DEF Login, TypeOK, Statements
  <2> QED
    BY <2>1, <2>2
<1>11. ASSUME NEW w \in Workers, NEW op, Query(w, op) PROVE TypeOK'
  <2>1. Select(req[w], Visible(w)) \subseteq Row
    BY DEF Select, Visible, TypeOK
  <2>2. got' \in [Workers -> SUBSET Row]
    BY <1>11, <2>1 DEF Query, TypeOK
  <2> QED
    BY <1>3, <1>8, <1>11, <2>2 DEF Query, TypeOK
<1>12. ASSUME NEW w \in Workers, Commit(w) \/ Return(w) \/ ConnectionLost(w) \/ DeadlockAbort(w)
       PROVE  TypeOK'
  BY <1>12, EndType DEF DeadlockAbort
<1>13. ASSUME UNCHANGED vars PROVE TypeOK'
  BY <1>13 DEF vars, TypeOK
<1>14. ASSUME NEW w \in Workers, Step(w) PROVE TypeOK'
  BY <1>4, <1>5, <1>6, <1>9, <1>10, <1>11, <1>12, <1>14 DEF Step, GetChats, GetContacts, GetMessages
<1> QED
  BY <1>1, <1>12, <1>13, <1>14 DEF Next

-----------------------------------------------------------------------------
(* Steps that leave the tables alone. *)

\* Nothing happens to the operation of worker w.
Still(w) == UNCHANGED <<req[w], pc[w], own[w], chat[w], got[w], outcome[w], seen[w]>>

\* More rows give a user no fewer chats.
LEMMA ChatsGrow ==
  ASSUME NEW R, NEW S, R \subseteq S, NEW u
  PROVE  ChatsOf(R, u) \subseteq ChatsOf(S, u)
  BY DEF ChatsOf

\* What holds of an operation is not disturbed by rows that others commit,
\* unless they are about the chat it constructs.
LEMMA WorkerKept ==
  ASSUME TypeOK, TypeOK', NEW w \in Workers, WorkerInv(w), Still(w),
         db \subseteq db', acked \subseteq acked', nextChat <= nextChat',
         Creating(w) => \A r \in db' : InChat(r) => r.chat # chat[w]
  PROVE  WorkerInv(w)' /\ (Creating(w)' <=> Creating(w))
<1>1. /\ req'[w] = req[w] /\ pc'[w] = pc[w] /\ own'[w] = own[w] /\ chat'[w] = chat[w]
      /\ got'[w] = got[w] /\ outcome'[w] = outcome[w] /\ seen'[w] = seen[w]
  BY DEF Still
<1>2. PlaceInv(w)'
  BY <1>1 DEF WorkerInv, PlaceInv
<1>3. \A op : Committing(w, op)' <=> Committing(w, op)
  BY <1>1 DEF Committing
<1>4. Inserted(w)' = Inserted(w)
  BY <1>1, <1>3 DEF Inserted
<1>5. OwnInv(w)'
  BY <1>1, <1>3, <1>4, ChatsGrow DEF WorkerInv, OwnInv
<1>6. Creating(w)' <=> Creating(w)
  BY <1>1, <1>3 DEF Creating
<1>7. FreshChat(w)'
  BY <1>1, <1>6 DEF WorkerInv, FreshChat, TypeOK
<1>8. ReadInv(w)'
  BY <1>1 DEF WorkerInv, ReadInv
<1> QED
  BY <1>2, <1>5, <1>6, <1>7, <1>8 DEF WorkerInv

\* A step of v's operation that leaves the tables alone needs only its own
\* operation looked at.
LEMMA LocalStep ==
  ASSUME IInv, TypeOK', NEW v \in Workers, UNCHANGED <<db, nextChat, acked>>,
         \A w \in Workers : w # v => Still(w),
         WorkerInv(v)', Creating(v)' => Creating(v) /\ chat'[v] = chat[v]
  PROVE  IInv'
<1>1. ASSUME NEW w \in Workers, w # v PROVE WorkerInv(w)' /\ (Creating(w)' <=> Creating(w))
  <2>1. WorkerInv(w) /\ Still(w)
    BY <1>1 DEF IInv
  <2>2. db \subseteq db' /\ acked \subseteq acked' /\ nextChat <= nextChat'
    BY DEF IInv, TypeOK
  <2>3. Creating(w) => \A r \in db' : InChat(r) => r.chat # chat[w]
    BY <2>1 DEF WorkerInv, FreshChat
  <2> QED
    BY <2>1, <2>2, <2>3, WorkerKept DEF IInv
<1>2. ChatsApart'
  <2> SUFFICES ASSUME NEW w \in Workers, NEW x \in Workers, Creating(w)', Creating(x)', chat'[w] = chat'[x]
               PROVE  w = x
    BY DEF ChatsApart
  <2>1. Creating(w) /\ chat'[w] = chat[w]
    BY <1>1 DEF Still
  <2>2. Creating(x) /\ chat'[x] = chat[x]
    BY <1>1 DEF Still
  <2> QED
    BY <2>1, <2>2 DEF IInv, ChatsApart
<1>3. IdsGiven' /\ ContactsAreMutual' /\ ChatsAreComplete' /\ SendersAreMembers' /\ AckedInTables'
  BY DEF IInv, IdsGiven, ContactsAreMutual, ChatsAreComplete, SendersAreMembers, AckedInTables
<1> QED
  BY <1>1, <1>2, <1>3 DEF IInv

\* An operation begins with no rows, and with what has been accepted in sight.
LEMMA BeginStep ==
  ASSUME IInv, TypeOK', NEW w \in Workers, NEW op \in Ops, NEW u \in Users, NEW v \in UserOrNone,
         NEW c \in Nat, op \in {"add_contact", "create_chat"} => v \in Users, Begin(w, op, u, v, c)
  PROVE  IInv'
<1> USE DEF IInv
<1>1. op \in AllOps /\ WorkerInv(w) /\ pc[w] = "idle"
  BY OpsAssumption DEF Begin
<1>2. /\ pc'[w] = FirstStatement[op] /\ seen'[w] = acked /\ acked' = acked /\ own'[w] = own[w]
      /\ req'[w] = [op |-> op, user |-> u, whom |-> v, chat |-> c, n |-> calls]
  BY DEF Begin, Goto, TypeOK
<1>3. own'[w] = {}
  BY <1>1, <1>2 DEF WorkerInv, OwnInv, Inserted, Committing
<1>4. req'[w].op = op /\ req'[w].user = u /\ req'[w].whom = v /\ req'[w] \in Request
  <2>1. calls \in Nat
    BY MaxCallsAssumption DEF TypeOK
  <2> QED
    BY <1>2, <2>1 DEF Request, UserOrNone
<1>5. PlaceInv(w)'
  BY <1>1, <1>2, <1>4, FirstStatements DEF PlaceInv
<1>6. OwnInv(w)' /\ ~Creating(w)'
  BY <1>1, <1>2, <1>3, <1>4, FirstStatements DEF OwnInv, Inserted, Committing, Creating
<1>7. ReadInv(w)' /\ FreshChat(w)'
  BY <1>1, <1>2, <1>6, FirstStatements DEF ReadInv, FreshChat
<1>8. \A x \in Workers : x # w => Still(x)
  BY DEF Begin, Goto, TypeOK, Still
<1> QED
  BY <1>5, <1>6, <1>7, <1>8, LocalStep DEF WorkerInv, Begin

\* Rolling back takes the rows with it.
LEMMA FailStep ==
  ASSUME IInv, TypeOK', NEW w \in Workers, NEW how \in {"no", "error"}, Fail(w, how)
  PROVE  IInv'
<1> USE DEF IInv
<1>1. WorkerInv(w) /\ pc[w] # "idle"
  BY DEF Fail
<1>2. /\ pc'[w] = "done" /\ own'[w] = {} /\ outcome'[w] = how
      /\ UNCHANGED <<db, nextChat, req, chat, got, acked, seen>>
  BY DEF Fail, Goto, TypeOK
<1>3. PlaceInv(w)'
  BY <1>1, <1>2 DEF WorkerInv, PlaceInv
<1>4. OwnInv(w)' /\ FreshChat(w)' /\ ~Creating(w)'
  BY <1>2 DEF OwnInv, Inserted, Committing, FreshChat, Creating
<1>5. ReadInv(w)'
  BY <1>1, <1>2 DEF WorkerInv, ReadInv
<1>6. \A x \in Workers : x # w => Still(x)
  BY DEF Fail, Goto, TypeOK, Still
<1> QED
  BY <1>2, <1>3, <1>4, <1>5, <1>6, LocalStep DEF WorkerInv

\* Returning to the job ends the operation.
LEMMA ReturnStep ==
  ASSUME IInv, TypeOK', NEW w \in Workers, Return(w)
  PROVE  IInv'
<1> USE DEF IInv
<1>1. WorkerInv(w) /\ pc[w] = "done"
  BY DEF Return
<1>2. /\ pc'[w] = "idle" /\ own'[w] = own[w] /\ seen'[w] = {} /\ UNCHANGED <<db, nextChat, acked>>
  BY DEF Return, Goto, TypeOK
<1>3. own'[w] = {}
  BY <1>1, <1>2 DEF WorkerInv, OwnInv, Inserted, Committing
<1>4. WorkerInv(w)' /\ ~Creating(w)'
  BY <1>2, <1>3 DEF WorkerInv, PlaceInv, OwnInv, Inserted, Committing, FreshChat, Creating, ReadInv
<1>5. \A x \in Workers : x # w => Still(x)
  BY DEF Return, Goto, TypeOK, Still
<1> QED
  BY <1>2, <1>4, <1>5, LocalStep

\* A statement that only reads, and finds what the operation needs.
LEMMA ReadStep ==
  ASSUME IInv, TypeOK', NEW w \in Workers, NEW next, Goto(w, next),
         UNCHANGED <<db, nextChat, calls, req, own, chat, got, outcome, acked, seen>>,
         \/ pc[w] = "can_write" /\ next = "insert" /\ req[w].chat \in ChatsOf(db, req[w].user)
         \/ pc[w] = "lookup" /\ next = "add1"
         \/ pc[w] = "check" /\ next = "create"
         \/ pc[w] = "info" /\ next = "connect1"
  PROVE  IInv'
<1> USE DEF IInv
<1>1. WorkerInv(w) /\ pc'[w] = next
  BY DEF Goto, TypeOK
<1>2. PlaceInv(w)'
  BY <1>1 DEF WorkerInv, PlaceInv
<1>3. OwnInv(w)'
  BY <1>1 DEF WorkerInv, PlaceInv, OwnInv, Inserted, Committing
<1>4. (Creating(w)' => Creating(w)) /\ FreshChat(w)' /\ ReadInv(w)'
  BY <1>1 DEF WorkerInv, Creating, Committing, FreshChat, ReadInv
<1>5. \A x \in Workers : x # w => Still(x)
  BY DEF Goto, TypeOK, Still
<1> QED
  BY <1>2, <1>3, <1>4, <1>5, LocalStep DEF WorkerInv

\* The statements that check something, with either result.
LEMMA CheckStep ==
  ASSUME IInv, TypeOK', NEW w \in Workers,
         CanWrite(w) \/ LookupContact(w) \/ CheckCommonChat(w) \/ FriendInfo(w)
  PROVE  IInv'
<1> USE DEF IInv
<1>1. ASSUME Fail(w, "no") PROVE IInv'
  BY <1>1, FailStep
<1>2. CASE CanWrite(w)
  <2>1. own[w] = {}
    BY <1>2 DEF CanWrite, WorkerInv, OwnInv, Inserted, Committing
  <2>2. Visible(w) = db
    BY <2>1 DEF Visible
  <2> QED
    BY <1>1, <1>2, <2>2, ReadStep DEF CanWrite
<1>3. CASE LookupContact(w)
  BY <1>1, <1>3, ReadStep DEF LookupContact
<1>4. CASE CheckCommonChat(w)
  BY <1>1, <1>4, ReadStep DEF CheckCommonChat
<1>5. CASE FriendInfo(w)
  BY <1>1, <1>5, ReadStep DEF FriendInfo
<1> QED
  BY <1>2, <1>3, <1>4, <1>5

\* A login ends here, whatever it finds.
LEMMA LoginStep ==
  ASSUME IInv, TypeOK', NEW w \in Workers, Login(w)
  PROVE  IInv'
<1> USE DEF IInv
<1>1. CASE Fail(w, "no")
  BY <1>1, FailStep
<1>2. CASE ~Fail(w, "no")
  <2>1. /\ WorkerInv(w) /\ pc[w] = "select" /\ req[w].op = "login" /\ pc'[w] = "done"
        /\ UNCHANGED <<db, nextChat, calls, req, own, chat, got, acked, seen>>
    BY <1>2 DEF Login, Goto, TypeOK
  <2>2. PlaceInv(w)'
    BY <2>1 DEF WorkerInv, PlaceInv
  <2>3. OwnInv(w)' /\ ~Creating(w)' /\ FreshChat(w)'
    BY <2>1 DEF WorkerInv, OwnInv, Inserted, Committing, Creating, FreshChat
  <2>4. ReadInv(w)'
    BY <2>1 DEF WorkerInv, ReadInv, Relevant
  <2>5. \A x \in Workers : x # w => Still(x)
    BY <1>2 DEF Login, Goto, TypeOK, Still
  <2> QED
    BY <2>1, <2>2, <2>3, <2>4, <2>5, LocalStep DEF WorkerInv
<1> QED
  BY <1>1, <1>2

\* A query finds every relevant row that was accepted before it began.
LEMMA QueryStep ==
  ASSUME IInv, TypeOK', NEW w \in Workers, NEW op \in {"get_chats", "get_contacts", "get_messages"},
         Query(w, op)
  PROVE  IInv'
<1> USE DEF IInv
<1>1. /\ WorkerInv(w) /\ pc[w] = "select" /\ req[w].op = op /\ pc'[w] = "commit"
      /\ got'[w] = Select(req[w], Visible(w))
      /\ UNCHANGED <<db, nextChat, calls, req, own, chat, outcome, acked, seen>>
  BY DEF Query, Goto, TypeOK
<1>2. PlaceInv(w)'
  BY <1>1 DEF WorkerInv, PlaceInv, AllOps
<1>3. OwnInv(w)' /\ ~Creating(w)' /\ FreshChat(w)'
  BY <1>1 DEF WorkerInv, OwnInv, Inserted, Committing, Creating, FreshChat
<1>4. ASSUME NEW r \in seen[w], Relevant(req[w], r) PROVE r \in got'[w]
  <2>1. r \in Visible(w)
    BY <1>1, <1>4 DEF WorkerInv, ReadInv, AckedInTables, Visible
  <2> QED
    BY <1>1, <1>4, <2>1 DEF Relevant, Select
<1>5. ReadInv(w)'
  BY <1>1, <1>4 DEF WorkerInv, ReadInv
<1>6. \A x \in Workers : x # w => Still(x)
  BY DEF Query, Goto, TypeOK, Still
<1> QED
  BY <1>1, <1>2, <1>3, <1>5, <1>6, LocalStep DEF WorkerInv

\* An insert that adds the row the next place expects.
LEMMA InsertStep ==
  ASSUME IInv, TypeOK', NEW w \in Workers, NEW row, NEW next, Insert(w, row, next),
         UNCHANGED <<nextChat, chat>>,
         LET r == req[w] IN
         \/ pc[w] = "insert" /\ r.op = "registration" /\ next = "commit" /\ row = Client(r.user)
         \/ pc[w] = "insert" /\ r.op = "send_message" /\ next = "commit"
            /\ row = Message(r.chat, r.user, r.n)
         \/ pc[w] = "add1" /\ next = "add2" /\ row = Contact(r.user, r.whom)
         \/ pc[w] = "add2" /\ next = "commit" /\ row = Contact(r.whom, r.user) /\ r.user # r.whom
         \/ pc[w] = "connect1" /\ next = "connect2" /\ row = Member(chat[w], r.user, r.whom)
         \/ pc[w] = "connect2" /\ next = "commit" /\ row = Member(chat[w], r.whom, r.user)
  PROVE  IInv'
<1> USE DEF IInv
<1>1. /\ WorkerInv(w) /\ pc'[w] = next /\ own'[w] = own[w] \cup {row}
      /\ UNCHANGED <<db, nextChat, calls, req, chat, got, outcome, acked, seen>>
  BY DEF Insert, Goto, TypeOK
<1>2. PlaceInv(w) /\ PlaceInv(w)'
  BY <1>1 DEF WorkerInv, PlaceInv, AllOps
<1>3. own[w] = Inserted(w)
  BY <1>1 DEF WorkerInv, OwnInv
<1>4. own'[w] = Inserted(w)'
  BY <1>1, <1>2, <1>3 DEF PlaceInv, Inserted, Committing
<1>5. OwnInv(w)'
  BY <1>1, <1>2, <1>4 DEF WorkerInv, OwnInv, PlaceInv, Committing
<1>6. (Creating(w)' => Creating(w)) /\ FreshChat(w)'
  BY <1>1, <1>2 DEF WorkerInv, PlaceInv, Creating, Committing, FreshChat
<1>7. ReadInv(w)'
  BY <1>1, <1>2 DEF WorkerInv, PlaceInv, ReadInv, Relevant
<1>8. \A x \in Workers : x # w => Still(x)
  BY DEF Insert, Goto, TypeOK, Still
<1> QED
  BY <1>1, <1>2, <1>5, <1>6, <1>7, <1>8, LocalStep DEF WorkerInv

\* Adding oneself never gets past the second insert.
LEMMA InsertSteps ==
  ASSUME IInv, TypeOK', NEW w \in Workers,
         \/ Registration(w) \/ SendMessage(w) \/ AddContact1(w) \/ AddContact2(w)
         \/ ConnectUser(w) \/ ConnectFriend(w)
  PROVE  IInv'
<1>1. ASSUME Fail(w, "no") PROVE IInv'
  BY <1>1, FailStep
<1>2. CASE Registration(w)
  BY <1>1, <1>2, InsertStep DEF Registration, InsertUnique
<1>3. CASE SendMessage(w)
  BY <1>3, InsertStep DEF SendMessage
<1>4. CASE AddContact1(w)
  BY <1>1, <1>4, InsertStep DEF AddContact1, InsertUnique
<1>5. CASE AddContact2(w)
  <2>1. own[w] = {Contact(req[w].user, req[w].whom)}
    BY <1>5 DEF AddContact2, IInv, WorkerInv, OwnInv, Inserted, Committing
  <2>2. CASE req[w].user = req[w].whom
    BY <1>1, <1>5, <2>1, <2>2 DEF AddContact2, InsertUnique, Visible
  <2>3. CASE req[w].user # req[w].whom
    BY <1>1, <1>5, <2>3, InsertStep DEF AddContact2, InsertUnique
  <2> QED
    BY <2>2, <2>3
<1>6. CASE ConnectUser(w)
  BY <1>6, InsertStep DEF ConnectUser
<1>7. CASE ConnectFriend(w)
  BY <1>7, InsertStep DEF ConnectFriend
<1> QED
  BY <1>2, <1>3, <1>4, <1>5, <1>6, <1>7

\* The serial gives a chat an id nobody has.
LEMMA CreateChatStep ==
  ASSUME IInv, TypeOK', NEW w \in Workers, CreateChat(w)
  PROVE  IInv'
<1> USE DEF IInv
<1>1. /\ WorkerInv(w) /\ pc[w] = "create" /\ pc'[w] = "info"
      /\ own'[w] = own[w] \cup {Chat(nextChat)} /\ chat'[w] = nextChat /\ nextChat' = nextChat + 1
      /\ UNCHANGED <<db, calls, req, got, outcome, acked, seen>>
  BY DEF CreateChat, Insert, Goto, TypeOK
<1>2. nextChat \in Nat
  BY DEF TypeOK
<1>3. own[w] = {}
  BY <1>1 DEF WorkerInv, OwnInv, Inserted, Committing
<1>4. PlaceInv(w)' /\ OwnInv(w)'
  BY <1>1, <1>3 DEF WorkerInv, PlaceInv, OwnInv, Inserted, Committing
<1>5. FreshChat(w)'
  BY <1>1, <1>2 DEF FreshChat, IdsGiven, TypeOK, Row
<1>6. ReadInv(w)'
  BY <1>1 DEF WorkerInv, ReadInv
<1>7. \A x \in Workers : x # w => Still(x)
  BY DEF CreateChat, Insert, Goto, TypeOK, Still
<1>8. ASSUME NEW x \in Workers, x # w PROVE WorkerInv(x)' /\ (Creating(x)' <=> Creating(x))
  <2>1. WorkerInv(x) /\ Still(x)
    BY <1>7, <1>8
  <2>2. Creating(x) => \A r \in db' : InChat(r) => r.chat # chat[x]
    BY <1>1, <2>1 DEF WorkerInv, FreshChat
  <2>3. db \subseteq db' /\ acked \subseteq acked' /\ nextChat <= nextChat'
    BY <1>1, <1>2
  <2> QED
    BY <2>1, <2>2, <2>3, WorkerKept
<1>9. ASSUME NEW x \in Workers, x # w, Creating(x)' PROVE chat'[x] # chat'[w] /\ Creating(x) /\ chat'[x] = chat[x]
  <2>1. Creating(x) /\ chat'[x] = chat[x]
    BY <1>7, <1>8, <1>9 DEF Still
  <2>2. chat[x] < nextChat
    BY <2>1 DEF WorkerInv, FreshChat
  <2> QED
    BY <1>1, <1>2, <2>1, <2>2
<1>10. ChatsApart'
  <2> SUFFICES ASSUME NEW x \in Workers, NEW y \in Workers, Creating(x)', Creating(y)', chat'[x] = chat'[y]
               PROVE  x = y
    BY DEF ChatsApart
  <2>1. CASE x = w \/ y = w
    BY <1>9, <2>1
  <2>2. CASE x # w /\ y # w
    <3>1. Creating(x) /\ chat'[x] = chat[x] /\ Creating(y) /\ chat'[y] = chat[y]
      BY <1>9, <2>2
    <3> QED
      BY <3>1 DEF ChatsApart
  <2> QED
    BY <2>1, <2>2
<1>11. IdsGiven'
  BY <1>1, <1>2 DEF IdsGiven, TypeOK, Row
<1>12. ContactsAreMutual' /\ ChatsAreComplete' /\ SendersAreMembers' /\ AckedInTables'
  BY <1>1 DEF ContactsAreMutual, ChatsAreComplete, SendersAreMembers, AckedInTables
<1> QED
  BY <1>4, <1>5, <1>6, <1>8, <1>10, <1>11, <1>12 DEF WorkerInv

-----------------------------------------------------------------------------
(* Commits. *)

\* What a transaction may be about to commit: nothing, one client, one message
\* to a chat of its sender, a contact in both directions, or a complete chat
\* with a new id.
LEMMA CommitRows ==
  ASSUME IInv, NEW w \in Workers, pc[w] = "commit"
  PROVE  \/ own[w] = {}
         \/ \E u \in Users : own[w] = {Client(u)}
         \/ \E u \in Users, c \in Nat, n \in Nat : own[w] = {Message(c, u, n)} /\ c \in ChatsOf(db, u)
         \/ \E u, v \in Users : own[w] = {Contact(u, v), Contact(v, u)} /\ u # v
         \/ \E u, v \in Users :
              /\ own[w] = {Chat(chat[w]), Member(chat[w], u, v), Member(chat[w], v, u)}
              /\ Creating(w)
<1> USE DEF IInv
<1>1. WorkerInv(w) /\ own[w] = Inserted(w) /\ req[w] \in Request /\ req[w].user \in Users
  BY DEF WorkerInv, OwnInv, PlaceInv
<1>2. CASE req[w].op = "registration"
  BY <1>1, <1>2 DEF Inserted, Committing
<1>3. CASE req[w].op = "send_message"
  BY <1>1, <1>3 DEF Inserted, Committing, WorkerInv, OwnInv, Request
<1>4. CASE req[w].op = "add_contact"
  BY <1>1, <1>4 DEF Inserted, Committing, WorkerInv, OwnInv, PlaceInv
<1>5. CASE req[w].op = "create_chat"
  BY <1>1, <1>5 DEF Inserted, Committing, WorkerInv, OwnInv, PlaceInv, Creating
<1>6. CASE req[w].op \in {"get_chats", "get_contacts", "get_messages"}
  BY <1>1, <1>6 DEF Inserted, Committing
<1> QED
  BY <1>1, <1>2, <1>3, <1>4, <1>5, <1>6 DEF WorkerInv, PlaceInv, AllOps

\* The new rows keep every promise about the tables.
LEMMA TablesKept ==
  ASSUME IInv, NEW w \in Workers, pc[w] = "commit", db' = db \cup own[w], UNCHANGED nextChat
  PROVE  IdsGiven' /\ ContactsAreMutual' /\ ChatsAreComplete' /\ SendersAreMembers'
<1> USE DEF IInv
\* Rows that are in no chat change nothing about the chats.
<1>1. ASSUME \A r \in own[w] : ~InChat(r)
      PROVE  IdsGiven' /\ ChatsAreComplete' /\ SendersAreMembers'
  <2>1. \A r \in db' : InChat(r) => r \in db
    BY <1>1
  <2>2. \A c : {m \in db' : m.table = "member" /\ m.chat = c} = {m \in db : m.table = "member" /\ m.chat = c}
    BY <2>1 DEF InChat
  <2>3. IdsGiven'
    BY <2>1 DEF IdsGiven
  <2>4. ChatsAreComplete'
    BY <2>1, <2>2 DEF ChatsAreComplete, InChat
  <2>5. SendersAreMembers'
    BY <2>1, ChatsGrow DEF SendersAreMembers, InChat
  <2> QED
    BY <2>3, <2>4, <2>5
\* Rows that are no contacts change nothing about the contacts.
<1>2. ASSUME \A r \in own[w] : r.table # "contact" PROVE ContactsAreMutual'
  <2>1. \A u, v \in Users : Contact(u, v) \in db' => Contact(u, v) \in db
    BY <1>2 DEF Contact
  <2> QED
    BY <2>1 DEF ContactsAreMutual
<1>3. CASE own[w] = {}
  BY <1>1, <1>2, <1>3
<1>4. ASSUME NEW u \in Users, own[w] = {Client(u)}
      PROVE  IdsGiven' /\ ContactsAreMutual' /\ ChatsAreComplete' /\ SendersAreMembers'
  BY <1>1, <1>2, <1>4 DEF InChat, Client
<1>5. ASSUME NEW u \in Users, NEW c \in Nat, NEW n \in Nat, own[w] = {Message(c, u, n)},
             c \in ChatsOf(db, u)
      PROVE  IdsGiven' /\ ContactsAreMutual' /\ ChatsAreComplete' /\ SendersAreMembers'
  <2>1. PICK m \in db : m.table = "member" /\ m.who = u /\ m.chat = c
    BY <1>5 DEF ChatsOf
  <2>2. c < nextChat /\ Chat(c) \in db
    BY <2>1 DEF IdsGiven, ChatsAreComplete, InChat
  <2>3. \A r \in db' : r \in db \/ (r.table = "message" /\ r.chat = c /\ r.who = u)
    BY <1>5 DEF Message
  <2>4. IdsGiven'
    BY <2>2, <2>3 DEF IdsGiven
  <2>5. \A d : {r \in db' : r.table = "member" /\ r.chat = d} = {r \in db : r.table = "member" /\ r.chat = d}
    BY <2>3
  <2>6. ChatsAreComplete'
    BY <2>2, <2>3, <2>5 DEF ChatsAreComplete
  <2>7. SendersAreMembers'
    BY <1>5, <2>3, ChatsGrow DEF SendersAreMembers
  <2> QED
    BY <1>2, <1>5, <2>4, <2>6, <2>7 DEF Message
<1>6. ASSUME NEW u \in Users, NEW v \in Users, own[w] = {Contact(u, v), Contact(v, u)}, u # v
      PROVE  IdsGiven' /\ ContactsAreMutual' /\ ChatsAreComplete' /\ SendersAreMembers'
  <2>1. \A r \in own[w] : ~InChat(r)
    BY <1>6 DEF InChat, Contact
  <2>2. ContactsAreMutual'
    <3> SUFFICES ASSUME NEW x \in Users, NEW y \in Users, Contact(x, y) \in db'
                 PROVE  Contact(y, x) \in db' /\ x # y
      BY DEF ContactsAreMutual
    <3>1. CASE Contact(x, y) \in db
      BY <3>1 DEF ContactsAreMutual
    <3>2. CASE Contact(x, y) \in own[w]
      <4>1. (x = u /\ y = v) \/ (x = v /\ y = u)
        BY <1>6, <3>2, RowFields
      <4> QED
        BY <1>6, <4>1
    <3> QED
      BY <3>1, <3>2
  <2> QED
    BY <1>1, <2>1, <2>2
<1>7. ASSUME NEW u \in Users, NEW v \in Users, Creating(w),
             own[w] = {Chat(chat[w]), Member(chat[w], u, v), Member(chat[w], v, u)}
      PROVE  IdsGiven' /\ ContactsAreMutual' /\ ChatsAreComplete' /\ SendersAreMembers'
  <2>0. PICK c : c = chat[w]
    OBVIOUS
  <2>1. c < nextChat /\ \A r \in db : InChat(r) => r.chat # c
    BY <1>7, <2>0 DEF WorkerInv, FreshChat
  <2>2. /\ \A r \in db' : r \in db \/ (r.table \in {"chat", "member"} /\ r.chat = c)
        /\ db' = db \cup {Chat(c), Member(c, u, v), Member(c, v, u)}
    BY <1>7, <2>0 DEF Chat, Member
  <2>3. IdsGiven'
    BY <2>1, <2>2 DEF IdsGiven
  <2>4. {m \in db' : m.table = "member" /\ m.chat = c} = {Member(c, u, v), Member(c, v, u)}
    BY <2>1, <2>2, RowFields DEF InChat
  <2>5. \A d : d # c =>
          {m \in db' : m.table = "member" /\ m.chat = d} = {m \in db : m.table = "member" /\ m.chat = d}
    BY <2>2
  <2>6. ASSUME NEW r \in db', r.table = "chat" PROVE
          \E x, y \in Users :
            {m \in db' : m.table = "member" /\ m.chat = r.chat} = {Member(r.chat, x, y), Member(r.chat, y, x)}
    <3>1. CASE r.chat = c
      BY <2>4, <3>1
    <3>2. CASE r.chat # c
      BY <2>2, <2>5, <2>6, <3>2 DEF ChatsAreComplete
    <3> QED
      BY <3>1, <3>2
  <2>7. \A r \in db' : r.table \in {"member", "message"} => Chat(r.chat) \in db'
    BY <2>2 DEF ChatsAreComplete
  <2>8. ChatsAreComplete'
    BY <2>6, <2>7 DEF ChatsAreComplete
  <2>9. SendersAreMembers'
    BY <2>2, ChatsGrow DEF SendersAreMembers
  <2> QED
    BY <1>2, <1>7, <2>3, <2>8, <2>9 DEF Chat, Member
<1> QED
  BY <1>3, <1>4, <1>5, <1>6, <1>7, CommitRows

\* A commit, whether or not the client ever hears of it.
LEMMA CommitStep ==
  ASSUME IInv, TypeOK', NEW w \in Workers, pc[w] = "commit", Goto(w, "done"), NEW how,
         db' = db \cup own[w], own' = [own EXCEPT ![w] = {}], outcome' = [outcome EXCEPT ![w] = how],
         acked' = acked \/ acked' = acked \cup own[w],
         UNCHANGED <<nextChat, calls, req, chat, got, seen>>
  PROVE  IInv'
<1> USE DEF IInv
<1>1. WorkerInv(w) /\ pc'[w] = "done" /\ own'[w] = {}
  BY DEF Goto, TypeOK
<1>2. PlaceInv(w)'
  BY <1>1 DEF WorkerInv, PlaceInv
<1>3. OwnInv(w)' /\ FreshChat(w)' /\ ~Creating(w)'
  BY <1>1 DEF OwnInv, Inserted, Committing, FreshChat, Creating
<1>4. ReadInv(w)'
  BY <1>1 DEF WorkerInv, ReadInv
<1>5. \A x \in Workers : x # w => Still(x)
  BY DEF Goto, TypeOK, Still
\* The rows are about no chat that somebody else constructs.
<1>6. ASSUME NEW x \in Workers, x # w, Creating(x), NEW r \in db', InChat(r) PROVE r.chat # chat[x]
  <2>1. \A m \in db : InChat(m) => m.chat # chat[x]
    BY <1>6 DEF WorkerInv, FreshChat
  <2>2. CASE r \in db
    BY <1>6, <2>1, <2>2
  <2>3. CASE r \in own[w]
    <3>1. CASE \E u \in Users, c \in Nat, n \in Nat : own[w] = {Message(c, u, n)} /\ c \in ChatsOf(db, u)
      <4>1. PICK u \in Users, c \in Nat, n \in Nat : own[w] = {Message(c, u, n)} /\ c \in ChatsOf(db, u)
        BY <3>1
      <4>2. PICK m \in db : m.table = "member" /\ m.chat = c
        BY <4>1 DEF ChatsOf
      <4>3. r.chat = c
        BY <2>3, <4>1 DEF Message
      <4> QED
        BY <2>1, <4>2, <4>3 DEF InChat
    <3>2. CASE Creating(w) /\ r.chat = chat[w]
      BY <1>6, <3>2 DEF ChatsApart
    <3>3. CASE \E u, v \in Users :
                 /\ own[w] = {Chat(chat[w]), Member(chat[w], u, v), Member(chat[w], v, u)}
                 /\ Creating(w)
      BY <2>3, <3>2, <3>3, RowFields
    <3>4. ~\E u \in Users : own[w] = {Client(u)}
      BY <1>6, <2>3, RowFields DEF InChat
    <3>5. ~\E u, v \in Users : own[w] = {Contact(u, v), Contact(v, u)}
      BY <1>6, <2>3, RowFields DEF InChat
    <3> QED
      BY <2>3, <3>1, <3>3, <3>4, <3>5, CommitRows
  <2> QED
    BY <2>2, <2>3
<1>7. ASSUME NEW x \in Workers, x # w PROVE WorkerInv(x)' /\ (Creating(x)' <=> Creating(x))
  <2>1. WorkerInv(x) /\ Still(x)
    BY <1>5, <1>7
  <2>2. db \subseteq db' /\ acked \subseteq acked' /\ nextChat <= nextChat'
    BY DEF TypeOK
  <2> QED
    BY <1>6, <1>7, <2>1, <2>2, WorkerKept
<1>8. ChatsApart'
  BY <1>3, <1>7 DEF ChatsApart
<1>9. AckedInTables'
  BY DEF AckedInTables
<1> QED
  BY <1>2, <1>3, <1>4, <1>7, <1>8, <1>9, TablesKept DEF WorkerInv

-----------------------------------------------------------------------------
(* The theorems. *)

\* Every statement of every operation keeps the invariant.
LEMMA InvariantStep == IInv /\ [Next]_vars => IInv'
<1> SUFFICES ASSUME IInv, [Next]_vars PROVE IInv'
  OBVIOUS
<1>1. TypeOK'
  BY TypeStep DEF IInv
<1>2. ASSUME NEW w \in Workers, Call(w) PROVE IInv'
  <2>1. NoUser \in UserOrNone /\ Users \subseteq UserOrNone /\ ChatIds \subseteq Nat /\ 0 \in Nat
    BY DEF UserOrNone, ChatIds, IInv, TypeOK
  <2> QED
    BY <1>1, <1>2, <2>1, BeginStep DEF Call
<1>3. ASSUME NEW w \in Workers, NEW how \in {"no", "error"}, Fail(w, how) PROVE IInv'
  BY <1>1, <1>3, FailStep
<1>4. ASSUME NEW w \in Workers, Commit(w) PROVE IInv'
  BY <1>1, <1>4, CommitStep DEF Commit
<1>5. ASSUME NEW w \in Workers, ConnectionLost(w) \/ DeadlockAbort(w) PROVE IInv'
  BY <1>1, <1>3, <1>5, CommitStep DEF ConnectionLost, DeadlockAbort
<1>6. ASSUME NEW w \in Workers, Step(w) PROVE IInv'
  BY <1>1, <1>4, <1>6, InsertSteps, CheckStep, LoginStep, QueryStep, CreateChatStep, ReturnStep
     DEF Step, GetChats, GetContacts, GetMessages
<1>7. ASSUME UNCHANGED vars PROVE IInv'
  <2>1. ASSUME NEW w \in Workers PROVE WorkerInv(w)' /\ (Creating(w)' <=> Creating(w)) /\ chat'[w] = chat[w]
    <3>1. WorkerInv(w) /\ Still(w)
      BY <1>7 DEF IInv, vars, Still
    <3>2. db \subseteq db' /\ acked \subseteq acked' /\ nextChat <= nextChat'
      BY <1>7 DEF vars, IInv, TypeOK
    <3>3. Creating(w) => \A r \in db' : InChat(r) => r.chat # chat[w]
      BY <1>7, <3>1 DEF vars, WorkerInv, FreshChat
    <3> QED
      BY <1>1, <1>7, <3>1, <3>2, <3>3, WorkerKept DEF IInv, vars
  <2>2. ChatsApart'
    BY <2>1 DEF IInv, ChatsApart
  <2>3. IdsGiven' /\ ContactsAreMutual' /\ ChatsAreComplete' /\ SendersAreMembers' /\ AckedInTables'
    BY <1>7 DEF IInv, vars, IdsGiven, ContactsAreMutual, ChatsAreComplete, SendersAreMembers,
                AckedInTables
  <2> QED
    BY <1>1, <2>1, <2>2, <2>3 DEF IInv
<1> QED
  BY <1>2, <1>5, <1>6, <1>7 DEF Next

\* The tables start with clients only.
LEMMA InitInvariant == Init => IInv
<1> SUFFICES ASSUME Init PROVE IInv
  OBVIOUS
<1>1. \A r \in db : r \in Row /\ r.table = "client"
  <2> SUFFICES ASSUME NEW u \in Registered PROVE Client(u) \in Row /\ Client(u).table = "client"
    BY DEF Init
  <2> QED
    BY RegisteredAssumption DEF Client, Row, UserOrNone
<1>2. TypeOK
  BY <1>1, MaxCallsAssumption DEF Init, TypeOK, Statements
<1>3. ASSUME NEW w \in Workers PROVE WorkerInv(w) /\ ~Creating(w)
  BY DEF Init, WorkerInv, PlaceInv, OwnInv, Inserted, Committing, FreshChat, Creating, ReadInv
<1>4. IdsGiven /\ ChatsAreComplete /\ SendersAreMembers
  BY <1>1 DEF IdsGiven, InChat, ChatsAreComplete, SendersAreMembers
<1>5. ContactsAreMutual
  BY <1>1, RowFields DEF ContactsAreMutual
<1>6. AckedInTables
  BY DEF Init, AckedInTables
<1> QED
  BY <1>2, <1>3, <1>4, <1>5, <1>6 DEF IInv, ChatsApart

\* The inductive invariant of the tables and the transactions under way.
THEOREM Invariant == Spec => []IInv
  BY InitInvariant, InvariantStep, PTL DEF Spec

-----------------------------------------------------------------------------
(***************************************************************************)
(* What the caller is told.  Beyond IInv this needs to know whose rows are *)
(* whose: the number of a call tells the messages apart and the serial of  *)
(* Chat.id the chats, also the ids of calls that have failed meanwhile.    *)
(***************************************************************************)

\* Nothing of what w would store under its own number or id is in the tables.
NothingStored(w) ==
  /\ req[w].op = "send_message" => \A r \in db : r.table = "message" => r.text # req[w].n
  /\ req[w].op = "create_chat" => \A r \in db : InChat(r) => r.chat # chat[w]

\* What the tables hold of w's request while it runs, and for each answer.
Result(w) ==
  /\ pc[w] \notin {"idle", "done"} => NothingStored(w)
  /\ pc[w] = "done" =>
       /\ outcome[w] = "ok" => Requested(w) \subseteq db
       /\ outcome[w] = "no" => NothingStored(w)
       /\ outcome[w] = "no" /\ req[w].op = "registration" => Requested(w) \subseteq db
       /\ outcome[w] = "error" => Requested(w) \subseteq db \/ NothingStored(w)

\* The number and the id of w's call were given out, the id only once it has
\* executed CreateChat.
Marked(w) ==
  /\ pc[w] # "idle" => req[w].n < calls
  /\ chat[w] < nextChat
  /\ pc[w] \in {"idle", "check", "create"} \/ req[w].op # "create_chat" => chat[w] = 0
  /\ Creating(w) => chat[w] # 0

\* No two calls have the same number or the same id.
MarksApart ==
  \A v, w \in Workers : v # w =>
    /\ pc[v] # "idle" /\ pc[w] # "idle" => req[v].n # req[w].n
    /\ chat[v] # 0 => chat[v] # chat[w]

\* The numbers and ids in the tables were given out.
MarksGiven == \A r \in db : (r.table = "message" => r.text < calls) /\ (InChat(r) => r.chat # 0)

AnswerInv ==
  /\ \A w \in Workers : Result(w) /\ Marked(w)
  /\ MarksApart
  /\ MarksGiven

\* An operation that nothing happens to keeps its marks, and with the tables as
\* they were its result.
LEMMA MarkedKept ==
  ASSUME TypeOK, TypeOK', NEW w \in Workers, Marked(w), Result(w), Still(w),
         calls <= calls', nextChat <= nextChat'
  PROVE  Marked(w)' /\ (db' = db => Result(w)')
<1>1. /\ req'[w] = req[w] /\ pc'[w] = pc[w] /\ chat'[w] = chat[w] /\ outcome'[w] = outcome[w]
  BY DEF Still
<1>2. Creating(w)' <=> Creating(w)
  BY <1>1 DEF Creating, Committing
<1>3. calls \in Nat /\ calls' \in Nat /\ nextChat \in Nat /\ nextChat' \in Nat /\ chat[w] \in Nat
  BY MaxCallsAssumption DEF TypeOK
<1>4. req[w].n \in Nat
  BY DEF TypeOK, Request, NoRequest
<1>5. Marked(w)'
  BY <1>1, <1>2, <1>3, <1>4 DEF Marked
<1>6. ASSUME db' = db PROVE Result(w)'
  BY <1>1, <1>6 DEF Result, NothingStored, Requested
<1> QED
  BY <1>5, <1>6

\* A step of w's operation that leaves the tables alone.
LEMMA AnswerLocal ==
  ASSUME IInv, AnswerInv, TypeOK', NEW w \in Workers, db' = db, calls <= calls', nextChat <= nextChat',
         \A x \in Workers : x # w => Still(x),
         Result(w)', Marked(w)',
         pc'[w] # "idle" => req'[w].n = calls \/ (pc[w] # "idle" /\ req'[w].n = req[w].n),
         chat'[w] \in {0, chat[w], nextChat}
  PROVE  AnswerInv'
<1>1. TypeOK
  BY DEF IInv
<1>2. calls \in Nat /\ calls' \in Nat /\ nextChat \in Nat /\ nextChat' \in Nat
  BY <1>1, MaxCallsAssumption DEF TypeOK
<1>3. ASSUME NEW x \in Workers, x # w PROVE Result(x)' /\ Marked(x)'
  BY <1>1, <1>3, MarkedKept DEF AnswerInv
<1>4. ASSUME NEW x \in Workers, x # w PROVE
        /\ pc'[x] # "idle" /\ pc'[w] # "idle" => req'[x].n # req'[w].n
        /\ chat'[x] # 0 => chat'[x] # chat'[w]
        /\ chat'[w] # 0 => chat'[w] # chat'[x]
  <2>1. /\ pc'[x] = pc[x] /\ req'[x] = req[x] /\ chat'[x] = chat[x]
    BY <1>4 DEF Still
  <2>2. (pc[x] # "idle" => req[x].n < calls) /\ chat[x] < nextChat /\ req[x].n \in Nat /\ chat[x] \in Nat
    BY <1>1 DEF AnswerInv, Marked, TypeOK, Request, NoRequest
  <2>3. /\ pc[x] # "idle" /\ pc[w] # "idle" => req[x].n # req[w].n
        /\ chat[x] # 0 => chat[x] # chat[w]
    BY <1>4 DEF AnswerInv, MarksApart
  <2> QED
    BY <1>2, <2>1, <2>2, <2>3
<1>5. ASSUME NEW x \in Workers, NEW y \in Workers, x # y PROVE
        /\ pc'[x] # "idle" /\ pc'[y] # "idle" => req'[x].n # req'[y].n
        /\ chat'[x] # 0 => chat'[x] # chat'[y]
  <2>1. CASE x = w \/ y = w
    BY <1>4, <1>5, <2>1
  <2>2. CASE x # w /\ y # w
    BY <1>5, <2>2 DEF AnswerInv, MarksApart, Still
  <2> QED
    BY <2>1, <2>2
<1>6. MarksGiven'
  BY <1>1, <1>2 DEF AnswerInv, MarksGiven, TypeOK, Row
<1> QED
  BY <1>3, <1>5, <1>6 DEF AnswerInv, MarksApart

\* A statement after which the operation goes on, or ends with an answer that
\* its request has not been stored.
LEMMA OpenStep ==
  ASSUME IInv, AnswerInv, TypeOK', NEW w \in Workers, pc[w] \notin {"idle", "done"},
         pc'[w] # "idle", UNCHANGED <<db, calls, nextChat, req, chat>>,
         \A x \in Workers : x # w => Still(x),
         Creating(w)' => Creating(w),
         pc'[w] \in {"check", "create"} => pc[w] \in {"check", "create"},
         pc'[w] = "done" =>
           \/ outcome'[w] = "ok" /\ req[w].op = "login"
           \/ outcome'[w] = "error"
           \/ outcome'[w] = "no" /\ (req[w].op = "registration" => Client(req[w].user) \in db)
  PROVE  AnswerInv'
<1>1. TypeOK /\ Marked(w) /\ Result(w) /\ NothingStored(w)
  BY DEF IInv, AnswerInv, Result
<1>2. calls \in Nat /\ nextChat \in Nat
  BY <1>1, MaxCallsAssumption DEF TypeOK
<1>3. NothingStored(w)'
  BY <1>1 DEF NothingStored
<1>4. ASSUME outcome'[w] = "ok", req[w].op = "login" PROVE Requested(w)' \subseteq db'
  BY <1>4 DEF Requested
<1>5. ASSUME req[w].op = "registration", Client(req[w].user) \in db PROVE Requested(w)' \subseteq db'
  BY <1>5 DEF Requested
<1>6. Result(w)'
  BY <1>3, <1>4, <1>5 DEF Result
<1>7. Marked(w)'
  BY <1>1 DEF Marked
<1> QED
  BY <1>2, <1>6, <1>7, AnswerLocal

\* An operation that fails before its commit has stored nothing.
LEMMA AnswerFail ==
  ASSUME IInv, AnswerInv, TypeOK', NEW w \in Workers, NEW how \in {"no", "error"}, Fail(w, how),
         how = "no" /\ req[w].op = "registration" => Client(req[w].user) \in db
  PROVE  AnswerInv'
<1>1. TypeOK
  BY DEF IInv
<1>2. /\ pc[w] \notin {"idle", "done"} /\ pc'[w] = "done" /\ outcome'[w] = how
      /\ UNCHANGED <<db, calls, nextChat, req, chat>>
  BY <1>1 DEF Fail, Goto, TypeOK
<1>3. \A x \in Workers : x # w => Still(x)
  BY <1>1 DEF Fail, Goto, TypeOK, Still
<1>4. ~Creating(w)'
  BY <1>2 DEF Creating, Committing
<1> QED
  BY <1>2, <1>3, <1>4, OpenStep

\* A statement that does not end the operation and gives it no id.
LEMMA AnswerOn ==
  ASSUME IInv, AnswerInv, TypeOK', NEW w \in Workers, NEW next, Goto(w, next),
         pc[w] \notin {"idle", "done"}, next \notin {"idle", "done", "check"},
         next = "create" => pc[w] = "check",
         next \in {"info", "connect1", "connect2"} => Creating(w),
         next = "commit" /\ req[w].op = "create_chat" => Creating(w),
         UNCHANGED <<db, calls, nextChat, req, chat, outcome, seen>>,
         \A x \in Workers \ {w} : own'[x] = own[x] /\ got'[x] = got[x]
  PROVE  AnswerInv'
<1>1. TypeOK /\ pc'[w] = next
  BY DEF IInv, Goto, TypeOK
<1>2. \A x \in Workers : x # w => Still(x)
  BY <1>1 DEF Goto, TypeOK, Still
<1>3. Creating(w)' => Creating(w)
  BY <1>1 DEF Creating, Committing
<1> QED
  BY <1>1, <1>2, <1>3, OpenStep

\* An insert, done or waiting for the next.
LEMMA AnswerInsert ==
  ASSUME IInv, AnswerInv, TypeOK', NEW w \in Workers,
         \/ Registration(w) \/ SendMessage(w) \/ AddContact1(w) \/ AddContact2(w)
         \/ ConnectUser(w) \/ ConnectFriend(w)
  PROVE  AnswerInv'
<1>1. TypeOK /\ PlaceInv(w) /\ own[w] = Inserted(w)
  BY DEF IInv, WorkerInv, OwnInv
<1>2. ASSUME NEW row, NEW next \in {"commit", "add2", "connect2"}, Insert(w, row, next),
             pc[w] \notin {"idle", "done"}, UNCHANGED <<nextChat, chat>>,
             next = "connect2" => Creating(w),
             next = "commit" /\ req[w].op = "create_chat" => Creating(w)
      PROVE  AnswerInv'
  <2>1. \A x \in Workers \ {w} : own'[x] = own[x] /\ got'[x] = got[x]
    BY <1>1, <1>2 DEF Insert, TypeOK
  <2> QED
    BY <1>2, <2>1, AnswerOn DEF Insert
<1>3. CASE Registration(w)
  <2>1. own[w] = {} /\ Visible(w) = db
    BY <1>1, <1>3 DEF Registration, Inserted, Committing, Visible
  <2>2. CASE Fail(w, "no") /\ Client(req[w].user) \in db
    BY <2>2, AnswerFail
  <2> QED
    BY <1>2, <1>3, <2>1, <2>2 DEF Registration, InsertUnique
<1>4. CASE AddContact1(w)
  <2>1. req[w].op = "add_contact"
    BY <1>1, <1>4 DEF AddContact1, PlaceInv
  <2> QED
    BY <1>2, <1>4, <2>1, AnswerFail DEF AddContact1, InsertUnique
<1>5. CASE AddContact2(w)
  <2>1. req[w].op = "add_contact"
    BY <1>1, <1>5 DEF AddContact2, PlaceInv
  <2> QED
    BY <1>2, <1>5, <2>1, AnswerFail DEF AddContact2, InsertUnique
<1>6. CASE SendMessage(w)
  BY <1>2, <1>6 DEF SendMessage
<1>7. CASE ConnectUser(w)
  BY <1>2, <1>7 DEF ConnectUser, Creating
<1>8. CASE ConnectFriend(w)
  BY <1>2, <1>8 DEF ConnectFriend, Creating
<1> QED
  BY <1>3, <1>4, <1>5, <1>6, <1>7, <1>8

\* A statement that reads.
LEMMA AnswerRead ==
  ASSUME IInv, AnswerInv, TypeOK', NEW w \in Workers,
         \/ CanWrite(w) \/ LookupContact(w) \/ CheckCommonChat(w) \/ FriendInfo(w)
         \/ Login(w) \/ GetChats(w) \/ GetContacts(w) \/ GetMessages(w)
  PROVE  AnswerInv'
<1>1. TypeOK /\ PlaceInv(w)
  BY DEF IInv, WorkerInv
<1>2. ASSUME Fail(w, "no"), req[w].op # "registration" PROVE AnswerInv'
  BY <1>2, AnswerFail
<1>3. ASSUME NEW next, Goto(w, next),
             \/ pc[w] = "can_write" /\ next = "insert"
             \/ pc[w] = "lookup" /\ next = "add1"
             \/ pc[w] = "check" /\ next = "create"
             \/ pc[w] = "info" /\ next = "connect1",
             UNCHANGED <<db, nextChat, calls, req, own, chat, got, outcome, acked, seen>>
      PROVE  AnswerInv'
  BY <1>3, AnswerOn DEF Creating
<1>4. CASE CanWrite(w)
  BY <1>1, <1>2, <1>3, <1>4 DEF CanWrite, PlaceInv
<1>5. CASE LookupContact(w)
  BY <1>1, <1>2, <1>3, <1>5 DEF LookupContact, PlaceInv
<1>6. CASE CheckCommonChat(w)
  BY <1>1, <1>2, <1>3, <1>6 DEF CheckCommonChat, PlaceInv
<1>7. CASE FriendInfo(w)
  BY <1>1, <1>2, <1>3, <1>7 DEF FriendInfo, PlaceInv
<1>8. CASE Login(w)
  <2>1. pc[w] = "select" /\ req[w].op = "login"
    BY <1>8 DEF Login
  <2>2. CASE ~Fail(w, "no")
    <3>1. /\ pc'[w] = "done" /\ outcome'[w] = "ok"
          /\ UNCHANGED <<db, calls, nextChat, req, chat>>
      BY <1>1, <1>8, <2>2 DEF Login, Goto, TypeOK
    <3>2. \A x \in Workers : x # w => Still(x)
      BY <1>1, <1>8, <2>2 DEF Login, Goto, TypeOK, Still
    <3>3. ~Creating(w)'
      BY <3>1 DEF Creating, Committing
    <3> QED
      BY <2>1, <3>1, <3>2, <3>3, OpenStep
  <2> QED
    BY <1>2, <2>1, <2>2
<1>9. ASSUME NEW op \in {"get_chats", "get_contacts", "get_messages"}, Query(w, op) PROVE AnswerInv'
  <2>1. \A x \in Workers \ {w} : own'[x] = own[x] /\ got'[x] = got[x]
    BY <1>1, <1>9 DEF Query, TypeOK
  <2> QED
    BY <1>9, <2>1, AnswerOn DEF Query
<1> QED
  BY <1>4, <1>5, <1>6, <1>7, <1>8, <1>9 DEF GetChats, GetContacts, GetMessages

\* A call gets the next number.
LEMMA AnswerBegin ==
  ASSUME IInv, AnswerInv, TypeOK', NEW w \in Workers, NEW op \in Ops, NEW u \in Users,
         NEW v \in UserOrNone, NEW c \in Nat, Begin(w, op, u, v, c)
  PROVE  AnswerInv'
<1>1. TypeOK /\ Marked(w) /\ MarksGiven /\ pc[w] = "idle" /\ chat[w] = 0
  BY DEF IInv, AnswerInv, Marked, Begin
<1>2. calls \in Nat /\ nextChat \in Nat /\ calls' = calls + 1 /\ 0 < nextChat
  BY <1>1, MaxCallsAssumption DEF TypeOK, Begin
<1>3. /\ pc'[w] = FirstStatement[op] /\ req'[w].n = calls /\ req'[w].op = op
      /\ UNCHANGED <<db, nextChat, chat>>
  BY <1>1 DEF Begin, Goto, TypeOK
<1>4. op \in AllOps
  BY OpsAssumption
<1>5. pc'[w] \notin {"idle", "done", "commit", "info", "connect1", "connect2"}
  BY <1>3, <1>4, FirstStatements
<1>6. NothingStored(w)'
  <2>1. \A r \in db : r.table = "message" => r.text # calls
    BY <1>1, <1>2 DEF MarksGiven, TypeOK, Row
  <2>2. \A r \in db : InChat(r) => r.chat # 0
    BY <1>1 DEF MarksGiven
  <2> QED
    BY <1>1, <1>3, <2>1, <2>2 DEF NothingStored
<1>7. Result(w)'
  BY <1>5, <1>6 DEF Result
<1>8. Marked(w)'
  BY <1>1, <1>2, <1>3, <1>5 DEF Marked, Creating, Committing
<1>9. \A x \in Workers : x # w => Still(x)
  BY <1>1 DEF Begin, Goto, TypeOK, Still
<1> QED
  BY <1>1, <1>2, <1>3, <1>7, <1>8, <1>9, AnswerLocal

\* A return gives the number and the id up.
LEMMA AnswerReturn ==
  ASSUME IInv, AnswerInv, TypeOK', NEW w \in Workers, Return(w)
  PROVE  AnswerInv'
<1>1. TypeOK
  BY DEF IInv
<1>2. calls \in Nat /\ nextChat \in Nat \ {0}
  BY <1>1, MaxCallsAssumption DEF TypeOK
<1>3. pc'[w] = "idle" /\ chat'[w] = 0 /\ UNCHANGED <<db, calls, nextChat>>
  BY <1>1 DEF Return, Goto, TypeOK
<1>4. Result(w)' /\ Marked(w)'
  BY <1>2, <1>3 DEF Result, Marked, Creating, Committing
<1>5. \A x \in Workers : x # w => Still(x)
  BY <1>1 DEF Return, Goto, TypeOK, Still
<1> QED
  BY <1>2, <1>3, <1>4, <1>5, AnswerLocal

\* The serial gives an id that no row and no call has.
LEMMA AnswerCreate ==
  ASSUME IInv, AnswerInv, TypeOK', NEW w \in Workers, CreateChat(w)
  PROVE  AnswerInv'
<1>1. TypeOK /\ IdsGiven /\ PlaceInv(w) /\ Marked(w) /\ pc[w] = "create"
  BY DEF IInv, WorkerInv, AnswerInv, CreateChat
<1>2. calls \in Nat /\ nextChat \in Nat /\ nextChat # 0
  BY <1>1, MaxCallsAssumption DEF TypeOK
<1>3. /\ pc'[w] = "info" /\ chat'[w] = nextChat /\ nextChat' = nextChat + 1
      /\ UNCHANGED <<db, calls, req>>
  BY <1>1 DEF CreateChat, Insert, Goto, TypeOK
<1>4. req[w].op = "create_chat"
  BY <1>1 DEF PlaceInv
<1>5. NothingStored(w)'
  <2>1. \A r \in db : InChat(r) => r.chat # nextChat
    BY <1>1, <1>2 DEF IdsGiven, TypeOK, Row
  <2> QED
    BY <1>3, <1>4, <2>1 DEF NothingStored
<1>6. Result(w)' /\ Marked(w)'
  BY <1>1, <1>2, <1>3, <1>4, <1>5 DEF Result, Marked
<1>7. \A x \in Workers : x # w => Still(x)
  BY <1>1 DEF CreateChat, Insert, Goto, TypeOK, Still
<1> QED
  BY <1>1, <1>2, <1>3, <1>6, <1>7, AnswerLocal

\* A commit stores exactly what was asked for, under w's own number or id.
LEMMA AnswerCommit ==
  ASSUME IInv, AnswerInv, TypeOK', NEW w \in Workers, pc[w] = "commit", Goto(w, "done"),
         NEW how \in {"ok", "error"}, db' = db \cup own[w],
         own' = [own EXCEPT ![w] = {}], outcome' = [outcome EXCEPT ![w] = how],
         UNCHANGED <<nextChat, calls, req, chat, got, seen>>
  PROVE  AnswerInv'
<1>1. /\ TypeOK /\ PlaceInv(w) /\ OwnInv(w) /\ Marked(w) /\ Result(w) /\ NothingStored(w)
      /\ MarksGiven /\ MarksApart /\ SendersAreMembers
  BY DEF IInv, WorkerInv, AnswerInv, Result
<1>2. own[w] = Requested(w)
  BY <1>1 DEF OwnInv, PlaceInv, Inserted, Committing, Requested, AllOps
<1>3. pc'[w] = "done" /\ outcome'[w] = how
  BY <1>1 DEF Goto, TypeOK
<1>4. Result(w)'
  <2>1. Requested(w)' = Requested(w)
    BY DEF Requested
  <2> QED
    BY <1>2, <1>3, <2>1 DEF Result
<1>5. Marked(w)'
  BY <1>1, <1>3 DEF Marked, Creating, Committing
\* The rows carry the number or the id of w's call, or a chat that is there.
<1>6. ASSUME NEW r \in own[w] PROVE
        /\ r.table = "message" => r.text = req[w].n
        /\ InChat(r) => (Creating(w) /\ r.chat = chat[w]) \/ \E m \in db : InChat(m) /\ m.chat = r.chat
  <2>1. CASE req[w].op = "send_message"
    <3>1. r = Message(req[w].chat, req[w].user, req[w].n) /\ req[w].chat \in ChatsOf(db, req[w].user)
      BY <1>1, <1>2, <1>6, <2>1 DEF Requested, OwnInv
    <3>2. PICK m \in db : m.table = "member" /\ m.chat = req[w].chat
      BY <3>1 DEF ChatsOf
    <3> QED
      BY <3>1, <3>2, RowFields DEF InChat
  <2>2. CASE req[w].op = "create_chat"
    <3>1. Creating(w)
      BY <2>2 DEF Creating, Committing
    <3>2. r.table # "message" /\ r.chat = chat[w]
      BY <1>2, <1>6, <2>2 DEF Requested, Chat, Member
    <3> QED
      BY <3>1, <3>2
  <2>3. CASE req[w].op \notin {"send_message", "create_chat"}
    <3>1. r.table \in {"client", "contact"}
      BY <1>2, <1>6, <2>3 DEF Requested, Client, Contact
    <3> QED
      BY <3>1 DEF InChat
  <2> QED
    BY <2>1, <2>2, <2>3
<1>7. MarksGiven'
  <2> SUFFICES ASSUME NEW r \in db' PROVE
                 (r.table = "message" => r.text < calls) /\ (InChat(r) => r.chat # 0)
    BY DEF MarksGiven
  <2>1. CASE r \in db
    BY <1>1, <2>1 DEF MarksGiven
  <2>2. CASE r \in own[w]
    BY <1>1, <1>6, <2>2 DEF MarksGiven, Marked
  <2> QED
    BY <2>1, <2>2
<1>8. \A x \in Workers : x # w => Still(x)
  BY <1>1 DEF Goto, TypeOK, Still
<1>9. ASSUME NEW x \in Workers, x # w PROVE Result(x)' /\ Marked(x)'
  <2>1. /\ req'[x] = req[x] /\ pc'[x] = pc[x] /\ chat'[x] = chat[x] /\ outcome'[x] = outcome[x]
    BY <1>8, <1>9 DEF Still
  <2>2. Marked(x) /\ Result(x)
    BY DEF AnswerInv
  <2>3. calls <= calls' /\ nextChat <= nextChat'
    BY <1>1, MaxCallsAssumption DEF TypeOK
  <2>4. Marked(x)'
    BY <1>1, <1>8, <1>9, <2>2, <2>3, MarkedKept
  <2>5. ASSUME pc[x] # "idle", NothingStored(x) PROVE NothingStored(x)'
    <3>1. req[x].n # req[w].n /\ (chat[w] # 0 => chat[w] # chat[x])
      BY <1>1, <1>9, <2>5 DEF MarksApart
    <3>2. Creating(w) => chat[w] # chat[x]
      BY <1>1, <3>1 DEF Marked
    <3>3. ASSUME req[x].op = "send_message", NEW r \in db', r.table = "message" PROVE r.text # req[x].n
      BY <1>6, <2>5, <3>1, <3>3 DEF NothingStored
    <3>4. ASSUME req[x].op = "create_chat", NEW r \in db', InChat(r) PROVE r.chat # chat[x]
      <4>1. \A m \in db : InChat(m) => m.chat # chat[x]
        BY <2>5, <3>4 DEF NothingStored
      <4> QED
        BY <1>6, <3>2, <3>4, <4>1
    <3> QED
      BY <2>1, <3>3, <3>4 DEF NothingStored
  <2>6. Requested(x)' = Requested(x)
    BY <2>1 DEF Requested
  <2>7. Result(x)'
    BY <2>1, <2>2, <2>5, <2>6 DEF Result
  <2> QED
    BY <2>4, <2>7
<1>10. MarksApart'
  <2>1. \A x \in Workers : req'[x] = req[x] /\ chat'[x] = chat[x] /\ (pc'[x] # "idle" => pc[x] # "idle")
    BY <1>1, <1>3, <1>8 DEF Still
  <2> QED
    BY <1>1, <2>1 DEF MarksApart
<1> QED
  BY <1>4, <1>5, <1>7, <1>9, <1>10 DEF AnswerInv

\* Every statement keeps the answers true.
LEMMA AnswerStep == IInv /\ AnswerInv /\ [Next]_vars => AnswerInv'
<1> SUFFICES ASSUME IInv, AnswerInv, [Next]_vars PROVE AnswerInv'
  OBVIOUS
<1>1. TypeOK'
  BY TypeStep DEF IInv
<1>2. ASSUME NEW w \in Workers, Call(w) PROVE AnswerInv'
  <2>1. NoUser \in UserOrNone /\ Users \subseteq UserOrNone /\ ChatIds \subseteq Nat /\ 0 \in Nat
    BY DEF UserOrNone, ChatIds, IInv, TypeOK
  <2> QED
    BY <1>1, <1>2, <2>1, AnswerBegin DEF Call
<1>3. ASSUME NEW w \in Workers, Fail(w, "error") PROVE AnswerInv'
  BY <1>1, <1>3, AnswerFail
<1>4. ASSUME NEW w \in Workers, Commit(w) PROVE AnswerInv'
  BY <1>1, <1>4, AnswerCommit DEF Commit
<1>5. ASSUME NEW w \in Workers, ConnectionLost(w) \/ DeadlockAbort(w) PROVE AnswerInv'
  BY <1>1, <1>3, <1>5, AnswerCommit DEF ConnectionLost, DeadlockAbort
<1>6. ASSUME NEW w \in Workers, Step(w) PROVE AnswerInv'
  BY <1>1, <1>4, <1>6, AnswerInsert, AnswerRead, AnswerCreate, AnswerReturn DEF Step
<1>7. ASSUME UNCHANGED vars PROVE AnswerInv'
  <2>1. \A w \in Workers : Still(w)
    BY <1>7 DEF vars, Still
  <2>2. calls <= calls' /\ nextChat <= nextChat'
    BY <1>7, MaxCallsAssumption DEF vars, IInv, TypeOK
  <2>3. \A w \in Workers : Result(w)' /\ Marked(w)'
    BY <1>1, <1>7, <2>1, <2>2, MarkedKept DEF vars, IInv, AnswerInv
  <2>4. MarksApart' /\ MarksGiven'
    BY <1>7 DEF vars, AnswerInv, MarksApart, MarksGiven
  <2> QED
    BY <2>3, <2>4 DEF AnswerInv
<1> QED
  BY <1>2, <1>5, <1>6, <1>7 DEF Next

\* Before the first call there is nothing to answer for.
LEMMA AnswerInit == Init => AnswerInv
<1> SUFFICES ASSUME Init PROVE AnswerInv
  OBVIOUS
<1>1. \A r \in db : r.table = "client"
  BY DEF Init, Client
<1>2. ASSUME NEW w \in Workers PROVE Result(w) /\ Marked(w)
  BY DEF Init, Result, Marked, Creating, Committing
<1>3. MarksApart /\ MarksGiven
  BY <1>1 DEF Init, MarksApart, MarksGiven, InChat
<1> QED
  BY <1>2, <1>3 DEF AnswerInv

\* What the marks and the results say of an answer.  That a failed add_contact
\* has left both rows or none is the contacts' being mutual.
LEMMA AnswerTrue == IInv /\ AnswerInv => AnswersAreTrue
<1> SUFFICES ASSUME IInv, AnswerInv, NEW w \in Workers, pc[w] = "done"
             PROVE  /\ outcome[w] = "ok" => Requested(w) \subseteq db
                    /\ outcome[w] = "no" /\ req[w].op \in {"send_message", "create_chat"} =>
                         Requested(w) \cap db = {}
                    /\ outcome[w] = "no" /\ req[w].op = "registration" => Requested(w) \subseteq db
                    /\ outcome[w] = "error" => Requested(w) \subseteq db \/ Requested(w) \cap db = {}
  BY DEF AnswersAreTrue
<1>1. Result(w) /\ PlaceInv(w)
  BY DEF IInv, WorkerInv, AnswerInv
<1>2. ASSUME NothingStored(w), req[w].op = "send_message" PROVE Requested(w) \cap db = {}
  BY <1>2, RowFields DEF Requested, NothingStored
<1>3. ASSUME NothingStored(w), req[w].op = "create_chat" PROVE Requested(w) \cap db = {}
  <2>1. \A r \in Requested(w) : InChat(r) /\ r.chat = chat[w]
    BY <1>3 DEF Requested, Chat, Member, InChat
  <2> QED
    BY <1>3, <2>1 DEF NothingStored
<1>4. ASSUME req[w].op = "add_contact" PROVE Requested(w) \subseteq db \/ Requested(w) \cap db = {}
  <2>1. req[w].user \in Users /\ req[w].whom \in Users
    BY <1>1, <1>4 DEF PlaceInv
  <2>2. Contact(req[w].user, req[w].whom) \in db <=> Contact(req[w].whom, req[w].user) \in db
    BY <2>1 DEF IInv, ContactsAreMutual
  <2> QED
    BY <1>4, <2>2 DEF Requested
<1>5. ASSUME req[w].op \notin {"add_contact", "create_chat", "send_message"}
      PROVE  Requested(w) \subseteq db \/ Requested(w) \cap db = {}
  BY <1>5 DEF Requested
<1> QED
  BY <1>1, <1>2, <1>3, <1>4, <1>5 DEF Result

\* What an operation reports is true of the tables, for every interleaving of
\* statements, every failure and every lost COMMIT answer.
THEOREM TrueAnswers == Spec => []AnswersAreTrue
  BY Invariant, AnswerInit, AnswerStep, AnswerTrue, PTL DEF Spec

-----------------------------------------------------------------------------
(* The other properties follow from IInv. *)

\* The tables and the members of an operation keep their types.
THEOREM TypeCorrect == Spec => []TypeOK
<1>1. IInv => TypeOK
  BY DEF IInv
<1> QED
  BY <1>1, Invariant, PTL

\* add_contact in any interleaving with any other operations, failures and
\* lost answers leaves contacts mutual.
THEOREM MutualContacts == Spec => []ContactsAreMutual
<1>1. IInv => ContactsAreMutual
  BY DEF IInv
<1> QED
  BY <1>1, Invariant, PTL

\* create_chat is all or nothing, and no two of its calls share a chat id.
THEOREM CompleteChats == Spec => []ChatsAreComplete
<1>1. IInv => ChatsAreComplete
  BY DEF IInv
<1> QED
  BY <1>1, Invariant, PTL

\* What can_write saw is still so when send_message commits.
THEOREM MembersWrite == Spec => []SendersAreMembers
<1>1. IInv => SendersAreMembers
  BY DEF IInv
<1> QED
  BY <1>1, Invariant, PTL

\* A query shows what was accepted before it began, over any connection.
THEOREM ReadYourWrites == Spec => []ReadsSeeAccepted
<1>1. IInv => ReadsSeeAccepted
  BY DEF IInv, WorkerInv, ReadInv, Relevant, ReadsSeeAccepted
<1> QED
  BY <1>1, Invariant, PTL

\* add_contact is refused for no reason but the ones a user can see.  That the
\* second insert is never refused alone needs the contacts to be mutual.
THEOREM RefusalHasReason == Spec => AddContactRefusal
<1> DEFINE Reason(w) == LET u == req[w].user
                            v == req[w].whom
                        IN v \notin Clients \/ Contact(u, v) \in db \/ u = v
           Refused(w) == req[w].op = "add_contact" /\ outcome[w] = "pending" /\ outcome'[w] = "no"
<1>1. IInv /\ [Next]_vars => [\A w \in Workers : Refused(w) => Reason(w)]_vars
  <2> SUFFICES ASSUME IInv, [Next]_vars, NEW w \in Workers, Refused(w) PROVE Reason(w)
    OBVIOUS
  <2> USE DEF IInv
  <2>1. ASSUME outcome'[w] = outcome[w] \/ outcome'[w] \in {"ok", "error", "pending"} PROVE FALSE
    BY <2>1
  <2>2. ASSUME NEW x \in Workers, NEW how, Fail(x, how) PROVE x = w /\ how = "no"
    BY <2>1, <2>2 DEF Fail, TypeOK
  <2>3. PlaceInv(w) /\ own[w] = Inserted(w) /\ Visible(w) = db \cup Inserted(w)
    BY DEF WorkerInv, OwnInv, Visible
  <2>4. ASSUME NEW x \in Workers, LookupContact(x) PROVE Reason(w)
    BY <2>1, <2>2, <2>4 DEF LookupContact
  <2>5. ASSUME NEW x \in Workers, AddContact1(x) PROVE Reason(w)
    <3>1. Fail(x, "no") /\ Contact(req[x].user, req[x].whom) \in Visible(x)
      BY <2>1, <2>5 DEF AddContact1, InsertUnique, Insert
    <3>2. x = w /\ Inserted(w) = {}
      BY <2>2, <2>5, <3>1 DEF AddContact1, Inserted, Committing
    <3> QED
      BY <2>3, <3>1, <3>2
  <2>6. ASSUME NEW x \in Workers, AddContact2(x) PROVE Reason(w)
    <3>1. Fail(x, "no") /\ Contact(req[x].whom, req[x].user) \in Visible(x)
      BY <2>1, <2>6 DEF AddContact2, InsertUnique, Insert
    <3>2. x = w /\ Inserted(w) = {Contact(req[w].user, req[w].whom)}
      BY <2>2, <2>6, <3>1 DEF AddContact2, Inserted, Committing
    <3>3. req[w].user \in Users /\ req[w].whom \in Users
      BY <2>3, <2>6, <3>2 DEF PlaceInv, AddContact2
    <3>4. CASE Contact(req[w].whom, req[w].user) \in db
      BY <3>3, <3>4 DEF ContactsAreMutual
    <3>5. CASE Contact(req[w].whom, req[w].user) = Contact(req[w].user, req[w].whom)
      BY <3>5, RowFields
    <3> QED
      BY <2>3, <3>1, <3>2, <3>4, <3>5
  \* No other statement refuses an add_contact.
  <2>7. ASSUME NEW x \in Workers,
               Registration(x) \/ Login(x) \/ CanWrite(x) \/ CheckCommonChat(x) \/ FriendInfo(x)
        PROVE  FALSE
    <3>1. ASSUME Fail(x, "no") PROVE x = w
      BY <2>2, <3>1
    <3>2. CASE Registration(x)
      BY <2>1, <3>1, <3>2 DEF Registration, InsertUnique, Insert
    <3>3. CASE Login(x)
      <4>1. CASE Fail(x, "no")
        BY <3>1, <3>3, <4>1 DEF Login
      <4>2. CASE ~Fail(x, "no")
        <5>1. outcome' = [outcome EXCEPT ![x] = "ok"]
          BY <3>3, <4>2 DEF Login
        <5> QED
          BY <2>1, <5>1 DEF TypeOK
      <4> QED
        BY <4>1, <4>2
    <3>4. CASE CanWrite(x)
      BY <2>1, <2>3, <3>1, <3>4 DEF CanWrite, PlaceInv
    <3>5. CASE CheckCommonChat(x)
      BY <2>1, <2>3, <3>1, <3>5 DEF CheckCommonChat, PlaceInv
    <3>6. CASE FriendInfo(x)
      BY <2>1, <2>3, <3>1, <3>6 DEF FriendInfo, PlaceInv
    <3> QED
      BY <2>7, <3>2, <3>3, <3>4, <3>5, <3>6
  <2>8. ASSUME NEW x \in Workers, Commit(x) \/ Return(x) \/ ConnectionLost(x) \/ DeadlockAbort(x)
        PROVE  FALSE
    <3>1. CASE \E how \in {"ok", "error", "pending"} : outcome' = [outcome EXCEPT ![x] = how]
      BY <2>1, <3>1 DEF TypeOK
    <3> QED
      BY <2>8, <3>1 DEF Commit, Return, ConnectionLost, DeadlockAbort, Fail
  <2>9. ASSUME NEW x \in Workers,
               \/ SendMessage(x) \/ CreateChat(x) \/ ConnectUser(x) \/ ConnectFriend(x)
               \/ GetChats(x) \/ GetContacts(x) \/ GetMessages(x)
        PROVE  FALSE
    BY <2>1, <2>9 DEF SendMessage, CreateChat, ConnectUser, ConnectFriend, Insert,
                      GetChats, GetContacts, GetMessages, Query
  <2>10. ASSUME NEW x \in Workers, Call(x) PROVE FALSE
    BY <2>1, <2>10 DEF Call, Begin
  <2>11. ASSUME UNCHANGED vars PROVE FALSE
    BY <2>1, <2>11 DEF vars
  <2>12. ASSUME NEW x \in Workers, Step(x) PROVE Reason(w)
    BY <2>4, <2>5, <2>6, <2>7, <2>8, <2>9, <2>12 DEF Step
  <2> QED
    BY <2>8, <2>10, <2>11, <2>12 DEF Next
<1> QED
  BY <1>1, Invariant, PTL DEF Spec, AddContactRefusal
=============================================================================
