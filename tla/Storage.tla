------------------------------- MODULE Storage -------------------------------
(***************************************************************************)
(* PostgresStorageConnection (storage/postgresql_storage.cpp) against a    *)
(* PostgreSQL server.  Every session has its own connection and a worker   *)
(* of the pool calls one operation at a time, so as many transactions run  *)
(* side by side as there are workers.  An operation is modelled statement  *)
(* by statement.                                                           *)
(*                                                                         *)
(* The database is external and modelled as the code uses it: pqxx::work   *)
(* is a READ COMMITTED transaction, so a statement sees what is committed  *)
(* when it runs and the transaction's own rows; inserting a key of a       *)
(* unique index waits for an uncommitted insert of the same key, and then  *)
(* fails if that one committed; when transactions wait for each other one  *)
(* of them is made to fail; rows are never updated or deleted.             *)
(*                                                                         *)
(* A client row stands for its id, name and email; a member row carries    *)
(* the name its title mentions ("Chat with ...").  Tables are sets of      *)
(* rows, so the two equal rows of a chat with oneself are one.             *)
(***************************************************************************)
EXTENDS Integers, FiniteSets

CONSTANTS Users,       \* clients, by email
          Registered,  \* the clients that exist initially
          Workers,     \* threads that call the storage
          Ops,         \* operations the sessions ask for
          MaxCalls,    \* bound: operations begun
          NoUser

AllOps == {"registration", "login", "send_message", "add_contact", "create_chat",
           "get_chats", "get_contacts", "get_messages"}

ASSUME RegisteredAssumption == Registered \subseteq Users
ASSUME OpsAssumption == Ops \subseteq AllOps
ASSUME MaxCallsAssumption == MaxCalls \in Nat
ASSUME NoUserAssumption == NoUser \notin Users

VARIABLES
  db,        \* committed rows
  nextChat,  \* the SERIAL of Chat.id, not rolled back
  calls,     \* number of operations begun
  req,       \* the operation a worker executes
  pc,        \* the statement it is about to execute
  own,       \* rows its transaction has inserted
  chat,      \* create_chat's chat_id
  got,       \* the rows a query returned
  outcome,   \* how the operation ended
  acked,     \* ghost: rows of the operations that returned true
  seen       \* ghost: acked when the worker's operation began

vars == <<db, nextChat, calls, req, pc, own, chat, got, outcome, acked, seen>>

UserOrNone == Users \cup {NoUser}
Row == [table : {"client", "contact", "chat", "member", "message"},
        chat : Nat, who : UserOrNone, whom : UserOrNone, text : Nat]
Client(u) == [table |-> "client", chat |-> 0, who |-> u, whom |-> NoUser, text |-> 0]
Contact(u, v) == [table |-> "contact", chat |-> 0, who |-> u, whom |-> v, text |-> 0]
Chat(c) == [table |-> "chat", chat |-> c, who |-> NoUser, whom |-> NoUser, text |-> 0]
Member(c, u, v) == [table |-> "member", chat |-> c, who |-> u, whom |-> v, text |-> 0]
Message(c, u, n) == [table |-> "message", chat |-> c, who |-> u, whom |-> NoUser, text |-> n]

Request == [op : Ops, user : UserOrNone, whom : UserOrNone, chat : Nat, n : Nat]
NoRequest == [op |-> "none", user |-> NoUser, whom |-> NoUser, chat |-> 0, n |-> 0]
Statements == {"idle", "insert", "select", "can_write", "lookup", "add1", "add2",
               "check", "create", "info", "connect1", "connect2", "commit", "done"}

Clients == {u \in Users : Client(u) \in db}
ChatsOf(rows, u) == {r.chat : r \in {m \in rows : m.table = "member" /\ m.who = u}}

Init ==
  /\ db = {Client(u) : u \in Registered}
  /\ nextChat = 1
  /\ calls = 0
  /\ req = [w \in Workers |-> NoRequest]
  /\ pc = [w \in Workers |-> "idle"]
  /\ own = [w \in Workers |-> {}]
  /\ chat = [w \in Workers |-> 0]
  /\ got = [w \in Workers |-> {}]
  /\ outcome = [w \in Workers |-> "pending"]
  /\ acked = {}
  /\ seen = [w \in Workers |-> {}]

-----------------------------------------------------------------------------
(* The database. *)

\* What a statement of w's transaction sees.
Visible(w) == db \cup own[w]

Goto(w, s) == pc' = [pc EXCEPT ![w] = s]

\* A transaction that is never destroyed, so that its rows stay locked.
Fail_Leaked(w, how) ==
  /\ pc[w] \notin {"idle", "done"}
  /\ Goto(w, "done")
  /\ outcome' = [outcome EXCEPT ![w] = how]
  /\ UNCHANGED <<db, nextChat, calls, req, own, chat, got, acked, seen>>

\* The operation ends without a commit: pqxx::work's destructor rolls back.
\* "no" is an answer of the code or of a constraint, "error" a failure that
\* has nothing to do with the request; the caller gets false for both.
Fail(w, how) ==
  /\ pc[w] \notin {"idle", "done"}
  /\ Goto(w, "done")
  /\ own' = [own EXCEPT ![w] = {}]
  /\ outcome' = [outcome EXCEPT ![w] = how]
  /\ UNCHANGED <<db, nextChat, calls, req, chat, got, acked, seen>>

Insert(w, row, next) ==
  /\ own' = [own EXCEPT ![w] = @ \cup {row}]
  /\ Goto(w, next)
  /\ UNCHANGED <<db, calls, req, got, outcome, acked, seen>>

\* Inserting into a table with a unique index.
Blocked(w, row) == \E v \in Workers \ {w} : row \in own[v]
InsertUnique(w, row, next) ==
  /\ ~Blocked(w, row)
  /\ IF row \in Visible(w)
     THEN Fail(w, "no")
     ELSE Insert(w, row, next) /\ UNCHANGED <<nextChat, chat>>

\* The unique key a worker's next statement inserts, if it does.
PendingKey(w) ==
  CASE pc[w] = "insert" /\ req[w].op = "registration" -> {Client(req[w].user)}
    [] pc[w] = "add1" -> {Contact(req[w].user, req[w].whom)}
    [] pc[w] = "add2" -> {Contact(req[w].whom, req[w].user)}
    [] OTHER -> {}
WaitsFor(w, v) == v # w /\ PendingKey(w) \cap own[v] # {}

\* The deadlock detector fails one of two transactions that wait for each other.
DeadlockAbort(w) ==
  /\ \E v \in Workers : WaitsFor(w, v) /\ WaitsFor(v, w)
  /\ Fail(w, "error")

\* The connection breaks: nothing is committed, or the answer to a COMMIT that
\* was executed is lost.
ConnectionLost(w) ==
  \/ Fail(w, "error")
  \/ /\ pc[w] = "commit"
     /\ Goto(w, "done")
     /\ db' = db \cup own[w]
     /\ own' = [own EXCEPT ![w] = {}]
     /\ outcome' = [outcome EXCEPT ![w] = "error"]
     /\ UNCHANGED <<nextChat, calls, req, chat, got, acked, seen>>

-----------------------------------------------------------------------------
(* The operations. *)

\* A forgotten txn.commit().
Commit_Forgotten(w) ==
  /\ pc[w] = "commit"
  /\ Goto(w, "done")
  /\ own' = [own EXCEPT ![w] = {}]
  /\ acked' = acked \cup own[w]
  /\ outcome' = [outcome EXCEPT ![w] = "ok"]
  /\ UNCHANGED <<db, nextChat, calls, req, chat, got, seen>>

\* txn.commit() and the return of true (or of the rows read).
Commit(w) ==
  /\ pc[w] = "commit"
  /\ Goto(w, "done")
  /\ db' = db \cup own[w]
  /\ own' = [own EXCEPT ![w] = {}]
  /\ acked' = acked \cup own[w]
  /\ outcome' = [outcome EXCEPT ![w] = "ok"]
  /\ UNCHANGED <<nextChat, calls, req, chat, got, seen>>

FirstStatement == [registration |-> "insert", login |-> "select", send_message |-> "can_write",
                   add_contact |-> "lookup", create_chat |-> "check", get_chats |-> "select",
                   get_contacts |-> "select", get_messages |-> "select"]

\* A session that is logged in acts for a committed client; anyone may
\* register or log in.
Begin(w, op, u, v, c) ==
  /\ pc[w] = "idle"
  /\ calls < MaxCalls
  /\ calls' = calls + 1
  /\ op \in {"registration", "login"} \/ u \in Clients
  /\ req' = [req EXCEPT ![w] = [op |-> op, user |-> u, whom |-> v, chat |-> c, n |-> calls]]
  /\ Goto(w, FirstStatement[op])
  /\ seen' = [seen EXCEPT ![w] = acked]
  /\ UNCHANGED <<db, nextChat, own, chat, got, outcome, acked>>

Return(w) ==
  /\ pc[w] = "done"
  /\ Goto(w, "idle")
  /\ req' = [req EXCEPT ![w] = NoRequest]
  /\ chat' = [chat EXCEPT ![w] = 0]
  /\ got' = [got EXCEPT ![w] = {}]
  /\ outcome' = [outcome EXCEPT ![w] = "pending"]
  /\ seen' = [seen EXCEPT ![w] = {}]
  /\ UNCHANGED <<db, nextChat, calls, own, acked>>

Registration(w) ==
  /\ pc[w] = "insert" /\ req[w].op = "registration"
  /\ InsertUnique(w, Client(req[w].user), "commit")

\* The row of that email, and the password compared: a wrong password or an
\* unknown email throws invalid_argument.  The transaction is not committed.
Login(w) ==
  /\ pc[w] = "select" /\ req[w].op = "login"
  /\ \/ Fail(w, "no")
     \/ /\ req[w].user \in Clients
        /\ Goto(w, "done")
        /\ outcome' = [outcome EXCEPT ![w] = "ok"]
        /\ UNCHANGED <<db, nextChat, calls, req, own, chat, got, acked, seen>>

\* Without the membership check.
CanWrite_Unchecked(w) ==
  /\ pc[w] = "can_write"
  /\ Goto(w, "insert")
  /\ UNCHANGED <<db, nextChat, calls, req, own, chat, got, outcome, acked, seen>>

CanWrite(w) ==
  /\ pc[w] = "can_write"
  /\ IF req[w].chat \in ChatsOf(Visible(w), req[w].user)
     THEN /\ Goto(w, "insert")
          /\ UNCHANGED <<db, nextChat, calls, req, own, chat, got, outcome, acked, seen>>
     ELSE Fail(w, "no")

\* The two identifiers bound in the wrong order, which the types allow.
SendMessage_Swapped(w) ==
  /\ pc[w] = "insert" /\ req[w].op = "send_message"
  /\ Insert(w, Message(req[w].user, req[w].chat, req[w].n), "commit")
  /\ UNCHANGED <<nextChat, chat>>

SendMessage(w) ==
  /\ pc[w] = "insert" /\ req[w].op = "send_message"
  /\ Insert(w, Message(req[w].chat, req[w].user, req[w].n), "commit")
  /\ UNCHANGED <<nextChat, chat>>

LookupContact(w) ==
  /\ pc[w] = "lookup"
  /\ IF req[w].whom \in Clients
     THEN /\ Goto(w, "add1")
          /\ UNCHANGED <<db, nextChat, calls, req, own, chat, got, outcome, acked, seen>>
     ELSE Fail(w, "no")

\* Each direction committed in a transaction of its own.
AddContact1_Committed(w) ==
  LET row == Contact(req[w].user, req[w].whom) IN
  /\ pc[w] = "add1"
  /\ ~Blocked(w, row)
  /\ IF row \in Visible(w)
     THEN Fail(w, "no")
     ELSE /\ db' = db \cup {row}
          /\ Goto(w, "add2")
          /\ UNCHANGED <<nextChat, calls, req, own, chat, got, outcome, acked, seen>>

AddContact1(w) ==
  /\ pc[w] = "add1"
  /\ InsertUnique(w, Contact(req[w].user, req[w].whom), "add2")

\* The same direction inserted twice.
AddContact2_Unswapped(w) ==
  /\ pc[w] = "add2"
  /\ InsertUnique(w, Contact(req[w].user, req[w].whom), "commit")

AddContact2(w) ==
  /\ pc[w] = "add2"
  /\ InsertUnique(w, Contact(req[w].whom, req[w].user), "commit")

CommonChat(w) == ChatsOf(Visible(w), req[w].user) \cap ChatsOf(Visible(w), req[w].whom)

CheckCommonChat(w) ==
  /\ pc[w] = "check"
  /\ IF CommonChat(w) = {}
     THEN /\ Goto(w, "create")
          /\ UNCHANGED <<db, nextChat, calls, req, own, chat, got, outcome, acked, seen>>
     ELSE Fail(w, "no")

\* The chat created outside the transaction that connects its members.
CreateChat_OutsideTxn(w) ==
  /\ pc[w] = "create"
  /\ db' = db \cup {Chat(nextChat)}
  /\ Goto(w, "info")
  /\ chat' = [chat EXCEPT ![w] = nextChat]
  /\ nextChat' = nextChat + 1
  /\ UNCHANGED <<calls, req, own, got, outcome, acked, seen>>

CreateChat(w) ==
  /\ pc[w] = "create"
  /\ Insert(w, Chat(nextChat), "info")
  /\ chat' = [chat EXCEPT ![w] = nextChat]
  /\ nextChat' = nextChat + 1

\* No such friend: converting the missing name throws.
FriendInfo(w) ==
  /\ pc[w] = "info"
  /\ IF req[w].whom \in Clients
     THEN /\ Goto(w, "connect1")
          /\ UNCHANGED <<db, nextChat, calls, req, own, chat, got, outcome, acked, seen>>
     ELSE Fail(w, "no")

ConnectUser(w) ==
  /\ pc[w] = "connect1"
  /\ Insert(w, Member(chat[w], req[w].user, req[w].whom), "connect2")
  /\ UNCHANGED <<nextChat, chat>>

\* The user's own title given to the friend.
ConnectFriend_Title(w) ==
  /\ pc[w] = "connect2"
  /\ Insert(w, Member(chat[w], req[w].whom, req[w].whom), "commit")
  /\ UNCHANGED <<nextChat, chat>>

ConnectFriend(w) ==
  /\ pc[w] = "connect2"
  /\ Insert(w, Member(chat[w], req[w].whom, req[w].user), "commit")
  /\ UNCHANGED <<nextChat, chat>>

\* Asking for the rows that have the user at their other end.
Select_OtherColumn(r, rows) ==
  CASE r.op = "get_chats" -> {m \in rows : m.table = "member" /\ m.whom = r.user}
    [] r.op = "get_contacts" -> {m \in rows : m.table = "contact" /\ m.whom = r.user}
    [] OTHER -> {m \in rows : m.table = "message" /\ m.chat = r.chat}

\* The rows of get_chats, get_contacts and get_messages.
Select(r, rows) ==
  CASE r.op = "get_chats" -> {m \in rows : m.table = "member" /\ m.who = r.user}
    [] r.op = "get_contacts" -> {m \in rows : m.table = "contact" /\ m.who = r.user}
    [] OTHER -> {m \in rows : m.table = "message" /\ m.chat = r.chat}

Query(w, op) ==
  /\ pc[w] = "select" /\ req[w].op = op
  /\ got' = [got EXCEPT ![w] = Select(req[w], Visible(w))]
  /\ Goto(w, "commit")
  /\ UNCHANGED <<db, nextChat, calls, req, own, chat, outcome, acked, seen>>

GetChats(w) == Query(w, "get_chats")
GetContacts(w) == Query(w, "get_contacts")
GetMessages(w) == Query(w, "get_messages")

\* One statement of the operation worker w executes.
Step(w) ==
  \/ Registration(w)
  \/ Login(w)
  \/ CanWrite(w)
  \/ SendMessage(w)
  \/ LookupContact(w)
  \/ AddContact1(w)
  \/ AddContact2(w)
  \/ CheckCommonChat(w)
  \/ CreateChat(w)
  \/ FriendInfo(w)
  \/ ConnectUser(w)
  \/ ConnectFriend(w)
  \/ GetChats(w)
  \/ GetContacts(w)
  \/ GetMessages(w)
  \/ Commit(w)
  \/ Return(w)

-----------------------------------------------------------------------------
\* The arguments an operation has; the others are left at a default.
ChatIds == 0..(nextChat - 1)
Call(w) ==
  \E u \in Users :
    \/ \E op \in Ops \cap {"registration", "login", "get_chats", "get_contacts"} :
         Begin(w, op, u, NoUser, 0)
    \/ \E op \in Ops \cap {"add_contact", "create_chat"}, v \in Users : Begin(w, op, u, v, 0)
    \/ \E op \in Ops \cap {"send_message", "get_messages"}, c \in ChatIds :
         Begin(w, op, u, NoUser, c)

Next == \E w \in Workers : Call(w) \/ Step(w) \/ DeadlockAbort(w) \/ ConnectionLost(w)

Spec == Init /\ [][Next]_vars

\* The database executes every statement it can, and resolves deadlocks.
FairSpec == Spec /\ \A w \in Workers : WF_vars(Step(w)) /\ WF_vars(DeadlockAbort(w))

-----------------------------------------------------------------------------
\* Type invariant of the tables and the operations under way.
TypeOK ==
  /\ db \subseteq Row
  /\ nextChat \in Nat \ {0}
  /\ calls \in 0..MaxCalls
  /\ req \in [Workers -> Request \cup {NoRequest}]
  /\ pc \in [Workers -> Statements]
  /\ own \in [Workers -> SUBSET Row]
  /\ chat \in [Workers -> Nat]
  /\ got \in [Workers -> SUBSET Row]
  /\ outcome \in [Workers -> {"pending", "ok", "no", "error"}]
  /\ acked \subseteq Row
  /\ seen \in [Workers -> SUBSET Row]

\* Contacts are mutual, whatever races and failures add_contact met: the two
\* inserts of one call become visible together, also when two users add each
\* other at the same time.
ContactsAreMutual ==
  \A u, v \in Users : Contact(u, v) \in db => Contact(v, u) \in db /\ u # v

\* A committed chat has exactly its two ends, each titled with the other, and
\* no rows of an unfinished create_chat are left behind.
ChatsAreComplete ==
  /\ \A r \in db : r.table \in {"member", "message"} => Chat(r.chat) \in db
  /\ \A r \in db : r.table = "chat" =>
       \E u, v \in Users :
         {m \in db : m.table = "member" /\ m.chat = r.chat} =
           {Member(r.chat, u, v), Member(r.chat, v, u)}

\* Only members write to a chat: the check of can_write still holds when the
\* message is committed.
SendersAreMembers ==
  \A r \in db : r.table = "message" => r.chat \in ChatsOf(db, r.who)

\* The rows worker w's operation was asked to store.
Requested(w) ==
  LET u == req[w].user
      v == req[w].whom
      c == chat[w]
  IN CASE req[w].op = "registration" -> {Client(u)}
       [] req[w].op = "send_message" -> {Message(req[w].chat, u, req[w].n)}
       [] req[w].op = "add_contact" -> {Contact(u, v), Contact(v, u)}
       [] req[w].op = "create_chat" -> {Chat(c), Member(c, u, v), Member(c, v, u)}
       [] OTHER -> {}

\* What an operation tells its caller is true of the tables when it returns,
\* whatever other connections did between its statements.  After true all it
\* was asked to store is there.  After a refusal nothing of a message or a chat
\* is, and the email of a registration is taken.  After a failure, also one
\* that hides a COMMIT that was executed, all of it is there or nothing is.
AnswersAreTrue ==
  \A w \in Workers : pc[w] = "done" =>
    /\ outcome[w] = "ok" => Requested(w) \subseteq db
    /\ outcome[w] = "no" /\ req[w].op \in {"send_message", "create_chat"} =>
         Requested(w) \cap db = {}
    /\ outcome[w] = "no" /\ req[w].op = "registration" => Requested(w) \subseteq db
    /\ outcome[w] = "error" => Requested(w) \subseteq db \/ Requested(w) \cap db = {}

\* A list that is fetched after a request was accepted shows that request's
\* rows, whichever connections the two used.
ReadsSeeAccepted ==
  \A w \in Workers : pc[w] = "done" /\ outcome[w] = "ok" =>
    \A r \in seen[w] :
      \/ req[w].op = "get_chats" /\ r.table = "member" /\ r.who = req[w].user
      \/ req[w].op = "get_contacts" /\ r.table = "contact" /\ r.who = req[w].user
      \/ req[w].op = "get_messages" /\ r.table = "message" /\ r.chat = req[w].chat
      => r \in got[w]

\* Without a failure add_contact is refused for a reason the user can see: no
\* such email, or already a contact, or oneself.
AddContactRefusal ==
  [][\A w \in Workers :
       req[w].op = "add_contact" /\ outcome[w] = "pending" /\ outcome'[w] = "no" =>
         LET u == req[w].user
             v == req[w].whom
         IN v \notin Clients \/ Contact(u, v) \in db \/ u = v]_vars

\* "check that chat chat not exist and should be created" (create_chat): two
\* users have at most one chat with each other.
OneChatPerPair ==
  \A c, d \in {r.chat : r \in {m \in db : m.table = "chat"}} :
    c # d => {r \in db : r.table = "member" /\ r.chat = c /\ r.who # r.whom /\
                \E m \in db : m.table = "member" /\ m.chat = d /\ m.who = r.who /\ m.whom = r.whom} = {}

\* Every operation returns: workers never wait for each other's rows for good,
\* not even when two users add each other crosswise.
EveryCallReturns == \A w \in Workers : pc[w] # "idle" ~> pc[w] = "idle"
=============================================================================
