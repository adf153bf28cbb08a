----------------------------- MODULE ClientApp -----------------------------
(***************************************************************************)
(* The client above its connection: the windows (qml/), BackEndFacade and  *)
(* Backend, the jobs with their response callbacks, and the lists the      *)
(* windows show.  Everything runs in the GUI thread, so a click, a         *)
(* response or a disconnection is one step together with all the signals,  *)
(* reactions and Component.onCompleted handlers it sets off.               *)
(*                                                                         *)
(* The facade lets one operation through at a time (availible), but        *)
(* windows open and close whether it is free or not, and they all share    *)
(* the lists, the message cache and two notions of the current chat.       *)
(*                                                                         *)
(* A request meets its own response here, which is what NetworkSession is  *)
(* about.  Data is abstracted to whose it is and to the version of the     *)
(* server's data when it was asked for: an accepted change makes a new     *)
(* version.                                                                *)
(***************************************************************************)
EXTENDS Integers, Sequences

CONSTANTS Users, Chats,
          ChatsOf,      \* the chats of a user, [Users -> SUBSET Chats]
          MaxChanges,   \* bound: accepted changes
          NoUser,       \* no profile, nobody logged in
          NoChat        \* chat id 0

ASSUME ChatsOfAssumption == ChatsOf \in [Users -> SUBSET Chats]
ASSUME ChangesAssumption == MaxChanges \in Nat
ASSUME NoUserAssumption == NoUser \notin Users
ASSUME NoChatAssumption == NoChat \notin Chats

VARIABLES
  conn,          \* m_sock: "down", "connecting" or "up"
  serverUser,    \* the user the server knows on this connection
  version,       \* version of the server's data
  wire,          \* the request or the response under way
  availible,     \* BackEndFacade::m_availible
  profile,       \* Backend::m_profile
  lists,         \* ChatsList and ContactsList
  cache,         \* MessagesList::m_mapToItems
  items,         \* MessagesList::m_items
  currentChatId, \* MessagesList::m_currentChatId
  current_chat,  \* chatsState.current_chat in main.qml
  stack,         \* stackView, bottom first
  owed           \* ghost: version a list must have reached, by its reaction

netVars == <<conn, serverUser, version, wire>>
msgVars == <<cache, items, currentChatId>>
vars == <<conn, serverUser, version, wire, availible, profile, lists, cache, items,
          currentChatId, current_chat, stack, owed>>

UserOrNone == Users \cup {NoUser}
ChatOrNone == Chats \cup {NoChat}
Versions == 0..MaxChanges
Windows == {"Login", "Register", "Settings", "Chats", "Messages", "Contacts", "AddContact", "Profile"}
\* The windows that only a logged in user gets to.
UserWindows == {"Chats", "Messages", "Contacts", "AddContact", "Profile"}
Jobs == {"Login", "Register", "LoadChats", "LoadContacts", "LoadMessages",
         "SendMessage", "AddContact", "LoadData", "CreateChat"}

NoList == [of |-> NoUser, ver |-> 0]
NoItems == [chat |-> NoChat, ver |-> 0]
Nothing == [st |-> "none"]
NothingOwed == [chats |-> 0, contacts |-> 0, messages |-> 0]

\* A request: the job that sent it, its kind, and the user or chat it names.
Request(job, kind, arg) == [st |-> "request", job |-> job, kind |-> kind, arg |-> arg]
Response(job, kind, val) == [st |-> "response", job |-> job, kind |-> kind, val |-> val]

Init ==
  /\ conn = "connecting"
  /\ serverUser = NoUser
  /\ version = 0
  /\ wire = Nothing
  /\ availible = TRUE
  /\ profile = NoUser
  /\ lists = [chats |-> NoList, contacts |-> NoList]
  /\ cache = [c \in ChatOrNone |-> NoItems]
  /\ items = NoItems
  /\ currentChatId = NoChat
  /\ current_chat = NoChat
  /\ stack = <<"Login">>
  /\ owed = NothingOwed

Top == stack[Len(stack)]
OnStack(w) == \E i \in 1..Len(stack) : stack[i] = w

-----------------------------------------------------------------------------
(* The facade and the session, as conjuncts of the steps that call them. *)

\* A request on a closed connection that nobody hears of.
Exec_Silent(request) ==
  /\ availible' = FALSE
  /\ wire' = IF conn = "up" THEN request ELSE Nothing

\* A facade operation that was let through: the job sends its request, or the
\* session is not connected and operationAborted frees the facade again.
Exec(request) ==
  IF conn = "up"
  THEN availible' = FALSE /\ wire' = request
  ELSE availible' = TRUE /\ wire' = Nothing

NoExec == UNCHANGED <<availible, wire>>

\* MessagesList::setCurrentChatId.
SetCurrentChatId(c) ==
  /\ currentChatId' = c
  /\ items' = IF currentChatId # c THEN cache[c] ELSE items
  /\ UNCHANGED cache

\* The two lines that MessagesWindow runs when it opens and on a reload.
LoadMessages(c) ==
  /\ SetCurrentChatId(c)
  /\ Exec(Request("LoadMessages", "messages", c))

Push(w) == stack' = Append(stack, w)
Pop == SubSeq(stack, 1, Len(stack) - 1)

\* What stays when a window only calls the facade, or only opens another.
Idle == UNCHANGED <<conn, serverUser, version, profile, lists>>
CallOnly == Idle /\ UNCHANGED <<msgVars, current_chat, stack, owed>>
OpenOnly == Idle /\ UNCHANGED <<msgVars, current_chat, owed>>

-----------------------------------------------------------------------------
(* The user. *)

SignIn(u) ==
  /\ Top = "Login" /\ availible
  /\ Exec(Request("Login", "login", u))
  /\ CallOnly

OpenRegister == Top = "Login" /\ availible /\ Push("Register") /\ NoExec /\ OpenOnly

SignUp ==
  /\ Top = "Register" /\ availible
  /\ Exec(Request("Register", "register", NoUser))
  /\ CallOnly

OpenSettings ==
  Top \in {"Login", "Register", "Chats"} /\ Push("Settings") /\ NoExec /\ OpenOnly

OpenProfile == Top = "Chats" /\ Push("Profile") /\ NoExec /\ OpenOnly

\* The new window asks for the current chat although the facade is busy.
OpenChat_Busy(c) ==
  /\ Top = "Chats"
  /\ lists.chats.of # NoUser /\ c \in ChatsOf[lists.chats.of]
  /\ current_chat' = c
  /\ Push("Messages")
  /\ IF availible THEN LoadMessages(c) ELSE SetCurrentChatId(c) /\ NoExec
  /\ Idle /\ UNCHANGED owed

\* A click on a chat of the list, and MessagesWindow's onCompleted.
OpenChat(c) ==
  /\ Top = "Chats"
  /\ lists.chats.of # NoUser /\ c \in ChatsOf[lists.chats.of]
  /\ current_chat' = c
  /\ Push("Messages")
  /\ IF availible THEN LoadMessages(c) ELSE NoExec /\ UNCHANGED msgVars
  /\ Idle /\ UNCHANGED owed

ReloadChats ==
  /\ Top = "Chats" /\ availible
  /\ Exec(Request("LoadChats", "chats", NoUser))
  /\ CallOnly

ReloadMessages ==
  /\ Top = "Messages" /\ availible
  /\ LoadMessages(current_chat)
  /\ Idle /\ UNCHANGED <<current_chat, stack, owed>>

SendMessage ==
  /\ Top = "Messages" /\ availible
  /\ Exec(Request("SendMessage", "send_mesg", current_chat))
  /\ CallOnly

\* ContactsWindow opens and its onCompleted loads the contacts.
OpenContacts ==
  /\ Top = "Chats"
  /\ Push("Contacts")
  /\ IF availible THEN Exec(Request("LoadContacts", "contacts", NoUser)) ELSE NoExec
  /\ OpenOnly

ReloadContacts ==
  /\ Top = "Contacts" /\ availible
  /\ Exec(Request("LoadContacts", "contacts", NoUser))
  /\ CallOnly

\* A click on the button of a contact in the list.
CreateChat ==
  /\ Top = "Contacts" /\ availible
  /\ lists.contacts.of # NoUser
  /\ Exec(Request("CreateChat", "create_chat", NoUser))
  /\ CallOnly

OpenAddContact == Top = "Contacts" /\ Push("AddContact") /\ NoExec /\ OpenOnly

AddContact ==
  /\ Top = "AddContact" /\ availible
  /\ Exec(Request("AddContact", "add_contact", NoUser))
  /\ CallOnly

\* The Back button and the Back key; the popped window is destroyed.
Back ==
  /\ Len(stack) > 1
  /\ stack' = Pop
  /\ owed' = [owed EXCEPT !.messages = IF Top = "Messages" THEN 0 ELSE @]
  /\ Idle /\ NoExec /\ UNCHANGED <<msgVars, current_chat>>

-----------------------------------------------------------------------------
(* The connection. *)

\* Clears the windows and opens none.
Disconnected_NoLogin ==
  /\ availible' = TRUE
  /\ wire' = Nothing
  /\ serverUser' = NoUser
  /\ stack' = <<>>
  /\ owed' = NothingOwed
  /\ UNCHANGED <<version, profile, lists, msgVars, current_chat>>

\* Tells the user and leaves the windows as they are.
Disconnected_KeepWindows ==
  /\ availible' = TRUE
  /\ wire' = Nothing
  /\ serverUser' = NoUser
  /\ owed' = NothingOwed
  /\ UNCHANGED <<version, profile, lists, msgVars, current_chat, stack>>

\* Backend::disconnected: the facade is freed and only a new LoginWindow is
\* left; profile, lists and cache keep what they hold.
Disconnected ==
  /\ availible' = TRUE
  /\ wire' = Nothing
  /\ serverUser' = NoUser
  /\ stack' = <<"Login">>
  /\ owed' = NothingOwed
  /\ UNCHANGED <<version, profile, lists, msgVars, current_chat>>

ConnectionLost ==
  /\ conn = "up"
  /\ conn' = "down"
  /\ Disconnected

\* updateConnectionSettings with an address that is valid (one that is not
\* changes nothing): the socket is aborted, which says disconnected only if
\* it was connected.
UpdateConnectionSettings ==
  /\ Top = "Settings" /\ availible
  /\ conn' = "connecting"
  /\ IF conn = "up"
     THEN Disconnected
     ELSE UNCHANGED <<serverUser, version, wire, availible, profile, lists, msgVars,
                      current_chat, stack, owed>>

Connected ==
  /\ conn = "connecting"
  /\ conn' = "up"
  /\ UNCHANGED <<serverUser, version, profile, lists>>
  /\ NoExec /\ UNCHANGED <<msgVars, current_chat, stack, owed>>

\* onError while connecting: operationAborted frees the facade.
ConnectionRefused ==
  /\ conn = "connecting"
  /\ conn' = "down"
  /\ availible' = TRUE
  /\ UNCHANGED <<serverUser, version, wire, profile, lists, msgVars, current_chat, stack, owed>>

-----------------------------------------------------------------------------
(* The server's end of the connection, see ServerSession. *)

Reply(kind, val) ==
  /\ wire' = Response(wire.job, kind, val)
  /\ UNCHANGED <<conn, availible, profile, lists, msgVars, current_chat, stack, owed>>

\* A status; an accepted change is a new version of the data.
ServeStatus ==
  /\ wire.kind \in {"register", "send_mesg", "add_contact", "create_chat"}
  /\ IF wire.kind = "register" \/ serverUser # NoUser
     THEN \E ok \in BOOLEAN :
            /\ ok => version < MaxChanges
            /\ version' = IF ok THEN version + 1 ELSE version
            /\ Reply("status", ok)
     ELSE Reply("empty", FALSE) /\ UNCHANGED version
  /\ UNCHANGED serverUser

ServeLogin ==
  /\ wire.kind = "login"
  /\ \/ Reply("login", wire.arg) /\ serverUser' = wire.arg
     \/ Reply("login", NoUser) /\ UNCHANGED serverUser
  /\ UNCHANGED version

\* A list, marked with whose it is and with the version of the data when it was
\* asked for.  What it contains is left out, so a query that fails, and is
\* answered with an empty list of that user, is the same step.
ServeList ==
  /\ wire.kind \in {"chats", "contacts", "messages"}
  /\ IF serverUser = NoUser THEN Reply("empty", FALSE)
     ELSE Reply(wire.kind, IF wire.kind = "messages"
                           THEN [chat |-> wire.arg, ver |-> version]
                           ELSE [of |-> serverUser, ver |-> version])
  /\ UNCHANGED <<serverUser, version>>

Server == conn = "up" /\ wire.st = "request" /\ (ServeStatus \/ ServeLogin \/ ServeList)

-----------------------------------------------------------------------------
(* The callbacks of the jobs, with the facade's slots and the reactions of  *)
(* the windows that are alive.                                              *)

\* The callback of job gets a response; nothing outside the client changes.
Callback(job) ==
  /\ wire.st = "response"
  /\ wire.job = job
  /\ UNCHANGED <<conn, serverUser, version, current_chat>>

\* The operation ends and no reaction starts another.
Done == availible' = TRUE /\ wire' = Nothing

Accepted == wire.kind = "status" /\ wire.val

\* A profile is set, ChatsWindow opens and its onCompleted loads the data.
OnLogin ==
  /\ Callback("Login")
  /\ IF wire.kind = "login" /\ wire.val # NoUser
     THEN /\ profile' = wire.val
          /\ Push("Chats")
          /\ Exec(Request("LoadData", "contacts", NoUser))
     ELSE Done /\ UNCHANGED <<profile, stack>>
  /\ UNCHANGED <<lists, msgVars, owed>>

OnRegister ==
  /\ Callback("Register")
  /\ Done
  /\ UNCHANGED <<profile, stack, lists, msgVars, owed>>

\* setChats, setContacts: the list is replaced if the response has one.
SetList(list) ==
  lists' = IF wire.kind = list THEN [lists EXCEPT ![list] = wire.val] ELSE lists

OnLoadChats ==
  /\ Callback("LoadChats")
  /\ SetList("chats")
  /\ Done
  /\ UNCHANGED <<profile, stack, msgVars, owed>>

OnLoadContacts ==
  /\ Callback("LoadContacts")
  /\ SetList("contacts")
  /\ Done
  /\ UNCHANGED <<profile, stack, msgVars, owed>>

\* A callback that takes the contacts for all of the data.
OnLoadData_ContactsOnly ==
  /\ Callback("LoadData")
  /\ SetList("contacts")
  /\ Done
  /\ UNCHANGED <<profile, stack, msgVars, owed>>

\* The contacts come first, and their callback asks for the chats.
OnLoadData ==
  /\ Callback("LoadData")
  /\ IF wire.kind = "contacts"
     THEN SetList("contacts") /\ Exec(Request("LoadData", "chats", NoUser))
     ELSE SetList("chats") /\ Done
  /\ UNCHANGED <<profile, stack, msgVars, owed>>

\* MessagesList::setItems: the messages are filed under the current chat.
OnLoadMessages ==
  /\ Callback("LoadMessages")
  /\ IF wire.kind = "messages"
     THEN cache' = [cache EXCEPT ![currentChatId] = wire.val] /\ items' = wire.val
     ELSE UNCHANGED <<cache, items>>
  /\ Done
  /\ UNCHANGED <<profile, stack, lists, currentChatId, owed>>

\* sendMessageReaction without the reload.
OnSendMessage_NoReload ==
  /\ Callback("SendMessage")
  /\ Done
  /\ owed' = [owed EXCEPT !.messages = IF Accepted /\ OnStack("Messages") THEN version ELSE @]
  /\ UNCHANGED <<msgVars, profile, stack, lists>>

\* sendMessageReaction clicks the reload button, if its window is still there.
OnSendMessage ==
  /\ Callback("SendMessage")
  /\ IF Accepted /\ OnStack("Messages")
     THEN LoadMessages(current_chat) /\ owed' = [owed EXCEPT !.messages = version]
     ELSE Done /\ UNCHANGED <<msgVars, owed>>
  /\ UNCHANGED <<profile, stack, lists>>

OnAddContact ==
  /\ Callback("AddContact")
  /\ IF Accepted /\ OnStack("AddContact")
     THEN /\ Exec(Request("LoadContacts", "contacts", NoUser))
          /\ owed' = [owed EXCEPT !.contacts = version]
     ELSE Done /\ UNCHANGED owed
  /\ UNCHANGED <<profile, stack, lists, msgVars>>

\* createChatReaction of every contact in the list; the first one that asks
\* makes the facade busy for the others.
OnCreateChat ==
  /\ Callback("CreateChat")
  /\ IF Accepted /\ OnStack("Contacts")
     THEN /\ Exec(Request("LoadChats", "chats", NoUser))
          /\ owed' = [owed EXCEPT !.chats = version]
     ELSE Done /\ UNCHANGED owed
  /\ UNCHANGED <<profile, stack, lists, msgVars>>

OnResponse ==
  \/ OnLogin
  \/ OnRegister
  \/ OnLoadChats
  \/ OnLoadContacts
  \/ OnLoadData
  \/ OnLoadMessages
  \/ OnSendMessage
  \/ OnAddContact
  \/ OnCreateChat

-----------------------------------------------------------------------------
User ==
  \/ \E u \in Users : SignIn(u)
  \/ OpenRegister
  \/ SignUp
  \/ OpenSettings
  \/ OpenProfile
  \/ \E c \in Chats : OpenChat(c)
  \/ ReloadChats
  \/ ReloadMessages
  \/ SendMessage
  \/ OpenContacts
  \/ ReloadContacts
  \/ CreateChat
  \/ OpenAddContact
  \/ AddContact
  \/ Back
  \/ UpdateConnectionSettings

Next ==
  \/ User
  \/ Connected
  \/ ConnectionRefused
  \/ ConnectionLost
  \/ Server
  \/ OnResponse

Spec == Init /\ [][Next]_vars

-----------------------------------------------------------------------------
ListType == [of : UserOrNone, ver : Versions]
ItemsType == [chat : ChatOrNone, ver : Versions]

\* Type invariant; a LoginWindow is always at the bottom of the stack.
TypeOK ==
  /\ conn \in {"down", "connecting", "up"}
  /\ serverUser \in UserOrNone
  /\ version \in Versions
  /\ wire.st \in {"none", "request", "response"}
  /\ wire.st # "none" => wire.job \in Jobs
  /\ availible \in BOOLEAN
  /\ profile \in UserOrNone
  /\ lists \in [chats : ListType, contacts : ListType]
  /\ cache \in [ChatOrNone -> ItemsType]
  /\ items \in ItemsType
  /\ currentChatId \in ChatOrNone
  /\ current_chat \in ChatOrNone
  /\ stack \in Seq(Windows) /\ stack # <<>> /\ stack[1] = "Login"
  /\ owed \in [chats : Versions, contacts : Versions, messages : Versions]

\* Windows of a logged in user are only ever open while the server knows that
\* same user on the current connection: no sequence of disconnections, new
\* settings, Back keys and second logins leaves a window whose requests would
\* run for somebody else or for nobody.
WindowsMatchLogin ==
  (\E w \in UserWindows : OnStack(w)) =>
    conn = "up" /\ profile # NoUser /\ serverUser = profile

\* The facade is busy exactly while a request or its response is under way, so
\* no click is lost for good and none starts a second operation.
BusyWhileWaiting == ~availible <=> wire # Nothing

\* The lists keep the previous user's data across a disconnection and a new
\* login (Backend::disconnected clears nothing); by the time the new user can
\* start an operation they are the new user's.
OwnDataWhenFree ==
  availible /\ OnStack("Chats") =>
    lists.chats.of = profile /\ lists.contacts.of = profile

\* setItems files messages under the chat that is current when they arrive;
\* that is always the chat they were asked for, and what the view shows is the
\* cache of the current chat.
CacheIsFiled ==
  /\ \A c \in ChatOrNone : cache[c] # NoItems => cache[c].chat = c
  /\ items = cache[currentChatId]

\* When the client is free again after a change it made was accepted, and the
\* window whose reaction reloads was still there, the list it shows is one that
\* was asked for after that change, and the messages are those of the chat the
\* window is for.
ChangesAreReloaded ==
  availible =>
    /\ owed.chats <= lists.chats.ver
    /\ owed.contacts <= lists.contacts.ver
    /\ owed.messages > 0 => items.chat = current_chat /\ owed.messages <= items.ver

\* MessagesWindow.qml says when it opens that it will load the messages of
\* chatsState.current_chat: what it shows are messages of that chat.
ShownChatIsOpenChat ==
  OnStack("Messages") /\ items # NoItems => items.chat = current_chat
=============================================================================
