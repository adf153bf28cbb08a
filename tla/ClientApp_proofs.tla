-------------------------- MODULE ClientApp_proofs --------------------------
(***************************************************************************)
(* Proofs about ClientApp, for any users, chats and number of changes.     *)
(* Every property is about the moment the facade is free; what makes it    *)
(* inductive is what holds while it is busy, which depends on the job the  *)
(* request or the response on the wire belongs to.                         *)
(***************************************************************************)
EXTENDS ClientApp, TLAPS

\* A request or its response is under way, for that job.
Busy == wire # Nothing
BusyWith(job) == Busy /\ wire.job = job

\* Nothing opens above MessagesWindow, and LoginWindow above nothing.
StackInv ==
  /\ \A i \in 2..Len(stack) : stack[i] # "Login"
  /\ \A i \in 1..(Len(stack) - 1) : stack[i] # "Messages"
NoUserWindow == \A w \in UserWindows : ~OnStack(w)

\* The requests each job sends.
KindsOf(job) ==
  CASE job = "Login" -> {"login"}
    [] job = "Register" -> {"register"}
    [] job = "LoadChats" -> {"chats"}
    [] job = "LoadContacts" -> {"contacts"}
    [] job = "LoadData" -> {"contacts", "chats"}
    [] job = "LoadMessages" -> {"messages"}
    [] job = "SendMessage" -> {"send_mesg"}
    [] job = "AddContact" -> {"add_contact"}
    [] OTHER -> {"create_chat"}

RequestInv ==
  /\ wire.kind \in KindsOf(wire.job)
  /\ wire.job = "Login" => wire.arg \in Users
  /\ wire.job = "LoadMessages" => wire.arg = currentChatId

\* What a response carries is still what the server has.
ResponseInv ==
  \/ wire.kind = "empty" /\ serverUser = NoUser /\ wire.job \notin {"Login", "Register"}
  \/ /\ wire.kind = "login" /\ wire.job = "Login"
     /\ wire.val \in UserOrNone /\ (wire.val # NoUser => serverUser = wire.val)
  \/ /\ wire.kind = "status" /\ wire.val \in BOOLEAN
     /\ wire.job \in {"Register", "SendMessage", "AddContact", "CreateChat"}
  \/ /\ wire.kind \in {"chats", "contacts"} /\ wire.kind \in KindsOf(wire.job)
     /\ wire.val = [of |-> serverUser, ver |-> version]
  \/ /\ wire.kind = "messages" /\ wire.job = "LoadMessages"
     /\ wire.val = [chat |-> currentChatId, ver |-> version]

\* The wire is in use only while connected, and a login is under way only
\* while no window needs one.
WireInv ==
  Busy =>
    /\ conn = "up"
    /\ wire.job \in Jobs
    /\ \/ wire.st = "request" /\ RequestInv
       \/ wire.st = "response" /\ ResponseInv
    /\ wire.job = "Login" => NoUserWindow

\* While ChatsWindow is open the lists are the user's, or LoadData is on its
\* way to them: to the contacts first, then to the chats.
DataInv ==
  OnStack("Chats") =>
    /\ lists.contacts.of = profile \/ (BusyWith("LoadData") /\ wire.kind = "contacts")
    /\ lists.chats.of = profile \/ BusyWith("LoadData")

\* Nothing the client holds or owes is ahead of the server.
VersionInv ==
  /\ lists.chats.ver <= version /\ lists.contacts.ver <= version /\ items.ver <= version
  /\ \A c \in ChatOrNone : cache[c].ver <= version
  /\ owed.chats <= version /\ owed.contacts <= version /\ owed.messages <= version

\* A list that is behind is being read again, by a user the server knows.
Reloading(job) == BusyWith(job) /\ serverUser # NoUser
OwedInv ==
  /\ owed.chats <= lists.chats.ver \/ Reloading("LoadChats")
  /\ owed.contacts <= lists.contacts.ver \/ Reloading("LoadContacts")
  /\ owed.messages > 0 =>
       /\ OnStack("Messages")
       /\ (items.chat = current_chat /\ owed.messages <= items.ver) \/ Reloading("LoadMessages")
       /\ BusyWith("LoadMessages") => currentChatId = current_chat

IInv ==
  /\ TypeOK
  /\ StackInv
  /\ BusyWhileWaiting
  /\ WireInv
  /\ WindowsMatchLogin
  /\ DataInv
  /\ CacheIsFiled
  /\ VersionInv
  /\ OwedInv

-----------------------------------------------------------------------------
(* The wire and the stack. *)

\* The fields of what is on the wire.
LEMMA WireFields ==
  ASSUME NEW job, NEW kind, NEW x
  PROVE  /\ Request(job, kind, x) # Nothing /\ Response(job, kind, x) # Nothing
         /\ Request(job, kind, x).st = "request" /\ Response(job, kind, x).st = "response"
         /\ Request(job, kind, x).job = job /\ Response(job, kind, x).job = job
         /\ Request(job, kind, x).kind = kind /\ Response(job, kind, x).kind = kind
         /\ Request(job, kind, x).arg = x /\ Response(job, kind, x).val = x
         /\ Nothing.st = "none"
<1>1. Request(job, kind, x).st = "request" /\ Response(job, kind, x).st = "response" /\ Nothing.st = "none"
  BY DEF Request, Response, Nothing
<1>2. Request(job, kind, x) # Nothing /\ Response(job, kind, x) # Nothing
  BY <1>1
<1> QED
  BY <1>1, <1>2 DEF Request, Response

\* Opening a window.
LEMMA PushStack ==
  ASSUME TypeOK, StackInv, NEW w \in Windows \ {"Login"}, Top # "Messages", Push(w)
  PROVE  /\ stack' \in Seq(Windows) /\ stack' # <<>> /\ stack'[1] = "Login"
         /\ StackInv'
         /\ \A x : OnStack(x)' <=> OnStack(x) \/ x = w
<1>1. /\ stack \in Seq(Windows) /\ Len(stack) \in Nat /\ Len(stack) >= 1
      /\ stack' \in Seq(Windows) /\ Len(stack') = Len(stack) + 1
      /\ stack'[Len(stack) + 1] = w /\ \A i \in 1..Len(stack) : stack'[i] = stack[i]
  BY DEF TypeOK, Push
<1>2. stack' # <<>> /\ stack'[1] = "Login"
  BY <1>1 DEF TypeOK
<1>3. StackInv'
  BY <1>1 DEF StackInv, Top
<1>4. ASSUME NEW x PROVE OnStack(x)' <=> OnStack(x) \/ x = w
  <2>1. Len(stack) + 1 \in 1..Len(stack')
    BY <1>1
  <2> QED
    BY <1>1, <2>1 DEF OnStack
<1> QED
  BY <1>1, <1>2, <1>3, <1>4

\* Closing one.
LEMMA PopStack ==
  ASSUME TypeOK, StackInv, Len(stack) > 1, stack' = Pop
  PROVE  /\ stack' \in Seq(Windows) /\ stack' # <<>> /\ stack'[1] = "Login"
         /\ StackInv'
         /\ \A x : OnStack(x)' => OnStack(x)
         /\ ~OnStack("Messages")'
<1>1. stack \in Seq(Windows) /\ Len(stack) \in Nat
  BY DEF TypeOK
<1>2. /\ stack' \in Seq(Windows) /\ Len(stack') = Len(stack) - 1
      /\ \A i \in 1..(Len(stack) - 1) : stack'[i] = stack[i]
  BY <1>1 DEF Pop
<1>3. stack' # <<>> /\ stack'[1] = "Login"
  BY <1>1, <1>2 DEF TypeOK
<1>4. StackInv'
  BY <1>1, <1>2 DEF StackInv
<1>5. \A x : OnStack(x)' => OnStack(x)
  BY <1>1, <1>2 DEF OnStack
<1>6. ~OnStack("Messages")'
  BY <1>1, <1>2 DEF OnStack, StackInv
<1> QED
  BY <1>2, <1>3, <1>4, <1>5, <1>6

\* The window on top is on the stack; if it is LoginWindow it is alone.
LEMMA TopStack ==
  ASSUME TypeOK, StackInv
  PROVE  /\ Top \in Windows /\ OnStack(Top)
         /\ Top = "Login" => NoUserWindow
         /\ OnStack("Messages") => Top = "Messages"
<1>1. stack \in Seq(Windows) /\ Len(stack) \in Nat /\ Len(stack) >= 1 /\ stack[1] = "Login"
  BY DEF TypeOK
<1>2. Top \in Windows /\ OnStack(Top)
  BY <1>1 DEF Top, OnStack
<1>3. ASSUME Top = "Login" PROVE NoUserWindow
  <2>1. Len(stack) = 1
    <3>1. PICK n \in Nat : n = Len(stack) /\ n >= 1
      BY <1>1
    <3>2. n # 1 => n \in 2..n
      BY <3>1
    <3> QED
      BY <1>3, <3>1, <3>2 DEF Top, StackInv
  <2> QED
    BY <1>1, <2>1 DEF NoUserWindow, OnStack, UserWindows
<1>4. OnStack("Messages") => Top = "Messages"
  BY <1>1 DEF OnStack, StackInv, Top
<1> QED
  BY <1>2, <1>3, <1>4

\* What a free facade means for the rest of the invariant.
LEMMA WhenFree ==
  ASSUME IInv, availible
  PROVE  /\ wire = Nothing /\ ~Busy
         /\ OnStack("Chats") => lists.contacts.of = profile /\ lists.chats.of = profile
         /\ owed.chats <= lists.chats.ver /\ owed.contacts <= lists.contacts.ver
         /\ owed.messages > 0 => /\ OnStack("Messages")
                                 /\ items.chat = current_chat /\ owed.messages <= items.ver
  BY DEF IInv, BusyWhileWaiting, Busy, BusyWith, DataInv, OwedInv, Reloading

\* A window of a logged in user on top says whom the server knows.
LEMMA LoggedIn ==
  ASSUME IInv, NEW w \in UserWindows, OnStack(w)
  PROVE  conn = "up" /\ profile # NoUser /\ serverUser = profile
  BY DEF IInv, WindowsMatchLogin

-----------------------------------------------------------------------------
(* The user's steps. *)

\* The result of Exec when the facade was free or its operation has ended.
LEMMA ExecWire ==
  ASSUME TypeOK, NEW job \in Jobs, NEW kind, NEW x, Exec(Request(job, kind, x))
  PROVE  /\ BusyWhileWaiting' /\ availible' \in BOOLEAN
         /\ wire'.st \in {"none", "request"} /\ (wire'.st # "none" => wire'.job \in Jobs)
         /\ Busy' => /\ conn = "up" /\ wire'.st = "request" /\ wire'.job = job
                     /\ wire'.kind = kind /\ wire'.arg = x
         /\ conn = "up" => Busy'
<1>1. CASE conn = "up"
  <2>1. wire' = Request(job, kind, x) /\ availible' = FALSE
    BY <1>1 DEF Exec
  <2>2. /\ wire' # Nothing /\ wire'.st = "request" /\ wire'.job = job
        /\ wire'.kind = kind /\ wire'.arg = x
    BY <2>1, WireFields
  <2>3. BusyWhileWaiting' /\ Busy'
    BY <2>1, <2>2 DEF BusyWhileWaiting, Busy
  <2> QED
    BY <1>1, <2>1, <2>2, <2>3
<1>2. CASE conn # "up"
  <2>1. wire' = Nothing /\ availible' = TRUE
    BY <1>2 DEF Exec
  <2> QED
    BY <1>2, <2>1, WireFields DEF BusyWhileWaiting, Busy
<1> QED
  BY <1>1, <1>2

\* A window calls the facade, and nothing else happens yet.
LEMMA CallStep ==
  ASSUME IInv, availible, CallOnly, NEW job \in Jobs \ {"LoadMessages", "LoadData"},
         NEW kind \in KindsOf(job), NEW x, Exec(Request(job, kind, x)),
         job = "Login" => Top = "Login" /\ x \in Users
  PROVE  IInv'
<1>0. UNCHANGED <<conn, serverUser, version, profile, lists, cache, items, currentChatId,
                  current_chat, stack, owed>>
  BY DEF CallOnly, Idle, msgVars
<1>1. /\ BusyWhileWaiting' /\ availible' \in BOOLEAN
      /\ wire'.st \in {"none", "request"} /\ (wire'.st # "none" => wire'.job \in Jobs)
      /\ Busy' => /\ conn = "up" /\ wire'.st = "request" /\ wire'.job = job
                  /\ wire'.kind = kind /\ wire'.arg = x
  BY ExecWire DEF IInv
<1>2. \A w : OnStack(w)' <=> OnStack(w)
  BY <1>0 DEF OnStack
<1>3. TypeOK' /\ StackInv'
  BY <1>0, <1>1 DEF IInv, TypeOK, StackInv
<1>4. WireInv'
  <2>1. job = "Login" => NoUserWindow'
    BY <1>2, TopStack DEF IInv, NoUserWindow
  <2>2. Busy' => RequestInv'
    BY <1>1 DEF RequestInv
  <2> QED
    BY <1>0, <1>1, <2>1, <2>2 DEF WireInv
<1>5. WindowsMatchLogin' /\ CacheIsFiled' /\ VersionInv'
  BY <1>0, <1>2 DEF IInv, WindowsMatchLogin, CacheIsFiled, VersionInv
<1>6. DataInv'
  BY <1>0, <1>2, WhenFree DEF DataInv
<1>7. OwedInv'
  BY <1>0, <1>1, <1>2, WhenFree DEF OwedInv, BusyWith
<1> QED
  BY <1>1, <1>3, <1>4, <1>5, <1>6, <1>7 DEF IInv

\* A window opens another, whether or not the facade is busy.
LEMMA OpenStep ==
  ASSUME IInv, NEW w \in Windows \ {"Login", "Messages", "Chats"}, Push(w), NoExec, OpenOnly,
         Top \in {"Login", "Register", "Chats", "Contacts"},
         w \in UserWindows => Top \in UserWindows
  PROVE  IInv'
<1>0. UNCHANGED <<conn, serverUser, version, profile, lists, cache, items, currentChatId,
                  current_chat, owed, wire, availible>>
  BY DEF OpenOnly, Idle, msgVars, NoExec
<1>1. /\ stack' \in Seq(Windows) /\ stack' # <<>> /\ stack'[1] = "Login" /\ StackInv'
      /\ \A x : OnStack(x)' <=> OnStack(x) \/ x = w
  BY PushStack DEF IInv
<1>2. TypeOK' /\ BusyWhileWaiting'
  BY <1>0, <1>1 DEF IInv, TypeOK, BusyWhileWaiting
<1>3. (\E x \in UserWindows : OnStack(x)') <=> (\E x \in UserWindows : OnStack(x))
  BY <1>1, TopStack DEF IInv
<1>4. WireInv'
  <2>1. NoUserWindow => NoUserWindow'
    BY <1>3 DEF NoUserWindow
  <2>2. Busy' = Busy /\ (RequestInv => RequestInv') /\ (ResponseInv => ResponseInv')
    BY <1>0 DEF Busy, RequestInv, ResponseInv
  <2> QED
    BY <1>0, <2>1, <2>2 DEF IInv, WireInv
<1>5. WindowsMatchLogin' /\ CacheIsFiled' /\ VersionInv'
  BY <1>0, <1>3 DEF IInv, WindowsMatchLogin, CacheIsFiled, VersionInv
<1>6. DataInv'
  BY <1>0, <1>1 DEF IInv, DataInv, Busy, BusyWith
<1>7. OwedInv'
  BY <1>0, <1>1 DEF IInv, OwedInv, Reloading, Busy, BusyWith
<1> QED
  BY <1>1, <1>2, <1>4, <1>5, <1>6, <1>7 DEF IInv

\* ContactsWindow opens while the facade is free, and asks for the contacts.
LEMMA OpenContactsStep ==
  ASSUME IInv, OpenContacts
  PROVE  IInv'
<1>0. /\ Top = "Chats" /\ Push("Contacts") /\ OpenOnly /\ "Contacts" \in UserWindows /\ "Chats" \in UserWindows
      /\ "Contacts" \in Windows
  BY DEF OpenContacts, UserWindows, Windows
<1>1. CASE ~availible
  BY <1>0, <1>1, OpenStep DEF OpenContacts
<1>2. CASE availible
  <2>0. UNCHANGED <<conn, serverUser, version, profile, lists, cache, items, currentChatId,
                    current_chat, owed>>
    BY <1>0 DEF OpenOnly, Idle, msgVars
  <2>1. Exec(Request("LoadContacts", "contacts", NoUser)) /\ "LoadContacts" \in Jobs
    BY <1>2 DEF OpenContacts, Jobs
  <2>2. /\ BusyWhileWaiting' /\ availible' \in BOOLEAN
        /\ wire'.st \in {"none", "request"} /\ (wire'.st # "none" => wire'.job \in Jobs)
        /\ Busy' => /\ conn = "up" /\ wire'.st = "request" /\ wire'.job = "LoadContacts"
                    /\ wire'.kind = "contacts"
    BY <2>1, ExecWire DEF IInv
  <2>3. /\ stack' \in Seq(Windows) /\ stack' # <<>> /\ stack'[1] = "Login" /\ StackInv'
        /\ \A x : OnStack(x)' <=> OnStack(x) \/ x = "Contacts"
    BY <1>0, PushStack DEF IInv
  <2>4. TypeOK'
    BY <2>0, <2>2, <2>3 DEF IInv, TypeOK
  <2>5. WireInv'
    BY <2>0, <2>2 DEF WireInv, RequestInv, KindsOf
  <2>6. WindowsMatchLogin'
    BY <1>0, <2>0, TopStack, LoggedIn DEF IInv, WindowsMatchLogin
  <2>7. CacheIsFiled' /\ VersionInv'
    BY <2>0 DEF IInv, CacheIsFiled, VersionInv
  <2>8. DataInv'
    BY <1>2, <2>0, <2>3, WhenFree DEF DataInv
  <2>9. OwedInv'
    BY <1>2, <2>0, <2>2, <2>3, WhenFree DEF OwedInv, BusyWith
  <2> QED
    BY <2>2, <2>3, <2>4, <2>5, <2>6, <2>7, <2>8, <2>9 DEF IInv
<1> QED
  BY <1>1, <1>2

\* Showing a chat's cache and asking for its messages; the windows are those
\* of a logged in user, and the caller has seen to the rest of the state.
LEMMA LoadMessagesStep ==
  ASSUME IInv, NEW c \in ChatOrNone, LoadMessages(c), current_chat' = c, conn = "up",
         serverUser = profile, profile # NoUser,
         UNCHANGED <<conn, serverUser, version, profile, lists>>,
         stack' \in Seq(Windows), stack' # <<>>, stack'[1] = "Login", StackInv',
         OnStack("Messages")', OnStack("Chats")' => OnStack("Chats"),
         owed' = owed \/ owed' = [owed EXCEPT !.messages = version],
         ~Busy \/ wire.job \in {"SendMessage"}
  PROVE  IInv'
<1>1. "LoadMessages" \in Jobs /\ Exec(Request("LoadMessages", "messages", c)) /\ SetCurrentChatId(c)
  BY DEF Jobs, LoadMessages
<1>2. /\ BusyWhileWaiting' /\ availible' \in BOOLEAN
      /\ wire'.st = "request" /\ wire'.job = "LoadMessages"
      /\ wire'.kind = "messages" /\ wire'.arg = c /\ Busy'
  BY <1>1, ExecWire DEF IInv
<1>3. cache' = cache /\ currentChatId' = c /\ items' = cache[c]
  BY <1>1 DEF SetCurrentChatId, IInv, CacheIsFiled
<1>4. owed' \in [chats : Versions, contacts : Versions, messages : Versions]
  BY DEF IInv, TypeOK
<1>5. TypeOK'
  BY <1>1, <1>2, <1>3, <1>4 DEF IInv, TypeOK
<1>6. WireInv'
  BY <1>1, <1>2, <1>3 DEF WireInv, RequestInv, KindsOf
<1>7. WindowsMatchLogin'
  BY DEF WindowsMatchLogin
<1>8. CacheIsFiled'
  BY <1>3 DEF IInv, CacheIsFiled
<1>9. owed'.chats = owed.chats /\ owed'.contacts = owed.contacts /\ owed'.messages \in {owed.messages, version}
  BY DEF IInv, TypeOK
<1>10. version \in Nat
  BY ChangesAssumption DEF IInv, TypeOK, Versions
<1>11. VersionInv'
  BY <1>3, <1>9, <1>10 DEF IInv, VersionInv
<1>12. DataInv'
  BY DEF IInv, DataInv, BusyWith
<1>13. OwedInv'
  <2>1. Reloading("LoadMessages")'
    BY <1>2 DEF Reloading, BusyWith
  <2>2. owed'.chats <= lists'.chats.ver /\ owed'.contacts <= lists'.contacts.ver
    BY <1>9 DEF IInv, OwedInv, Reloading, BusyWith
  <2> QED
    BY <1>3, <2>1, <2>2 DEF OwedInv
<1> QED
  BY <1>2, <1>5, <1>6, <1>7, <1>8, <1>11, <1>12, <1>13 DEF IInv

\* A chat is opened; if the facade is busy the window shows the chat that was
\* current before.
LEMMA OpenChatStep ==
  ASSUME IInv, NEW c \in Chats, OpenChat(c)
  PROVE  IInv'
<1>0. /\ Top = "Chats" /\ Push("Messages") /\ current_chat' = c /\ c \in ChatOrNone
      /\ UNCHANGED <<conn, serverUser, version, profile, lists, owed>>
      /\ "Messages" \in Windows /\ {"Messages", "Chats"} \subseteq UserWindows
  BY DEF OpenChat, Idle, Windows, UserWindows, ChatOrNone
<1>1. /\ stack' \in Seq(Windows) /\ stack' # <<>> /\ stack'[1] = "Login" /\ StackInv'
      /\ \A x : OnStack(x)' <=> OnStack(x) \/ x = "Messages"
  BY <1>0, PushStack DEF IInv
<1>2. OnStack("Chats") /\ ~OnStack("Messages")
  BY <1>0, TopStack DEF IInv
<1>3. conn = "up" /\ profile # NoUser /\ serverUser = profile
  BY <1>0, <1>2, LoggedIn
<1>4. CASE availible
  <2>1. LoadMessages(c) /\ ~Busy
    BY <1>4, WhenFree DEF OpenChat
  <2> QED
    BY <1>0, <1>1, <1>2, <1>3, <2>1, LoadMessagesStep
<1>5. CASE ~availible
  <2>0. UNCHANGED <<wire, availible, cache, items, currentChatId>>
    BY <1>5 DEF OpenChat, NoExec, msgVars
  <2>1. TypeOK' /\ BusyWhileWaiting'
    BY <1>0, <1>1, <2>0 DEF IInv, TypeOK, BusyWhileWaiting
  <2>2. WireInv'
    <3>1. Busy => wire.job # "Login"
      BY <1>0, <1>2 DEF IInv, WireInv, NoUserWindow
    <3>2. Busy' = Busy /\ (RequestInv => RequestInv') /\ (ResponseInv => ResponseInv')
      BY <1>0, <2>0 DEF Busy, RequestInv, ResponseInv
    <3> QED
      BY <1>0, <2>0, <3>1, <3>2 DEF IInv, WireInv
  <2>3. WindowsMatchLogin' /\ CacheIsFiled' /\ VersionInv'
    BY <1>0, <1>3, <2>0 DEF IInv, WindowsMatchLogin, CacheIsFiled, VersionInv
  <2>4. DataInv'
    BY <1>0, <1>1, <2>0 DEF IInv, DataInv, Busy, BusyWith
  <2>5. ~(owed.messages > 0)
    BY <1>2 DEF IInv, OwedInv
  <2>6. OwedInv'
    BY <1>0, <2>0, <2>5 DEF IInv, OwedInv, Reloading, Busy, BusyWith
  <2> QED
    BY <1>1, <2>1, <2>2, <2>3, <2>4, <2>6 DEF IInv
<1> QED
  BY <1>4, <1>5

\* A reload of the window's chat.
LEMMA ReloadMessagesStep ==
  ASSUME IInv, ReloadMessages
  PROVE  IInv'
<1>0. /\ Top = "Messages" /\ availible /\ LoadMessages(current_chat)
      /\ UNCHANGED <<conn, serverUser, version, profile, lists, current_chat, stack, owed>>
      /\ "Messages" \in UserWindows
  BY DEF ReloadMessages, Idle, UserWindows
<1>1. OnStack("Messages") /\ ~Busy
  BY <1>0, TopStack, WhenFree DEF IInv
<1>2. conn = "up" /\ profile # NoUser /\ serverUser = profile
  BY <1>0, <1>1, LoggedIn
<1>3. /\ stack' \in Seq(Windows) /\ stack' # <<>> /\ stack'[1] = "Login" /\ StackInv'
      /\ \A x : OnStack(x)' <=> OnStack(x)
      /\ current_chat \in ChatOrNone /\ current_chat' = current_chat
  BY <1>0 DEF IInv, TypeOK, StackInv, OnStack
<1>4. PICK c \in ChatOrNone : c = current_chat
  BY <1>3
<1>5. LoadMessages(c) /\ current_chat' = c
  BY <1>0, <1>3, <1>4
<1> QED
  BY <1>0, <1>1, <1>2, <1>3, <1>5, LoadMessagesStep

\* A window closes, and MessagesWindow takes its reaction with it.
LEMMA BackStep ==
  ASSUME IInv, Back
  PROVE  IInv'
<1>0. /\ UNCHANGED <<conn, serverUser, version, profile, lists, cache, items, currentChatId,
                     current_chat, wire, availible>>
      /\ Len(stack) > 1 /\ stack' = Pop
      /\ owed' = [owed EXCEPT !.messages = IF Top = "Messages" THEN 0 ELSE @]
  BY DEF Back, Idle, NoExec, msgVars
<1>1. /\ stack' \in Seq(Windows) /\ stack' # <<>> /\ stack'[1] = "Login" /\ StackInv'
      /\ \A x : OnStack(x)' => OnStack(x)
  BY <1>0, PopStack DEF IInv
<1>2. version \in Nat /\ 0 \in Versions /\ owed \in [chats : Versions, contacts : Versions, messages : Versions]
  BY ChangesAssumption DEF IInv, TypeOK, Versions
<1>3. /\ owed' \in [chats : Versions, contacts : Versions, messages : Versions]
      /\ owed'.chats = owed.chats /\ owed'.contacts = owed.contacts
      /\ owed'.messages = IF Top = "Messages" THEN 0 ELSE owed.messages
  BY <1>0, <1>2
<1>4. ~(owed'.messages > 0)
  <2>1. Top # "Messages" => ~(owed.messages > 0)
    BY TopStack DEF IInv, OwedInv
  <2> QED
    BY <1>3, <2>1
<1>5. TypeOK' /\ BusyWhileWaiting'
  BY <1>0, <1>1, <1>3 DEF IInv, TypeOK, BusyWhileWaiting
<1>6. WireInv'
  <2>1. NoUserWindow => NoUserWindow'
    BY <1>1 DEF NoUserWindow
  <2>2. Busy' = Busy /\ (RequestInv => RequestInv') /\ (ResponseInv => ResponseInv')
    BY <1>0 DEF Busy, RequestInv, ResponseInv
  <2> QED
    BY <1>0, <2>1, <2>2 DEF IInv, WireInv
<1>7. WindowsMatchLogin' /\ CacheIsFiled'
  BY <1>0, <1>1 DEF IInv, WindowsMatchLogin, CacheIsFiled
<1>8. VersionInv'
  BY <1>0, <1>2, <1>3 DEF IInv, VersionInv
<1>9. DataInv'
  BY <1>0, <1>1 DEF IInv, DataInv, Busy, BusyWith
<1>10. OwedInv'
  BY <1>0, <1>3, <1>4 DEF IInv, OwedInv, Reloading, Busy, BusyWith
<1> QED
  BY <1>1, <1>5, <1>6, <1>7, <1>8, <1>9, <1>10 DEF IInv

-----------------------------------------------------------------------------
(* The connection. *)

\* Backend::disconnected leaves nothing but LoginWindow.
LEMMA DisconnectedStep ==
  ASSUME IInv, Disconnected, conn' \in {"down", "connecting"}
  PROVE  IInv'
<1>0. /\ availible' = TRUE /\ wire' = Nothing /\ serverUser' = NoUser /\ stack' = <<"Login">>
      /\ owed' = NothingOwed /\ UNCHANGED <<version, profile, lists, cache, items, currentChatId, current_chat>>
  BY DEF Disconnected, msgVars
<1>1. /\ stack' \in Seq(Windows) /\ stack' # <<>> /\ stack'[1] = "Login" /\ Len(stack') = 1
  BY <1>0 DEF Windows
<1>2. StackInv' /\ \A x : OnStack(x)' <=> x = "Login"
  BY <1>1 DEF StackInv, OnStack
<1>3. ~Busy' /\ BusyWhileWaiting' /\ wire'.st = "none"
  BY <1>0, WireFields DEF Busy, BusyWhileWaiting
<1>4. version \in Nat /\ 0 \in Versions
  BY ChangesAssumption DEF IInv, TypeOK, Versions
<1>5. /\ owed' \in [chats : Versions, contacts : Versions, messages : Versions]
      /\ owed'.chats = 0 /\ owed'.contacts = 0 /\ owed'.messages = 0
  BY <1>0, <1>4 DEF NothingOwed
<1>6. TypeOK'
  BY <1>0, <1>1, <1>3, <1>5 DEF IInv, TypeOK, UserOrNone
<1>7. WireInv' /\ CacheIsFiled'
  BY <1>0, <1>3 DEF IInv, WireInv, CacheIsFiled
<1>8. WindowsMatchLogin' /\ DataInv'
  BY <1>2 DEF WindowsMatchLogin, UserWindows, DataInv
<1>9. VersionInv'
  BY <1>0, <1>4, <1>5 DEF IInv, VersionInv
<1>10. lists.chats.ver >= 0 /\ lists.contacts.ver >= 0
  BY ChangesAssumption DEF IInv, TypeOK, ListType, Versions
<1>11. OwedInv'
  BY <1>0, <1>5, <1>10 DEF OwedInv
<1> QED
  BY <1>2, <1>3, <1>6, <1>7, <1>8, <1>9, <1>11 DEF IInv

\* Connecting, in vain or not, happens with nothing on the wire.
LEMMA ConnectStep ==
  ASSUME IInv, conn # "up", conn' \in {"down", "connecting", "up"}, availible' = TRUE \/ UNCHANGED availible,
         UNCHANGED <<serverUser, version, wire, profile, lists, cache, items, currentChatId,
                     current_chat, stack, owed>>
  PROVE  IInv'
<1>1. ~Busy /\ availible
  BY DEF IInv, WireInv, BusyWhileWaiting, Busy
<1>2. ~Busy' /\ availible' /\ BusyWhileWaiting'
  BY <1>1 DEF Busy, BusyWhileWaiting
<1>3. \A w : OnStack(w)' <=> OnStack(w)
  BY DEF OnStack
<1>4. TypeOK' /\ StackInv'
  BY <1>1, <1>2 DEF IInv, TypeOK, StackInv
<1>5. \A w \in UserWindows : ~OnStack(w)
  BY DEF IInv, WindowsMatchLogin
<1>6. WireInv' /\ WindowsMatchLogin'
  BY <1>2, <1>3, <1>5 DEF WireInv, WindowsMatchLogin
<1>7. DataInv'
  BY <1>3, <1>5 DEF DataInv, UserWindows
<1>8. CacheIsFiled' /\ VersionInv'
  BY DEF IInv, CacheIsFiled, VersionInv
<1>9. OwedInv'
  BY <1>1, <1>2, <1>3 DEF IInv, OwedInv, Reloading, BusyWith
<1> QED
  BY <1>2, <1>4, <1>6, <1>7, <1>8, <1>9 DEF IInv

-----------------------------------------------------------------------------
(* The server. *)

\* A response takes the place of its request.
LEMMA ReplyStep ==
  ASSUME IInv, conn = "up", wire.st = "request", NEW kind, NEW val, Reply(kind, val), ResponseInv',
         serverUser' \in UserOrNone, serverUser' = serverUser \/ wire.job = "Login",
         version' \in Versions, version <= version',
         wire.job = "LoadData" => kind = wire.kind \/ serverUser = NoUser
  PROVE  IInv'
<1>0. UNCHANGED <<conn, availible, profile, lists, cache, items, currentChatId, current_chat, stack, owed>>
  BY DEF Reply, msgVars
<1>1. Busy /\ wire.job \in Jobs /\ (wire.job = "Login" => NoUserWindow)
  BY WireFields DEF IInv, WireInv, Busy
<1>2. Busy' /\ wire'.st = "response" /\ wire'.job = wire.job /\ wire'.kind = kind
  BY WireFields DEF Reply, Busy
<1>3. \A w : OnStack(w)' <=> OnStack(w)
  BY <1>0 DEF OnStack
<1>4. BusyWhileWaiting'
  BY <1>0, <1>1, <1>2 DEF IInv, BusyWhileWaiting, Busy
<1>5. TypeOK' /\ StackInv'
  BY <1>0, <1>1, <1>2 DEF IInv, TypeOK, StackInv
<1>6. WireInv'
  BY <1>0, <1>1, <1>2, <1>3 DEF WireInv, NoUserWindow
<1>7. WindowsMatchLogin'
  BY <1>0, <1>1, <1>3 DEF IInv, WindowsMatchLogin, NoUserWindow
<1>8. CacheIsFiled'
  BY <1>0 DEF IInv, CacheIsFiled
<1>9. VersionInv'
  <2>1. version \in Nat /\ version' \in Nat
    BY ChangesAssumption DEF IInv, TypeOK, Versions
  <2>2. /\ lists.chats.ver \in Nat /\ lists.contacts.ver \in Nat /\ items.ver \in Nat
        /\ \A c \in ChatOrNone : cache[c].ver \in Nat
        /\ owed.chats \in Nat /\ owed.contacts \in Nat /\ owed.messages \in Nat
    BY ChangesAssumption DEF IInv, TypeOK, ListType, ItemsType, Versions
  <2> QED
    BY <1>0, <2>1, <2>2 DEF IInv, VersionInv
<1>10. DataInv'
  <2>1. OnStack("Chats") => serverUser # NoUser
    BY LoggedIn DEF UserWindows
  <2> QED
    BY <1>0, <1>1, <1>2, <1>3, <2>1 DEF IInv, DataInv, BusyWith
<1>11. OwedInv'
  BY <1>0, <1>1, <1>2, <1>3 DEF IInv, OwedInv, Reloading, BusyWith
<1> QED
  BY <1>4, <1>5, <1>6, <1>7, <1>8, <1>9, <1>10, <1>11 DEF IInv

\* The server's answers are the ones the jobs expect.
LEMMA ServerStep ==
  ASSUME IInv, Server
  PROVE  IInv'
<1>0. /\ conn = "up" /\ wire.st = "request" /\ Busy /\ RequestInv /\ wire.job \in Jobs
      /\ serverUser \in UserOrNone /\ version \in Versions /\ version \in Nat /\ MaxChanges \in Nat
  BY WireFields, ChangesAssumption DEF Server, IInv, WireInv, Busy, TypeOK, Versions
<1>1. wire.kind \in KindsOf(wire.job)
  BY <1>0 DEF RequestInv
<1>2. ASSUME NEW kind, NEW val, Reply(kind, val)
      PROVE  /\ wire'.kind = kind /\ wire'.val = val /\ wire'.job = wire.job
             /\ UNCHANGED currentChatId
  BY <1>2, WireFields DEF Reply, msgVars
<1>3. CASE ServeStatus
  <2>1. wire.job \in {"Register", "SendMessage", "AddContact", "CreateChat"}
    BY <1>0, <1>1, <1>3 DEF ServeStatus, KindsOf, Jobs
  <2>2. CASE wire.kind = "register" \/ serverUser # NoUser
    <3>1. PICK ok \in BOOLEAN : /\ ok => version < MaxChanges
                                /\ version' = IF ok THEN version + 1 ELSE version
                                /\ Reply("status", ok)
      BY <1>3, <2>2 DEF ServeStatus
    <3>2. ResponseInv'
      BY <1>2, <2>1, <3>1 DEF ResponseInv
    <3>3. version' \in Versions /\ version <= version'
      BY <1>0, <3>1 DEF Versions
    <3> QED
      BY <1>0, <1>3, <2>1, <3>1, <3>2, <3>3, ReplyStep DEF ServeStatus
  <2>3. CASE ~(wire.kind = "register" \/ serverUser # NoUser)
    <3>1. Reply("empty", FALSE) /\ UNCHANGED <<version, serverUser>>
      BY <1>3, <2>3 DEF ServeStatus
    <3>2. wire.job # "Register"
      BY <1>1, <2>3 DEF KindsOf
    <3>3. ResponseInv'
      BY <1>2, <2>1, <2>3, <3>1, <3>2 DEF ResponseInv
    <3>4. PICK val : Reply("empty", val)
      BY <3>1, Zenon
    <3> QED
      BY <1>0, <2>1, <3>1, <3>3, <3>4, ReplyStep
  <2> QED
    BY <2>2, <2>3
<1>4. CASE ServeLogin
  <2>1. wire.job = "Login" /\ wire.arg \in Users /\ wire.arg \in UserOrNone
    BY <1>0, <1>1, <1>4 DEF ServeLogin, KindsOf, RequestInv, UserOrNone
  <2>2. CASE Reply("login", wire.arg) /\ serverUser' = wire.arg
    <3>1. ResponseInv'
      BY <1>2, <2>1, <2>2 DEF ResponseInv
    <3> QED
      BY <1>0, <1>4, <2>1, <2>2, <3>1, ReplyStep DEF ServeLogin
  <2>3. CASE Reply("login", NoUser) /\ UNCHANGED serverUser
    <3>1. ResponseInv'
      BY <1>2, <2>1, <2>3 DEF ResponseInv, UserOrNone
    <3> QED
      BY <1>0, <1>4, <2>1, <2>3, <3>1, ReplyStep DEF ServeLogin
  <2> QED
    BY <1>4, <2>2, <2>3 DEF ServeLogin
<1>5. CASE ServeList
  <2>0. wire.kind \in {"chats", "contacts", "messages"} /\ UNCHANGED <<serverUser, version>>
    BY <1>5 DEF ServeList
  <2>1. wire.job \notin {"Login", "Register"} /\ (wire.kind = "messages" => wire.job = "LoadMessages")
    BY <1>1, <2>0 DEF KindsOf
  <2>2. CASE serverUser = NoUser
    <3>1. Reply("empty", FALSE)
      BY <1>5, <2>2 DEF ServeList
    <3>2. ResponseInv'
      BY <1>2, <2>0, <2>1, <2>2, <3>1 DEF ResponseInv
    <3>3. PICK val : Reply("empty", val)
      BY <3>1, Zenon
    <3> QED
      BY <1>0, <2>0, <2>2, <3>2, <3>3, ReplyStep
  <2>3. CASE serverUser # NoUser /\ wire.kind = "messages"
    <3>1. Reply("messages", [chat |-> wire.arg, ver |-> version])
      BY <1>5, <2>3 DEF ServeList
    <3>2. wire.arg = currentChatId
      BY <1>0, <2>1, <2>3 DEF RequestInv
    <3>3. wire'.val = [chat |-> currentChatId, ver |-> version] /\ wire'.kind = "messages"
          /\ wire'.job = wire.job /\ UNCHANGED currentChatId
      BY <1>2, <3>1, <3>2
    <3>4. ResponseInv'
      BY <2>0, <2>1, <2>3, <3>3 DEF ResponseInv
    <3> QED
      BY <1>0, <2>0, <2>1, <2>3, <3>1, <3>4, ReplyStep
  <2>4. CASE serverUser # NoUser /\ wire.kind \in {"chats", "contacts"}
    <3>1. Reply(wire.kind, [of |-> serverUser, ver |-> version])
      BY <1>5, <2>4 DEF ServeList
    <3>2. PICK kind : kind = wire.kind
      OBVIOUS
    <3>3. wire'.val = [of |-> serverUser, ver |-> version] /\ wire'.kind = kind
          /\ wire'.job = wire.job
      BY <1>2, <3>1, <3>2
    <3>4. ResponseInv'
      <4>1. KindsOf(wire.job)' = KindsOf(wire.job)
        BY <3>3 DEF KindsOf
      <4> QED
        BY <1>1, <2>0, <2>4, <3>2, <3>3, <4>1 DEF ResponseInv
    <3> QED
      BY <1>0, <2>0, <2>4, <3>1, <3>4, ReplyStep
  <2> QED
    BY <2>0, <2>2, <2>3, <2>4
<1> QED
  BY <1>3, <1>4, <1>5 DEF Server

-----------------------------------------------------------------------------
(* The callbacks. *)

\* A callback runs with its response on the wire.
LEMMA CallbackFacts ==
  ASSUME IInv, NEW job, Callback(job)
  PROVE  /\ Busy /\ wire.job = job /\ ResponseInv /\ conn = "up"
         /\ job = "Login" => NoUserWindow
         /\ UNCHANGED <<conn, serverUser, version, current_chat>>
  BY WireFields DEF Callback, IInv, WireInv, Busy

\* The operation ends: what the busy facade still promised must hold now.
LEMMA DoneStep ==
  ASSUME IInv, Done,
         UNCHANGED <<conn, serverUser, version, profile, currentChatId, current_chat, stack, owed>>,
         lists' \in [chats : ListType, contacts : ListType],
         cache' \in [ChatOrNone -> ItemsType], items' \in ItemsType, CacheIsFiled', VersionInv',
         OnStack("Chats") => lists'.contacts.of = profile /\ lists'.chats.of = profile,
         owed.chats <= lists'.chats.ver, owed.contacts <= lists'.contacts.ver,
         owed.messages > 0 => items'.chat = current_chat /\ owed.messages <= items'.ver
  PROVE  IInv'
<1>1. wire' = Nothing /\ availible' = TRUE /\ wire'.st = "none"
  BY WireFields DEF Done
<1>2. ~Busy' /\ BusyWhileWaiting'
  BY <1>1 DEF Busy, BusyWhileWaiting
<1>3. \A w : OnStack(w)' <=> OnStack(w)
  BY DEF OnStack
<1>4. TypeOK' /\ StackInv'
  BY <1>1 DEF IInv, TypeOK, StackInv
<1>5. WireInv' /\ WindowsMatchLogin'
  BY <1>2, <1>3 DEF IInv, WireInv, WindowsMatchLogin
<1>6. DataInv'
  BY <1>3 DEF DataInv
<1>7. OwedInv'
  BY <1>2, <1>3 DEF IInv, OwedInv, BusyWith
<1> QED
  BY <1>2, <1>4, <1>5, <1>6, <1>7 DEF IInv

\* An operation that read nothing ends.
LEMMA EndStep ==
  ASSUME IInv, Done, Busy,
         UNCHANGED <<conn, serverUser, version, profile, lists, cache, items, currentChatId,
                     current_chat, stack, owed>>,
         \/ wire.job \in {"Login", "Register", "SendMessage", "AddContact", "CreateChat"}
         \/ serverUser = NoUser
  PROVE  IInv'
<1>1. /\ lists' \in [chats : ListType, contacts : ListType]
      /\ cache' \in [ChatOrNone -> ItemsType] /\ items' \in ItemsType
  BY DEF IInv, TypeOK
<1>2. CacheIsFiled' /\ VersionInv'
  BY DEF IInv, CacheIsFiled, VersionInv
<1>3. OnStack("Chats") => serverUser # NoUser
  BY LoggedIn DEF UserWindows
<1>4. OnStack("Chats") => lists'.contacts.of = profile /\ lists'.chats.of = profile
  BY <1>3 DEF IInv, DataInv, BusyWith
<1>5. /\ owed.chats <= lists'.chats.ver /\ owed.contacts <= lists'.contacts.ver
      /\ owed.messages > 0 => items'.chat = current_chat /\ owed.messages <= items'.ver
  BY DEF IInv, OwedInv, Reloading, BusyWith
<1> QED
  BY <1>1, <1>2, <1>4, <1>5, DoneStep

\* The version of the data as a number, and lists fresh from the server.
LEMMA FreshTypes ==
  ASSUME IInv
  PROVE  /\ version \in Nat /\ version \in Versions
         /\ [of |-> serverUser, ver |-> version] \in ListType
         /\ [chat |-> currentChatId, ver |-> version] \in ItemsType
         /\ lists \in [chats : ListType, contacts : ListType]
         /\ lists.chats \in ListType /\ lists.contacts \in ListType
  BY ChangesAssumption DEF IInv, TypeOK, Versions, ListType, ItemsType

\* The lists, the one of them that arrived being the user's and up to date.
LEMMA SetListFacts ==
  ASSUME IInv, ResponseInv, NEW l \in {"chats", "contacts"}, SetList(l)
  PROVE  /\ lists' \in [chats : ListType, contacts : ListType]
         /\ wire.kind # l => lists' = lists
         /\ wire.kind = l /\ l = "chats" =>
              lists'.chats = [of |-> serverUser, ver |-> version] /\ lists'.contacts = lists.contacts
         /\ wire.kind = l /\ l = "contacts" =>
              lists'.contacts = [of |-> serverUser, ver |-> version] /\ lists'.chats = lists.chats
<1>1. CASE wire.kind # l
  BY <1>1, FreshTypes DEF SetList
<1>2. CASE wire.kind = l /\ l = "chats"
  <2>1. wire.val = [of |-> serverUser, ver |-> version] /\ lists' = [lists EXCEPT !["chats"] = wire.val]
    BY <1>2 DEF ResponseInv, SetList
  <2>2. lists' = [lists EXCEPT !.chats = wire.val]
    BY <2>1
  <2> QED
    BY <1>2, <2>1, <2>2, FreshTypes
<1>3. CASE wire.kind = l /\ l = "contacts"
  <2>1. wire.val = [of |-> serverUser, ver |-> version] /\ lists' = [lists EXCEPT !["contacts"] = wire.val]
    BY <1>3 DEF ResponseInv, SetList
  <2>2. lists' = [lists EXCEPT !.contacts = wire.val]
    BY <2>1
  <2> QED
    BY <1>3, <2>1, <2>2, FreshTypes
<1> QED
  BY <1>1, <1>2, <1>3

\* A list is read and the operation ends.
LEMMA ListStep ==
  ASSUME IInv, NEW l \in {"chats", "contacts"}, SetList(l), Done, Busy, ResponseInv,
         UNCHANGED <<conn, serverUser, version, profile, cache, items, currentChatId,
                     current_chat, stack, owed>>,
         \/ l = "chats" /\ wire.job \in {"LoadChats", "LoadData"}
         \/ l = "contacts" /\ wire.job = "LoadContacts",
         wire.kind # "contacts" \/ wire.job = "LoadContacts"
  PROVE  IInv'
<1>0. wire.kind \in {"empty", l} /\ (wire.kind = "empty" => serverUser = NoUser)
  BY DEF ResponseInv, KindsOf
<1>1. CASE wire.kind # l
  BY <1>0, <1>1, SetListFacts, EndStep
<1>2. CASE wire.kind = l
  <2>1. lists' \in [chats : ListType, contacts : ListType]
    BY SetListFacts
  <2>2. /\ l = "chats" => /\ lists'.chats.of = serverUser /\ lists'.chats.ver = version
                          /\ lists'.contacts = lists.contacts
        /\ l = "contacts" => /\ lists'.contacts.of = serverUser /\ lists'.contacts.ver = version
                             /\ lists'.chats = lists.chats
    BY <1>2, SetListFacts
  <2>3. cache' \in [ChatOrNone -> ItemsType] /\ items' \in ItemsType /\ CacheIsFiled'
    BY DEF IInv, TypeOK, CacheIsFiled
  <2>4. VersionInv'
    BY <2>2, FreshTypes DEF IInv, VersionInv
  <2>5. OnStack("Chats") => serverUser = profile
    BY LoggedIn DEF UserWindows
  <2>6. OnStack("Chats") => lists'.contacts.of = profile /\ lists'.chats.of = profile
    BY <1>2, <2>2, <2>5 DEF IInv, DataInv, BusyWith
  <2>7. owed.chats <= lists'.chats.ver /\ owed.contacts <= lists'.contacts.ver
    BY <2>2 DEF IInv, OwedInv, VersionInv, Reloading, BusyWith
  <2>8. owed.messages > 0 => items'.chat = current_chat /\ owed.messages <= items'.ver
    BY DEF IInv, OwedInv, Reloading, BusyWith
  <2> QED
    BY <2>1, <2>3, <2>4, <2>6, <2>7, <2>8, DoneStep
<1> QED
  BY <1>1, <1>2

\* A profile arrives: ChatsWindow opens and loads the new user's data.
LEMMA LoginStep ==
  ASSUME IInv, OnLogin
  PROVE  IInv'
<1>0. /\ Busy /\ wire.job = "Login" /\ ResponseInv /\ conn = "up" /\ NoUserWindow
      /\ UNCHANGED <<conn, serverUser, version, current_chat, lists, cache, items, currentChatId, owed>>
  BY CallbackFacts DEF OnLogin, msgVars
<1>1. CASE ~(wire.kind = "login" /\ wire.val # NoUser)
  BY <1>0, <1>1, EndStep DEF OnLogin
<1>2. CASE wire.kind = "login" /\ wire.val # NoUser
  <2>0. /\ profile' = wire.val /\ Push("Chats") /\ Exec(Request("LoadData", "contacts", NoUser))
        /\ "LoadData" \in Jobs /\ "Chats" \in Windows /\ "Messages" \in UserWindows
    BY <1>2 DEF OnLogin, Jobs, Windows, UserWindows
  <2>1. wire.val \in UserOrNone /\ serverUser = wire.val
    BY <1>0, <1>2 DEF ResponseInv
  <2>2. ~OnStack("Messages") /\ Top # "Messages"
    BY <1>0, <2>0, TopStack DEF NoUserWindow, IInv
  <2>3. /\ stack' \in Seq(Windows) /\ stack' # <<>> /\ stack'[1] = "Login" /\ StackInv'
    BY <2>0, <2>2, PushStack DEF IInv
  <2>4. /\ BusyWhileWaiting' /\ availible' \in BOOLEAN
        /\ wire'.st = "request" /\ wire'.job = "LoadData" /\ wire'.kind = "contacts" /\ Busy'
    BY <1>0, <2>0, ExecWire DEF IInv
  <2>5. TypeOK'
    BY <1>0, <2>0, <2>1, <2>3, <2>4 DEF IInv, TypeOK
  <2>6. WireInv'
    BY <1>0, <2>0, <2>4 DEF WireInv, RequestInv, KindsOf
  <2>7. WindowsMatchLogin'
    BY <1>0, <1>2, <2>0, <2>1 DEF WindowsMatchLogin
  <2>8. DataInv'
    BY <2>4 DEF DataInv, BusyWith
  <2>9. CacheIsFiled' /\ VersionInv'
    BY <1>0 DEF IInv, CacheIsFiled, VersionInv
  <2>10. OwedInv'
    BY <1>0, <2>2 DEF IInv, OwedInv, Reloading, BusyWith
  <2> QED
    BY <2>3, <2>4, <2>5, <2>6, <2>7, <2>8, <2>9, <2>10 DEF IInv
<1> QED
  BY <1>1, <1>2

\* A callback starts the next request: for the list its change made stale, or
\* for the second half of LoadData.
LEMMA NextRequestStep ==
  ASSUME IInv, Busy, conn = "up", wire.job # "LoadMessages",
         NEW job \in {"LoadData", "LoadChats", "LoadContacts"}, NEW kind \in {"chats", "contacts"},
         kind \in KindsOf(job), Exec(Request(job, kind, NoUser)),
         UNCHANGED <<conn, serverUser, version, profile, cache, items, currentChatId, current_chat, stack>>,
         lists' \in [chats : ListType, contacts : ListType], lists'.chats = lists.chats,
         owed' \in [chats : Versions, contacts : Versions, messages : Versions], VersionInv',
         OnStack("Chats") => /\ lists'.contacts.of = profile
                             /\ lists'.chats.of = profile \/ job = "LoadData",
         owed'.messages = owed.messages,
         owed'.chats <= lists'.chats.ver \/ (job = "LoadChats" /\ serverUser # NoUser),
         owed'.contacts <= lists'.contacts.ver \/ (job = "LoadContacts" /\ serverUser # NoUser)
  PROVE  IInv'
<1>0. job \in Jobs
  BY DEF Jobs
<1>1. /\ BusyWhileWaiting' /\ availible' \in BOOLEAN
      /\ wire'.st = "request" /\ wire'.job = job /\ wire'.kind = kind /\ Busy'
  BY <1>0, ExecWire DEF IInv
<1>2. \A w : OnStack(w)' <=> OnStack(w)
  BY DEF OnStack
<1>3. TypeOK' /\ StackInv'
  BY <1>0, <1>1 DEF IInv, TypeOK, StackInv
<1>4. WireInv'
  BY <1>0, <1>1 DEF WireInv, RequestInv
<1>5. WindowsMatchLogin' /\ CacheIsFiled'
  BY <1>2 DEF IInv, WindowsMatchLogin, CacheIsFiled
<1>6. DataInv'
  BY <1>1, <1>2 DEF DataInv, BusyWith
<1>7. OwedInv'
  BY <1>1, <1>2 DEF IInv, OwedInv, Reloading, BusyWith
<1> QED
  BY <1>1, <1>3, <1>4, <1>5, <1>6, <1>7 DEF IInv

\* LoadData: the contacts, and with them the request for the chats.
LEMMA LoadDataStep ==
  ASSUME IInv, OnLoadData
  PROVE  IInv'
<1>0. /\ Busy /\ wire.job = "LoadData" /\ ResponseInv /\ conn = "up"
      /\ UNCHANGED <<conn, serverUser, version, current_chat, profile, stack, cache, items, currentChatId, owed>>
  BY CallbackFacts DEF OnLoadData, msgVars
<1>1. CASE wire.kind # "contacts"
  BY <1>0, <1>1, ListStep DEF OnLoadData
<1>2. CASE wire.kind = "contacts"
  <2>1. SetList("contacts") /\ Exec(Request("LoadData", "chats", NoUser)) /\ "chats" \in KindsOf("LoadData")
    BY <1>2 DEF OnLoadData, KindsOf
  <2>2. /\ lists' \in [chats : ListType, contacts : ListType] /\ lists'.chats = lists.chats
        /\ lists'.contacts.of = serverUser /\ lists'.contacts.ver = version
    BY <1>0, <1>2, <2>1, SetListFacts
  <2>3. owed' \in [chats : Versions, contacts : Versions, messages : Versions]
    BY <1>0 DEF IInv, TypeOK
  <2>4. VersionInv'
    BY <1>0, <2>2, FreshTypes DEF IInv, VersionInv
  <2>5. OnStack("Chats") => serverUser = profile
    BY LoggedIn DEF UserWindows
  <2>6. owed'.chats <= lists'.chats.ver /\ owed'.contacts <= lists'.contacts.ver
    BY <1>0, <2>2 DEF IInv, OwedInv, VersionInv, Reloading, BusyWith
  <2> QED
    BY <1>0, <2>1, <2>2, <2>3, <2>4, <2>5, <2>6, NextRequestStep
<1> QED
  BY <1>1, <1>2

\* The reactions to an accepted contact and an accepted chat.
LEMMA ReactionStep ==
  ASSUME IInv, OnAddContact \/ OnCreateChat
  PROVE  IInv'
<1>0. /\ Busy /\ wire.job \in {"AddContact", "CreateChat"} /\ ResponseInv /\ conn = "up"
      /\ UNCHANGED <<conn, serverUser, version, current_chat, profile, stack, lists, cache, items, currentChatId>>
  BY CallbackFacts DEF OnAddContact, OnCreateChat, msgVars
<1>1. CASE Done /\ UNCHANGED owed
  BY <1>0, <1>1, EndStep
<1>2. /\ lists' \in [chats : ListType, contacts : ListType] /\ lists'.chats = lists.chats
      /\ owed \in [chats : Versions, contacts : Versions, messages : Versions] /\ version \in Versions
      /\ version \in Nat
  BY <1>0, FreshTypes DEF IInv, TypeOK
<1>3. OnStack("Chats") => lists'.contacts.of = profile /\ lists'.chats.of = profile
  BY <1>0 DEF IInv, DataInv, BusyWith
<1>4. owed.chats <= lists'.chats.ver /\ owed.contacts <= lists'.contacts.ver
  BY <1>0 DEF IInv, OwedInv, Reloading, BusyWith
<1>5. CASE OnAddContact /\ ~(Done /\ UNCHANGED owed)
  <2>1. /\ OnStack("AddContact") /\ Exec(Request("LoadContacts", "contacts", NoUser))
        /\ owed' = [owed EXCEPT !.contacts = version] /\ "contacts" \in KindsOf("LoadContacts")
    BY <1>5 DEF OnAddContact, KindsOf
  <2>2. serverUser # NoUser
    BY <2>1, LoggedIn DEF UserWindows
  <2>3. /\ owed' \in [chats : Versions, contacts : Versions, messages : Versions]
        /\ owed'.chats = owed.chats /\ owed'.messages = owed.messages /\ owed'.contacts = version
    BY <1>2, <2>1
  <2>4. VersionInv'
    BY <1>0, <1>2, <2>3 DEF IInv, VersionInv
  <2> QED
    BY <1>0, <1>2, <1>3, <1>4, <2>1, <2>2, <2>3, <2>4, NextRequestStep
<1>6. CASE OnCreateChat /\ ~(Done /\ UNCHANGED owed)
  <2>1. /\ OnStack("Contacts") /\ Exec(Request("LoadChats", "chats", NoUser))
        /\ owed' = [owed EXCEPT !.chats = version] /\ "chats" \in KindsOf("LoadChats")
    BY <1>6 DEF OnCreateChat, KindsOf
  <2>2. serverUser # NoUser
    BY <2>1, LoggedIn DEF UserWindows
  <2>3. /\ owed' \in [chats : Versions, contacts : Versions, messages : Versions]
        /\ owed'.contacts = owed.contacts /\ owed'.messages = owed.messages /\ owed'.chats = version
    BY <1>2, <2>1
  <2>4. VersionInv'
    BY <1>0, <1>2, <2>3 DEF IInv, VersionInv
  <2> QED
    BY <1>0, <1>2, <1>3, <1>4, <2>1, <2>2, <2>3, <2>4, NextRequestStep
<1> QED
  BY <1>1, <1>5, <1>6

\* The reaction to an accepted message reloads the chat of its window.
LEMMA SentStep ==
  ASSUME IInv, OnSendMessage
  PROVE  IInv'
<1>0. /\ Busy /\ wire.job = "SendMessage" /\ conn = "up"
      /\ UNCHANGED <<conn, serverUser, version, current_chat, profile, stack, lists>>
  BY CallbackFacts DEF OnSendMessage
<1>1. CASE ~(Accepted /\ OnStack("Messages"))
  <2>1. Done /\ UNCHANGED <<cache, items, currentChatId, owed>>
    BY <1>1 DEF OnSendMessage, msgVars
  <2> QED
    BY <1>0, <2>1, EndStep
<1>2. CASE Accepted /\ OnStack("Messages")
  <2>1. LoadMessages(current_chat) /\ owed' = [owed EXCEPT !.messages = version]
    BY <1>2 DEF OnSendMessage
  <2>2. serverUser = profile /\ profile # NoUser
    BY <1>2, LoggedIn DEF UserWindows
  <2>3. /\ stack' \in Seq(Windows) /\ stack' # <<>> /\ stack'[1] = "Login" /\ StackInv'
        /\ \A x : OnStack(x)' <=> OnStack(x)
        /\ current_chat \in ChatOrNone
    BY <1>0 DEF IInv, TypeOK, StackInv, OnStack
  <2>4. PICK c \in ChatOrNone : c = current_chat
    BY <2>3
  <2>5. LoadMessages(c) /\ current_chat' = c
    BY <1>0, <2>1, <2>4
  <2> QED
    BY <1>0, <1>2, <2>1, <2>2, <2>3, <2>5, LoadMessagesStep
<1> QED
  BY <1>1, <1>2

\* Messages are filed under the chat they were asked for.
LEMMA MessagesStep ==
  ASSUME IInv, OnLoadMessages
  PROVE  IInv'
<1>0. /\ Busy /\ wire.job = "LoadMessages" /\ ResponseInv /\ conn = "up" /\ Done
      /\ UNCHANGED <<conn, serverUser, version, current_chat, profile, stack, lists, currentChatId, owed>>
  BY CallbackFacts DEF OnLoadMessages
<1>1. wire.kind \in {"empty", "messages"} /\ (wire.kind = "empty" => serverUser = NoUser)
  BY <1>0 DEF ResponseInv, KindsOf
<1>2. CASE wire.kind = "empty"
  BY <1>0, <1>1, <1>2, EndStep DEF OnLoadMessages
<1>3. CASE wire.kind = "messages"
  <2>0. PICK val : val = [chat |-> currentChatId, ver |-> version]
    OBVIOUS
  <2>1. wire.val = val
    BY <1>0, <1>3, <2>0 DEF ResponseInv
  <2>2. cache' = [cache EXCEPT ![currentChatId] = val] /\ items' = val
    BY <1>3, <2>1 DEF OnLoadMessages
  <2>3. val \in ItemsType /\ val.chat = currentChatId /\ val.ver = version /\ version \in Nat
    BY <2>0, FreshTypes
  <2>4. cache \in [ChatOrNone -> ItemsType] /\ currentChatId \in ChatOrNone
    BY DEF IInv, TypeOK
  <2>5. cache' \in [ChatOrNone -> ItemsType] /\ items' \in ItemsType
    BY <2>2, <2>3, <2>4
  <2>6. \A c \in ChatOrNone : cache'[c] = IF c = currentChatId THEN val ELSE cache[c]
    BY <2>2, <2>4
  <2>7. CacheIsFiled'
    BY <1>0, <2>2, <2>3, <2>4, <2>6 DEF IInv, CacheIsFiled
  <2>8. VersionInv'
    BY <1>0, <2>2, <2>3, <2>6 DEF IInv, VersionInv
  <2>9. lists' \in [chats : ListType, contacts : ListType]
    BY <1>0, FreshTypes
  <2>10. OnStack("Chats") => lists'.contacts.of = profile /\ lists'.chats.of = profile
    BY <1>0 DEF IInv, DataInv, BusyWith
  <2>11. owed.chats <= lists'.chats.ver /\ owed.contacts <= lists'.contacts.ver
    BY <1>0 DEF IInv, OwedInv, Reloading, BusyWith
  <2>12. owed.messages > 0 => items'.chat = current_chat /\ owed.messages <= items'.ver
    BY <1>0, <2>2, <2>3 DEF IInv, OwedInv, VersionInv, BusyWith
  <2> QED
    BY <1>0, <2>5, <2>7, <2>8, <2>9, <2>10, <2>11, <2>12, DoneStep
<1> QED
  BY <1>1, <1>2, <1>3

-----------------------------------------------------------------------------
(* The theorems. *)

\* The callbacks all together.
LEMMA ResponseStep ==
  ASSUME IInv, OnResponse
  PROVE  IInv'
<1>1. CASE OnRegister
  <2>1. Busy /\ wire.job = "Register" /\ UNCHANGED <<conn, serverUser, version, current_chat>>
    BY <1>1, CallbackFacts DEF OnRegister
  <2> QED
    BY <1>1, <2>1, EndStep DEF OnRegister, msgVars
<1>2. CASE OnLoadChats
  <2>1. Busy /\ wire.job = "LoadChats" /\ ResponseInv /\ UNCHANGED <<conn, serverUser, version, current_chat>>
    BY <1>2, CallbackFacts DEF OnLoadChats
  <2>2. wire.kind # "contacts"
    BY <2>1 DEF ResponseInv, KindsOf
  <2> QED
    BY <1>2, <2>1, <2>2, ListStep DEF OnLoadChats, msgVars
<1>3. CASE OnLoadContacts
  <2>1. Busy /\ wire.job = "LoadContacts" /\ ResponseInv /\ UNCHANGED <<conn, serverUser, version, current_chat>>
    BY <1>3, CallbackFacts DEF OnLoadContacts
  <2> QED
    BY <1>3, <2>1, ListStep DEF OnLoadContacts, msgVars
<1> QED
  BY <1>1, <1>2, <1>3, LoginStep, LoadDataStep, ReactionStep, SentStep, MessagesStep DEF OnResponse

\* The clicks all together.
LEMMA UserStep ==
  ASSUME IInv, User
  PROVE  IInv'
<1>1. ASSUME NEW u \in Users, SignIn(u) PROVE IInv'
  BY <1>1, CallStep DEF SignIn, Jobs, KindsOf
<1>2. CASE SignUp
  BY <1>2, CallStep DEF SignUp, Jobs, KindsOf
<1>3. CASE ReloadChats
  BY <1>3, CallStep DEF ReloadChats, Jobs, KindsOf
<1>4. CASE SendMessage
  BY <1>4, CallStep DEF SendMessage, Jobs, KindsOf
<1>5. CASE ReloadContacts
  BY <1>5, CallStep DEF ReloadContacts, Jobs, KindsOf
<1>6. CASE CreateChat
  BY <1>6, CallStep DEF CreateChat, Jobs, KindsOf
<1>7. CASE AddContact
  BY <1>7, CallStep DEF AddContact, Jobs, KindsOf
<1>8. CASE OpenRegister
  BY <1>8, OpenStep DEF OpenRegister, Windows, UserWindows
<1>9. CASE OpenSettings
  BY <1>9, OpenStep DEF OpenSettings, Windows, UserWindows
<1>10. CASE OpenProfile
  BY <1>10, OpenStep DEF OpenProfile, Windows, UserWindows
<1>11. CASE OpenAddContact
  BY <1>11, OpenStep DEF OpenAddContact, Windows, UserWindows
<1>12. CASE UpdateConnectionSettings
  <2>1. CASE conn = "up"
    BY <1>12, <2>1, DisconnectedStep DEF UpdateConnectionSettings
  <2>2. CASE conn # "up"
    BY <1>12, <2>2, ConnectStep DEF UpdateConnectionSettings, msgVars
  <2> QED
    BY <2>1, <2>2
<1> QED
  BY <1>1, <1>2, <1>3, <1>4, <1>5, <1>6, <1>7, <1>8, <1>9, <1>10, <1>11, <1>12,
     OpenContactsStep, OpenChatStep, ReloadMessagesStep, BackStep DEF User

\* Clicks, responses and disconnections in any order keep the invariant.
LEMMA InvariantStep == IInv /\ [Next]_vars => IInv'
<1> SUFFICES ASSUME IInv, [Next]_vars PROVE IInv'
  OBVIOUS
<1>1. CASE Connected
  BY <1>1, ConnectStep DEF Connected, NoExec, msgVars
<1>2. CASE ConnectionRefused
  BY <1>2, ConnectStep DEF ConnectionRefused, msgVars
<1>3. CASE ConnectionLost
  BY <1>3, DisconnectedStep DEF ConnectionLost
<1>4. CASE UNCHANGED vars
  <2>1. \A w : OnStack(w)' <=> OnStack(w)
    BY <1>4 DEF vars, OnStack
  <2>2. Busy' = Busy /\ (RequestInv => RequestInv') /\ (ResponseInv => ResponseInv')
    BY <1>4 DEF vars, Busy, RequestInv, ResponseInv
  <2>3. TypeOK' /\ StackInv' /\ BusyWhileWaiting' /\ CacheIsFiled' /\ VersionInv'
    BY <1>4 DEF vars, IInv, TypeOK, StackInv, BusyWhileWaiting, CacheIsFiled, VersionInv
  <2>4. WireInv'
    BY <1>4, <2>1, <2>2 DEF vars, IInv, WireInv, NoUserWindow
  <2>5. WindowsMatchLogin' /\ DataInv'
    BY <1>4, <2>1, <2>2 DEF vars, IInv, WindowsMatchLogin, DataInv, BusyWith
  <2>6. OwedInv'
    BY <1>4, <2>1, <2>2 DEF vars, IInv, OwedInv, Reloading, BusyWith
  <2> QED
    BY <2>3, <2>4, <2>5, <2>6 DEF IInv
<1> QED
  BY <1>1, <1>2, <1>3, <1>4, UserStep, ServerStep, ResponseStep DEF Next

\* The application starts with an empty LoginWindow.
LEMMA InitInvariant == Init => IInv
<1> SUFFICES ASSUME Init PROVE IInv
  OBVIOUS
<1>1. /\ stack = <<"Login">> /\ Len(stack) = 1 /\ stack \in Seq(Windows) /\ stack # <<>> /\ stack[1] = "Login"
  BY DEF Init, Windows
<1>2. StackInv /\ \A x : OnStack(x) <=> x = "Login"
  BY <1>1 DEF StackInv, OnStack
<1>3. ~Busy /\ BusyWhileWaiting /\ wire.st = "none"
  BY WireFields DEF Init, Busy, BusyWhileWaiting
<1>4. 0 \in Versions /\ NoList \in ListType /\ NoItems \in ItemsType
  BY ChangesAssumption DEF Versions, NoList, ListType, UserOrNone, NoItems, ItemsType, ChatOrNone
<1>5. TypeOK
  BY <1>1, <1>3, <1>4 DEF Init, TypeOK, UserOrNone, ChatOrNone, NothingOwed
<1>6. WireInv /\ WindowsMatchLogin /\ DataInv
  BY <1>2, <1>3 DEF WireInv, WindowsMatchLogin, DataInv, UserWindows
<1>7. CacheIsFiled
  BY DEF Init, CacheIsFiled, ChatOrNone
<1>8. VersionInv /\ OwedInv
  BY DEF Init, VersionInv, OwedInv, NoList, NoItems, NothingOwed
<1> QED
  BY <1>2, <1>3, <1>5, <1>6, <1>7, <1>8 DEF IInv

\* The inductive invariant of the windows, the facade and the data they share.
THEOREM Invariant == Spec => []IInv
  BY InitInvariant, InvariantStep, PTL DEF Spec

\* The client's state keeps its types, with LoginWindow at the bottom.
THEOREM TypeCorrect == Spec => []TypeOK
<1>1. IInv => TypeOK
  BY DEF IInv
<1> QED
  BY <1>1, Invariant, PTL

\* A window that needs a login is open only for the user the server knows.
THEOREM LoginMatches == Spec => []WindowsMatchLogin
<1>1. IInv => WindowsMatchLogin
  BY DEF IInv
<1> QED
  BY <1>1, Invariant, PTL

\* m_availible is accurate: no click is lost for good, none runs beside another.
THEOREM OneOperation == Spec => []BusyWhileWaiting
<1>1. IInv => BusyWhileWaiting
  BY DEF IInv
<1> QED
  BY <1>1, Invariant, PTL

\* A new user can start an operation only on the new user's lists.
THEOREM OwnData == Spec => []OwnDataWhenFree
<1>1. IInv => OwnDataWhenFree
  BY WhenFree DEF OwnDataWhenFree
<1> QED
  BY <1>1, Invariant, PTL

\* The message cache is never filed under the wrong chat.
THEOREM FiledMessages == Spec => []CacheIsFiled
<1>1. IInv => CacheIsFiled
  BY DEF IInv
<1> QED
  BY <1>1, Invariant, PTL

\* A free client shows lists that were asked for after the changes it was told
\* are accepted.
THEOREM ReloadedChanges == Spec => []ChangesAreReloaded
<1>1. IInv => ChangesAreReloaded
  BY WhenFree DEF ChangesAreReloaded
<1> QED
  BY <1>1, Invariant, PTL
=============================================================================
