-------------------------------- MODULE Wire --------------------------------
(***************************************************************************)
(* One connection at the level of bytes: the client's message factory and  *)
(* Session::request, the server's reads, dispatch and write, and the       *)
(* client's reads and response callback, with every message encoded and    *)
(* parsed by Messages.  How a stream is cut into pieces on its way, and    *)
(* what connections and threads do, are the subjects of NetworkSession and *)
(* ServerSession; here the bytes arrive in order and whole, and the        *)
(* question is whether what is put into them is what is taken out.         *)
(*                                                                         *)
(* request and response are the objects the two programs handed over to be *)
(* sent; received and delivered are the objects they got out at the other  *)
(* end.                                                                    *)
(***************************************************************************)
EXTENDS Messages

CONSTANT MaxRows    \* bound: rows of a list in one response

ASSUME MaxRowsAssumption == MaxRows \in Nat

VARIABLES
    toServer,       \* the bytes written by the client and not yet read
    toClient,       \* the bytes written by the server and not yet read
    serverSize,     \* the length the server read last, or NoSize
    clientSize,     \* the client's m_messageSize, or NoSize
    request,        \* what the client asked, or None
    received,       \* what the server's dispatch passed to a job, or None
    response,       \* what the job answered, or None
    delivered,      \* what the client's callback was given, or None
    stopped         \* an end could not read what it got and closed

vars == <<toServer, toClient, serverSize, clientSize,
          request, received, response, delivered, stopped>>

None == [none |-> TRUE]
NoSize == -1

PREFIX_SIZE == 9

INT_MAX == 2147483647   \* the greatest int, the type of a message's size

-----------------------------------------------------------------------------
(***************************************************************************)
(* The message factory of the client, and the responses of the jobs.       *)
(***************************************************************************)

createLoginRequest(email, password) ==
    Request_set_allocated_login_request(Request_New,
        LoginRequest_set(LoginRequest_New, email, password))

createRegisterRequest(name, email, password) ==
    Request_set_allocated_register_request(Request_New,
        RegisterRequest_set(RegisterRequest_New, name, email, password))

createAllMyChatsRequest ==
    Request_set_allocated_chats_request(Request_New, AllMyChatsRequest_New)

createAllMyContactsRequest ==
    Request_set_allocated_contacts_request(Request_New, AllMyContactsRequest_New)

createLoadMessagesRequest(chatId) ==
    Request_set_allocated_messages_request(Request_New,
        MessagesRequest_set(MessagesRequest_New, chatId))

createSendMessageRequest(chatId, text) ==
    Request_set_allocated_send_mesg_request(Request_New,
        SendMessageRequest_set_allocated_mesg(SendMessageRequest_New,
            MessageToSend_set(MessageToSend_New, chatId, text)))

createAddContactRequest(email) ==
    Request_set_allocated_add_contact_request(Request_New,
        AddContactRequest_set(AddContactRequest_New, email))

createCreateChatRequest(friendId) ==
    Request_set_allocated_create_chat_request(Request_New,
        CreateChatRequest_set(CreateChatRequest_New, friendId))

\* The answer of a job that changes something, and of registration.
StatusAnswers ==
    {Response_set_allocated_status_response(Response_New,
         StatusResponse_set(StatusResponse_New, result)) :
       result \in {ACCEPTED, REJECTED}}

\* What one row of a query's result is made into.
ChatRows == {Chat_set(Chat_New, id, title) : id \in Ids, title \in Texts}

ContactRows ==
    {Contact_set(Contact_New, id, name, email) : id \in Ids, name \in Texts, email \in Texts}

MessageRows ==
    {MessageToRecieve_set(MessageToRecieve_New, id, text) : id \in Ids, text \in Texts}

\* A profile for a login that succeeded, none for one that failed.
LoginAnswers ==
    {Response_set_allocated_login_response(Response_New, login) :
       login \in {LoginResponse_New} \cup
           {LoginResponse_set_allocated_profile(LoginResponse_New, profile) :
              profile \in ContactRows}}

\* The rows are added one by one to the list of the response.
ChatsAnswers ==
    {Response_set_allocated_chats_response(Response_New,
         FoldLeft(ChatsResponse_add, ChatsResponse_New, rows)) :
       rows \in SeqOf(ChatRows, MaxRows)}

ContactsAnswers ==
    {Response_set_allocated_contacts_response(Response_New,
         FoldLeft(ContactsResponse_add, ContactsResponse_New, rows)) :
       rows \in SeqOf(ContactRows, MaxRows)}

MessagesAnswers ==
    {Response_set_allocated_messages_response(Response_New,
         FoldLeft(MessagesResponse_add, MessagesResponse_New, rows)) :
       rows \in SeqOf(MessageRows, MaxRows)}

\* The empty response of every job but the first two, when nobody is logged in.
Empty == {Response_New}

Answers(r) ==
    CASE r.case = "register_request" -> StatusAnswers
      [] r.case = "login_request"    -> LoginAnswers
      [] r.case = "chats_request"    -> ChatsAnswers \cup Empty
      [] r.case = "contacts_request" -> ContactsAnswers \cup Empty
      [] r.case = "messages_request" -> MessagesAnswers \cup Empty
      [] OTHER                       -> StatusAnswers \cup Empty

AllAnswers ==
    StatusAnswers \cup LoginAnswers \cup ChatsAnswers
      \cup ContactsAnswers \cup MessagesAnswers \cup Empty

\* The size of a message is an int wherever the two programs keep it, and so
\* is the size of the buffer for it: no greater message can be sent.
ASSUME SizesAssumption ==
    /\ \A r \in Request :
          WrappedMessage_ByteSize([case |-> "request", value |-> r]) + PREFIX_SIZE <= INT_MAX
    /\ \A r \in AllAnswers :
          WrappedMessage_ByteSize([case |-> "response", value |-> r]) + PREFIX_SIZE <= INT_MAX

-----------------------------------------------------------------------------
(***************************************************************************)
(* Framing.                                                                *)
(***************************************************************************)

\* What a buffer holds where nothing has been written since it was resized:
\* bytes of an earlier message, or of none.
Stale == 256

\* SerializeToArray(buffer + at, room): nothing is written when it does not fit.
SerializeToArray(buffer, at, room, size, bytes) ==
    IF size > room THEN buffer
    ELSE [i \in DOMAIN buffer |->
             IF i - at \in DOMAIN bytes THEN bytes[i - at] ELSE buffer[i]]

\* The buffer the client and the server send a message from.
Frame(mesg) ==
    LET size     == WrappedMessage_ByteSize(mesg)
        buffer   == [i \in 1..(size + PREFIX_SIZE) |-> Stale]
        prefix   == LengthPrefix_set(LengthPrefix_New, size)
        prefixed == SerializeToArray(buffer, 0, PREFIX_SIZE,
                        LengthPrefix_ByteSize(prefix), LengthPrefix_Serialize(prefix))
    IN  SerializeToArray(prefixed, PREFIX_SIZE, size, size, WrappedMessage_Serialize(mesg))

\* The first n bytes of a stream, and what is left of it.
Read(stream, n) == SubSeq(stream, 1, n)
Rest(stream, n) == SubSeq(stream, n + 1, Len(stream))

ParsePrefix(bytes) == Merged(LengthPrefix_MergePartial, LengthPrefix_New, bytes)

ParseMessage(bytes) == Merged(WrappedMessage_MergePartial, WrappedMessage_New, bytes)

-----------------------------------------------------------------------------
(***************************************************************************)
(* The steps.  One request is outstanding at a time.                       *)
(***************************************************************************)

Init ==
    /\ toServer = <<>> /\ toClient = <<>>
    /\ serverSize = NoSize /\ clientSize = NoSize
    /\ request = None /\ received = None
    /\ response = None /\ delivered = None
    /\ stopped = FALSE

\* Session::request, for a request of the factory.
SendRequest(r) ==
    /\ request = None /\ ~stopped
    /\ request' = r
    /\ delivered' = None /\ response' = None
    /\ toServer' = toServer \o
           Frame(WrappedMessage_set_allocated(WrappedMessage_New, "request", r))
    /\ UNCHANGED <<toClient, serverSize, clientSize, received, stopped>>

Login(email, password) == SendRequest(createLoginRequest(email, password))

Register(name, email, password) ==
    SendRequest(createRegisterRequest(name, email, password))

LoadChats == SendRequest(createAllMyChatsRequest)

LoadContacts == SendRequest(createAllMyContactsRequest)

LoadMessages(chatId) == SendRequest(createLoadMessagesRequest(chatId))

SendMessage(chatId, text) == SendRequest(createSendMessageRequest(chatId, text))

AddContact(email) == SendRequest(createAddContactRequest(email))

CreateChat(friendId) == SendRequest(createCreateChatRequest(friendId))

\* ClientSession::on_read_prefix, and the read of the message it starts.
OnReadPrefix ==
    LET prefix == ParsePrefix(Read(toServer, PREFIX_SIZE))
    IN  /\ ~stopped /\ serverSize = NoSize
        /\ Len(toServer) >= PREFIX_SIZE
        /\ toServer' = Rest(toServer, PREFIX_SIZE)
        /\ stopped' = (prefix = Failure)
        /\ serverSize' = IF prefix = Failure THEN NoSize ELSE prefix.length
        /\ UNCHANGED <<toClient, clientSize, request, received, response, delivered>>

\* ClientSession::on_read_message and ParseCommandJob.
ParseCommand ==
    LET mesg == ParseMessage(Read(toServer, serverSize))
        ok   == /\ mesg # Failure
                /\ WrappedMessage_has(mesg, "request")
                /\ mesg.value # NotSet
    IN  /\ ~stopped /\ serverSize # NoSize
        /\ Len(toServer) >= serverSize
        /\ toServer' = Rest(toServer, serverSize)
        /\ serverSize' = NoSize
        /\ stopped' = ~ok
        /\ received' = IF ok THEN mesg.value ELSE None
        /\ UNCHANGED <<toClient, clientSize, request, response, delivered>>

\* A job's answer and ClientSession::write.
Answer(r) ==
    /\ ~stopped /\ received # None
    /\ r \in Answers(received)
    /\ received' = None
    /\ response' = r
    /\ toClient' = toClient \o
           Frame(WrappedMessage_set_allocated(WrappedMessage_New, "response", r))
    /\ UNCHANGED <<toServer, serverSize, clientSize, request, delivered, stopped>>

\* Session::readPrefix.
ReadPrefix ==
    LET prefix == ParsePrefix(Read(toClient, PREFIX_SIZE))
    IN  /\ ~stopped /\ clientSize = NoSize
        /\ Len(toClient) >= PREFIX_SIZE
        /\ toClient' = Rest(toClient, PREFIX_SIZE)
        /\ stopped' = (prefix = Failure)
        /\ clientSize' = IF prefix = Failure THEN NoSize ELSE prefix.length
        /\ UNCHANGED <<toServer, serverSize, request, received, response, delivered>>

\* What a job's callback reads: the login job works on a copy of its response.
Callback(r) ==
    IF r.case = "login_response"
    THEN [r EXCEPT !.value = LoginResponse_MergeFrom(LoginResponse_New, @)]
    ELSE r

\* Session::readMessage and processResponse: a message without a response is
\* only warned about, and the request goes on waiting.
ReadMessage ==
    LET mesg == ParseMessage(Read(toClient, clientSize))
        ok   == mesg # Failure /\ WrappedMessage_has(mesg, "response")
    IN  /\ ~stopped /\ clientSize # NoSize
        /\ Len(toClient) >= clientSize
        /\ toClient' = Rest(toClient, clientSize)
        /\ clientSize' = NoSize
        /\ stopped' = (mesg = Failure)
        /\ delivered' = IF ok THEN Callback(mesg.value) ELSE None
        /\ request' = IF ok THEN None ELSE request
        /\ UNCHANGED <<toServer, serverSize, received, response>>

Next ==
    \/ \E email, password \in Texts : Login(email, password)
    \/ \E name, email, password \in Texts : Register(name, email, password)
    \/ LoadChats
    \/ LoadContacts
    \/ \E chatId \in Ids : LoadMessages(chatId)
    \/ \E chatId \in Ids, text \in Texts : SendMessage(chatId, text)
    \/ \E email \in Texts : AddContact(email)
    \/ \E friendId \in Ids : CreateChat(friendId)
    \/ OnReadPrefix
    \/ ParseCommand
    \/ received # None /\ \E r \in Answers(received) : Answer(r)
    \/ ReadPrefix
    \/ ReadMessage

Spec == Init /\ [][Next]_vars

-----------------------------------------------------------------------------
(***************************************************************************)
(* Properties.                                                             *)
(***************************************************************************)

\* The streams hold bytes, the sizes are lengths, and the objects are
\* objects of the generated classes.
TypeOK ==
    /\ toServer \in Seq(0..Stale) /\ toClient \in Seq(0..Stale)
    /\ serverSize \in Nat \cup {NoSize} /\ clientSize \in Nat \cup {NoSize}
    /\ request \in Request \cup {None} /\ received \in Request \cup {None}
    /\ response \in Response \cup {None} /\ delivered \in Response \cup {None}
    /\ stopped \in BOOLEAN

\* The stream holds the message c = v and nothing else: its prefix if that has
\* not been read, then its bytes, as many as the prefix says.
Holds(stream, size, c, v) ==
    LET body == WrappedMessage_Serialize([case |-> c, value |-> v])
    IN  IF size = NoSize
        THEN /\ Stale \notin ToSet(Read(stream, PREFIX_SIZE))
             /\ Rest(stream, PREFIX_SIZE) = body
        ELSE stream = body /\ size = Len(body)

\* Everything written to a socket comes from the message being sent: the sizes
\* announced by ByteSize, by which the buffers are cut and the lengths written,
\* agree with the bytes serialised, level by level, so that no byte of an
\* earlier message is sent and none of this one is left out.  In particular
\* the prefix, which is empty for a length of zero, always fills its nine bytes.
NothingStaleIsSent ==
    /\ toServer # <<>> => Holds(toServer, serverSize, "request", request)
    /\ toClient # <<>> => Holds(toClient, clientSize, "response", response)

\* The request a job of the server is started with is, field by field, the
\* one the client's factory built, whatever strings and identifiers are in it,
\* and the server never closes the connection over a request of the client.
RequestArrives ==
    /\ request # None => ~stopped
    /\ received # None => received = request

\* The response a callback of the client works on is, row by row and field by
\* field, the one the job built; a response with an empty list, a login
\* without a profile and a response with nothing in it stay three different
\* things, although each of them has nothing but defaults to write.
ResponseArrives ==
    /\ response # None => ~stopped
    /\ delivered # None => delivered = response

\* A message as a later server would write it, with the two fields that
\* messages.proto announces for it: timestampt = 3 and readed = 4.
WithPlannedFields(row) ==
    MessageToRecieve_Serialize(row) \o WriteUInt64(3, 200) \o WriteUInt64(4, 1)

\* A client of today reads the messages of a server that already writes those
\* fields, and finds in them what it finds now.
PlannedFieldsAreSkipped ==
    (response # None /\ response.case = "messages_response") =>
        \A i \in DOMAIN response.value.messages :
            LET row == response.value.messages[i]
            IN  Merged(MessageToRecieve_MergePartial, MessageToRecieve_New,
                       WithPlannedFields(row)) = row

=============================================================================
