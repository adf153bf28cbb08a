------------------------------ MODULE Messages ------------------------------
(***************************************************************************)
(* The messages of the protocol and their encoding.  messages.pb.cc and    *)
(* messages.pb.h are compiled into both programs; the client builds and    *)
(* serialises requests and parses responses, the server the other way      *)
(* round.                                                                  *)
(*                                                                         *)
(* A message object is a record of its fields; a oneof is a record         *)
(* [case, value], or NotSet; a repeated field is a sequence.  Encoded data *)
(* is a sequence of bytes, 0..255.  For every message type T               *)
(*    T                  is the set of its objects,                        *)
(*    T_New              the object its constructor and Clear() make,      *)
(*    T_set              what its setters do,                              *)
(*    T_Serialize        the bytes it is written as,                       *)
(*    T_ByteSize         the size it announces before it is written,       *)
(*    T_MergePartial     what one field read from the input does to it.    *)
(* Requests are the client's copy of the generated code when they are      *)
(* written and the server's when they are read, responses the reverse.     *)
(***************************************************************************)
EXTENDS Integers, Sequences, SequencesExt

CONSTANTS
    Ids,     \* the 64-bit identifiers in use; 0 is the default
    Texts    \* the strings in use, as bytes, every one of them valid UTF-8

ASSUME IdsAssumption == 0 \in Ids /\ Ids \subseteq Nat
ASSUME TextsAssumption == <<>> \in Texts /\ Texts \subseteq Seq(0..255)

-----------------------------------------------------------------------------
(***************************************************************************)
(* The wire format: what WireFormatLite and the coded streams of the       *)
(* protobuf library do for the generated code.                             *)
(***************************************************************************)

Failure == [failure |-> TRUE]                 \* a parse that returned false

NotSet == [case |-> "NOT_SET"]                \* a oneof with no member set

Varint[v \in Nat] ==
    IF v < 128 THEN <<v>> ELSE <<128 + (v % 128)>> \o Varint[v \div 128]

VarintSize(v) == Len(Varint[v])

\* Eight bytes, the lowest first.
Fixed64(v) ==
    LET Shift[i \in 0..7] == IF i = 0 THEN v ELSE Shift[i - 1] \div 256
    IN  [i \in 1..8 |-> Shift[i - 1] % 256]

FromFixed64(b) ==
    LET From[i \in 1..9] == IF i = 9 THEN 0 ELSE b[i] + 256 * From[i + 1]
    IN  From[1]

\* A field with its default value is not written, and takes no room.
WriteString(n, s) ==
    IF s = <<>> THEN <<>> ELSE <<8 * n + 2>> \o Varint[Len(s)] \o s

WriteUInt64(n, v) ==
    IF v = 0 THEN <<>> ELSE <<8 * n>> \o Varint[v]

StringSize(s) == IF s = <<>> THEN 0 ELSE 1 + VarintSize(Len(s)) + Len(s)

UInt64Size(v) == IF v = 0 THEN 0 ELSE 1 + VarintSize(v)

\* A message that is a field is written even when it is empty.  The length
\* in front of it is its cached ByteSize, not the number of bytes written.
WriteMessage(n, size, bytes) == <<8 * n + 2>> \o Varint[size] \o bytes

MessageSize(size) == 1 + VarintSize(size) + size

\* Reading takes what it reads from the front of the input s: the result is
\* the value and the rest of s, or Failure when s ends too early.
ReadVarint[s \in Seq(Nat)] ==
    IF s = <<>> THEN Failure
    ELSE IF Head(s) < 128 THEN [value |-> Head(s), rest |-> Tail(s)]
    ELSE LET r == ReadVarint[Tail(s)]
         IN  IF r = Failure THEN Failure
             ELSE [value |-> Head(s) - 128 + 128 * r.value, rest |-> r.rest]

ReadBytes(s, n, Value(_)) ==
    IF n > Len(s) THEN Failure
    ELSE [value |-> Value(SubSeq(s, 1, n)), rest |-> SubSeq(s, n + 1, Len(s))]

ReadDelimited(s) ==
    LET n == ReadVarint[s]
    IN  IF n = Failure THEN Failure ELSE ReadBytes(n.rest, n.value, LAMBDA b : b)

\* Neither program writes groups.
ReadValue(type, s) ==
    CASE type = 0 -> ReadVarint[s]
      [] type = 1 -> ReadBytes(s, 8, FromFixed64)
      [] type = 2 -> ReadDelimited(s)
      [] type = 5 -> ReadBytes(s, 4, LAMBDA b : b)
      [] OTHER -> Failure

\* A field, known to the message or not.  A tag of zero stops the parse before
\* the end of the input, which its caller refuses.
ReadField(s) ==
    LET t == ReadVarint[s]
        v == ReadValue(t.value % 8, t.rest)
    IN  IF t = Failure \/ t.value \div 8 = 0 \/ v = Failure THEN Failure
        ELSE [value |-> [tag |-> t.value, value |-> v.value], rest |-> v.rest]

\* The fields of the input in order; Failure is the last one if it is cut.
Fields[s \in Seq(Nat)] ==
    IF s = <<>> THEN <<>>
    ELSE LET f == ReadField(s)
         IN  IF f = Failure THEN <<Failure>> ELSE <<f.value>> \o Fields[f.rest]

\* MergePartialFromCodedStream up to the end of s: the message with every
\* field of s merged into it by Step, or Failure.
Merged(Step(_, _), message, s) ==
    FoldLeft(LAMBDA m, f : IF m = Failure \/ f = Failure
                           THEN Failure ELSE Step(m, f),
             message, Fields[s])

\* ReadString and VerifyUtf8String(PARSE) into a field of m.
ReadString(m, field, s) ==
    IF s \in Texts THEN [m EXCEPT ![field] = s] ELSE Failure

\* ReadMessageNoVirtual into the member c of a oneof.
ReadMember(c, v) == IF v = Failure THEN Failure ELSE [case |-> c, value |-> v]

\* mutable_<member>(): the member as it is, or a new one in place of another.
Mutable(m, c, new) == IF m.case = c THEN m.value ELSE new

\* add_<rows>() and ReadMessageNoVirtual into the new last row.
ReadRow(m, field, v) ==
    IF v = Failure THEN Failure ELSE [m EXCEPT ![field] = Append(@, v)]

\* The rows of a repeated field, each one with its own tag and length.
WriteRows(n, rows, Size(_), Serialize(_)) ==
    FlattenSeq([i \in DOMAIN rows |->
                   WriteMessage(n, Size(rows[i]), Serialize(rows[i]))])

RowsSize(rows, Size(_)) ==
    FoldLeft(LAMBDA total, row : total + MessageSize(Size(row)), 0, rows)

-----------------------------------------------------------------------------
(***************************************************************************)
(* The requests.                                                           *)
(***************************************************************************)

RegisterRequest == [name : Texts, email : Texts, password : Texts]

RegisterRequest_New == [name |-> <<>>, email |-> <<>>, password |-> <<>>]

RegisterRequest_set(m, name, email, password) ==
    [m EXCEPT !.name = name, !.email = email, !.password = password]

RegisterRequest_Serialize(m) ==
    WriteString(1, m.name) \o WriteString(2, m.email) \o WriteString(3, m.password)

\* Mutant: the size forgets the field that was added last.
RegisterRequest_ByteSize_NoPassword(m) == StringSize(m.name) + StringSize(m.email)

RegisterRequest_ByteSize(m) ==
    StringSize(m.name) + StringSize(m.email) + StringSize(m.password)

RegisterRequest_MergePartial(m, f) ==
    CASE f.tag = 10 -> ReadString(m, "name", f.value)
      [] f.tag = 18 -> ReadString(m, "email", f.value)
      [] f.tag = 26 -> ReadString(m, "password", f.value)
      [] OTHER -> m

LoginRequest == [email : Texts, password : Texts]

LoginRequest_New == [email |-> <<>>, password |-> <<>>]

LoginRequest_set(m, email, password) ==
    [m EXCEPT !.email = email, !.password = password]

LoginRequest_Serialize(m) == WriteString(1, m.email) \o WriteString(2, m.password)

LoginRequest_ByteSize(m) == StringSize(m.email) + StringSize(m.password)

LoginRequest_MergePartial(m, f) ==
    CASE f.tag = 10 -> ReadString(m, "email", f.value)
      [] f.tag = 18 -> ReadString(m, "password", f.value)
      [] OTHER -> m

\* A message without fields: nothing is written, anything read is skipped.
AllMyChatsRequest == {[chats |-> "all"]}

AllMyChatsRequest_New == [chats |-> "all"]

AllMyChatsRequest_Serialize(m) == <<>>

AllMyChatsRequest_ByteSize(m) == 0

AllMyChatsRequest_MergePartial(m, f) == m

AllMyContactsRequest == {[contacts |-> "all"]}

AllMyContactsRequest_New == [contacts |-> "all"]

AllMyContactsRequest_Serialize(m) == <<>>

AllMyContactsRequest_ByteSize(m) == 0

AllMyContactsRequest_MergePartial(m, f) == m

MessagesRequest == [chat_id : Ids]

MessagesRequest_New == [chat_id |-> 0]

MessagesRequest_set(m, chat_id) == [m EXCEPT !.chat_id = chat_id]

MessagesRequest_Serialize(m) == WriteUInt64(1, m.chat_id)

MessagesRequest_ByteSize(m) == UInt64Size(m.chat_id)

\* Mutant: the identifier is cut to the first byte of its varint.
MessagesRequest_MergePartial_OneByte(m, f) ==
    IF f.tag = 8 THEN [m EXCEPT !.chat_id = f.value % 128] ELSE m

MessagesRequest_MergePartial(m, f) ==
    IF f.tag = 8 THEN [m EXCEPT !.chat_id = f.value] ELSE m

MessageToSend == [chat_id : Ids, text : Texts]

MessageToSend_New == [chat_id |-> 0, text |-> <<>>]

MessageToSend_set(m, chat_id, text) ==
    [m EXCEPT !.chat_id = chat_id, !.text = text]

MessageToSend_Serialize(m) == WriteUInt64(1, m.chat_id) \o WriteString(2, m.text)

MessageToSend_ByteSize(m) == UInt64Size(m.chat_id) + StringSize(m.text)

MessageToSend_MergePartial(m, f) ==
    CASE f.tag = 8  -> [m EXCEPT !.chat_id = f.value]
      [] f.tag = 18 -> ReadString(m, "text", f.value)
      [] OTHER -> m

\* The pointer mesg_ is a oneof with one member; NULL is NotSet.
SendMessageRequest == {NotSet} \cup [case : {"mesg"}, value : MessageToSend]

SendMessageRequest_New == NotSet

SendMessageRequest_set_allocated_mesg(m, mesg) == [case |-> "mesg", value |-> mesg]

SendMessageRequest_Serialize(m) ==
    IF m = NotSet THEN <<>>
    ELSE WriteMessage(1, MessageToSend_ByteSize(m.value), MessageToSend_Serialize(m.value))

SendMessageRequest_ByteSize(m) ==
    IF m = NotSet THEN 0 ELSE MessageSize(MessageToSend_ByteSize(m.value))

SendMessageRequest_MergePartial(m, f) ==
    IF f.tag = 10
    THEN ReadMember("mesg", Merged(MessageToSend_MergePartial,
                                   Mutable(m, "mesg", MessageToSend_New), f.value))
    ELSE m

AddContactRequest == [email : Texts]

AddContactRequest_New == [email |-> <<>>]

AddContactRequest_set(m, email) == [m EXCEPT !.email = email]

AddContactRequest_Serialize(m) == WriteString(1, m.email)

AddContactRequest_ByteSize(m) == StringSize(m.email)

AddContactRequest_MergePartial(m, f) ==
    IF f.tag = 10 THEN ReadString(m, "email", f.value) ELSE m

CreateChatRequest == [friend_id : Ids]

CreateChatRequest_New == [friend_id |-> 0]

CreateChatRequest_set(m, friend_id) == [m EXCEPT !.friend_id = friend_id]

CreateChatRequest_Serialize(m) == WriteUInt64(1, m.friend_id)

CreateChatRequest_ByteSize(m) == UInt64Size(m.friend_id)

CreateChatRequest_MergePartial(m, f) ==
    IF f.tag = 8 THEN [m EXCEPT !.friend_id = f.value] ELSE m

-----------------------------------------------------------------------------
(***************************************************************************)
(* Request, the oneof of all of them.                                      *)
(***************************************************************************)

Request ==
    {NotSet}
      \cup [case : {"register_request"}, value : RegisterRequest]
      \cup [case : {"login_request"}, value : LoginRequest]
      \cup [case : {"chats_request"}, value : AllMyChatsRequest]
      \cup [case : {"contacts_request"}, value : AllMyContactsRequest]
      \cup [case : {"messages_request"}, value : MessagesRequest]
      \cup [case : {"send_mesg_request"}, value : SendMessageRequest]
      \cup [case : {"add_contact_request"}, value : AddContactRequest]
      \cup [case : {"create_chat_request"}, value : CreateChatRequest]

Request_New == NotSet

\* clear_msg(), then the new member.
Request_set_allocated_register_request(m, v) == [case |-> "register_request", value |-> v]
Request_set_allocated_login_request(m, v) == [case |-> "login_request", value |-> v]
Request_set_allocated_chats_request(m, v) == [case |-> "chats_request", value |-> v]
Request_set_allocated_contacts_request(m, v) == [case |-> "contacts_request", value |-> v]
Request_set_allocated_messages_request(m, v) == [case |-> "messages_request", value |-> v]
Request_set_allocated_send_mesg_request(m, v) == [case |-> "send_mesg_request", value |-> v]
Request_set_allocated_add_contact_request(m, v) == [case |-> "add_contact_request", value |-> v]
Request_set_allocated_create_chat_request(m, v) == [case |-> "create_chat_request", value |-> v]

Request_Serialize(m) ==
    LET v == m.value
    IN  CASE m.case = "register_request" ->
               WriteMessage(1, RegisterRequest_ByteSize(v), RegisterRequest_Serialize(v))
          [] m.case = "login_request" ->
               WriteMessage(2, LoginRequest_ByteSize(v), LoginRequest_Serialize(v))
          [] m.case = "chats_request" ->
               WriteMessage(3, AllMyChatsRequest_ByteSize(v), AllMyChatsRequest_Serialize(v))
          [] m.case = "contacts_request" ->
               WriteMessage(4, AllMyContactsRequest_ByteSize(v), AllMyContactsRequest_Serialize(v))
          [] m.case = "messages_request" ->
               WriteMessage(5, MessagesRequest_ByteSize(v), MessagesRequest_Serialize(v))
          [] m.case = "send_mesg_request" ->
               WriteMessage(6, SendMessageRequest_ByteSize(v), SendMessageRequest_Serialize(v))
          [] m.case = "add_contact_request" ->
               WriteMessage(7, AddContactRequest_ByteSize(v), AddContactRequest_Serialize(v))
          [] m.case = "create_chat_request" ->
               WriteMessage(8, CreateChatRequest_ByteSize(v), CreateChatRequest_Serialize(v))
          [] OTHER -> <<>>

Request_ByteSize(m) ==
    LET v == m.value
    IN  CASE m.case = "register_request"    -> MessageSize(RegisterRequest_ByteSize(v))
          [] m.case = "login_request"       -> MessageSize(LoginRequest_ByteSize(v))
          [] m.case = "chats_request"       -> MessageSize(AllMyChatsRequest_ByteSize(v))
          [] m.case = "contacts_request"    -> MessageSize(AllMyContactsRequest_ByteSize(v))
          [] m.case = "messages_request"    -> MessageSize(MessagesRequest_ByteSize(v))
          [] m.case = "send_mesg_request"   -> MessageSize(SendMessageRequest_ByteSize(v))
          [] m.case = "add_contact_request" -> MessageSize(AddContactRequest_ByteSize(v))
          [] m.case = "create_chat_request" -> MessageSize(CreateChatRequest_ByteSize(v))
          [] OTHER -> 0

Request_mutable_register_request(m) == Mutable(m, "register_request", RegisterRequest_New)
Request_mutable_login_request(m) == Mutable(m, "login_request", LoginRequest_New)
Request_mutable_chats_request(m) == Mutable(m, "chats_request", AllMyChatsRequest_New)
Request_mutable_contacts_request(m) == Mutable(m, "contacts_request", AllMyContactsRequest_New)
Request_mutable_messages_request(m) == Mutable(m, "messages_request", MessagesRequest_New)
Request_mutable_send_mesg_request(m) == Mutable(m, "send_mesg_request", SendMessageRequest_New)
Request_mutable_add_contact_request(m) == Mutable(m, "add_contact_request", AddContactRequest_New)
Request_mutable_create_chat_request(m) == Mutable(m, "create_chat_request", CreateChatRequest_New)

Request_MergePartial(m, f) ==
    LET Member(c, v, Step(_, _)) == ReadMember(c, Merged(Step, v, f.value))
    IN  CASE f.tag = 10 -> Member("register_request", Request_mutable_register_request(m),
                                   RegisterRequest_MergePartial)
          [] f.tag = 18 -> Member("login_request", Request_mutable_login_request(m),
                                   LoginRequest_MergePartial)
          [] f.tag = 26 -> Member("chats_request", Request_mutable_chats_request(m),
                                   AllMyChatsRequest_MergePartial)
          [] f.tag = 34 -> Member("contacts_request", Request_mutable_contacts_request(m),
                                   AllMyContactsRequest_MergePartial)
          [] f.tag = 42 -> Member("messages_request", Request_mutable_messages_request(m),
                                   MessagesRequest_MergePartial)
          [] f.tag = 50 -> Member("send_mesg_request", Request_mutable_send_mesg_request(m),
                                   SendMessageRequest_MergePartial)
          [] f.tag = 58 -> Member("add_contact_request", Request_mutable_add_contact_request(m),
                                   AddContactRequest_MergePartial)
          [] f.tag = 66 -> Member("create_chat_request", Request_mutable_create_chat_request(m),
                                   CreateChatRequest_MergePartial)
          [] OTHER -> m

-----------------------------------------------------------------------------
(***************************************************************************)
(* The responses.                                                          *)
(***************************************************************************)

ACCEPTED == 0
REJECTED == 1

StatusResponse == [result : {ACCEPTED, REJECTED}]

StatusResponse_New == [result |-> ACCEPTED]

StatusResponse_set(m, result) == [m EXCEPT !.result = result]

StatusResponse_Serialize(m) == WriteUInt64(1, m.result)

StatusResponse_ByteSize(m) == UInt64Size(m.result)

StatusResponse_MergePartial(m, f) ==
    IF f.tag = 8 THEN [m EXCEPT !.result = f.value] ELSE m

Chat == [chat_id : Ids, title : Texts]

Chat_New == [chat_id |-> 0, title |-> <<>>]

Chat_set(m, chat_id, title) == [m EXCEPT !.chat_id = chat_id, !.title = title]

Chat_Serialize(m) == WriteUInt64(1, m.chat_id) \o WriteString(2, m.title)

Chat_ByteSize(m) == UInt64Size(m.chat_id) + StringSize(m.title)

Chat_MergePartial(m, f) ==
    CASE f.tag = 8  -> [m EXCEPT !.chat_id = f.value]
      [] f.tag = 18 -> ReadString(m, "title", f.value)
      [] OTHER -> m

ChatsResponse == [chats : Seq(Chat)]

ChatsResponse_New == [chats |-> <<>>]

ChatsResponse_add(m, chat) == [m EXCEPT !.chats = Append(@, chat)]

ChatsResponse_Serialize(m) == WriteRows(1, m.chats, Chat_ByteSize, Chat_Serialize)

ChatsResponse_ByteSize(m) == RowsSize(m.chats, Chat_ByteSize)

ChatsResponse_MergePartial(m, f) ==
    IF f.tag = 10
    THEN ReadRow(m, "chats", Merged(Chat_MergePartial, Chat_New, f.value))
    ELSE m

Contact == [user_id : Ids, name : Texts, email : Texts]

Contact_New == [user_id |-> 0, name |-> <<>>, email |-> <<>>]

Contact_set(m, user_id, name, email) ==
    [m EXCEPT !.user_id = user_id, !.name = name, !.email = email]

Contact_Serialize(m) ==
    WriteUInt64(1, m.user_id) \o WriteString(2, m.name) \o WriteString(3, m.email)

Contact_ByteSize(m) ==
    UInt64Size(m.user_id) + StringSize(m.name) + StringSize(m.email)

\* Mutant: the label of the last field is reached with the tag of the one before.
Contact_MergePartial_Fallthrough(m, f) ==
    CASE f.tag = 8  -> [m EXCEPT !.user_id = f.value]
      [] f.tag = 18 -> ReadString(m, "email", f.value)
      [] f.tag = 26 -> ReadString(m, "email", f.value)
      [] OTHER -> m

Contact_MergePartial(m, f) ==
    CASE f.tag = 8  -> [m EXCEPT !.user_id = f.value]
      [] f.tag = 18 -> ReadString(m, "name", f.value)
      [] f.tag = 26 -> ReadString(m, "email", f.value)
      [] OTHER -> m

\* The fields of from that do not have their default value replace those of m.
Contact_MergeFrom(m, from) ==
    [m EXCEPT !.user_id = IF from.user_id # 0 THEN from.user_id ELSE @,
              !.name    = IF from.name # <<>> THEN from.name ELSE @,
              !.email   = IF from.email # <<>> THEN from.email ELSE @]

ContactsResponse == [contacts : Seq(Contact)]

ContactsResponse_New == [contacts |-> <<>>]

ContactsResponse_add(m, contact) == [m EXCEPT !.contacts = Append(@, contact)]

ContactsResponse_Serialize(m) ==
    WriteRows(1, m.contacts, Contact_ByteSize, Contact_Serialize)

ContactsResponse_ByteSize(m) == RowsSize(m.contacts, Contact_ByteSize)

ContactsResponse_MergePartial(m, f) ==
    IF f.tag = 10
    THEN ReadRow(m, "contacts", Merged(Contact_MergePartial, Contact_New, f.value))
    ELSE m

MessageToRecieve == [sender_id : Ids, text : Texts]

MessageToRecieve_New == [sender_id |-> 0, text |-> <<>>]

MessageToRecieve_set(m, sender_id, text) ==
    [m EXCEPT !.sender_id = sender_id, !.text = text]

MessageToRecieve_Serialize(m) == WriteUInt64(1, m.sender_id) \o WriteString(2, m.text)

MessageToRecieve_ByteSize(m) == UInt64Size(m.sender_id) + StringSize(m.text)

\* Mutant: a field the parser does not know is an error.
MessageToRecieve_MergePartial_Strict(m, f) ==
    CASE f.tag = 8  -> [m EXCEPT !.sender_id = f.value]
      [] f.tag = 18 -> ReadString(m, "text", f.value)
      [] OTHER -> Failure

MessageToRecieve_MergePartial(m, f) ==
    CASE f.tag = 8  -> [m EXCEPT !.sender_id = f.value]
      [] f.tag = 18 -> ReadString(m, "text", f.value)
      [] OTHER -> m

MessagesResponse == [messages : Seq(MessageToRecieve)]

MessagesResponse_New == [messages |-> <<>>]

MessagesResponse_add(m, message) == [m EXCEPT !.messages = Append(@, message)]

MessagesResponse_Serialize(m) ==
    WriteRows(1, m.messages, MessageToRecieve_ByteSize, MessageToRecieve_Serialize)

MessagesResponse_ByteSize(m) == RowsSize(m.messages, MessageToRecieve_ByteSize)

MessagesResponse_MergePartial(m, f) ==
    IF f.tag = 10
    THEN ReadRow(m, "messages",
                 Merged(MessageToRecieve_MergePartial, MessageToRecieve_New, f.value))
    ELSE m

LoginResponse == {NotSet} \cup [case : {"profile"}, value : Contact]

LoginResponse_New == NotSet

LoginResponse_set_allocated_profile(m, profile) == [case |-> "profile", value |-> profile]

LoginResponse_Serialize(m) ==
    IF m = NotSet THEN <<>>
    ELSE WriteMessage(1, Contact_ByteSize(m.value), Contact_Serialize(m.value))

LoginResponse_ByteSize(m) ==
    IF m = NotSet THEN 0 ELSE MessageSize(Contact_ByteSize(m.value))

LoginResponse_MergePartial(m, f) ==
    IF f.tag = 10
    THEN ReadMember("profile", Merged(Contact_MergePartial,
                                      Mutable(m, "profile", Contact_New), f.value))
    ELSE m

\* Called by the copy constructor, on a new object.
LoginResponse_MergeFrom(m, from) ==
    IF from = NotSet THEN m
    ELSE [case |-> "profile",
          value |-> Contact_MergeFrom(Mutable(m, "profile", Contact_New), from.value)]

-----------------------------------------------------------------------------
(***************************************************************************)
(* Response, the oneof of all of them, WrappedMessage and LengthPrefix.    *)
(***************************************************************************)

Response ==
    {NotSet}
      \cup [case : {"status_response"}, value : StatusResponse]
      \cup [case : {"chats_response"}, value : ChatsResponse]
      \cup [case : {"contacts_response"}, value : ContactsResponse]
      \cup [case : {"messages_response"}, value : MessagesResponse]
      \cup [case : {"login_response"}, value : LoginResponse]

Response_New == NotSet

\* clear_msg(), then the new member.
Response_set_allocated_status_response(m, v) == [case |-> "status_response", value |-> v]
Response_set_allocated_chats_response(m, v) == [case |-> "chats_response", value |-> v]
Response_set_allocated_contacts_response(m, v) == [case |-> "contacts_response", value |-> v]
Response_set_allocated_messages_response(m, v) == [case |-> "messages_response", value |-> v]
Response_set_allocated_login_response(m, v) == [case |-> "login_response", value |-> v]

Response_Serialize(m) ==
    LET v == m.value
    IN  CASE m.case = "status_response" ->
               WriteMessage(1, StatusResponse_ByteSize(v), StatusResponse_Serialize(v))
          [] m.case = "chats_response" ->
               WriteMessage(2, ChatsResponse_ByteSize(v), ChatsResponse_Serialize(v))
          [] m.case = "contacts_response" ->
               WriteMessage(3, ContactsResponse_ByteSize(v), ContactsResponse_Serialize(v))
          [] m.case = "messages_response" ->
               WriteMessage(4, MessagesResponse_ByteSize(v), MessagesResponse_Serialize(v))
          [] m.case = "login_response" ->
               WriteMessage(5, LoginResponse_ByteSize(v), LoginResponse_Serialize(v))
          [] OTHER -> <<>>

Response_ByteSize(m) ==
    LET v == m.value
    IN  CASE m.case = "status_response"   -> MessageSize(StatusResponse_ByteSize(v))
          [] m.case = "chats_response"    -> MessageSize(ChatsResponse_ByteSize(v))
          [] m.case = "contacts_response" -> MessageSize(ContactsResponse_ByteSize(v))
          [] m.case = "messages_response" -> MessageSize(MessagesResponse_ByteSize(v))
          [] m.case = "login_response"    -> MessageSize(LoginResponse_ByteSize(v))
          [] OTHER -> 0

Response_mutable_status_response(m) == Mutable(m, "status_response", StatusResponse_New)
Response_mutable_chats_response(m) == Mutable(m, "chats_response", ChatsResponse_New)
Response_mutable_contacts_response(m) == Mutable(m, "contacts_response", ContactsResponse_New)
Response_mutable_messages_response(m) == Mutable(m, "messages_response", MessagesResponse_New)
Response_mutable_login_response(m) == Mutable(m, "login_response", LoginResponse_New)

Response_MergePartial(m, f) ==
    LET Member(c, v, Step(_, _)) == ReadMember(c, Merged(Step, v, f.value))
    IN  CASE f.tag = 10 -> Member("status_response", Response_mutable_status_response(m),
                                   StatusResponse_MergePartial)
          [] f.tag = 18 -> Member("chats_response", Response_mutable_chats_response(m),
                                   ChatsResponse_MergePartial)
          [] f.tag = 26 -> Member("contacts_response", Response_mutable_contacts_response(m),
                                   ContactsResponse_MergePartial)
          [] f.tag = 34 -> Member("messages_response", Response_mutable_messages_response(m),
                                   MessagesResponse_MergePartial)
          [] f.tag = 42 -> Member("login_response", Response_mutable_login_response(m),
                                   LoginResponse_MergePartial)
          [] OTHER -> m

WrappedMessage ==
    {NotSet} \cup [case : {"response"}, value : Response]
             \cup [case : {"request"}, value : Request]

WrappedMessage_New == NotSet

WrappedMessage_set_allocated(m, c, v) == [case |-> c, value |-> v]

WrappedMessage_has(m, c) == m.case = c

WrappedMessage_Serialize(m) ==
    CASE m.case = "response" ->
           WriteMessage(1, Response_ByteSize(m.value), Response_Serialize(m.value))
      [] m.case = "request" ->
           WriteMessage(2, Request_ByteSize(m.value), Request_Serialize(m.value))
      [] OTHER -> <<>>

WrappedMessage_ByteSize(m) ==
    CASE m.case = "response" -> MessageSize(Response_ByteSize(m.value))
      [] m.case = "request"  -> MessageSize(Request_ByteSize(m.value))
      [] OTHER -> 0

WrappedMessage_MergePartial(m, f) ==
    CASE f.tag = 10 -> ReadMember("response",
                          Merged(Response_MergePartial,
                                 Mutable(m, "response", Response_New), f.value))
      [] f.tag = 18 -> ReadMember("request",
                          Merged(Request_MergePartial,
                                 Mutable(m, "request", Request_New), f.value))
      [] OTHER -> m

LengthPrefix_New == [length |-> 0]

LengthPrefix_set(m, length) == [m EXCEPT !.length = length]

\* Nine bytes, or none at all for a length of zero.
LengthPrefix_Serialize(m) == IF m.length = 0 THEN <<>> ELSE <<9>> \o Fixed64(m.length)

LengthPrefix_ByteSize(m) == IF m.length = 0 THEN 0 ELSE 1 + 8

LengthPrefix_MergePartial(m, f) ==
    IF f.tag = 9 THEN [m EXCEPT !.length = f.value] ELSE m

=============================================================================
