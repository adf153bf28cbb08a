SPECIFICATION Spec
CONSTANTS
  u1 = u1
  u2 = u2
  c1 = c1
  c2 = c2
  Users <- MCUsers
  Chats <- MCChats
  ChatsOf <- MCChatsOf
  MaxChanges = 1
  NoUser = NoUser
  NoChat = NoChat
INVARIANTS
  ShownChatIsOpenChat
