SPECIFICATION Spec
CONSTANTS
  u1 = u1
  u2 = u2
  c1 = c1
  c2 = c2
  Users <- MCUsers
  Chats <- MCChats
  ChatsOf <- MCChatsOf
  MaxChanges = 2
  NoUser = NoUser
  NoChat = NoChat
INVARIANTS
  TypeOK
  WindowsMatchLogin
  BusyWhileWaiting
  OwnDataWhenFree
  CacheIsFiled
  ChangesAreReloaded
