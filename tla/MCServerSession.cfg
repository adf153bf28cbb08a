SPECIFICATION Spec
CONSTANTS
  Sessions = {s1}
  Workers = {w1, w2}
  Users = {u1, u2}
  Kinds <- AllKinds
  MaxRequests = 3
  NoSession = NoSession
  NoUser = NoUser
INVARIANTS
  TypeOK
  RepliesAnswerInOrder
  ExclusiveAccess
  NeverAbandoned
  StoppedIsQuiet
PROPERTIES
  StopIsFinal
  ImplementsRequestReply
CHECK_DEADLOCK FALSE
