SPECIFICATION LFairSpec
CONSTANTS
  Sessions = {s1, s2}
  Workers = {w1, w2}
  Users = {u1}
  Kinds <- FewKinds
  MaxRequests = 1
  NoSession = NoSession
  NoUser = NoUser
INVARIANTS
  LTypeOK
  AlwaysAccepting
  ExclusiveAccess
PROPERTIES
  ReturnsOnlyUnderWork
  EveryClientAccepted
  EveryRequestServedWhileRunning
  ShutdownEnds
CHECK_DEADLOCK FALSE
