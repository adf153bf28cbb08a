SPECIFICATION Spec
CONSTANTS
  Sessions = {s1}
  Workers = {w1, w2}
  Users = {u1}
  Kinds <- FewKinds
  MaxRequests = 2
  NoSession = NoSession
  NoUser = NoUser
INVARIANTS
  FailedLoginIsRejected
CHECK_DEADLOCK FALSE
