SPECIFICATION Spec
CONSTANTS
  Users = {a, b}
  Registered = {a, b}
  Workers = {w1, w2}
  Ops <- ChatOps
  MaxCalls = 2
  NoUser = NoUser
INVARIANTS
  OneChatPerPair
CHECK_DEADLOCK FALSE
