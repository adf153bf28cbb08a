SPECIFICATION Spec
CONSTANTS
  Users = {a, b, c}
  Registered = {a, b}
  Workers = {w1, w2}
  Ops <- ChatOps
  MaxCalls = 3
  NoUser = NoUser
SYMMETRY WorkerSymmetry
INVARIANTS
  TypeOK
  ChatsAreComplete
  SendersAreMembers
  AnswersAreTrue
  ReadsSeeAccepted
CHECK_DEADLOCK FALSE
