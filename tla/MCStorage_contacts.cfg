SPECIFICATION FairSpec
CONSTANTS
  Users = {a, b, c}
  Registered = {a, b}
  Workers = {w1, w2}
  Ops <- ContactOps
  MaxCalls = 3
  NoUser = NoUser
INVARIANTS
  ContactsAreMutual
  AnswersAreTrue
  ReadsSeeAccepted
PROPERTIES
  AddContactRefusal
  EveryCallReturns
CHECK_DEADLOCK FALSE
