CONSTANTS
  Request = {r1, r2, r3}
  Username = {n1, n2}
  Address = {a1, a2}
SPECIFICATION Spec
INVARIANT TypeOK
INVARIANT UniqueAccounts
INVARIANT DeletedOnce
INVARIANT OnlyOvertakenUpdatesUndelete
INVARIANT AnswersTellTheOutcome
PROPERTY ImplementsAccountRegistry
SYMMETRY Symmetry
CHECK_DEADLOCK FALSE
