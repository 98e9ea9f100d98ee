SPECIFICATION Spec
CONSTANTS
  Count = 4
  MaxUsers = 5
INVARIANTS
  ListConsistent
  LinksTellAllocated
  NothingLeftBehind
PROPERTIES
  IsFifo
CONSTRAINT
  UntilCrossed
CHECK_DEADLOCK FALSE
