SPECIFICATION Spec
CONSTANTS
  Count = 3
  MaxUsers = 3
INVARIANTS
  LinksAlwaysTell
CHECK_DEADLOCK FALSE
