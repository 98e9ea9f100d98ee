SPECIFICATION Spec
CONSTANTS
  Records = {r1, r2, r3}
  Events = {e1, e2, e3}
  NoEvent = NoEvent
  NoRecord = NoRecord
  MaxTpl = 3
  MaxFailures = 1
  NativeEvents = {}
SYMMETRY Symmetric
INVARIANTS
  TypeOK
  RecordOfEvent
  NoUseAfterFree
  RecordsAccounted
  KnownLive
CHECK_DEADLOCK FALSE
CONSTRAINT UntilCrossed
