SPECIFICATION Spec
CONSTANTS
  Records = {r1, r2, r3}
  Events = {e1, e2, e3}
  NoEvent = NoEvent
  NoRecord = NoRecord
  MaxTpl = 2
  MaxFailures = 0
  NativeEvents = {}
SYMMETRY Symmetric
INVARIANTS
  CreateKeepsRecord
