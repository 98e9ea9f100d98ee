SPECIFICATION Spec
CONSTANTS
  MinTbs = 2
  MaxTbs = 8
  InitialTbs = 4
  Periods <- SmallPeriods
INVARIANTS
  PeriodValid
  BoundedMasking
  TimeoutIsCurrent
PROPERTIES
  EventsDelivered
