SPECIFICATION Spec
CONSTANTS
  Engines <- TwoEngines
  Hosts = {"riscv64", "aarch64", "loongarch64"}
  Exceptions <- ExceptionsOf
  Undoes = {"riscv64", "aarch64"}
  MayFail <- AllParts
  MaxStarts = 4
INVARIANTS
  AllOrNothing
  ServedOnlyWhenUp
  HooksReachProcessor
  TablesServeDriver
CHECK_DEADLOCK FALSE
