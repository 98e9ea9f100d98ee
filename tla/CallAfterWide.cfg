SPECIFICATION Spec
CONSTANTS
  x64 = x64
  aarch64 = aarch64
  WithoutMmu = TRUE
  ImageStart = 4096
  ImageEnd = 8192
  Hosts = {"AARCH64", "LOONGARCH64", "RISCV64"}
  Functions = {5001}
  Sites <- AllSites
  ArgCounts = {9, 16}
  LocalWords = 2
  StackWords = 160
  MaxCalls = 1
INVARIANT
  EveryCallRecovered
CHECK_DEADLOCK FALSE
