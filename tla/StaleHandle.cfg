SPECIFICATION Spec
CONSTANTS
  Cpus = {x64, aarch64}
  Ranges = {s1, s2}
  Records = {r1, r2, r3}
  Handles = {h1, h2}
  ZeroPage = ZeroPage
  NoRecord = NoRecord
  NoHandle = NoHandle
  NoImage = NoImage
INVARIANT ExitNeverRefused
CHECK_DEADLOCK FALSE
