SPECIFICATION Spec
CONSTANTS
  x64 = x64
  aarch64 = aarch64
  c1 = c1
  c2 = c2
  c3 = c3
  c4 = c4
  i1 = i1
  i2 = i2
  Cpus = {x64}
  Ctxs = {c1, c2, c3}
  CpuOf <- OneCpu
  Images = {i1}
  ImageCpu <- ImageOneCpu
  NoCtx = NoCtx
  NoImage = NoImage
  MaxFrames = 7
  Debug = FALSE
  PrivateStack = FALSE
  Jumps = "thunked"
SYMMETRY Symmetric
INVARIANTS
  TypeOK
  JitUninterrupted
  ClientView
  OwnRegisters
  RunsOnTop
  PoolPartition
  AssertsHold
