SPECIFICATION Spec
CONSTANTS
  x64 = x64
  aarch64 = aarch64
  c1 = c1
  c2 = c2
  c3 = c3
  c4 = c4
  i1 = i1
  i2 = i2
  Cpus = {x64}
  Ctxs = {c1, c2, c3}
  CpuOf <- OneCpu
  Images = {}
  ImageCpu <- ImageOneCpu
  NoCtx = NoCtx
  NoImage = NoImage
  MaxFrames = 6
  Debug = TRUE
  PrivateStack = FALSE
  Jumps = "clean"
SYMMETRY Symmetric
INVARIANTS
  LiveListed
  OrphansReclaimed
  OwnRegisters
