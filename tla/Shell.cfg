SPECIFICATION Spec
CONSTANTS
  Failures <- NoneOneAll
  TextPath <- Paths
  HandlePath <- Paths
  ConsolePaths <- TwoConsoles
  Devices <- SixDevices
  Host = "host"
  AllDevsJunk = {FALSE, TRUE}
  Requests <- AllRequests
  Spellings <- AllSpellings
  Beginning <- NamesBeginning
  VarNames = {"ConOut", "ConOutDev", "ConIn", "BootNext", "GFX"}
  Contents <- ConsoleContents
INVARIANTS
  VariableAsAsked
  RightImages
  NothingLeft
PROPERTY
  Terminates
CHECK_DEADLOCK FALSE
