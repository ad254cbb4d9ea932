CONSTANTS
  c1 = c1
  c2 = c2
  NoCpu = NoCpu
  CPUs <- MCTwo
  NProc = 2
  Consumers <- MCP12
  Producers <- MCP2
  Devices = TRUE
  MayKill = TRUE
  SleepLock = "lk"
  MaxItems = 1
SPECIFICATION Spec
INVARIANTS
  TableAndStacks
  NoLostWakeup
  FlagKept
  NeverPanics
