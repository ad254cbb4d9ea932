CONSTANTS
  NProc = 4
  Pages = 8
  MaxTaken = 2
  MaxPid = 5
  Words = {"a", "b", "c", "f", "g"}
  MAXARGS = 3
  CmdLines <- MCLines
  OnDisk0 <- MCOnDisk0
  NTask = 8
  PipeCap = 1
  HeapEnd = 14
  MinUnits = 4
  Requests = {2, 3, 5}
  Samples <- MCSamples
  BUFSIZE = 3
  DIRSIZ = 2
  WordBits = 6
SPECIFICATION MCSpec
INVARIANTS
  TableSound
  LinesRight
  HeapSound
  TextRight
PROPERTIES
  ZombiesReaped
  LinesRunEnd
