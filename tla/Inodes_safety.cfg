CONSTANTS
  p1 = p1
  p2 = p2
  NoProc = NoProc
  Procs <- MCProcs
  NInodes = 3
  MaxLinks = 2
  Names <- MCNames
  Calls <- MCCalls
SPECIFICATION Spec
SYMMETRY MCSym
INVARIANTS
  CacheRight
  NamesCovered
  NoWaitCycle
  NeverPanics
