CONSTANTS
  p1 = p1
  p2 = p2
  NoProc = NoProc
  Procs <- MCOne
  NInodes = 3
  MaxLinks = 2
  Names <- MCNames
  Calls <- MCUpCalls
SPECIFICATION Spec
INVARIANT NeverPanics
