CONSTANTS
  p1 = p1
  p2 = p2
  Procs <- MCProcs
  NFile = 3
  NOFILE = 2
  NPipe = 1
  PIPESIZE = 2
  Wrap = 4
  Writes <- MCWrites
  Reads = {1, 3}
SPECIFICATION Spec
SYMMETRY MCSym
CHECK_DEADLOCK FALSE
INVARIANTS
  EndsCounted
  BytesInOrder
  SleepersRight
