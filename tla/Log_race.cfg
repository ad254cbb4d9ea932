CONSTANTS
  p1 = p1
  p2 = p2
  b1 = b1
  b2 = b2
  b3 = b3
  b4 = b4
  b5 = b5
  v1 = v1
  v2 = v2
  NoBlock = NoBlock
  Procs <- MCProcs2
  Blocks <- MCBlocks2
  Vals <- MCVals2
  MAXOPBLOCKS = 2
  LOGSIZE = 6
  OpBlocks = 2
  SerialLogWrite = FALSE
SPECIFICATION Spec
INVARIANT DirtyLogged
