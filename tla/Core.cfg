CONSTANTS
  c1 = c1
  c2 = c2
  ide = ide
  cons = cons
  ptable = ptable
  NoCpu = NoCpu
  CPUs <- MCCPUs
  Locks <- MCLocks
  Order <- MCOrder
  HandlerLocks <- MCHandlerLocks
  p1 = p1
  p2 = p2
  b1 = b1
  b2 = b2
  v1 = v1
  v2 = v2
  NoBlock = NoBlock
  Procs <- MCProcs
  Blocks <- MCBlocks
  Vals <- MCVals
  MAXOPBLOCKS = 2
  LOGSIZE = 6
  OpBlocks = 2
  SerialLogWrite = TRUE
  MCPrograms <- MCTests
SPECIFICATION MCSpec
SYMMETRY MCSym
INVARIANTS
  MutualExclusion
  InterruptsKept
  DirtyLogged
  CallsRight
PROPERTY Atomic
