CONSTANTS
  p1 = p1
  p2 = p2
  b1 = b1
  b2 = b2
  b3 = b3
  v1 = v1
  NoBlock = NoBlock
  Procs <- MCProcs
  Blocks <- MCBlocks
  Vals <- MCVals
  MAXOPBLOCKS = 2
  LOGSIZE = 4
  OpBlocks = 1
  SerialLogWrite = TRUE
  Readers = {1, 2}
  ReadSizes = {1, 3}
  Printable = {"a"}
  INPUT_BUF = 2
  Wrap = 4
  Printers = {1, 2}
  NoPrinter = 0
  Chars = 2
  Sleepers = {1, 2}
  Ns = {1, 5}
  TickWrap = 6
  Lag = 1
  LowPages <- MCLowPages
  HighPages <- MCHighPages
  CpuIds = {0, 1, 2}
  Tables <- MCTables
SPECIFICATION MCSpec
INVARIANTS
  NeverTooBig
  MessagesApart
  BootApart
PROPERTIES
  LogLives
  Disciplined
  ReadersServed
  PanicShown
  SleepsOnTime
  SleepsRight
  ProcessorsStart
