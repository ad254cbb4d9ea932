CONSTANTS
  p1 = p1
  p2 = p2
  s1 = s1
  s2 = s2
  s3 = s3
  s4 = s4
  NoProc = NoProc
  NoSector = NoSector
  Nothing = Nothing
  Procs <- MCProcs
  Sectors <- MCSectors
  Bad <- MCBad
  NBUF = 3
  v1 = v1
  v2 = v2
  Vals <- MCVals
  MaxPinned = 1
  Writers = {"p", "q"}
  NoWriter = "none"
  InodeOf <- MCInodeOf
  MkfsFiles <- MCImage
  BSIZE = 2
  NDIRECT = 1
  NINDIRECT = 2
  NMeta = 2
  NData = 5
  NLogBlocks = 1
  MaxPiece = 4
  Lengths = {5}
  ByteOf <- MCByteOf
  MaxChanges = 3
  NSlot = 2
  Sizes = {9, 11, 14}
  PGSIZE = 2
  NPT = 2
  KERNBASE = 12
  KTabs = 1
  Sbrks <- MCSbrks
  MemVals = {"x"}
  Stores = {0}
  MaxCalls = 4
  Programs <- MCPrograms
SPECIFICATION MCSpec
SYMMETRY MCSym
INVARIANTS
  
  BlocksRight
  ReadsBack
  
PROPERTIES
  Promise
  
