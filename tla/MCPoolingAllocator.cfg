SPECIFICATION Spec
CONSTANTS
  t1 = t1
  t2 = t2
  Threads = {t1, t2}
  NoThread = NoThread
  BLOCK_SIZE = 2
  BITMAP_SIZE = 3
  CHUNK_SIZE = 13
  MAX_CORE = 100
  Sizes = {1, 3, 6, 7}
  Places = {1, 7}
  MaxRegions = 3
SYMMETRY Symmetry
INVARIANTS
  PoolInv
  LiveRegionsDisjoint
  BitmapsMatchLive
  FreeMemoryIsZero
  ScanMissesNothing
  RescanSucceeds
PROPERTIES
  RejectsExactlyForeign
