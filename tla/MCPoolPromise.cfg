SPECIFICATION FairSpec
CONSTANTS
  t1 = t1
  t2 = t2
  Threads = {t1, t2}
  NoThread = NoThread
  BLOCK_SIZE = 2
  BITMAP_SIZE = 3
  CHUNK_SIZE = 13
  MAX_CORE = 100
  Sizes = {3, 7}
  Places = {1, 7}
  MaxRegions = 3
PROPERTIES
  KeepsPromise
  MutexIsReleased
