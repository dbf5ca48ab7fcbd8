SPECIFICATION Spec
CONSTANTS
  t1 = t1
  t2 = t2
  mallocA = mallocA
  lockingA = lockingA
  lockingB = lockingB
  Threads = {t1, t2}
  NoThread = NoThread
  Allocators = {mallocA, lockingA, lockingB}
  AllocatorType <- MCAllocatorType
  Registered = {mallocA, lockingA}
  Types = {"", "malloc", "locking", "zlib"}
  Null = Null
  Oids = {"1.2", "2.5"}
  OidNames = {"RSA", "DSA"}
  Unset = Unset
SYMMETRY Symmetry
INVARIANTS
  ConfigInv
  CacheIsFresh
  OidTablesAgree
PROPERTIES
  RebindsOnlyWhenRacing
