SPECIFICATION Spec
CONSTANTS
  main = main
  worker = worker
  worker2 = worker2
  s1 = s1
  s2 = s2
  s3 = s3
  Threads = {main, worker, worker2}
  Initializers = {main}
  Programs = {"initializer", "lazy"}
  States = {s1, s2, s3}
  Null = Null
SYMMETRY Symmetry
INVARIANTS
  NoUseOfDeletedState
  AllOrNothing
  FactoryOutlived
  DyingIsUnreachable
  UsesSucceed
