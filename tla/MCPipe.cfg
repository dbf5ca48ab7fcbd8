SPECIFICATION Spec
CONSTANTS
  item1 = item1
  item2 = item2
  chain = chain
  chainHash = chainHash
  chainCoder = chainCoder
  fork = fork
  forkHash = forkHash
  nested = nested
  nestedHash = nestedHash
  outer = outer
  outerCoder = outerCoder
  Null_Filter = Null_Filter
  Filters <- MCFilters
  Built <- MCBuilt
  Kind <- MCKind
  Kids <- MCKids
  NullFilter = Null_Filter
  Null = Null
  Items = {item1, item2}
  MaxQueues = 3
  MaxWrites = 2
  MaxThrows = 2
  ReadSizes = {1, 2}
SYMMETRY Symmetry
CHECK_DEADLOCK FALSE
INVARIANTS
  WholePipeInv
  PortsReferToKeptQueues
  OwnsItsFilters
PROPERTIES
  PopUndoesPrepend
  KeepsPipePromise
