SPECIFICATION Spec
CONSTANTS
  item1 = item1
  item2 = item2
  chain = chain
  chainHash = chainHash
  chainCoder = chainCoder
  fork = fork
  forkHash = forkHash
  nested = nested
  nestedHash = nestedHash
  outer = outer
  outerCoder = outerCoder
  Null_Filter = Null_Filter
  Filters <- NestedFilters
  Built <- NestedBuilt
  Kind <- NestedKind
  Kids <- NestedKids
  NullFilter = Null_Filter
  Null = Null
  Items = {item1, item2}
  MaxQueues = 4
  MaxWrites = 3
  MaxThrows = 2
  ReadSizes = {1, 2}
SYMMETRY Symmetry
CHECK_DEADLOCK FALSE
PROPERTIES
  PopUndoesPrepend
