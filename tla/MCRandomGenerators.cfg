SPECIFICATION FairSpec
CONSTANTS
  NumPrograms = 2
  StatBits = 1
  ChunkBits = {0, 1}
  Inner = {"HMAC_RNG", "Randpool"}
  Sources <- MCSources
  Goals = {0, 4}
  ByteBits = 2
  BLOCK_SIZE = 2
  ITERATIONS_BEFORE_RESEED = 3
  MaxInputs = 3
INVARIANTS
  NoChildLeftBehind
  SignalsOnlyItsOwnChild
  WrapperSeededWithInner
  OutputDependsOnAllEntropy
PROPERTIES
  PollingEnds
