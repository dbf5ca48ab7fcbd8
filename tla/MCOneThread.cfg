SPECIFICATION OneThreadSpec
CONSTANTS
  Certificates <- MCCertificates
  Subjects <- MCSubjects
  Lists <- MCLists
  Folded <- MCFolded
  Usages = {{}, {"TLS_SERVER"}, {"CRL_SIGNING"}}
  time_slack = 0
  validation_cache_timeout = 1
  MaxTime = 2
  MaxChain = 4
  BLOCK_SIZE = 2
  TAG_SIZE = 1
  DEFAULT_BUFFERSIZE = 2
  ByteValues = 4
  Counters <- MCCounters
  Modes <- MCModes
  Text <- MCText
  MaxMessages = 2
  MP_WORD_BITS = 4
  BOTAN_KARAT_MUL_THRESHOLD = 10
  BOTAN_KARAT_SQR_THRESHOLD = 10
  Numbers <- MCNumbers
  Shifts = {0, 7, 8}
  MaxCalls = 2
  MaxWords = 18
  MaxDividend = 6
  MaxDigits = 6
  BOTAN_MP_WORD_BITS = 3
  PRIMES <- MCPrimes
  PRIME_PRODUCTS <- MCProducts
  BitsPerProduct = 3
  TestIterations <- MCIterations
  PREF_NONCE_BITS = 4
  FixedWindows <- MCFixedWindows
  MontgomeryWindows <- MCMontgomeryWindows
  Moduli = {0, 1, 2, 7, 8, 12, 21, 63}
  Bases = {1, 2, 13, 70}
  Exponents = {0, 1, 6, 50}
  HintSets = {{}, {"BASE_IS_FIXED"}, {"EXP_IS_FIXED"}, {"EXP_IS_LARGE"}}
  Operands <- MCOperands
  PrimeSizes = {2, 3, 4, 5, 6, 7}
  BLINDING_BITS = 64
  Offered <- MCOffered
  EphemeralKeys = {1, 5, 9}
INVARIANTS
  VerdictIsRight
  ModeIsStandard
  RoundTrip
  ArithmeticIsRight
  NumberTheoryIsRight
  PartnersAgree
CHECK_DEADLOCK FALSE
