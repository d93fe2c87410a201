CONSTANTS
  LFSR_BITS = 2  Values = {v1, v2}  ExitCodes = {1, 5}
  NoPte = NoPte  Uncached = Uncached  Null = Null
SPECIFICATION MCSpec
INVARIANTS VMTypeOK FramesPartition AssertionsHold
PROPERTIES ImplementsAddressSpace AccessCompletes EcallReported
