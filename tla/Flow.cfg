\* All three-slot programs over FlowAlphabet, run at most twice on one hart.
CONSTANTS
  XLEN = 32  OverflowChecks = TRUE
  MEM_SIZE = 14  Base <- RamBase  TohostAddr <- FlowTohost
  Images <- FlowImages  Budgets = {0, 6}  MaxCalls = 2
SPECIFICATION MCSpec
INVARIANTS TypeOK HardwiredState
PROPERTIES OddPcOnlyByMret ImplementsLoop
