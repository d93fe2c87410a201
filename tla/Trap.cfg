CONSTANTS
  XLEN = 32  OverflowChecks = TRUE
  MEM_SIZE = 28  Base <- RamBase  TohostAddr <- NoTohost
  Images <- TrapImages  Budgets = {9}  MaxCalls = 1
SPECIFICATION HSpec
INVARIANT TrapStateKept
PROPERTIES MretUndoesTrap
CHECK_DEADLOCK FALSE
