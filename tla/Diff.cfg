CONSTANTS
  XLEN = 32  OverflowChecks = TRUE
  MEM_SIZE = 28  Base <- RamBase  TohostAddr <- NoTohost
  Images <- DiffGuests  Budgets = {9}  MaxCalls = 1
SPECIFICATION DiffSpec
INVARIANT LockstepAgree
CHECK_DEADLOCK FALSE
