\* The prologue and three free slots, with the last of them in the last cycle;
\* a second call goes round once more or finds what the first has left.
CONSTANTS
  XLEN = 32  OverflowChecks = TRUE
  MEM_SIZE = 32  Base <- EdgeBase  TohostAddr <- EdgeTohost
  Images <- AccessImages  Budgets = {0, 5}  MaxCalls = 2
SPECIFICATION MCSpec
PROPERTIES VerdictSound PanicIsPrecise LoadsSeeStores
