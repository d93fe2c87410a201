CONSTANTS
  XLEN = 32
  MEM_SIZE = 24  Base <- RamBase
  Guests <- CoreGuests  MaxCycles = 9
SPECIFICATION RefSpec
INVARIANT RefTypeOK
PROPERTIES RefMretUndoesTrap ScStoresWhereLinked
CHECK_DEADLOCK FALSE
