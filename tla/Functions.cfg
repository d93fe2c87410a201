\* Every pair of 5-bit words; three bytes in three 4-byte words; four characters.
CONSTANTS XLEN = 5  PTR = 4
SPECIFICATION Spec
INVARIANTS ResultsAreIntegers ImmediateForms BranchesOrder SignExtends
  AluAgrees MulDivIntegers CopiesAndFills ComparesUnsigned AtolDecimal FramesInFullPeriod
