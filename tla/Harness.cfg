\* Guests end before, at and after the limit: three tests, the verdict and
\* the steps between them take seven iterations.
CONSTANTS
  Verdicts = {1, 2, 3, 4, 5, 7, 9, 1337, 1339, 1341}  None = None  Budgets = {7}  MaxCalls = 1
  MaxTest = 4  MAX_CYCLES = 7  NoExit = NoExit
SPECIFICATION MCSpec
INVARIANTS FirstRunReports SuccessMeansPassed FailureNamed
PROPERTIES ProcessEnds
