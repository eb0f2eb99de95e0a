CONSTANTS
  Faults <- AllFaults
SPECIFICATION Spec
INVARIANTS
  IInv
  NothingLeft
  NothingTwice
  NothingDangling
  PipesEnd
\* Both programs end.
CHECK_DEADLOCK FALSE
