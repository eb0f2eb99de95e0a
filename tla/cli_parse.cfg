CONSTANTS
  Names <- TwoNames
  LongNames <- OneLongName
  MaxArgs = 6
  InitCapacity = 2
  Null = Null
  Uninit = Uninit
  Faults <- AllFaults
SPECIFICATION Spec
INVARIANTS
  TypeOK
  VectorOK
  VectorFreed
  ServerGetsItsArgs
  UsageIsAccepted
\* The program exits.
CHECK_DEADLOCK FALSE
