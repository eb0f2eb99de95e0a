CONSTANTS
  Input = 4
  BufferSize = 3
  SocketBuffer = 2
  Faults <- AllFaults
SPECIFICATION FairSpec
INVARIANTS
  TypeOK
  NoUseAfterFree
  EofMeansAllWritten
  RefusalIsTrue
  NobodyWaitsInVain
  CanStepIsEnabled
PROPERTIES
  FirstResultWins
  ResultEndsClient
  HangupEndsClient
\* The client ends.
CHECK_DEADLOCK FALSE
