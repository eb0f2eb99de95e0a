CONSTANTS
  c1 = c1
  c2 = c2
  Clients <- OneClient
  NoClient = NoClient
  MaxChunks = 0
  PipeCapacity = 1
  ListenBacklog = 1
  CloseOnExec = FALSE
  Faults <- NoFaults
SPECIFICATION StartFairSpec
PROPERTIES
  RunningChildIsAnnounced
\* The server ends, and clients are free to do nothing.
CHECK_DEADLOCK FALSE
