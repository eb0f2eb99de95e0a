CONSTANTS
  c1 = c1
  c2 = c2
  Clients <- TwoClients
  NoClient = NoClient
  MaxChunks = 1
  PipeCapacity = 1
  ListenBacklog = 1
  CloseOnExec = TRUE
  Faults <- NoFaults
SPECIFICATION Spec
INVARIANTS
  HangupDoesNotEndConsole
\* The server ends, and clients are free to do nothing.
CHECK_DEADLOCK FALSE
