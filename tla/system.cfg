CONSTANTS
  c1 = c1
  c2 = c2
  Me = c1
  Clients <- TwoClients
  NoClient = NoClient
  MaxChunks = 2
  SocketBuffer = 1
  PipeCapacity = 1
  ListenBacklog = 1
  CloseOnExec = TRUE
  Faults <- NoFaults
SPECIFICATION SystemSpec
INVARIANTS
  RejectedLeavesNothing
  SuccessIsDelivered
  ServedUntilTheEnd
PROPERTIES
  ImplementsClient
\* Server and clients end.
CHECK_DEADLOCK FALSE
