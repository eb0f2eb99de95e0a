CONSTANTS
  c1 = c1
  c2 = c2
  Clients <- TwoClients
  NoClient = NoClient
  MaxChunks = 2
  PipeCapacity = 1
  ListenBacklog = 1
  CloseOnExec = TRUE
  Faults <- AllFaults
SPECIFICATION Spec
SYMMETRY ClientSymmetry
INVARIANTS
  IInv
  PlacesInv
  RefusedNeverServed
  ClosedOnlyByCancelledAccept
  InitializedBeforeUse
  NoUseAfterFree
  NobodyWaitsInVain
  CanStepIsEnabled
PROPERTIES
  SessionNotStolen
  ChunkLostOnlyToEndedChild
  ImplementsConsole
\* The server ends, and clients are free to do nothing.
CHECK_DEADLOCK FALSE
