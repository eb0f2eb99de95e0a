CONSTANTS
  s1 = s1
  s2 = s2
  s3 = s3
  s4 = s4
  Servers <- FourServers
  Nobody = Nobody
  Foreign = Foreign
SPECIFICATION Spec
SYMMETRY ServerSymmetry
INVARIANTS
  BoundServerIsReachable
  StaleOnlyAfterKill
PROPERTIES
  ForeignFileKept
\* The servers end.
CHECK_DEADLOCK FALSE
