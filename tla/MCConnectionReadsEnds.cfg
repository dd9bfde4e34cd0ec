\* Submissions succeed.  No symmetry, because of the liveness property.
CONSTANTS
  Conn = {c1, c2}
  MaxTasks = 4
  ReadSize = 3
  HeaderSize = 2
  MaxBody = 2
  NegBody = 3
  MaxBurst = 2
  Word = 10
  Faults = {"error", "accept"}
  NULL = NULL
SPECIFICATION FairSpec
INVARIANTS
  NoReadBufferLeaks
  OpenConnectionsWatched
PROPERTIES
  HangUpsAreTold
CHECK_DEADLOCK FALSE
