\* Everything may fail, submissions included.
CONSTANTS
  Conn = {c1, c2}
  MaxTasks = 4
  ReadSize = 3
  HeaderSize = 2
  MaxBody = 2
  NegBody = 3
  MaxBurst = 2
  Word = 10
  Faults = {"error", "accept", "submit"}
  NULL = NULL
SPECIFICATION Spec
INVARIANTS
  TypeOK
  BuffersLiveWhileRead
SYMMETRY Symmetry
CHECK_DEADLOCK FALSE
