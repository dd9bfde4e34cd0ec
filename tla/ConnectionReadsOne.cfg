\* No faults: a POST request with its body is enough.
CONSTANTS
  Conn = {c1}
  MaxTasks = 3
  ReadSize = 3
  HeaderSize = 2
  MaxBody = 2
  NegBody = 0
  MaxBurst = 2
  Word = 10
  Faults = {}
  NULL = NULL
SPECIFICATION Spec
INVARIANTS
  OneReadPerConnection
SYMMETRY Symmetry
CHECK_DEADLOCK FALSE
