CONSTANTS
  Clients = {c1, c2, c3}
  page = page
  empty = empty
  Files = {page, empty}
  NotFound = empty
  Size <- MCSize
  Header = 1
  Buffers = {b1, b2, b3}
  MaxItems = 1
  RangeLists <- WholeOnly
  Faults = {}
  MaxEintr = 0
  NULL = NULL
SPECIFICATION Spec
SYMMETRY Symmetry
INVARIANTS
  SentBuffersKept
CHECK_DEADLOCK FALSE
