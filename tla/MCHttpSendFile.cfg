\* Three clients are what it takes for one of them to lose its lock.
CONSTANTS
  Clients = {c1, c2, c3}
  page = page
  empty = empty
  Files = {page, empty}
  NotFound = empty
  Size <- MCSize
  Header = 1
  Buffers = {b1, b2, b3}
  MaxItems = 1
  RangeLists <- WholeOrMany
  Faults = {"short", "error"}
  MaxEintr = 0
  NULL = NULL
SPECIFICATION Spec
SYMMETRY Symmetry
INVARIANTS
  TypeOK
  OneOwnerEach
  NoLockLeaks
PROPERTIES
  OnlyReadersStealLocks
CHECK_DEADLOCK FALSE
