\* Every fault; no symmetry, because of the liveness property.
CONSTANTS
  Clients = {c1, c2}
  page = page
  empty = empty
  Files = {page, empty}
  NotFound = empty
  Size <- MCSize
  Header = 1
  Buffers = {b1, b2}
  MaxItems = 1
  RangeLists <- WholeOrMany
  Faults = {"short", "eintr", "error", "submit"}
  MaxEintr = 1
  NULL = NULL
SPECIFICATION FairSpec
INVARIANTS
  SuccessMeansSent
  OneOwnerEach
PROPERTIES
  EveryTaskEnds
CHECK_DEADLOCK FALSE
