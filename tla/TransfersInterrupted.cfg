CONSTANTS
  MaxTasks = 1
  BufferLoans <- MCBufferLoans
  VectorLoans <- MCVectorLoans
  Faults = {"short", "eof", "error"}
  Interruptible <- MCInterruptible
  Errno = 4
  Word = 16
  MaxReports = 2
  NULL = NULL
SPECIFICATION Spec
INVARIANT AlwaysUnused
CHECK_DEADLOCK FALSE
