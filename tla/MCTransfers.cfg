CONSTANTS
  MaxTasks = 2
  BufferLoans <- MCBufferLoans
  VectorLoans <- MCVectorLoans
  Faults = {"short", "eof", "error", "submit"}
  Interruptible <- MCInterruptible
  Errno = 4
  Word = 16
  MaxReports = 2
  NULL = NULL
SPECIFICATION FairSpec
INVARIANTS TypeOK ReturnedIsUnused ResumesWhereItStopped CopiesFreedOnce
PROPERTIES LoansEnd ImplementsLentBuffers
CHECK_DEADLOCK FALSE
