CONSTANTS
  None = None
  Junk = Junk
  Word = 32
  IntMax = 3
  MaxCalls = 2
  Sizes = {0, 1, 2, 4, 10}
  RangeStrs <- MCRangeStrs
  Words = {"word"}
  Forms <- MCForms
SPECIFICATION Spec
INVARIANTS
  TypeOK
  AskedBytesCovered
  RangesInsideFile
  RefusedForCause
  ItemsAreParts
  OneItemEach
CHECK_DEADLOCK FALSE
