CONSTANTS
  WINDOW = 7
  HOLES_MAX = 2
  Slot0Init = {0, 1}
  WindowMinus1 = {1}
  AllocMayFail = TRUE
  NULL = NULL
  MaxSeq = 6
  RetxSpan = 5
  DackChanMax = 1
  RxSeqStart = 0
SPECIFICATION Spec
INVARIANT DupFilterExact
