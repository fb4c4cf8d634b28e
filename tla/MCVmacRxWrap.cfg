\* The receive entry of a flow three frames before its u16 sequence number wraps.
CONSTANTS
  WINDOW = 7
  HOLES_MAX = 2
  Slot0Init = {0}
  WindowMinus1 = {1}
  AllocMayFail = TRUE
  NULL = NULL
  MaxSeq = 6
  RetxSpan = 5
  DackChanMax = 1
  RxSeqStart = 65533
SPECIFICATION Spec
INVARIANT DupFilterExact
