CONSTANTS
  WINDOW = 7
  HOLES_MAX = 2
  Slot0Init = {0}
  WindowMinus1 = {1}
  AllocMayFail = TRUE
  NULL = NULL
  MaxSeq = 10
  RetxSpan = 5
  DackChanMax = 1
  RxSeqStart = 0
SPECIFICATION Spec
INVARIANTS TypeOK WindowTracksReceipts DupFilterExact DackArmedHasTimer
PROPERTIES ReportHolesUndelivered DackEventuallySent
