\* A flow 65533 frames in, so that six more sends cross the u16 wrap of
\* seq; no DACK arrives.
CONSTANTS
  WINDOW_TX = 5
  MaxRetx = 2
  RetxPace = 6
  OobNull = {FALSE}
  AllocMayFail = FALSE
  NULL = NULL
  UNINIT = UNINIT
  MaxSends = 6
  DackRounds = {0}
  MaxHoles = 1
  MaxDacks = 0
  SeqStart = 65533
SPECIFICATION Spec
INVARIANT NoCopyLeaked
VIEW TxView
CHECK_DEADLOCK FALSE
