CONSTANTS
  WINDOW_TX = 5
  MaxRetx = 2
  RetxPace = 6
  OobNull = {FALSE}
  AllocMayFail = FALSE
  NULL = NULL
  UNINIT = UNINIT
  MaxSends = 8
  DackRounds = {0, 6}
  MaxHoles = 2
  MaxDacks = 2
  SeqStart = 0
SPECIFICATION Spec
PROPERTY RetxSpacing
VIEW TxView
