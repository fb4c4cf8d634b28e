\* One Interest or Data frame sent and received; nothing fails.
CONSTANTS
  SendTypes = {"Interest", "Data"}
  XmitMayFail = FALSE
  MaxSends = 1
  Types = {"Interest"}
  Overhearing = FALSE
  PidRegistered = {TRUE}
  AllocMayFail = FALSE
  MaxFrames = 1
SPECIFICATION Spec
INVARIANT PeerRecognisesVmac
CHECK_DEADLOCK FALSE
