\* A DACK frame received from a V-MAC peer, with a process registered.
CONSTANTS
  Types = {"Interest", "Data", "Dack", "Announcement", "Injected", "Other"}
  Overhearing = FALSE
  PidRegistered = {TRUE}
  AllocMayFail = FALSE
  MaxFrames = 1
SPECIFICATION Spec
INVARIANT DackConsumed
CHECK_DEADLOCK FALSE
