\* Frames delivered to a registered process; nlmsg_new succeeds.
CONSTANTS
  Types = {"Interest", "Data", "Dack", "Announcement", "Injected", "Other"}
  Overhearing = FALSE
  PidRegistered = {TRUE}
  AllocMayFail = FALSE
  MaxFrames = 1
SPECIFICATION Spec
INVARIANT NetlinkBufferOnce
CHECK_DEADLOCK FALSE
