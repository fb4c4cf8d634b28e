\* A sender whose callers pass every header type and whose xmit frame pool
\* never runs dry; a receiver built as shipped (no ENABLE_OVERHEARING),
\* whose nlmsg_new succeeds, that also hears other stations.  Sending and
\* reception stop at their bounds.
CONSTANTS
  SendTypes = {"Interest", "Data", "Dack", "Announcement", "Injected", "Other"}
  XmitMayFail = FALSE
  MaxSends = 3
  Types = {"Interest", "Data", "Dack", "Announcement", "Injected", "Other"}
  Overhearing = FALSE
  PidRegistered = {TRUE, FALSE}
  AllocMayFail = FALSE
  MaxFrames = 2
SPECIFICATION Spec
INVARIANTS DeliveryContract SkbReleased
CHECK_DEADLOCK FALSE
