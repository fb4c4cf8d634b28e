\* Two frames, no allocation failure: a management frame and a data frame
\* queued before a pass whose first medium test reports busy.
CONSTANTS
  AllocMayFail = FALSE
  MaxEnq = 2
SPECIFICATION Spec
PROPERTY MgmtBeforeData
