\* Producer or consumer, two callbacks, one sweep; fopen succeeds.
CONSTANTS
  Args = {"p", "c"}
  FopenMayFail = FALSE
  MaxRecv = 2
  MaxPasses = 1
SPECIFICATION Spec
INVARIANTS RateSweepExact LogFileOpenWhenWritten
VIEW StressView
