\* A consumer that also receives Data frames while its sweep runs.
CONSTANTS
  Args = {"c"}
  FopenMayFail = FALSE
  MaxRecv = 2
  MaxPasses = 1
SPECIFICATION Spec
INVARIANT LabelsIncrease
