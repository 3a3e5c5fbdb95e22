SPECIFICATION Spec
CONSTANTS
  Sides = {"A", "C"}
  Smallest <- MinusOne
  Largest = 1
  Margin = 1
  PmInit = 1
  CommFails = TRUE
  MaxChanges = 2
INVARIANT UndisturbedChangeArrives
INVARIANT ReportStaysCleared
