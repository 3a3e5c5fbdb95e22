\* Changing the read interval; the counter stays at 0.
SPECIFICATION Spec
CONSTANTS
  Modulus = 1
  Codes <- AllIntervals
  MaxSets = 2
  MaxResets = 0
  MaxLate = 1
  CommFails = TRUE
  None = None
INVARIANTS
  RatesUseTheirInterval
