\* No failure, and nothing is loaded while the FIFO is read.
SPECIFICATION Spec
CONSTANTS
  Modulus = 4
  Codes <- OneInterval
  MaxSets = 3
  MaxResets = 1
  MaxLate = 0
  CommFails = FALSE
  None = None
INVARIANTS
  RatesSurviveReset
