\* Counting, resets and failures at one read interval; counters wrap at 2.
SPECIFICATION Spec
CONSTANTS
  Modulus = 2
  Codes <- OneInterval
  MaxSets = 3
  MaxResets = 1
  MaxLate = 1
  CommFails = TRUE
  None = None
INVARIANTS
  RatesCountEvents
  RatesUseSuccessiveSets
