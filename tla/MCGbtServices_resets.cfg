SPECIFICATION Spec
CONSTANTS
  TCM = "TCM"
  PMs = {"PM"}
  ResetBits <- Bits
  ErrorBits = {"FIFO"}
  CounterBit = "COUNTERS"
  ReportBit = "FIFO"
  ErrorCodes = {"BC_SYNC_LOST"}
  Wrap = 2
  MaxWords = 2
  MaxReports = 1
  StatusFails = TRUE
  CommFails = TRUE
  MaxRequests = 2
  MaxEvents = 3
INVARIANTS BitsComeDown SuccessMeansDone RatesAreTrue ReportsAreTrue
PROPERTY ReportComesLast
\* Clients may stop asking, and the electronics counting.
CHECK_DEADLOCK FALSE
