\* Every kind of service, every sequence of up to three requests.
SPECIFICATION FairSpec
CONSTANTS
  Kinds = {"BoardStatus", "CounterRates", "BoardHistograms"}
  Prefix <- MCPrefix
  MaxRequests = 3
  MaxCount = 2
INVARIANTS
  NoReadoutWhenStopped
  OneReadoutPerRequest
PROPERTIES
  ImplementsLedger
  RequestsSettle
  TerminationIsPrompt
CHECK_DEADLOCK FALSE
