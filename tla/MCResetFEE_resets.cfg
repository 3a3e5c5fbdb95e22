SPECIFICATION SpecChanging
CONSTANTS
  PerSide = 2
  PMs <- McTwoPMs
  Intervals = {1}
  ChannelSets <- McChannelSets
  CommFails = TRUE
  MaxRequests = 2
  MaxChanges = 2
INVARIANT ResetRestores
 
 
PROPERTY ImplementsFlaggedService
PROPERTY FlagFalls
\* Nobody may ask for anything any more.
CHECK_DEADLOCK FALSE
