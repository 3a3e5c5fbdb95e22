SPECIFICATION SpecAlone
CONSTANTS
  PerSide = 2
  PMs <- McPMs
  Intervals = {1}
  ChannelSets <- McNoChannels
  CommFails = FALSE
  MaxRequests = 1
  MaxChanges = 0
INVARIANT ConnectedPmsIdentified
