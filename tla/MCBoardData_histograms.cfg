SPECIFICATION Spec0
CONSTANTS
  Databases <- Contents
  Required <- Needed
  MaxSwitches = 2
  MaxBlock = 2
  Channels = 2
  ChannelSize = 5
  BcIds = {"b0", "b2"}
  ClearedBcId = "b0"
  PmClients = {"PARAMETERS"}
  MaxActions = 4
  Memory <- Memory0
  Counters = {"0", "c1", "c2"}
  TcmClients = {"PARAMETERS", "CONFIGURATIONS"}
  MaxTcmActions = 4
  TableSets <- ToolTables
  InputFiles <- ToolFiles
  Sections <- ToolSections
INVARIANTS BoardDataTypeOK FieldsDisjoint RegistersReproduced SqlIsWhole
  RegistersApart FieldsHoldTheirRange EnvironmentAgrees
  ReadoutsAreTrue FilterAnswersAreTrue TcmAnswersAreTrue
\* A program without its data ends; the other actions are bounded.
CHECK_DEADLOCK FALSE
