SPECIFICATION FairSpec
CONSTANTS
  PMs = {"PMA0"}
  Configurations <- McConfigurations
  BoardsOf <- McBoardsOf
  MaxCommands = 2
  MaxOthers = 1
CHECK_DEADLOCK FALSE
INVARIANT WorkIsOver
INVARIANT ConfiguredMasksSurvive
PROPERTY CommandEnds
