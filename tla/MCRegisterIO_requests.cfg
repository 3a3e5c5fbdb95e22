CONSTANTS
  r1 = r1
  r2 = r2
  b0 = b0
  b1 = b1
  nobit = nobit
  None <- MCNone
  Name <- MCName
  Param <- MCParam
  Address <- MCAddress
  Bit <- MCBit
  addr <- MCaddr
  field <- MCfield
  raws <- MCraws
  ReadOnly = {"status"}
  Block = {}
  toRawVars <- MCvars
  toPhysVars <- MCvars
  Volatile <- MCVolatile
  s1 = s1
  s2 = s2
  Service <- MCService
  Commands <- MCCommands
  MaxCommands = 2
SPECIFICATION MCSpec
INVARIANTS
  WriteConfirmed
  NoSpuriousFailure
  AnswerMatchesRequest
PROPERTY LegalChangesOnly
