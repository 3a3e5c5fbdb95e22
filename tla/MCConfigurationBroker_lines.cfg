SPECIFICATION Spec
CONSTANTS
  Requests <- McRequests
  Known = {"p", "other"}
  Legacy <- LegacyRows
  Smallest = 10
  Largest = 20
  calculateElectronic <- ToElectronic
  calculatePhysical <- ToPhysical
  electronicToPhysic <- NamesOther
  physicToElectronic <- NamesOther
  LostAtCommit = FALSE
INVARIANT StoredValuesFit
PROPERTY SelectsSurvive
PROPERTY ImplementsConfigurationStore
