SPECIFICATION Spec
CONSTANTS
  IdOrder <- MCIdOrder
  Seeds <- MCSeeds
  NewIds <- MCNewIds
  Items <- MCItems
  Exports <- MCExports
  OnlineData <- MCOnlineData
  MaxEdits = 2
  MaxLocal = 1
  MaxOpens = 1
  EditedLinks = {"open"}
INVARIANTS UiDesignSound UiDesignMirrored
CHECK_DEADLOCK FALSE
