\* A regulator that behaves; poll may fail, and files may fail to open.
SPECIFICATION FairSpec
CONSTANTS
  File <- Files
  Content <- Contents
  ClearOnRead <- Cleans
  Cleared = "none"
  Tails = {FALSE}
  Fails = {"poll", "open"}
  MaxPending = 2
  StatusIn <- Regular
  Independent = FALSE
INVARIANTS TypeOK PowerGoodDefined ShadowsFollow OffIsApplied
PROPERTIES ChangesArrive
CHECK_DEADLOCK FALSE
