\* A regulator that behaves, and nothing fails.
SPECIFICATION Spec
CONSTANTS
  File <- Files
  Content <- Contents
  ClearOnRead <- Cleans
  Cleared = "none"
  Tails = {FALSE}
  Fails = {}
  MaxPending = 1
  StatusIn <- Regular
  Independent = FALSE
INVARIANTS ShowsHardware
CHECK_DEADLOCK FALSE
