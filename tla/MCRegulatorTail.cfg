\* Data that is not terminated, and any hardware.
SPECIFICATION FairSpec
CONSTANTS
  File <- Files
  Content <- Contents
  ClearOnRead <- Cleans
  Cleared = "none"
  Tails = {TRUE, FALSE}
  Fails = {}
  MaxPending = 1
  StatusIn <- Wild
  Independent = TRUE
PROPERTIES DecodesWhatWasRead
CHECK_DEADLOCK FALSE
