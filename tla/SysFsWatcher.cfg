\* Three files, one of them cleared when read; registration in any order.
SPECIFICATION FairWatcherSpec
CONSTANTS
  File = {state, status, events}
  Content = {0, 1}
  ClearOnRead = {events}
  Cleared = 0
  Tails = {FALSE}
  Fails = {"open", "pipe", "poll", "read"}
  MaxPending = 2
INVARIANTS WatcherTypeOK 
PROPERTIES NoRace CallReturns
CHECK_DEADLOCK FALSE
