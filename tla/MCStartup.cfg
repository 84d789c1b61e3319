\* Configurations in one or two files, and hardware that is missing or taken.
\* No start gets stuck.
SPECIFICATION Spec
CONSTANTS
  File <- MCFile
  Name <- MCName
  Trees <- MCTrees
  WithPullups = TRUE
  RailSignal <- MCRailSignal
  Troubles <- MCTroubles
INVARIANTS
  TypeOK
  AllRecorded
  StartsAsAssumed
  VerdictMatches
