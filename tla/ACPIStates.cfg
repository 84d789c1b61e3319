\* The ACPI state handler on a platform that leaves G3 only when asked to.
SPECIFICATION FairSpec
CONSTANTS
  MaxHandlers = 2
  Unasked = FALSE
INVARIANTS
  TypeOK
  MirrorCurrent
  NeverWaitsInG3
PROPERTIES
  PowerCycleCompletes
