\* Does a request for Off stand?
SPECIFICATION Spec
CONSTANTS
  MaxHandlers = 2
  Unasked = FALSE
INVARIANTS
  OffStaysOff
