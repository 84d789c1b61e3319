\* The unit reads the signal debounced and undebounced, as RSMRST_Unit does, and
\* the memory holds zeros.
SPECIFICATION Spec
CONSTANTS
  Stable = 2
  KernelCapacity = 1
  Delay = 0
  Capacity = 2
  Raw = TRUE
  Memory = {FALSE}
  Lag = 1
  Jumps = {}
PROPERTIES
  UnstableIsZero
