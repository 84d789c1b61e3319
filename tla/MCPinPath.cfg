\* A line, a debounced and delayed unit, and a pin, with a clock that is set.
SPECIFICATION FairSpec
CONSTANTS
  Stable = 2
  KernelCapacity = 2
  Delay = 2
  Capacity = 2
  Raw = FALSE
  Memory = {TRUE, FALSE}
  Lag = 1
  Jumps <- MCJumps
INVARIANTS
  TypeOK
  ShowsLine
  NeverInvents
  BoundedResponse
PROPERTIES
  DelayKept
  LowPulseHolds
  EventuallyShown
