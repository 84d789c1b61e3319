\* The network: safety, the refinement and liveness of a loop with a debounced
\* input and a delayed unit behind it.
SPECIFICATION FairSpec
CONSTANTS
  Signal <- MCSignal
  Created <- MCCreated
  Unit <- MCUnit
  LogicInput <- MCLogicInput
  AndInputs <- MCAndInputs
  OrInputs <- MCOrInputs
  AndThenOr <- MCAndThenOr
  InvertFirst <- MCInvertFirst
  ActiveLow <- MCActiveLow
  Delayed <- MCDelayed
  OutOf <- MCOutOf
  Parent <- MCParent
  InputSignal <- MCInputSignal
  Invert <- MCInvert
  Debounced <- MCDebounced
  QueueCapacity = 1
  Input <- MCInput
  Output <- MCOutput
  OutputSignal <- MCOutputSignal
  Receivers <- MCReceivers
  Timeout = 5
  MaxPosted = 1
INVARIANTS
  TypeOK
  DirtyTracked
  NoLostWakeup
  LastValueDelivered
  NoMissedUpdate
  BetweenEvaluations
  QuiescentConsistent
PROPERTIES
  IterationStable
  NoGlitch
  ImplementsChangeSet
  ComesToRest
