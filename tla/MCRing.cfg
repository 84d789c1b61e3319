\* A loop without a stable state: is the evaluation tried again?
SPECIFICATION Spec
CONSTANTS
  Signal <- MCSignal
  Created <- MCCreated
  Unit <- MCUnit
  LogicInput <- MCLogicInput
  AndInputs <- MCAndInputs
  OrInputs <- MCOrInputs
  AndThenOr <- MCAndThenOr
  InvertFirst <- MCInvertFirst
  ActiveLow <- MCActiveLow
  Delayed <- MCDelayed
  OutOf <- MCOutOf
  Parent <- MCParent
  InputSignal <- MCInputSignal
  Invert <- MCInvert
  Debounced <- MCDebounced
  QueueCapacity = 1
  Input <- MCInput
  Output <- MCOutput
  OutputSignal <- MCOutputSignal
  Receivers <- MCReceivers
  Timeout = 3
  MaxPosted = 2
INVARIANTS
  TriesAgain
