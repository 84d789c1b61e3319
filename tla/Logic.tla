------------------------------- MODULE Logic -------------------------------
(***************************************************************************)
(* The logic units and their inputs (src/Logic.cpp, src/LogicInput.cpp).   *)
(*                                                                         *)
(* A unit combines an AND gate and an OR gate over its inputs and drives   *)
(* one signal, at once or through a queue of delayed changes.  An input    *)
(* with a stability time samples its signal only when the level is old     *)
(* enough, and otherwise answers the level it sampled last.                *)
(*                                                                         *)
(* Time is abstracted: settled is the set of inputs whose signal has kept  *)
(* its level for their stability time.  Passing time adds an input to it   *)
(* and a change of the signal removes it.  A pending timer may expire at   *)
(* any moment, which includes the moments the clock would allow.           *)
(***************************************************************************)
EXTENDS SignalProvider

CONSTANTS Unit,          \* Logic instances
          LogicInput,    \* LogicInput instances of all units
          AndInputs,     \* Logic::andInputs, a sequence of inputs per unit
          OrInputs,      \* Logic::orInputs
          AndThenOr,     \* Logic::andThenOr
          InvertFirst,   \* Logic::invertFirstGate
          ActiveLow,     \* Logic::outputActiveLow
          Delayed,       \* units with delayOutputUsec > 0
          OutOf,         \* Logic::signal, the signal a unit drives
          Parent,        \* LogicInput::parent
          InputSignal,   \* LogicInput::input
          Invert,        \* LogicInput::invert
          Debounced,     \* inputs with inputStableUsec > 0
          QueueCapacity  \* capacity of Logic::outQueue, 100 in the code

ASSUME LogicAssumption ==
  /\ AndInputs \in [Unit -> Seq(LogicInput)]
  /\ OrInputs \in [Unit -> Seq(LogicInput)]
  /\ AndThenOr \in [Unit -> BOOLEAN]
  /\ InvertFirst \in [Unit -> BOOLEAN]
  /\ ActiveLow \in [Unit -> BOOLEAN]
  /\ Delayed \subseteq Unit
  /\ OutOf \in [Unit -> Signal]
  /\ Parent \in [LogicInput -> Unit]
  /\ InputSignal \in [LogicInput -> Signal]
  /\ Invert \in [LogicInput -> BOOLEAN]
  /\ Debounced \subseteq LogicInput
  /\ QueueCapacity \in Nat \ {0}

\* A unit only owns the inputs its constructor created.
ASSUME OwnInputsAssumption ==
  \A u \in Unit : \A i \in Range(AndInputs[u]) \cup Range(OrInputs[u]) :
    Parent[i] = u

\* One driver per signal.  SignalProvider::Validate only asks for at least one;
\* the shipped configurations have exactly one.
ASSUME SingleDriverAssumption ==
  \A u, w \in Unit : OutOf[u] = OutOf[w] => u = w

VARIABLES lastValue,       \* Logic::lastValue
          lastValueValid,  \* Logic::lastValueValid
          outQueue,        \* levels in Logic::outQueue, oldest first
          level,           \* LogicInput::level of the debounced inputs; any
                           \* other input writes it before every read
          timer,           \* inputs whose timer is pending
          settled          \* inputs whose signal is old enough to be sampled

logicVars == <<lastValue, lastValueValid, outQueue, level, timer, settled>>

LogicTypeOK ==
  /\ lastValue \in [Unit -> BOOLEAN]
  /\ lastValueValid \in [Unit -> BOOLEAN]
  /\ outQueue \in [Unit -> Seq(BOOLEAN)]
  /\ \A u \in Unit \ Delayed : outQueue[u] = <<>>
  /\ level \in [Debounced -> BOOLEAN]
  /\ timer \in SUBSET Debounced
  /\ settled \in SUBSET Debounced

\* The constructor of LogicInput calls GetLevel.  As a rule the signal is then
\* younger than the stability time, so the timer is armed and level keeps what
\* the memory held; how long the constructors take is left open.
LogicInit ==
  /\ lastValue = [u \in Unit |-> FALSE]
  /\ lastValueValid = [u \in Unit |-> FALSE]
  /\ outQueue = [u \in Unit |-> <<>>]
  /\ level \in [Debounced -> BOOLEAN]
  /\ timer \in SUBSET Debounced
  /\ settled \in SUBSET Debounced

-----------------------------------------------------------------------------
\* Signal::SetLevel stores the time of the change, so the inputs on the signal
\* have to wait again.
Drive(s, newLevel) ==
  /\ SetLevel(s, newLevel)
  /\ settled' = IF active[s] = newLevel THEN settled
                ELSE {i \in settled : InputSignal[i] # s}

\* LogicInput::GetLevel: an undebounced or settled input samples its signal.
Samples(i) == i \notin Debounced \/ i \in settled
InputLevel(i) == active[InputSignal[i]] # Invert[i]
GetLevel(i) == IF Samples(i) THEN InputLevel(i) ELSE level[i]

\* The inputs a gate reads before it knows its answer: the loops of
\* GetLevelAndInputs and GetLevelOrInputs stop at the first FALSE, or TRUE.
ReadUntil(inputs, v, stop) ==
  {inputs[k] : k \in {k \in DOMAIN inputs :
                        \A j \in 1..(k - 1) : v[inputs[j]] # stop}}
Reads(u, v) ==
  ReadUntil(AndInputs[u], v, FALSE) \cup ReadUntil(OrInputs[u], v, TRUE)

AndGate(u, v) == \A i \in Range(AndInputs[u]) : v[i]
OrGate(u, v) == \E i \in Range(OrInputs[u]) : v[i]

\* The level Logic::Update computes from the input levels v.
Result(u, v) ==
  LET first == IF AndThenOr[u]
               THEN AndInputs[u] # <<>> /\ (AndGate(u, v) # InvertFirst[u])
               ELSE OrInputs[u] = <<>> \/ (OrGate(u, v) # InvertFirst[u])
      result == IF AndThenOr[u] THEN first \/ OrGate(u, v)
                                ELSE first /\ AndGate(u, v)
  IN result # ActiveLow[u]

\* A mutant of PushBack: a full buffer refuses the new element.
PushBackUnlessFull(q, e) == IF Len(q) < QueueCapacity THEN Append(q, e) ELSE q

\* boost::circular_buffer::push_back drops the oldest element when full.
PushBack(q, e) ==
  IF Len(q) < QueueCapacity THEN Append(q, e) ELSE Append(Tail(q), e)

\* Logic::Update, with pending the input timers that have not just expired.
\* Reading an input that is not settled (re)arms its timer.
Update(u, pending) ==
  LET v == [i \in LogicInput |-> GetLevel(i)]
      read == Reads(u, v)
      result == Result(u, v)
      changed == ~lastValueValid[u] \/ lastValue[u] # result
  IN /\ level' = [i \in Debounced |-> IF i \in read THEN v[i] ELSE level[i]]
     /\ timer' = pending \cup {i \in read : ~Samples(i)}
     /\ IF changed /\ u \notin Delayed
        THEN Drive(OutOf[u], result)
        ELSE UNCHANGED <<signalVars, settled>>
     /\ outQueue' = IF changed /\ u \in Delayed
                    THEN [outQueue EXCEPT ![u] = PushBack(@, result)]
                    ELSE outQueue
     /\ lastValue' = [lastValue EXCEPT ![u] = result]
     /\ lastValueValid' = [lastValueValid EXCEPT ![u] = TRUE]

\* Logic::TimerHandler: apply the oldest delayed change.
TimerHandler(u) ==
  /\ outQueue[u] # <<>>
  /\ Drive(OutOf[u], Head(outQueue[u]))
  /\ outQueue' = [outQueue EXCEPT ![u] = Tail(@)]
  /\ UNCHANGED <<lastValue, lastValueValid, level, timer>>

\* The timer of a LogicInput expires and its unit is updated.
InputTimer(i) ==
  /\ i \in timer
  /\ Update(Parent[i], timer \ {i})

\* The signal of a debounced input reaches the input's stability time.
Settle(i) ==
  /\ i \in Debounced \ settled
  /\ settled' = settled \cup {i}
  /\ UNCHANGED <<signalVars, lastValue, lastValueValid, outQueue, level, timer>>

-----------------------------------------------------------------------------
InputsOf(u) == Range(AndInputs[u]) \cup Range(OrInputs[u])

\* What unit u must take its inputs for: the level sampled last while the
\* timer of a debounced input runs, the level of the signal otherwise.
Seen == [i \in LogicInput |-> IF i \in timer THEN level[i] ELSE InputLevel(i)]

\* The levels of the inputs once nothing is moving.
Actual == [i \in LogicInput |-> InputLevel(i)]

UnitCurrent(u) == lastValueValid[u] /\ lastValue[u] = Result(u, Seen)

\* The value a unit computed last is the one its signal has, or will have when
\* its queue of delayed changes has drained, even after the queue overflowed.
LastValueDelivered ==
  \A u \in Unit : lastValueValid[u] =>
    lastValue[u] = IF outQueue[u] = <<>> THEN active[OutOf[u]]
                                         ELSE outQueue[u][Len(outQueue[u])]
=============================================================================
