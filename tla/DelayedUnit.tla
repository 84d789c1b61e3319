---------------------------- MODULE DelayedUnit ----------------------------
(***************************************************************************)
(* A logic unit in time (src/Logic.cpp, src/LogicInput.cpp): an AND gate   *)
(* over a debounced input, and then the same signal undebounced when Raw   *)
(* is set, whose output is delayed.  This is the shape of the units that   *)
(* hold a reset until a rail is good, for example RSMRST_Unit in           *)
(* config/genesis3/pch.yaml; Logic has the gates in general and no time.   *)
(*                                                                         *)
(* Ages and due times are read from steady_clock.  Both timers, however,   *)
(* run on the wall clock: LogicInput::timer is a deadline_timer, and       *)
(* Logic::timer a high_resolution_timer, which is system_clock in          *)
(* libstdc++.  A timer is a set that is empty, or holds the time left.     *)
(***************************************************************************)
EXTENDS TimedSignal, Sequences

CONSTANTS Delay,     \* Logic::delayOutputUsec, in ticks
          Capacity,  \* capacity of Logic::outQueue, 100 in the code
          Raw,       \* the unit also has the signal as an undebounced input
          Memory     \* what the memory of LogicInput::level may hold

ASSUME DelayAssumption ==
  /\ Delay \in Nat
  /\ Capacity \in Nat \ {0, 1}
  /\ Raw \in BOOLEAN
  /\ Memory \in (SUBSET BOOLEAN) \ {{}}

VARIABLES first,           \* the Update posted by the constructor has not run
          level,           \* LogicInput::level
          inTimer,         \* LogicInput::timer
          lastValue,       \* Logic::lastValue
          lastValueValid,  \* Logic::lastValueValid
          outQueue,        \* Logic::outQueue, due is the time until its Time
          outTimer,        \* Logic::timer
          out,             \* Signal::active of the signal the unit drives
          overflowed       \* outQueue dropped a change

unitVars == <<first, level, inTimer, lastValue, lastValueValid, outQueue,
              outTimer, out, overflowed>>

Change == [level : BOOLEAN, due : 0..Delay]

UnitTypeOK ==
  /\ first \in BOOLEAN
  /\ level \in BOOLEAN
  /\ inTimer \in SUBSET Nat
  /\ lastValue \in BOOLEAN
  /\ lastValueValid \in BOOLEAN
  /\ outQueue \in Seq(Change)
  /\ Len(outQueue) <= Capacity
  /\ outTimer \in SUBSET Nat
  /\ out \in BOOLEAN
  /\ overflowed \in BOOLEAN

\* The constructor of LogicInput calls GetLevel: a signal younger than the
\* stability time arms the timer and leaves level as the memory was.
UnitInit ==
  /\ first = TRUE
  /\ level \in IF age >= Stable THEN {active} ELSE Memory
  /\ inTimer = IF age >= Stable THEN {} ELSE {Stable - age}
  /\ lastValue = FALSE
  /\ lastValueValid = FALSE
  /\ outQueue = <<>>
  /\ outTimer = {}
  /\ out = FALSE
  /\ overflowed = FALSE

-----------------------------------------------------------------------------
\* LogicInput::GetLevel of the debounced input.
GetLevel == IF age >= Stable THEN active ELSE level

\* A mutant of Rearm: an input that is not stable arms no timer.
RearmNever(pending) == inTimer' = pending

\* LogicInput::GetLevel arms the timer for the rest of the stability time when
\* the signal is not stable.  That cancels a pending wait, except one whose
\* handler is already on its way.
Rearm(pending) ==
  IF age >= Stable
  THEN inTimer' = pending
  ELSE \E late \in SUBSET {r \in pending : r = 0} :
         inTimer' = late \cup {Stable - age}

\* A mutant of PushBack: a queue that grows.
PushBackGrows(q, e) == Append(q, e)

\* boost::circular_buffer::push_back, which drops the oldest element when full.
PushBack(q, e) == IF Len(q) < Capacity THEN Append(q, e) ELSE Append(Tail(q), e)

\* A mutant of Enqueue: every change restarts the timer.
EnqueueRestarts(result) ==
  LET q == PushBack(outQueue, [level |-> result, due |-> Delay])
  IN /\ outQueue' = q
     /\ outTimer' = {Delay}
     /\ overflowed' = (overflowed \/ Len(outQueue) = Capacity)

\* The branch of Logic::Update for a delayed output: queue the change, and start
\* the timer when it is the only one.
Enqueue(result) ==
  LET q == PushBack(outQueue, [level |-> result, due |-> Delay])
  IN /\ outQueue' = q
     /\ outTimer' = IF Len(q) = 1 THEN {Head(q).due} ELSE outTimer
     /\ overflowed' = (overflowed \/ Len(outQueue) = Capacity)

\* A change of the signal the unit drives marks it.
MarksOut == dirty' = IF out' # out THEN dirty \cup {"out"} ELSE dirty

\* Logic::Update, with pending the timer of the input.
Update(pending) ==
  LET result == GetLevel /\ (Raw => active)
      changed == ~lastValueValid \/ lastValue # result
  IN /\ Rearm(pending)
     /\ level' = GetLevel
     /\ IF changed /\ Delay > 0
        THEN Enqueue(result)
        ELSE UNCHANGED <<outQueue, outTimer, overflowed>>
     /\ out' = IF changed /\ Delay = 0 THEN result ELSE out
     /\ lastValue' = result
     /\ lastValueValid' = TRUE
     /\ UNCHANGED <<active, age>>

\* The Update the constructor of Logic posted.
FirstUpdate ==
  /\ first
  /\ first' = FALSE
  /\ Update(inTimer)
  /\ MarksOut

\* The timer of the input expires.
InputTimer ==
  /\ 0 \in inTimer
  /\ Update(inTimer \ {0})
  /\ MarksOut
  /\ UNCHANGED first

\* Mutants of OutputTimer: it does not start the timer for the next change; it
\* applies the newest change and forgets the ones before it.
OutputTimerStops ==
  /\ 0 \in outTimer
  /\ out' = Head(outQueue).level
  /\ MarksOut
  /\ outQueue' = Tail(outQueue)
  /\ outTimer' = {}
  /\ UNCHANGED <<active, age, first, level, inTimer, lastValue,
                 lastValueValid, overflowed>>

OutputTimerSkips ==
  /\ 0 \in outTimer
  /\ out' = outQueue[Len(outQueue)].level
  /\ MarksOut
  /\ outQueue' = <<>>
  /\ outTimer' = {}
  /\ UNCHANGED <<active, age, first, level, inTimer, lastValue,
                 lastValueValid, overflowed>>

\* Logic::TimerHandler: apply the oldest change without looking at its time,
\* and start the timer for the next one.
OutputTimer ==
  /\ 0 \in outTimer
  /\ out' = Head(outQueue).level
  /\ MarksOut
  /\ outQueue' = Tail(outQueue)
  /\ outTimer' = {outQueue[k].due : k \in 2..2 \cap DOMAIN outQueue}
  /\ UNCHANGED <<active, age, first, level, inTimer, lastValue,
                 lastValueValid, overflowed>>
=============================================================================
