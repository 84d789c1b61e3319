---------------------------- MODULE StateMachine ----------------------------
(***************************************************************************)
(* The fixed function state machine: logic units connected by signals,     *)
(* output drivers, and EvaluateState, which walks the changed signals      *)
(* until nothing changes and then applies the outputs                      *)
(* (src/StateMachine.cpp, src/GpioOutput.cpp, src/NullOutput.cpp).         *)
(*                                                                         *)
(* One thread runs io_context::run, so handlers never overlap: while       *)
(* EvaluateState is running no other handler takes a step, only time       *)
(* passes.  Between handlers any one that is ready may run next, which     *)
(* covers every order in which the io_context can queue them.              *)
(***************************************************************************)
EXTENDS Logic

CONSTANTS Input,         \* signals set from outside the logic: GPIO and null
                         \* inputs, regulator status, requested ACPI states
          Output,        \* GpioOutput and NullOutput instances
          OutputSignal,  \* GpioOutput::in
          Receivers,     \* Signal::receivers, in the order they were added
          Timeout,       \* passes of EvaluateState, 10000 in the code
          MaxPosted      \* bound: no input changes above it

Receiver == LogicInput \cup Output
Listens(r) == IF r \in LogicInput THEN InputSignal[r] ELSE OutputSignal[r]

ASSUME NetworkAssumption ==
  /\ Input \subseteq Signal
  /\ \A u \in Unit : OutOf[u] \notin Input
  /\ LogicInput \cap Output = {}
  /\ OutputSignal \in [Output -> Signal]
  /\ Timeout \in Nat \ {0}
  /\ MaxPosted \in Nat

ASSUME ReceiversAssumption ==
  /\ Receivers \in [Signal -> Seq(Receiver)]
  /\ \A s \in Signal : Range(Receivers[s]) = {r \in Receiver : Listens(r) = s}

VARIABLES newLevel,    \* GpioOutput::newLevel, the level to apply
          pin,         \* GpioOutput::active, the level last written
          starting,    \* units whose first Update is still queued
          evaluating,  \* EvaluateState is running
          next,        \* index of the next signal of the list handed out
          todo,        \* receivers of the current signal not yet updated
          timeout,     \* passes left
          failed       \* history: "Failed to evaluate stable state" was logged

evalVars == <<evaluating, next, todo, timeout>>
outputVars == <<newLevel, pin>>
vars == <<signalVars, logicVars, outputVars, starting, evalVars, failed>>

TypeOK ==
  /\ SignalTypeOK
  /\ LogicTypeOK
  /\ newLevel \in [Output -> BOOLEAN]
  /\ pin \in [Output -> BOOLEAN]
  /\ starting \in SUBSET Unit
  /\ evaluating \in BOOLEAN
  /\ next \in Nat \ {0}
  /\ todo \in Seq(Receiver)
  /\ timeout \in 0..Timeout
  /\ evaluating => timeout > 0
  /\ failed \in BOOLEAN

\* Only outside levels may be high before the first handler runs: immutables
\* and the regulators' constructors set them.  GpioOutput leaves newLevel
\* uninitialised and takes the level of the line as its own.
Init ==
  /\ SignalInit
  /\ \A s \in Signal \ Input : ~active[s]
  /\ LogicInit
  /\ newLevel \in [Output -> BOOLEAN]
  /\ pin \in [Output -> BOOLEAN]
  /\ starting = Unit
  /\ evaluating = FALSE
  /\ next = 1
  /\ todo = <<>>
  /\ timeout = Timeout
  /\ failed = FALSE

-----------------------------------------------------------------------------
\* The update a Logic constructor posts.
FirstUpdate(u) ==
  /\ ~evaluating
  /\ u \in starting
  /\ starting' = starting \ {u}
  /\ Update(u, timer)
  /\ UNCHANGED <<outputVars, evalVars, failed>>

\* A delayed change, or a debounced input, is due.
DelayedChange(u) ==
  /\ ~evaluating
  /\ TimerHandler(u)
  /\ UNCHANGED <<outputVars, starting, evalVars, failed>>

InputSettled(i) ==
  /\ ~evaluating
  /\ InputTimer(i)
  /\ UNCHANGED <<outputVars, starting, evalVars, failed>>

\* A handler sets a signal from outside.  One that sets several signals is
\* several of these steps.
SetInput(s) ==
  /\ ~evaluating
  /\ posted < MaxPosted
  /\ Drive(s, ~active[s])
  /\ UNCHANGED <<lastValue, lastValueValid, outQueue, level, timer,
                 outputVars, starting, evalVars, failed>>

\* The clock runs, also while EvaluateState does.
TimePasses(i) ==
  /\ Settle(i)
  /\ UNCHANGED <<outputVars, starting, evalVars, failed>>

-----------------------------------------------------------------------------
\* A mutant of EvaluateState: the timeout is not reset.
EvaluateStateOldTimeout ==
  /\ ~evaluating
  /\ posted > 0
  /\ GetDirtySignalsAndClearList
  /\ posted' = posted - 1
  /\ evaluating' = (Collecting # <<>>)
  /\ next' = 1
  /\ todo' = <<>>
  /\ UNCHANGED <<logicVars, outputVars, starting, timeout, failed>>

\* EvaluateState takes the list of changed signals.  With none it returns.
EvaluateState ==
  /\ ~evaluating
  /\ posted > 0
  /\ GetDirtySignalsAndClearList
  /\ posted' = posted - 1
  /\ evaluating' = (Collecting # <<>>)
  /\ next' = 1
  /\ todo' = <<>>
  /\ timeout' = Timeout
  /\ UNCHANGED <<logicVars, outputVars, starting, failed>>

\* Signal::UpdateReceivers: the receivers in the order they were added.
UpdateReceivers(s) == todo' = Receivers[s]

\* The receivers of the next changed signal are updated.
NextSignal ==
  /\ evaluating
  /\ todo = <<>>
  /\ next <= Len(HandedOut)
  /\ UpdateReceivers(HandedOut[next])
  /\ next' = next + 1
  /\ UNCHANGED <<signalVars, logicVars, outputVars, starting, evaluating,
                 timeout, failed>>

\* LogicInput::Update asks its unit to update.
UpdateLogic ==
  /\ evaluating
  /\ todo # <<>>
  /\ Head(todo) \in LogicInput
  /\ Update(Parent[Head(todo)], timer)
  /\ todo' = Tail(todo)
  /\ UNCHANGED <<outputVars, starting, evaluating, next, timeout, failed>>

\* A mutant of UpdateOutput: the level is written at once.
UpdateOutputAtOnce ==
  /\ evaluating
  /\ todo # <<>>
  /\ Head(todo) \in Output
  /\ newLevel' = [newLevel EXCEPT ![Head(todo)] = active[OutputSignal[Head(todo)]]]
  /\ pin' = [pin EXCEPT ![Head(todo)] = newLevel'[Head(todo)]]
  /\ todo' = Tail(todo)
  /\ UNCHANGED <<signalVars, logicVars, starting, evaluating, next, timeout,
                 failed>>

\* GpioOutput::Update remembers the level.
UpdateOutput ==
  /\ evaluating
  /\ todo # <<>>
  /\ Head(todo) \in Output
  /\ newLevel' = [newLevel EXCEPT ![Head(todo)] = active[OutputSignal[Head(todo)]]]
  /\ todo' = Tail(todo)
  /\ UNCHANGED <<signalVars, logicVars, pin, starting, evaluating, next,
                 timeout, failed>>

\* A mutant of EndOfPass: it does not wait for the receivers of the last signal.
EndOfPassEarly ==
  /\ evaluating
  /\ next > Len(HandedOut)
  /\ GetDirtySignalsAndClearList
  /\ timeout' = timeout - 1

\* A pass is over: take the signals that changed meanwhile.
EndOfPass ==
  /\ evaluating
  /\ todo = <<>>
  /\ next > Len(HandedOut)
  /\ GetDirtySignalsAndClearList
  /\ timeout' = timeout - 1

NextPass ==
  /\ EndOfPass
  /\ Collecting # <<>>
  /\ timeout > 1
  /\ next' = 1
  /\ UNCHANGED <<posted, logicVars, outputVars, starting, evaluating, todo,
                 failed>>

\* StateMachine::ApplyOutputSignalLevel: every output writes the level it
\* remembers unless the line has it.
ApplyOutputSignalLevel == pin' = newLevel

\* The loop ends because nothing changed or the timeout is used up.  The latter
\* is logged and another EvaluateState is queued; either way the outputs are
\* applied.
Finish ==
  /\ EndOfPass
  /\ Collecting = <<>> \/ timeout = 1
  /\ evaluating' = FALSE
  /\ posted' = IF timeout = 1 THEN posted + 1 ELSE posted
  /\ failed' = (failed \/ timeout = 1)
  /\ ApplyOutputSignalLevel
  /\ UNCHANGED <<logicVars, newLevel, starting, next, todo>>

Evaluation == NextSignal \/ UpdateLogic \/ UpdateOutput \/ NextPass \/ Finish

Next ==
  \/ \E u \in Unit : FirstUpdate(u) \/ DelayedChange(u)
  \/ \E i \in Debounced : InputSettled(i) \/ TimePasses(i)
  \/ \E s \in Input : SetInput(s)
  \/ EvaluateState
  \/ Evaluation

\* A queued handler or an expired timer is run eventually: the io_context serves
\* its queue in order, so others cannot overtake it forever.  A running handler
\* continues, and time passes.  Nothing obliges an input to change.
Fairness ==
  /\ SF_vars(\E u \in Unit : FirstUpdate(u))
  /\ \A u \in Delayed : SF_vars(DelayedChange(u))
  /\ \A i \in Debounced : SF_vars(InputSettled(i)) /\ WF_vars(TimePasses(i))
  /\ WF_vars(EvaluateState)
  /\ WF_vars(Evaluation)

Spec == Init /\ [][Next]_vars
FairSpec == Spec /\ Fairness

-----------------------------------------------------------------------------
\* r is due for an update: its signal is recorded as changed, waits in the list
\* EvaluateState walks, or r itself is among the receivers being updated.
Due(r) ==
  \/ Listens(r) \in Range(Collecting)
  \/ evaluating /\ \E k \in next..Len(HandedOut) : HandedOut[k] = Listens(r)
  \/ r \in Range(todo)

Quiescent ==
  /\ ~evaluating
  /\ Collecting = <<>>
  /\ starting = {}
  /\ timer = {}
  /\ \A u \in Unit : outQueue[u] = <<>>

\* Every unit drives what its gates say, every output has its signal's level.
Consistent ==
  /\ \A u \in Unit : active[OutOf[u]] = Result(u, Actual)
  /\ \A o \in Output : pin[o] = active[OutputSignal[o]]

(***************************************************************************)
(* Safety                                                                  *)
(***************************************************************************)

\* No lost wakeup: a recorded change always has a queued EvaluateState, though
\* SetDirty raises the event only for a signal that is not recorded yet.
NoLostWakeup == ~evaluating /\ Collecting # <<>> => posted > 0

\* The vector EvaluateState iterates is not touched by the updates it makes:
\* they may only append to the other one.
IterationStable ==
  [][evaluating /\ evaluating' /\ timeout' = timeout
       => HandedOut' = HandedOut]_vars

\* A unit, or an output, that is behind is about to be updated.
UnitServed(u) ==
  u \in starting \/ UnitCurrent(u) \/ \E i \in InputsOf(u) : Due(i)
OutputServed(o) == newLevel[o] = active[OutputSignal[o]] \/ Due(o)

\* No update is missed, unless an evaluation gave up.
NoMissedUpdate ==
  ~failed => /\ \A u \in Unit : UnitServed(u)
             /\ \A o \in Output : OutputServed(o)

\* Between evaluations no receiver is left halfway, and the outputs have the
\* levels applied last, except before the first evaluation, when every signal
\* still waits to be evaluated: an uninitialised newLevel is never written.
BetweenEvaluations ==
  ~evaluating => /\ todo = <<>>
                 /\ pin = newLevel \/ Range(Collecting) = Signal

\* With nothing left to do the network is at its fixpoint and the pins show it,
\* whatever the order of updates, of handlers and of input changes was.
QuiescentConsistent == Quiescent /\ ~failed => Consistent

\* Pins only change together, when the logic is stable: no unit and no output
\* is behind when a level is written (doc/StateMachine.md, "no glitches").
NoGlitch ==
  [][pin' # pin /\ ~failed' =>
       /\ pin' = [o \in Output |-> active'[OutputSignal[o]]]
       /\ \A u \in Unit \ starting' : UnitCurrent(u)']_vars

(***************************************************************************)
(* What the program says of an evaluation that does not become stable      *)
(***************************************************************************)

\* "Failed to evaluate stable state, trying again..." (src/StateMachine.cpp:137):
\* a unit that is behind has a change recorded for the evaluation to come.
TriesAgain ==
  ~evaluating /\ (\E u \in Unit \ starting : ~UnitCurrent(u))
    => Collecting # <<>>

(***************************************************************************)
(* Liveness                                                                *)
(***************************************************************************)

\* Once the inputs stop changing the machine comes to rest in a consistent
\* state and stays there.
InputsStop == <>[][UNCHANGED [s \in Input |-> active[s]]]_vars
ComesToRest == InputsStop => <>[](Quiescent /\ Consistent)

(***************************************************************************)
(* The abstract specification: see ChangeSet.                              *)
(***************************************************************************)
Changes == INSTANCE ChangeSet WITH
             level <- active,
             changed <- Range(Collecting),
             taken <- Range(HandedOut)
ImplementsChangeSet == Changes!Spec
=============================================================================
