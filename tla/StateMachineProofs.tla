------------------------- MODULE StateMachineProofs -------------------------
(***************************************************************************)
(* Proofs about StateMachine for every network: any signals, units, inputs *)
(* and outputs, any configuration of the gates, any queue capacity and any *)
(* timeout.                                                                *)
(***************************************************************************)
EXTENDS StateMachine, LogicProofs

\* Two names for single assignments.
USE DEF UpdateReceivers, ApplyOutputSignalLevel

-----------------------------------------------------------------------------
(***************************************************************************)
(* Type correctness                                                        *)
(***************************************************************************)

\* The constructors leave every variable in its type.
LEMMA TypeInit == Init => TypeOK
<1> SUFFICES ASSUME Init PROVE TypeOK
  OBVIOUS
<1>1. SignalTypeOK
  <2>1. /\ dirtyA \in Seq(Signal)
        /\ dirtyB \in Seq(Signal)
    BY CreatedAssumption DEF Init, SignalInit
  <2> QED BY <2>1 DEF Init, SignalInit, SignalTypeOK
<1>2. LogicTypeOK
  BY DEF Init, LogicInit, LogicTypeOK
<1>3. todo \in Seq(Receiver)
  BY DEF Init
<1>4. timeout \in 0..Timeout /\ timeout > 0
  BY NetworkAssumption DEF Init
<1>5. /\ newLevel \in [Output -> BOOLEAN]
      /\ pin \in [Output -> BOOLEAN]
      /\ starting \in SUBSET Unit
      /\ evaluating = FALSE /\ failed = FALSE
      /\ next \in Nat \ {0}
  BY DEF Init
<1> QED BY <1>1, <1>2, <1>3, <1>4, <1>5 DEF TypeOK

\* Every handler keeps every variable in its type.
LEMMA TypeNext == TypeOK /\ [Next]_vars => TypeOK'
<1> SUFFICES ASSUME TypeOK, [Next]_vars PROVE TypeOK'
  OBVIOUS
<1>1. ASSUME NEW u \in Unit, FirstUpdate(u) PROVE TypeOK'
  <2>1. SignalTypeOK' /\ LogicTypeOK'
    BY <1>1, UpdateType DEF FirstUpdate, TypeOK, LogicTypeOK
  <2> QED BY <1>1, <2>1 DEF FirstUpdate, TypeOK, outputVars, evalVars
<1>2. ASSUME NEW u \in Unit, DelayedChange(u) PROVE TypeOK'
  <2>1. /\ Head(outQueue[u]) \in BOOLEAN
        /\ Tail(outQueue[u]) \in Seq(BOOLEAN)
        /\ OutOf[u] \in Signal
    BY <1>2, HeadTailProperties, LogicAssumption
       DEF DelayedChange, TimerHandler, TypeOK, LogicTypeOK
  <2>2. SignalTypeOK' /\ settled' \in SUBSET Debounced
    BY <1>2, <2>1, DriveType
       DEF DelayedChange, TimerHandler, TypeOK, LogicTypeOK
  <2>3. LogicTypeOK'
    BY <1>2, <2>1, <2>2
       DEF DelayedChange, TimerHandler, TypeOK, LogicTypeOK
  <2> QED BY <1>2, <2>2, <2>3
          DEF DelayedChange, TypeOK, outputVars, evalVars
<1>3. ASSUME NEW i \in Debounced, InputSettled(i) PROVE TypeOK'
  <2>1. Parent[i] \in Unit /\ timer \ {i} \in SUBSET Debounced
    BY LogicAssumption DEF TypeOK, LogicTypeOK
  <2>2. SignalTypeOK' /\ LogicTypeOK'
    BY <1>3, <2>1, UpdateType DEF InputSettled, InputTimer, TypeOK
  <2> QED BY <1>3, <2>2 DEF InputSettled, TypeOK, outputVars, evalVars
<1>4. ASSUME NEW i \in Debounced, TimePasses(i) PROVE TypeOK'
  BY <1>4 DEF TimePasses, Settle, TypeOK, SignalTypeOK, LogicTypeOK,
              signalVars, outputVars, evalVars
<1>5. ASSUME NEW s \in Input, SetInput(s) PROVE TypeOK'
  <2>1. s \in Signal /\ (~active[s]) \in BOOLEAN
    BY NetworkAssumption DEF TypeOK, SignalTypeOK
  <2>2. SignalTypeOK' /\ settled' \in SUBSET Debounced
    BY <1>5, <2>1, DriveType DEF SetInput, TypeOK, LogicTypeOK
  <2> QED BY <1>5, <2>2
          DEF SetInput, TypeOK, LogicTypeOK, outputVars, evalVars
<1>6. CASE EvaluateState
  <2>1. SignalTypeOK'
    BY <1>6, TakeType DEF EvaluateState, TypeOK, SignalTypeOK
  <2>2. todo' \in Seq(Receiver)
    BY <1>6 DEF EvaluateState
  <2>3. timeout' \in 0..Timeout /\ timeout' > 0
    BY <1>6, NetworkAssumption DEF EvaluateState
  <2> QED BY <1>6, <2>1, <2>2, <2>3
          DEF EvaluateState, TypeOK, LogicTypeOK, logicVars, outputVars
<1>7. CASE NextSignal
  <2>1. todo' \in Seq(Receiver)
    <3>1. HandedOut \in Seq(Signal)
      BY DEF HandedOut, TypeOK, SignalTypeOK
    <3>2. HandedOut[next] \in Signal
      BY <1>7, <3>1, ElementOfSeq DEF NextSignal, TypeOK
    <3> QED BY <1>7, <3>2, ReceiversAssumption DEF NextSignal
  <2>2. next' \in Nat \ {0}
    BY <1>7 DEF NextSignal, TypeOK
  <2> QED BY <1>7, <2>1, <2>2
          DEF NextSignal, TypeOK, SignalTypeOK, LogicTypeOK, signalVars,
              logicVars, outputVars
<1>8. CASE UpdateLogic
  <2>1. Parent[Head(todo)] \in Unit /\ timer \in SUBSET Debounced
    BY <1>8, LogicAssumption DEF UpdateLogic, TypeOK, LogicTypeOK
  <2>2. SignalTypeOK' /\ LogicTypeOK'
    BY <1>8, <2>1, UpdateType DEF UpdateLogic, TypeOK
  <2>3. todo' \in Seq(Receiver)
    BY <1>8, HeadTailProperties DEF UpdateLogic, TypeOK
  <2> QED BY <1>8, <2>2, <2>3 DEF UpdateLogic, TypeOK, outputVars
<1>9. CASE UpdateOutput
  <2>1. active[OutputSignal[Head(todo)]] \in BOOLEAN
    BY <1>9, NetworkAssumption DEF UpdateOutput, TypeOK, SignalTypeOK
  <2>2. todo' \in Seq(Receiver)
    BY <1>9, HeadTailProperties DEF UpdateOutput, TypeOK
  <2> QED BY <1>9, <2>1, <2>2
          DEF UpdateOutput, TypeOK, SignalTypeOK, LogicTypeOK, signalVars,
              logicVars
<1>10. ASSUME EndOfPass, posted' \in Nat
       PROVE  SignalTypeOK' /\ timeout' \in Int
  BY <1>10, TakeType DEF EndOfPass, TypeOK
<1>11. CASE NextPass
  <2>1. SignalTypeOK'
    BY <1>11, <1>10 DEF NextPass, TypeOK, SignalTypeOK
  <2>2. timeout' \in 0..Timeout /\ timeout' > 0 /\ next' \in Nat \ {0}
    BY <1>11, NetworkAssumption DEF NextPass, EndOfPass, TypeOK
  <2> QED BY <1>11, <2>1, <2>2
          DEF NextPass, TypeOK, LogicTypeOK, logicVars, outputVars
<1>12. CASE Finish
  <2>1. posted' \in Nat /\ failed' \in BOOLEAN
    BY <1>12 DEF Finish, TypeOK, SignalTypeOK
  <2>2. SignalTypeOK'
    BY <1>12, <1>10, <2>1 DEF Finish
  <2>3. timeout' \in 0..Timeout
    BY <1>12, NetworkAssumption DEF Finish, EndOfPass, TypeOK
  <2> QED BY <1>12, <2>1, <2>2, <2>3
          DEF Finish, TypeOK, LogicTypeOK, logicVars
<1>13. CASE UNCHANGED vars
  BY <1>13 DEF vars, signalVars, logicVars, outputVars, evalVars, TypeOK,
               SignalTypeOK, LogicTypeOK
<1> QED BY <1>1, <1>2, <1>3, <1>4, <1>5, <1>6, <1>7, <1>8, <1>9, <1>11,
           <1>12, <1>13 DEF Next, Evaluation

\* Every variable keeps its type.
THEOREM TypeCorrect == Spec => []TypeOK
BY TypeInit, TypeNext, PTL DEF Spec

-----------------------------------------------------------------------------
(***************************************************************************)
(* What a step does to the signals                                         *)
(***************************************************************************)

TakesChanges == EvaluateState \/ NextPass \/ Finish

\* A step that does not take the list of changed signals sets at most one
\* signal, and neither begins nor ends an evaluation.
LEMMA StepSetsOneSignal ==
  ASSUME TypeOK, [Next]_vars, ~TakesChanges
  PROVE  /\ \/ UNCHANGED signalVars
            \/ \E s \in Signal, l \in BOOLEAN : SetLevel(s, l)
         /\ UNCHANGED <<evaluating, timeout, pin, failed>>
<1> DEFINE Sets == \/ UNCHANGED signalVars
                   \/ \E s \in Signal, l \in BOOLEAN : SetLevel(s, l)
           Goal == Sets /\ UNCHANGED <<evaluating, timeout, pin, failed>>
<1>1. ASSUME NEW u \in Unit, NEW pending, Update(u, pending)
      PROVE  Sets
  BY <1>1, UpdateSetsOneSignal, LogicAssumption DEF TypeOK
<1>2. ASSUME NEW u \in Unit, FirstUpdate(u) PROVE Goal
  BY <1>1, <1>2 DEF FirstUpdate, outputVars, evalVars
<1>3. ASSUME NEW u \in Unit, DelayedChange(u) PROVE Goal
  <2>1. Head(outQueue[u]) \in BOOLEAN /\ OutOf[u] \in Signal
    BY <1>3, HeadTailProperties, LogicAssumption
       DEF DelayedChange, TimerHandler, TypeOK, LogicTypeOK
  <2> QED BY <1>3, <2>1
          DEF DelayedChange, TimerHandler, Drive, outputVars, evalVars
<1>4. ASSUME NEW i \in Debounced, InputSettled(i) PROVE Goal
  BY <1>1, <1>4, LogicAssumption
     DEF InputSettled, InputTimer, outputVars, evalVars
<1>5. ASSUME NEW i \in Debounced, TimePasses(i) PROVE Goal
  BY <1>5 DEF TimePasses, Settle, outputVars, evalVars
<1>6. ASSUME NEW s \in Input, SetInput(s) PROVE Goal
  <2>1. s \in Signal /\ (~active[s]) \in BOOLEAN
    BY NetworkAssumption
  <2> QED BY <1>6, <2>1 DEF SetInput, Drive, outputVars, evalVars
<1>7. CASE NextSignal
  BY <1>7 DEF NextSignal, outputVars
<1>8. CASE UpdateLogic
  BY <1>1, <1>8, LogicAssumption DEF UpdateLogic, outputVars
<1>9. CASE UpdateOutput
  BY <1>9 DEF UpdateOutput
<1>10. CASE UNCHANGED vars
  BY <1>10 DEF vars, outputVars, evalVars
<1> QED BY <1>2, <1>3, <1>4, <1>5, <1>6, <1>7, <1>8, <1>9, <1>10
        DEF Next, Evaluation, TakesChanges

\* Such a step keeps the list being iterated, forgets no recorded change and
\* records every signal that changes its level.
LEMMA StepRecords ==
  ASSUME TypeOK, [Next]_vars, ~TakesChanges
  PROVE  /\ HandedOut' = HandedOut
         /\ Range(Collecting) \subseteq Range(Collecting')
         /\ \A s \in Signal :
              active'[s] = active[s] \/ s \in Range(Collecting')
         /\ DirtyTracked => DirtyTracked'
         /\ (Collecting # <<>> => posted > 0)
              => (Collecting' # <<>> => posted' > 0)
<1>1. CASE UNCHANGED signalVars
  BY <1>1 DEF signalVars, HandedOut, Collecting, DirtyTracked
<1>2. ASSUME NEW s \in Signal, NEW l \in BOOLEAN, SetLevel(s, l)
      PROVE  /\ HandedOut' = HandedOut
             /\ Range(Collecting) \subseteq Range(Collecting')
             /\ \A r \in Signal :
                  active'[r] = active[r] \/ r \in Range(Collecting')
             /\ DirtyTracked => DirtyTracked'
             /\ (Collecting # <<>> => posted > 0)
                  => (Collecting' # <<>> => posted' > 0)
  BY <1>2, SetLevelEffect DEF TypeOK, SignalTypeOK
<1> QED BY <1>1, <1>2, StepSetsOneSignal

\* A step that takes the list of changed signals leaves nothing recorded and
\* hands out the list that was collected.
LEMMA StepTakes ==
  ASSUME TypeOK, TakesChanges
  PROVE  /\ GetDirtySignalsAndClearList
         /\ HandedOut' = Collecting
         /\ Collecting' = <<>>
         /\ DirtyTracked => DirtyTracked'
<1>1. GetDirtySignalsAndClearList
  BY DEF TakesChanges, EvaluateState, NextPass, Finish, EndOfPass
<1> QED BY <1>1, TakeEffect DEF TypeOK

-----------------------------------------------------------------------------
(***************************************************************************)
(* The parts of the invariant                                              *)
(***************************************************************************)

\* At the start every signal is dirty and in the list of all created signals.
LEMMA DirtyTrackedInit == Init => DirtyTracked
<1> SUFFICES ASSUME Init PROVE DirtyTracked
  OBVIOUS
<1>1. Collecting = Created
  BY DEF Init, SignalInit, Collecting
<1> QED BY <1>1, CreatedAssumption DEF DirtyTracked, Init, SignalInit

\* SetDirty records what Signal::SetLevel marks, and taking the list clears both.
LEMMA DirtyTrackedNext ==
  TypeOK /\ DirtyTracked /\ [Next]_vars => DirtyTracked'
BY StepRecords, StepTakes

\* An evaluation only ends with an empty list, and a change recorded between
\* evaluations queues one.
LEMMA NoLostWakeupNext ==
  TypeOK /\ NoLostWakeup /\ [Next]_vars => NoLostWakeup'
BY StepRecords, StepTakes, StepSetsOneSignal DEF NoLostWakeup

\* What Logic::Update computes goes to the signal or to the end of the queue, and
\* TimerHandler moves it from the one to the other.
LEMMA LastValueDeliveredNext ==
  TypeOK /\ LastValueDelivered /\ [Next]_vars => LastValueDelivered'
<1> SUFFICES ASSUME TypeOK, LastValueDelivered, [Next]_vars
             PROVE  LastValueDelivered'
  OBVIOUS
<1>1. ASSUME NEW u \in Unit, NEW pending \in SUBSET timer, Update(u, pending)
      PROVE  LastValueDelivered'
  BY <1>1, UpdateDelivers DEF TypeOK
<1>2. ASSUME UNCHANGED <<active, outQueue, lastValue, lastValueValid>>
      PROVE  LastValueDelivered'
  BY <1>2 DEF LastValueDelivered
<1>3. ASSUME NEW u \in Unit, FirstUpdate(u) PROVE LastValueDelivered'
  BY <1>1, <1>3 DEF FirstUpdate
<1>4. ASSUME NEW u \in Unit, DelayedChange(u) PROVE LastValueDelivered'
  BY <1>4, TimerHandlerDelivers DEF DelayedChange, TypeOK
<1>5. ASSUME NEW i \in Debounced, InputSettled(i) PROVE LastValueDelivered'
  BY <1>1, <1>5, LogicAssumption DEF InputSettled, InputTimer
<1>6. ASSUME NEW i \in Debounced, TimePasses(i) PROVE LastValueDelivered'
  BY <1>2, <1>6 DEF TimePasses, Settle, signalVars
<1>7. ASSUME NEW s \in Input, SetInput(s) PROVE LastValueDelivered'
  <2>1. s \in Signal /\ (~active[s]) \in BOOLEAN
    BY NetworkAssumption
  <2>2. active' = [active EXCEPT ![s] = ~active[s]]
    BY <1>7, <2>1, SetLevelEffect DEF SetInput, Drive, TypeOK
  <2>3. \A u \in Unit : active'[OutOf[u]] = active[OutOf[u]]
    BY <2>2, NetworkAssumption, LogicAssumption DEF TypeOK, SignalTypeOK
  <2> QED BY <1>7, <2>3 DEF SetInput, LastValueDelivered
<1>8. CASE UpdateLogic
  BY <1>1, <1>8, LogicAssumption DEF UpdateLogic
<1>9. CASE TakesChanges
  <2>1. UNCHANGED active
    BY <1>9, StepTakes DEF GetDirtySignalsAndClearList
  <2> QED BY <1>2, <1>9, <2>1
          DEF TakesChanges, EvaluateState, NextPass, Finish, logicVars
<1>10. CASE NextSignal \/ UpdateOutput \/ UNCHANGED vars
  BY <1>2, <1>10 DEF NextSignal, UpdateOutput, vars, signalVars, logicVars
<1> QED BY <1>3, <1>4, <1>5, <1>6, <1>7, <1>8, <1>9, <1>10
        DEF Next, Evaluation, TakesChanges

\* EvaluateState returns only after the last receiver and after Apply.
LEMMA BetweenEvaluationsNext ==
  TypeOK /\ BetweenEvaluations /\ [Next]_vars => BetweenEvaluations'
<1> SUFFICES ASSUME TypeOK, BetweenEvaluations, [Next]_vars, ~evaluating'
             PROVE  todo' = <<>> /\ (pin' = newLevel' \/ Range(Collecting') = Signal)
  BY DEF BetweenEvaluations
<1>1. CASE Finish
  BY <1>1 DEF Finish, EndOfPass
<1>2. CASE EvaluateState
  <2>1. Collecting = <<>> /\ todo' = <<>> /\ UNCHANGED outputVars
    BY <1>2 DEF EvaluateState
  <2>2. Range(<<>>) = {}
    BY DEF Range
  <2>3. pin = newLevel
    <3>1. CASE Signal = {}
      <4>1. Output = {}
        BY <3>1, NetworkAssumption
      <4>2. /\ pin \in [Output -> BOOLEAN]
            /\ newLevel \in [Output -> BOOLEAN]
            /\ \A o \in Output : pin[o] = newLevel[o]
        BY <4>1 DEF TypeOK
      <4> QED BY <4>2
    <3>2. CASE Signal # {}
      BY <1>2, <2>1, <2>2, <3>2 DEF EvaluateState, BetweenEvaluations
    <3> QED BY <3>1, <3>2
  <2> QED BY <2>1, <2>3 DEF outputVars
<1>3. CASE NextPass
  BY <1>3 DEF NextPass, EndOfPass
<1>4. CASE ~TakesChanges
  <2>1. ~evaluating /\ todo = <<>>
    BY <1>4, StepSetsOneSignal DEF BetweenEvaluations
  <2>2. UNCHANGED <<todo, pin, newLevel>>
    BY <1>4, <2>1 DEF Next, Evaluation, TakesChanges, FirstUpdate,
       DelayedChange, InputSettled, TimePasses, SetInput, NextSignal,
       UpdateLogic, UpdateOutput, outputVars, evalVars, vars
  <2>3. Range(Collecting) = Signal => Range(Collecting') = Signal
    <3>1. Collecting' \in Seq(Signal)
      BY TypeNext DEF TypeOK, SignalTypeOK, Collecting
    <3>2. Range(Collecting') \subseteq Signal
      BY <3>1, RangeOfSeq
    <3>3. Range(Collecting) \subseteq Range(Collecting')
      BY <1>4, StepRecords
    <3> QED BY <3>2, <3>3
  <2> QED BY <2>1, <2>2, <2>3 DEF BetweenEvaluations
<1> QED BY <1>1, <1>2, <1>3, <1>4 DEF TakesChanges

-----------------------------------------------------------------------------
(***************************************************************************)
(* No update is missed                                                     *)
(***************************************************************************)

\* An input of a unit is a receiver of its signal and belongs to that unit.
LEMMA InputsListen ==
  ASSUME NEW u \in Unit, NEW i \in InputsOf(u)
  PROVE  /\ i \in LogicInput /\ i \in Receiver /\ i \notin Output
         /\ Listens(i) = InputSignal[i] /\ Listens(i) \in Signal
         /\ Parent[i] = u
BY LogicAssumption, NetworkAssumption, OwnInputsAssumption, RangeOfSeq
   DEF InputsOf, Receiver, Listens

\* A receiver that is due stays due until it is its turn to be updated.
LEMMA DueKept ==
  ASSUME TypeOK, [Next]_vars, ~TakesChanges, NEW r \in Receiver, Due(r)
  PROVE  Due(r)' \/ (todo # <<>> /\ r = Head(todo)
                       /\ (UpdateLogic \/ UpdateOutput))
<1>1. /\ HandedOut' = HandedOut
      /\ Range(Collecting) \subseteq Range(Collecting')
      /\ evaluating' = evaluating
  BY StepRecords, StepSetsOneSignal
<1>2. CASE Listens(r) \in Range(Collecting)
  BY <1>1, <1>2 DEF Due
<1>3. CASE UNCHANGED <<next, todo>>
  BY <1>1, <1>3 DEF Due
<1>4. CASE NextSignal /\ Listens(r) \notin Range(Collecting)
  <2>1. todo = <<>> /\ Range(todo) = {}
    BY <1>4 DEF NextSignal, Range
  <2>2. PICK k \in next..Len(HandedOut) : HandedOut[k] = Listens(r)
    BY <1>4, <2>1 DEF Due
  <2>3. next \in Nat /\ next' = next + 1 /\ evaluating
    BY <1>4 DEF NextSignal, TypeOK
  <2>4. CASE k = next
    <3>1. HandedOut[next] \in Signal
      BY <1>4, ElementOfSeq
         DEF NextSignal, HandedOut, TypeOK, SignalTypeOK
    <3>2. r \in Range(todo')
      BY <1>4, <2>2, <2>4, <3>1, ReceiversAssumption DEF NextSignal
    <3> QED BY <3>2 DEF Due
  <2>5. CASE k # next
    <3>1. k \in next'..Len(HandedOut')
      BY <1>1, <2>3, <2>5
    <3> QED BY <1>1, <2>2, <2>3, <3>1 DEF Due
  <2> QED BY <2>4, <2>5
<1>5. CASE UpdateLogic \/ UpdateOutput
  <2>1. todo # <<>> /\ todo' = Tail(todo) /\ next' = next /\ todo \in Seq(Receiver)
    BY <1>5 DEF UpdateLogic, UpdateOutput, TypeOK
  <2>2. ASSUME r \in Range(todo), r # Head(todo) PROVE r \in Range(todo')
    <3>1. PICK k \in 1..Len(todo) : todo[k] = r
      BY <2>1, <2>2, RangeEquality
    <3>2. k # 1 /\ Len(todo) \in Nat
      BY <2>1, <2>2, <3>1
    <3>3. /\ Tail(todo) \in Seq(Receiver)
          /\ Len(Tail(todo)) = Len(todo) - 1
          /\ \A j \in 1..Len(Tail(todo)) : Tail(todo)[j] = todo[j + 1]
      BY <2>1, HeadTailProperties
    <3>4. k - 1 \in 1..Len(Tail(todo)) /\ Tail(todo)[k - 1] = r
      BY <3>1, <3>2, <3>3
    <3> QED BY <2>1, <3>3, <3>4, RangeEquality
  <2> QED BY <1>1, <1>5, <2>1, <2>2 DEF Due
<1> QED BY <1>2, <1>3, <1>4, <1>5
        DEF Next, Evaluation, TakesChanges, FirstUpdate, DelayedChange,
            InputSettled, TimePasses, SetInput, evalVars, vars

\* Taking the list of changed signals keeps every receiver due.
LEMMA DueTaken ==
  ASSUME TypeOK, BetweenEvaluations, EvaluateState \/ NextPass,
         NEW r \in Receiver, Due(r)
  PROVE  Due(r)'
<1>1. Listens(r) \in Range(Collecting)
  <2>1. CASE EvaluateState
    BY <2>1 DEF EvaluateState, BetweenEvaluations, Due, Range
  <2>2. CASE NextPass
    <3>1. todo = <<>> /\ next > Len(HandedOut) /\ next \in Nat
      BY <2>2 DEF NextPass, EndOfPass, TypeOK
    <3>2. next..Len(HandedOut) = {}
      <4>1. HandedOut \in Seq(Signal)
        BY DEF HandedOut, TypeOK, SignalTypeOK
      <4>2. Len(HandedOut) \in Nat
        BY <4>1, LenProperties
      <4> HIDE DEF HandedOut
      <4> QED BY <3>1, <4>2
    <3> QED BY <3>1, <3>2 DEF Due, Range
  <2> QED BY <2>1, <2>2
<1>2. HandedOut' = Collecting /\ next' = 1 /\ Collecting \in Seq(Signal)
  BY StepTakes DEF TakesChanges, EvaluateState, NextPass, Collecting, TypeOK,
                   SignalTypeOK
<1>3. evaluating'
  <2>1. Collecting # <<>>
    BY <1>1 DEF Range
  <2>2. CASE EvaluateState
    BY <2>1, <2>2 DEF EvaluateState
  <2>3. CASE NextPass
    <3>1. evaluating /\ evaluating' = evaluating
      BY <2>3 DEF NextPass, EndOfPass
    <3> QED BY <3>1
  <2> QED BY <2>2, <2>3
<1>4. PICK k \in 1..Len(Collecting) : Collecting[k] = Listens(r)
  BY <1>1, <1>2, RangeEquality
<1> QED BY <1>2, <1>3, <1>4 DEF Due

\* An updated unit, and any current one, is current after an update or has an
\* input whose signal was recorded as changed.
LEMMA UpdateServes ==
  ASSUME TypeOK, NEW u \in Unit, NEW pending \in SUBSET timer,
         Update(u, pending), \A i \in timer \ pending : Parent[i] = u,
         NEW w \in Unit, w = u \/ UnitCurrent(w)
  PROVE  UnitCurrent(w)' \/ \E i \in InputsOf(w) : Due(i)'
<1>1. CASE \A i \in InputsOf(w) : InputSignal[i] \notin Range(Collecting')
  BY <1>1, UpdateMakesCurrent, UpdateKeepsCurrent DEF TypeOK
<1>2. ASSUME NEW i \in InputsOf(w), InputSignal[i] \in Range(Collecting')
      PROVE  Due(i)'
  BY <1>2, InputsListen DEF Due
<1> QED BY <1>1, <1>2

\* A unit that is served stays so in a step that does not take the list: an
\* update makes it current, and a change of its inputs makes it due.
LEMMA UnitServedKept ==
  ASSUME TypeOK, [Next]_vars, ~TakesChanges, NEW u \in Unit, UnitServed(u)
  PROVE  UnitServed(u)'
<1> DEFINE Goal == u \in starting' \/ UnitCurrent(u)'
                     \/ \E i \in InputsOf(u) : Due(i)'
<1> SUFFICES Goal
  BY DEF UnitServed
<1>1. ASSUME NEW w \in Unit, NEW pending \in SUBSET timer, Update(w, pending),
             \A i \in timer \ pending : Parent[i] = w,
             w = u \/ UnitCurrent(u)
      PROVE  Goal
  BY <1>1, UpdateServes
<1>2. ASSUME NEW s \in Signal, NEW l \in BOOLEAN, SetLevel(s, l),
             UNCHANGED <<lastValue, lastValueValid, level, timer>>,
             UnitCurrent(u)
      PROVE  Goal
  <2>1. CASE \A i \in InputsOf(u) : InputSignal[i] \notin Range(Collecting')
    BY <1>2, <2>1, SetLevelKeepsCurrent DEF TypeOK
  <2>2. ASSUME NEW i \in InputsOf(u), InputSignal[i] \in Range(Collecting')
        PROVE  Due(i)'
    BY <2>2, InputsListen DEF Due
  <2> QED BY <2>1, <2>2
<1>3. CASE UnitCurrent(u)
  <2>1. ASSUME NEW w \in Unit, FirstUpdate(w) PROVE Goal
    BY <1>1, <1>3, <2>1 DEF FirstUpdate
  <2>2. ASSUME NEW w \in Unit, DelayedChange(w) PROVE Goal
    <3>1. Head(outQueue[w]) \in BOOLEAN /\ OutOf[w] \in Signal
      BY <2>2, HeadTailProperties, LogicAssumption
         DEF DelayedChange, TimerHandler, TypeOK, LogicTypeOK
    <3> QED BY <1>2, <1>3, <2>2, <3>1 DEF DelayedChange, TimerHandler, Drive
  <2>3. ASSUME NEW i \in Debounced, InputSettled(i) PROVE Goal
    <3>1. /\ Parent[i] \in Unit /\ timer \ {i} \in SUBSET timer
          /\ Update(Parent[i], timer \ {i})
          /\ \A j \in timer \ (timer \ {i}) : Parent[j] = Parent[i]
      BY <2>3, LogicAssumption DEF InputSettled, InputTimer
    <3> QED BY <1>1, <1>3, <3>1
  <2>4. ASSUME NEW s \in Input, SetInput(s) PROVE Goal
    <3>1. s \in Signal /\ (~active[s]) \in BOOLEAN
      BY NetworkAssumption
    <3> QED BY <1>2, <1>3, <2>4, <3>1 DEF SetInput, Drive
  <2>5. CASE UpdateLogic
    <3>1. Parent[Head(todo)] \in Unit /\ Update(Parent[Head(todo)], timer)
      BY <2>5, LogicAssumption DEF UpdateLogic
    <3> QED BY <1>1, <1>3, <3>1
  <2>6. ASSUME UNCHANGED <<active, lastValue, lastValueValid, level, timer>>
        PROVE  Goal
    BY <1>3, <2>6 DEF UnitCurrent, Seen, InputLevel
  <2>7. ASSUME NEW i \in Debounced, TimePasses(i) PROVE Goal
    BY <2>6, <2>7 DEF TimePasses, Settle, signalVars
  <2>8. CASE NextSignal \/ UpdateOutput \/ UNCHANGED vars
    BY <2>6, <2>8 DEF NextSignal, UpdateOutput, vars, signalVars, logicVars
  <2> QED BY <2>1, <2>2, <2>3, <2>4, <2>5, <2>7, <2>8
          DEF Next, Evaluation, TakesChanges
<1>4. CASE u \in starting
  <2>1. CASE FirstUpdate(u)
    BY <1>1, <2>1 DEF FirstUpdate
  <2>2. CASE ~FirstUpdate(u)
    <3>1. u \in starting'
      BY <1>4, <2>2 DEF Next, Evaluation, TakesChanges, FirstUpdate,
         DelayedChange, InputSettled, TimePasses, SetInput, NextSignal,
         UpdateLogic, UpdateOutput, vars
    <3> QED BY <3>1
  <2> QED BY <2>1, <2>2
<1>5. ASSUME NEW i \in InputsOf(u), Due(i) PROVE Goal
  <2>1. CASE Due(i)'
    BY <2>1
  <2>2. CASE todo # <<>> /\ i = Head(todo) /\ (UpdateLogic \/ UpdateOutput)
    <3>1. UpdateLogic /\ Parent[Head(todo)] = u
      BY <2>2, InputsListen DEF UpdateOutput
    <3> QED BY <1>1, <3>1 DEF UpdateLogic
  <2> QED BY <1>5, <2>1, <2>2, DueKept, InputsListen
<1> QED BY <1>3, <1>4, <1>5 DEF UnitServed

\* The same for an output: it remembers its level or is due.
LEMMA OutputServedKept ==
  ASSUME TypeOK, [Next]_vars, ~TakesChanges, NEW o \in Output, OutputServed(o)
  PROVE  OutputServed(o)'
<1>1. /\ o \in Receiver /\ Listens(o) = OutputSignal[o]
      /\ o \notin LogicInput /\ OutputSignal[o] \in Signal
  BY NetworkAssumption DEF Receiver, Listens
<1>2. CASE UpdateOutput /\ o = Head(todo)
  BY <1>2 DEF UpdateOutput, OutputServed, TypeOK, signalVars
<1>3. CASE ~(UpdateOutput /\ o = Head(todo))
  <2>1. newLevel'[o] = newLevel[o]
    BY <1>3 DEF Next, Evaluation, TakesChanges, FirstUpdate, DelayedChange,
       InputSettled, TimePasses, SetInput, NextSignal, UpdateLogic,
       UpdateOutput, outputVars, vars, TypeOK
  <2>2. CASE newLevel[o] = active[OutputSignal[o]]
    <3>1. CASE active'[OutputSignal[o]] = active[OutputSignal[o]]
      BY <2>1, <2>2, <3>1 DEF OutputServed
    <3>2. CASE Listens(o) \in Range(Collecting')
      BY <3>2 DEF OutputServed, Due
    <3> QED BY <1>1, <3>1, <3>2, StepRecords
  <2>3. CASE Due(o)
    <3>1. Due(o)'
      BY <1>1, <1>3, <2>3, DueKept DEF UpdateLogic
    <3> QED BY <3>1 DEF OutputServed
  <2> QED BY <2>2, <2>3 DEF OutputServed
<1> QED BY <1>2, <1>3

\* When the loop of EvaluateState ends and nothing was recorded, nobody is due.
LEMMA NobodyDue ==
  ASSUME TypeOK, EndOfPass, Collecting = <<>>, NEW r \in Receiver
  PROVE  ~Due(r)
<1>1. HandedOut \in Seq(Signal)
  BY DEF HandedOut, TypeOK, SignalTypeOK
<1>2. Len(HandedOut) \in Nat
  BY <1>1, LenProperties
<1>3. next..Len(HandedOut) = {}
  <2> HIDE DEF HandedOut
  <2> QED BY <1>2 DEF EndOfPass, TypeOK
<1>4. Range(<<>>) = {}
  BY DEF Range
<1> QED BY <1>3, <1>4 DEF Due, EndOfPass

\* Taking the list loses nobody either: who was due by the collected list is due
\* by the list handed out, and at the end of an evaluation nobody was due.
LEMMA NoMissedUpdateNext ==
  TypeOK /\ BetweenEvaluations /\ NoMissedUpdate /\ [Next]_vars
    => NoMissedUpdate'
<1> SUFFICES ASSUME TypeOK, BetweenEvaluations, NoMissedUpdate, [Next]_vars,
                    ~failed'
             PROVE  /\ \A u \in Unit : UnitServed(u)'
                    /\ \A o \in Output : OutputServed(o)'
  BY DEF NoMissedUpdate
<1>1. ~failed
  BY StepSetsOneSignal DEF TakesChanges, EvaluateState, NextPass, Finish
<1>2. /\ \A u \in Unit : UnitServed(u)
      /\ \A o \in Output : OutputServed(o)
  BY <1>1 DEF NoMissedUpdate
<1>3. CASE ~TakesChanges
  BY <1>2, <1>3, UnitServedKept, OutputServedKept
<1>4. ASSUME TakesChanges
      PROVE  /\ UNCHANGED <<active, lastValue, lastValueValid, level, timer,
                            newLevel, starting>>
             /\ \A u \in Unit : UnitCurrent(u)' <=> UnitCurrent(u)
  <2>1. UNCHANGED <<active, lastValue, lastValueValid, level, timer,
                    newLevel, starting>>
    BY <1>4, StepTakes
       DEF TakesChanges, EvaluateState, NextPass, Finish, EndOfPass,
           GetDirtySignalsAndClearList, logicVars, outputVars
  <2> QED BY <2>1 DEF UnitCurrent, Seen, InputLevel
<1>5. CASE EvaluateState \/ NextPass
  <2>1. \A r \in Receiver : Due(r) => Due(r)'
    BY <1>5, DueTaken
  <2>2. \A o \in Output : o \in Receiver
    BY DEF Receiver
  <2> QED BY <1>2, <1>4, <1>5, <2>1, <2>2, InputsListen
          DEF TakesChanges, UnitServed, OutputServed
<1>6. CASE Finish
  <2>1. EndOfPass /\ Collecting = <<>>
    BY <1>6 DEF Finish
  <2>2. \A r \in Receiver : ~Due(r)
    BY <2>1, NobodyDue
  <2>3. \A o \in Output : o \in Receiver
    BY DEF Receiver
  <2> QED BY <1>2, <1>4, <1>6, <2>2, <2>3, InputsListen
          DEF TakesChanges, UnitServed, OutputServed
<1> QED BY <1>3, <1>5, <1>6 DEF TakesChanges

-----------------------------------------------------------------------------
(***************************************************************************)
(* The inductive invariant and the theorems                                *)
(***************************************************************************)

IInv == /\ TypeOK
        /\ DirtyTracked
        /\ NoLostWakeup
        /\ LastValueDelivered
        /\ BetweenEvaluations
        /\ NoMissedUpdate

\* The inductive invariant holds when the constructors are done.
LEMMA IInvInit == Init => IInv
<1> SUFFICES ASSUME Init PROVE IInv
  OBVIOUS
<1>1. TypeOK /\ DirtyTracked
  BY TypeInit, DirtyTrackedInit
<1>2. Collecting = Created /\ Range(Collecting) = Signal
  BY CreatedAssumption DEF Init, SignalInit, Collecting
<1>3. NoLostWakeup
  BY DEF Init, SignalInit, NoLostWakeup
<1>4. LastValueDelivered
  BY DEF Init, LogicInit, LastValueDelivered
<1>5. BetweenEvaluations
  BY <1>2 DEF Init, BetweenEvaluations
<1>6. NoMissedUpdate
  <2>1. \A u \in Unit : UnitServed(u)
    BY DEF Init, UnitServed
  <2>2. \A o \in Output : OutputServed(o)
    <3>1. \A o \in Output : Listens(o) = OutputSignal[o] /\ Listens(o) \in Signal
      BY NetworkAssumption DEF Listens
    <3> QED BY <1>2, <3>1 DEF OutputServed, Due
  <2> QED BY <2>1, <2>2 DEF NoMissedUpdate
<1> QED BY <1>1, <1>3, <1>4, <1>5, <1>6 DEF IInv

\* Every handler preserves the inductive invariant.
LEMMA IInvNext == IInv /\ [Next]_vars => IInv'
BY TypeNext, DirtyTrackedNext, NoLostWakeupNext, LastValueDeliveredNext,
   BetweenEvaluationsNext, NoMissedUpdateNext DEF IInv

\* The inductive invariant holds in every reachable state.
THEOREM Invariance == Spec => []IInv
BY IInvInit, IInvNext, PTL DEF Spec

\* The dirty bits and the two vectors name the same signals, for every network
\* and in every step of an evaluation.
THEOREM TrackingTheorem == Spec => []DirtyTracked
<1>1. IInv => DirtyTracked
  BY DEF IInv
<1> QED BY <1>1, Invariance, PTL

\* The level computed last is driven or is the last change queued, for every
\* network, delay and capacity of the queue.
THEOREM DeliveryTheorem == Spec => []LastValueDelivered
<1>1. IInv => LastValueDelivered
  BY DEF IInv
<1> QED BY <1>1, Invariance, PTL

\* No evaluation leaves work behind for the handlers between two of them, for
\* every network and timeout.
THEOREM BetweenTheorem == Spec => []BetweenEvaluations
<1>1. IInv => BetweenEvaluations
  BY DEF IInv
<1> QED BY <1>1, Invariance, PTL

\* Every recorded change has an evaluation queued, for every network.
THEOREM WakeupTheorem == Spec => []NoLostWakeup
<1>1. IInv => NoLostWakeup
  BY DEF IInv
<1> QED BY <1>1, Invariance, PTL

\* No unit and no output misses an update, for every network.
THEOREM ServiceTheorem == Spec => []NoMissedUpdate
<1>1. IInv => NoMissedUpdate
  BY DEF IInv
<1> QED BY <1>1, Invariance, PTL

\* A network at rest is at its fixpoint and the pins show it, for every network,
\* every order of handlers and every history of inputs, unless an evaluation
\* gave up.
THEOREM FixpointTheorem == Spec => []QuiescentConsistent
<1>1. ASSUME IInv, Quiescent, ~failed PROVE Consistent
  <2>1. \A r \in Receiver : ~Due(r)
    BY <1>1 DEF IInv, BetweenEvaluations, Quiescent, Due, Range
  <2>2. Seen = Actual
    BY <1>1 DEF Quiescent, Seen, Actual
  <2>3. ASSUME NEW u \in Unit PROVE active[OutOf[u]] = Result(u, Actual)
    <3>1. UnitCurrent(u)
      BY <1>1, <2>1, InputsListen
         DEF IInv, NoMissedUpdate, UnitServed, Quiescent
    <3> QED BY <1>1, <2>2, <3>1
            DEF IInv, LastValueDelivered, Quiescent, UnitCurrent
  <2>4. ASSUME NEW o \in Output PROVE pin[o] = active[OutputSignal[o]]
    <3>1. newLevel[o] = active[OutputSignal[o]]
      BY <1>1, <2>1 DEF IInv, NoMissedUpdate, OutputServed, Receiver
    <3>2. OutputSignal[o] \notin Range(Collecting) /\ OutputSignal[o] \in Signal
      BY <1>1, NetworkAssumption DEF Quiescent, Range
    <3>3. pin = newLevel
      BY <1>1, <3>2 DEF IInv, BetweenEvaluations, Quiescent
    <3> QED BY <3>1, <3>3
  <2> QED BY <2>3, <2>4 DEF Consistent
<1>2. IInv => QuiescentConsistent
  BY <1>1 DEF QuiescentConsistent
<1> QED BY <1>2, Invariance, PTL

\* The list being iterated is never touched, for every network.
THEOREM IterationTheorem == Spec => IterationStable
<1>1. ASSUME IInv, [Next]_vars, evaluating, evaluating', timeout' = timeout
      PROVE  HandedOut' = HandedOut
  <2>1. ~TakesChanges
    BY <1>1 DEF TakesChanges, EvaluateState, NextPass, Finish, EndOfPass, IInv,
                TypeOK
  <2> QED BY <1>1, <2>1, StepRecords DEF IInv
<1>2. IInv /\ [Next]_vars
        => [evaluating /\ evaluating' /\ timeout' = timeout
              => HandedOut' = HandedOut]_vars
  BY <1>1
<1> QED BY <1>2, Invariance, PTL DEF Spec, IterationStable

\* Outputs are written together and only when no unit is behind, for every
\* network, unless an evaluation gave up.
THEOREM GlitchTheorem == Spec => NoGlitch
<1> DEFINE Settled == /\ pin' = [o \in Output |-> active'[OutputSignal[o]]]
                      /\ \A u \in Unit \ starting' : UnitCurrent(u)'
<1>1. ASSUME IInv, [Next]_vars, pin' # pin, ~failed' PROVE Settled
  <2>1. Finish
    <3>1. TakesChanges
      BY <1>1, StepSetsOneSignal DEF IInv
    <3> QED BY <1>1, <3>1
            DEF TakesChanges, EvaluateState, NextPass, outputVars
  <2>2. EndOfPass /\ Collecting = <<>> /\ ~failed /\ pin' = newLevel
        /\ UNCHANGED <<logicVars, starting>>
    BY <1>1, <2>1 DEF Finish
  <2>3. UNCHANGED active
    BY <2>2 DEF EndOfPass, GetDirtySignalsAndClearList
  <2>4. \A r \in Receiver : ~Due(r)
    BY <1>1, <2>2, NobodyDue DEF IInv
  <2>5. \A o \in Output : newLevel[o] = active[OutputSignal[o]]
    BY <1>1, <2>2, <2>4 DEF IInv, NoMissedUpdate, OutputServed, Receiver
  <2>6. \A u \in Unit \ starting : UnitCurrent(u)
    BY <1>1, <2>2, <2>4, InputsListen DEF IInv, NoMissedUpdate, UnitServed
  <2>7. pin' = [o \in Output |-> active'[OutputSignal[o]]]
    <3>1. newLevel = [o \in Output |-> newLevel[o]]
      BY <1>1 DEF IInv, TypeOK
    <3> QED BY <2>2, <2>3, <2>5, <3>1
  <2>8. \A u \in Unit \ starting' : UnitCurrent(u)'
    BY <2>2, <2>3, <2>6 DEF logicVars, UnitCurrent, Seen, InputLevel
  <2> QED BY <2>7, <2>8
<1>2. IInv /\ [Next]_vars => [pin' # pin /\ ~failed' => Settled]_vars
  BY <1>1
<1> QED BY <1>2, Invariance, PTL DEF Spec, NoGlitch

\* The vectors and dirty bits implement the abstract set of changes: nothing
\* that changed is missing from the list taken next, nothing else is in it.
THEOREM Refinement == Spec => ImplementsChangeSet
<1>1. Init => Changes!Init
  <2> SUFFICES ASSUME Init PROVE Changes!Init
    OBVIOUS
  <2>1. Collecting = Created /\ HandedOut = <<>>
    BY DEF Init, SignalInit, Collecting, HandedOut
  <2>2. Range(<<>>) = {}
    BY DEF Range
  <2> QED BY <2>1, <2>2, CreatedAssumption DEF Init, SignalInit, Changes!Init
<1>2. ASSUME IInv, [Next]_vars
      PROVE  [Changes!Next]_<<active, Range(Collecting), Range(HandedOut)>>
  <2>1. CASE TakesChanges
    <3>1. /\ Range(HandedOut') = Range(Collecting)
          /\ Range(Collecting') = {}
          /\ active' = active
      BY <1>2, <2>1, StepTakes
         DEF IInv, Range, GetDirtySignalsAndClearList
    <3>2. Changes!Take
      BY <3>1 DEF Changes!Take
    <3> QED BY <3>2 DEF Changes!Next
  <2>2. CASE UNCHANGED signalVars
    BY <2>2 DEF signalVars, Collecting, HandedOut
  <2>3. ASSUME NEW s \in Signal, NEW l \in BOOLEAN, SetLevel(s, l)
        PROVE  \/ Changes!Change(s)
               \/ UNCHANGED <<active, Range(Collecting), Range(HandedOut)>>
    <3>1. /\ active' = [active EXCEPT ![s] = l]
          /\ HandedOut' = HandedOut
          /\ Range(Collecting') = Range(Collecting) \cup
                                    (IF active[s] = l THEN {} ELSE {s})
          /\ active \in [Signal -> BOOLEAN]
      BY <1>2, <2>3, SetLevelEffect DEF IInv, TypeOK, SignalTypeOK
    <3>2. CASE active[s] = l
      BY <3>1, <3>2
    <3>3. CASE active[s] # l
      <4>1. l = ~active[s]
        BY <3>1, <3>3
      <4> QED BY <3>1, <3>3, <4>1 DEF Changes!Change
    <3> QED BY <3>2, <3>3
  <2>4. CASE ~TakesChanges
    BY <1>2, <2>2, <2>3, <2>4, StepSetsOneSignal DEF IInv, Changes!Next
  <2> QED BY <2>1, <2>4
<1> QED BY <1>1, <1>2, Invariance, PTL
        DEF Spec, ImplementsChangeSet, Changes!Spec
=============================================================================
