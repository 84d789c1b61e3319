---------------------------- MODULE LogicProofs ----------------------------
(***************************************************************************)
(* Lemmas about the operations of signals and logic units, for every       *)
(* configuration.  StateMachineProofs builds on them.                      *)
(***************************************************************************)
EXTENDS Logic, SequenceTheorems, WellFoundedInduction, TLAPS

-----------------------------------------------------------------------------
(***************************************************************************)
(* Types                                                                   *)
(***************************************************************************)

\* SetLevel keeps the types of the signals and of the two vectors.
LEMMA SetLevelType ==
  ASSUME SignalTypeOK, NEW s \in Signal, NEW l \in BOOLEAN, SetLevel(s, l)
  PROVE  SignalTypeOK'
<1>1. CASE active[s] = l
  BY <1>1 DEF SetLevel, signalVars, SignalTypeOK
<1>2. CASE active[s] # l
  <2>1. Append(dirtyA, s) \in Seq(Signal) /\ Append(dirtyB, s) \in Seq(Signal)
    BY DEF SignalTypeOK
  <2>2. /\ dirtyA' \in Seq(Signal)
        /\ dirtyB' \in Seq(Signal)
        /\ posted' \in Nat
    <3>1. CASE s \in Range(Collecting)
      BY <1>2, <3>1 DEF SetLevel, SetDirty, SignalTypeOK
    <3>2. CASE s \notin Range(Collecting)
      <4>1. /\ dirtyA' = IF dirtyAIsActive THEN Append(dirtyA, s) ELSE dirtyA
            /\ dirtyB' = IF dirtyAIsActive THEN dirtyB ELSE Append(dirtyB, s)
            /\ posted' = posted + 1
        BY <1>2, <3>2 DEF SetLevel, SetDirty
      <4> QED BY <2>1, <4>1 DEF SignalTypeOK
    <3> QED BY <3>1, <3>2
  <2>3. /\ active' \in [Signal -> BOOLEAN]
        /\ dirty' \in [Signal -> BOOLEAN]
        /\ dirtyAIsActive' \in BOOLEAN
    BY <1>2 DEF SetLevel, SignalTypeOK
  <2> QED BY <2>2, <2>3 DEF SignalTypeOK
<1> QED BY <1>1, <1>2

\* So does taking the list of changed signals.
LEMMA TakeType ==
  ASSUME SignalTypeOK, GetDirtySignalsAndClearList, posted' \in Nat
  PROVE  SignalTypeOK'
<1>1. <<>> \in Seq(Signal)
  OBVIOUS
<1> QED BY <1>1 DEF GetDirtySignalsAndClearList, ClearDirty, SignalTypeOK

\* The gates compute a level.
LEMMA ResultType ==
  ASSUME NEW u \in Unit, NEW v
  PROVE  Result(u, v) \in BOOLEAN
BY DEF Result

\* The queue of delayed changes ends with the change just pushed, also when
\* the oldest one had to be dropped.
LEMMA PushBackProperties ==
  ASSUME NEW q \in Seq(BOOLEAN), NEW e \in BOOLEAN
  PROVE  /\ PushBack(q, e) \in Seq(BOOLEAN)
         /\ PushBack(q, e) # <<>>
         /\ PushBack(q, e)[Len(PushBack(q, e))] = e
<1>1. CASE Len(q) < QueueCapacity
  BY <1>1, AppendProperties DEF PushBack
<1>2. CASE ~(Len(q) < QueueCapacity)
  <2>1. q # <<>>
    BY <1>2, LogicAssumption
  <2>2. Tail(q) \in Seq(BOOLEAN)
    BY <2>1, HeadTailProperties
  <2>3. PushBack(q, e) = Append(Tail(q), e)
    BY <1>2 DEF PushBack
  <2> QED BY <2>2, <2>3, AppendProperties
<1> QED BY <1>1, <1>2

\* Updating a unit keeps all types.
LEMMA UpdateType ==
  ASSUME SignalTypeOK, LogicTypeOK, NEW u \in Unit,
         NEW pending \in SUBSET Debounced, Update(u, pending)
  PROVE  SignalTypeOK' /\ LogicTypeOK'
<1> DEFINE v == [i \in LogicInput |-> GetLevel(i)]
           result == Result(u, v)
<1>1. result \in BOOLEAN
  BY ResultType
<1>2. v \in [LogicInput -> BOOLEAN]
  BY LogicAssumption
     DEF GetLevel, Samples, InputLevel, SignalTypeOK, LogicTypeOK
<1>3. OutOf[u] \in Signal
  BY LogicAssumption
<1>4. SignalTypeOK' /\ settled' \in SUBSET Debounced
  <2>1. CASE UNCHANGED <<signalVars, settled>>
    BY <2>1 DEF signalVars, SignalTypeOK, LogicTypeOK
  <2>2. CASE Drive(OutOf[u], result)
    BY <2>2, <1>1, <1>3, SetLevelType DEF Drive, LogicTypeOK
  <2> QED BY <2>1, <2>2 DEF Update
<1>5. level' \in [Debounced -> BOOLEAN]
  BY <1>2, LogicAssumption DEF Update, LogicTypeOK
<1>6. timer' \in SUBSET Debounced
  BY DEF Update, Samples
<1>7. /\ outQueue' \in [Unit -> Seq(BOOLEAN)]
      /\ \A w \in Unit \ Delayed : outQueue'[w] = <<>>
  <2>1. PushBack(outQueue[u], result) \in Seq(BOOLEAN)
    BY <1>1, PushBackProperties DEF LogicTypeOK
  <2> QED BY <2>1 DEF Update, LogicTypeOK
<1>8. /\ lastValue' \in [Unit -> BOOLEAN]
      /\ lastValueValid' \in [Unit -> BOOLEAN]
  <2>1. /\ lastValue' = [lastValue EXCEPT ![u] = result]
        /\ lastValueValid' = [lastValueValid EXCEPT ![u] = TRUE]
    BY DEF Update
  <2> QED BY <1>1, <2>1 DEF LogicTypeOK
<1> QED BY <1>4, <1>5, <1>6, <1>7, <1>8 DEF LogicTypeOK

\* Setting a signal keeps the types, and forgets only that inputs are settled.
LEMMA DriveType ==
  ASSUME SignalTypeOK, settled \in SUBSET Debounced,
         NEW s \in Signal, NEW l \in BOOLEAN, Drive(s, l)
  PROVE  SignalTypeOK' /\ settled' \in SUBSET Debounced
BY SetLevelType DEF Drive

-----------------------------------------------------------------------------
(***************************************************************************)
(* Short-circuit evaluation                                                *)
(***************************************************************************)

\* A non-empty set of naturals has a least element.
LEMMA LeastElement ==
  ASSUME NEW T, T \subseteq Nat, T # {}
  PROVE  \E k \in T : \A j \in T : ~(j < k)
<1>1. PICK k \in T : \A j \in T : ~(<<j, k>> \in OpToRel(<, Nat))
  BY NatLessThanWellFounded, WFMin
<1> QED BY <1>1 DEF OpToRel

\* Some element of a sequence of inputs has the level stop.
Meets(q, v, stop) == \E i \in Range(q) : v[i] = stop

\* What a gate has read up to the element that stopped it decides it.
LEMMA ReadDecides ==
  ASSUME NEW S, NEW q \in Seq(S), NEW v, NEW w, NEW stop,
         \A i \in ReadUntil(q, v, stop) : w[i] = v[i]
  PROVE  Meets(q, w, stop) <=> Meets(q, v, stop)
<1>0. DOMAIN q = 1..Len(q) /\ Len(q) \in Nat
  OBVIOUS
<1>1. ASSUME Meets(q, v, stop) PROVE Meets(q, w, stop)
  <2> DEFINE stops == {n \in DOMAIN q : v[q[n]] = stop}
  <2>1. stops # {} /\ stops \subseteq Nat
    BY <1>0, <1>1 DEF Meets, Range
  <2>2. PICK k \in stops : \A j \in stops : ~(j < k)
    <3> HIDE DEF stops
    <3> QED BY <2>1, LeastElement
  <2>3. \A j \in 1..(k - 1) : j \in DOMAIN q /\ j < k
    BY <1>0, <2>2
  <2>4. q[k] \in ReadUntil(q, v, stop)
    BY <2>2, <2>3 DEF ReadUntil
  <2> QED BY <2>2, <2>4 DEF Meets, Range
<1>2. ASSUME ~Meets(q, v, stop), NEW i \in Range(q)
      PROVE  w[i] # stop
  <2>1. PICK k \in DOMAIN q : q[k] = i
    BY DEF Range
  <2>2. \A j \in 1..(k - 1) : j \in DOMAIN q
    BY <1>0
  <2>3. q[k] \in ReadUntil(q, v, stop)
    BY <1>2, <2>2 DEF ReadUntil, Range, Meets
  <2> QED BY <1>2, <2>1, <2>3 DEF Meets
<1> QED BY <1>1, <1>2 DEF Meets

\* The inputs a unit reads determine its result: an input the short-circuit
\* skips cannot change it.
LEMMA ReadsDetermineResult ==
  ASSUME NEW u \in Unit, NEW v \in [LogicInput -> BOOLEAN],
         NEW w \in [LogicInput -> BOOLEAN],
         \A i \in Reads(u, v) : w[i] = v[i]
  PROVE  Result(u, w) = Result(u, v)
<1>1. AndInputs[u] \in Seq(LogicInput) /\ OrInputs[u] \in Seq(LogicInput)
  BY LogicAssumption
<1>2. /\ Range(AndInputs[u]) \subseteq LogicInput
      /\ Range(OrInputs[u]) \subseteq LogicInput
  BY <1>1, RangeOfSeq
<1>3. AndGate(u, w) <=> AndGate(u, v)
  <2>1. \A i \in ReadUntil(AndInputs[u], v, FALSE) : w[i] = v[i]
    BY DEF Reads
  <2>2. Meets(AndInputs[u], w, FALSE) <=> Meets(AndInputs[u], v, FALSE)
    BY <1>1, <2>1, ReadDecides
  <2> QED BY <1>2, <2>2 DEF Meets, AndGate
<1>4. OrGate(u, w) <=> OrGate(u, v)
  <2>1. \A i \in ReadUntil(OrInputs[u], v, TRUE) : w[i] = v[i]
    BY DEF Reads
  <2>2. Meets(OrInputs[u], w, TRUE) <=> Meets(OrInputs[u], v, TRUE)
    BY <1>1, <2>1, ReadDecides
  <2> QED BY <1>2, <2>2 DEF Meets, OrGate
<1>5. AndGate(u, v) \in BOOLEAN /\ AndGate(u, w) \in BOOLEAN
  BY DEF AndGate
<1>6. OrGate(u, v) \in BOOLEAN /\ OrGate(u, w) \in BOOLEAN
  BY DEF OrGate
<1> HIDE DEF AndGate, OrGate
<1>7. AndGate(u, w) = AndGate(u, v) /\ OrGate(u, w) = OrGate(u, v)
  BY <1>3, <1>4, <1>5, <1>6
<1> QED BY <1>7 DEF Result

\* A gate reads its own inputs only.
LEMMA ReadsOwn ==
  ASSUME NEW u \in Unit, NEW v
  PROVE  Reads(u, v) \subseteq InputsOf(u)
BY DEF Reads, ReadUntil, InputsOf, Range

-----------------------------------------------------------------------------
(***************************************************************************)
(* Signals and the vectors of changed signals                              *)
(***************************************************************************)

\* Appending adds one element to the range of a vector.
LEMMA RangeOfAppend ==
  ASSUME NEW S, NEW q \in Seq(S), NEW e \in S
  PROVE  /\ Range(Append(q, e)) = Range(q) \cup {e}
         /\ IsInjective(q) /\ e \notin Range(q) => IsInjective(Append(q, e))
<1>1. /\ DOMAIN q = 1..Len(q)
      /\ DOMAIN Append(q, e) = 1..(Len(q) + 1)
      /\ Len(q) \in Nat
  OBVIOUS
<1>2. /\ \A i \in 1..Len(q) : Append(q, e)[i] = q[i]
      /\ Append(q, e)[Len(q) + 1] = e
  BY AppendProperties
<1>3. 1..(Len(q) + 1) = 1..Len(q) \cup {Len(q) + 1}
  BY <1>1
<1> QED BY <1>1, <1>2, <1>3 DEF Range, IsInjective

\* What SetLevel does to the signals, the vectors and the queued handlers.
LEMMA SetLevelEffect ==
  ASSUME SignalTypeOK, NEW s \in Signal, NEW l \in BOOLEAN, SetLevel(s, l)
  PROVE  /\ active' = [active EXCEPT ![s] = l]
         /\ HandedOut' = HandedOut
         /\ Range(Collecting') = Range(Collecting) \cup
                                   (IF active[s] = l THEN {} ELSE {s})
         /\ DirtyTracked => DirtyTracked'
         /\ (Collecting # <<>> => posted > 0)
              => (Collecting' # <<>> => posted' > 0)
<1>1. CASE active[s] = l
  BY <1>1 DEF SetLevel, signalVars, SignalTypeOK, Collecting, HandedOut,
              DirtyTracked
<1>2. CASE active[s] # l /\ s \in Range(Collecting)
  <2>1. /\ active' = [active EXCEPT ![s] = l]
        /\ dirty' = [dirty EXCEPT ![s] = TRUE]
        /\ UNCHANGED <<dirtyA, dirtyB, posted, dirtyAIsActive>>
    BY <1>2 DEF SetLevel, SetDirty
  <2>2. UNCHANGED <<Collecting, HandedOut>>
    BY <2>1 DEF Collecting, HandedOut
  <2>3. DirtyTracked => DirtyTracked'
    BY <1>2, <2>1, <2>2 DEF DirtyTracked, SignalTypeOK
  <2> QED BY <1>2, <2>1, <2>2, <2>3
<1>3. CASE active[s] # l /\ s \notin Range(Collecting)
  <2>1. /\ active' = [active EXCEPT ![s] = l]
        /\ dirty' = [dirty EXCEPT ![s] = TRUE]
        /\ dirtyA' = IF dirtyAIsActive THEN Append(dirtyA, s) ELSE dirtyA
        /\ dirtyB' = IF dirtyAIsActive THEN dirtyB ELSE Append(dirtyB, s)
        /\ posted' = posted + 1
        /\ dirtyAIsActive' = dirtyAIsActive
    BY <1>3 DEF SetLevel, SetDirty
  <2>2. Collecting' = Append(Collecting, s) /\ HandedOut' = HandedOut
    BY <2>1 DEF Collecting, HandedOut
  <2>3. Collecting \in Seq(Signal)
    BY DEF Collecting, SignalTypeOK
  <2>4. Range(Collecting') = Range(Collecting) \cup {s}
    BY <2>2, <2>3, RangeOfAppend
  <2>5. DirtyTracked => DirtyTracked'
    <3>1. IsInjective(Collecting) => IsInjective(Collecting')
      BY <1>3, <2>2, <2>3, RangeOfAppend
    <3> QED BY <2>1, <2>4, <3>1 DEF DirtyTracked, SignalTypeOK
  <2>6. posted' > 0
    BY <2>1 DEF SignalTypeOK
  <2> QED BY <1>3, <2>1, <2>2, <2>4, <2>5, <2>6
<1> QED BY <1>1, <1>2, <1>3

\* What taking the list of changed signals does.
LEMMA TakeEffect ==
  ASSUME SignalTypeOK, GetDirtySignalsAndClearList
  PROVE  /\ HandedOut' = Collecting
         /\ Collecting' = <<>>
         /\ DirtyTracked => DirtyTracked'
<1>1. HandedOut' = Collecting /\ Collecting' = <<>>
  BY DEF GetDirtySignalsAndClearList, HandedOut, Collecting, SignalTypeOK
<1>2. Range(<<>>) = {} /\ IsInjective(<<>>)
  BY DEF Range, IsInjective
<1>3. ASSUME DirtyTracked PROVE DirtyTracked'
  <2>1. \A s \in Signal : ~dirty'[s]
    BY <1>3 DEF DirtyTracked, GetDirtySignalsAndClearList, ClearDirty
  <2> QED BY <1>1, <1>2, <2>1 DEF DirtyTracked
<1> QED BY <1>1, <1>3

-----------------------------------------------------------------------------
(***************************************************************************)
(* Updating a unit                                                         *)
(***************************************************************************)

\* An update sets the signal of its unit, or leaves all signals alone, which is
\* what setting it to the level it has does.
LEMMA UpdateSetsOneSignal ==
  ASSUME SignalTypeOK, NEW u \in Unit, NEW pending, Update(u, pending)
  PROVE  \E l \in BOOLEAN : SetLevel(OutOf[u], l)
<1> DEFINE result == Result(u, [i \in LogicInput |-> GetLevel(i)])
<1>1. CASE UNCHANGED <<signalVars, settled>>
  BY <1>1, LogicAssumption DEF SetLevel, SignalTypeOK
<1>2. CASE Drive(OutOf[u], result)
  BY <1>2, ResultType DEF Drive
<1> QED BY <1>1, <1>2 DEF Update

\* After its update a unit is current, or one of its inputs just changed.
LEMMA UpdateMakesCurrent ==
  ASSUME SignalTypeOK, LogicTypeOK, NEW u \in Unit,
         NEW pending \in SUBSET timer, Update(u, pending),
         \A i \in InputsOf(u) : InputSignal[i] \notin Range(Collecting')
  PROVE  UnitCurrent(u)'
<1> DEFINE v == [i \in LogicInput |-> GetLevel(i)]
<1>1. \A i \in InputsOf(u) : i \in LogicInput
  BY LogicAssumption, RangeOfSeq DEF InputsOf
<1>2. v \in [LogicInput -> BOOLEAN]
  BY LogicAssumption
     DEF GetLevel, Samples, InputLevel, SignalTypeOK, LogicTypeOK
<1>3. PICK l \in BOOLEAN : SetLevel(OutOf[u], l)
  BY UpdateSetsOneSignal
<1>4. \A i \in InputsOf(u) : active'[InputSignal[i]] = active[InputSignal[i]]
  BY <1>1, <1>3, SetLevelEffect, LogicAssumption DEF SignalTypeOK
<1>5. SignalTypeOK' /\ LogicTypeOK'
  BY UpdateType DEF LogicTypeOK
<1>6. Seen' \in [LogicInput -> BOOLEAN]
  BY <1>5, LogicAssumption
     DEF Seen, InputLevel, SignalTypeOK, LogicTypeOK
<1>7. ASSUME NEW i \in Reads(u, v) PROVE Seen'[i] = v[i]
  <2>1. i \in InputsOf(u) /\ i \in LogicInput
    BY <1>1, <1>7, ReadsOwn
  <2>2. v[i] = GetLevel(i)
    BY <2>1
  <2>3. Seen'[i] = IF i \in timer' THEN level'[i]
                                   ELSE (active'[InputSignal[i]] # Invert[i])
    BY <2>1 DEF Seen, InputLevel
  <2>4. timer' \subseteq Debounced
    BY <1>5 DEF LogicTypeOK
  <2>5. i \in Debounced => level'[i] = v[i]
    BY <1>7 DEF Update
  <2>6. ~Samples(i) => i \in timer'
    BY <1>7 DEF Update
  <2>7. Samples(i) => v[i] = (active'[InputSignal[i]] # Invert[i])
    BY <1>4, <2>1, <2>2 DEF GetLevel, InputLevel
  <2> QED BY <2>3, <2>4, <2>5, <2>6, <2>7
<1>8. Result(u, Seen') = Result(u, v)
  <2> HIDE DEF v
  <2> QED BY <1>2, <1>6, <1>7, ReadsDetermineResult
<1>9. lastValueValid'[u] /\ lastValue'[u] = Result(u, v)
  BY DEF Update, LogicTypeOK
<1> QED BY <1>8, <1>9 DEF UnitCurrent

\* The update of one unit leaves another current, or changed one of its inputs.
LEMMA UpdateKeepsCurrent ==
  ASSUME SignalTypeOK, LogicTypeOK, NEW u \in Unit,
         NEW pending \in SUBSET timer, Update(u, pending),
         \A i \in timer \ pending : Parent[i] = u,
         NEW w \in Unit, w # u, UnitCurrent(w),
         \A i \in InputsOf(w) : InputSignal[i] \notin Range(Collecting')
  PROVE  UnitCurrent(w)'
<1> DEFINE v == [i \in LogicInput |-> GetLevel(i)]
<1>1. \A i \in InputsOf(w) : i \in LogicInput
  BY LogicAssumption, RangeOfSeq DEF InputsOf
<1>2. PICK l \in BOOLEAN : SetLevel(OutOf[u], l)
  BY UpdateSetsOneSignal
<1>3. \A i \in InputsOf(w) : active'[InputSignal[i]] = active[InputSignal[i]]
  BY <1>1, <1>2, SetLevelEffect, LogicAssumption DEF SignalTypeOK
<1>4. SignalTypeOK' /\ LogicTypeOK'
  BY UpdateType DEF LogicTypeOK
<1>5. Seen \in [LogicInput -> BOOLEAN] /\ Seen' \in [LogicInput -> BOOLEAN]
  BY <1>4, LogicAssumption
     DEF Seen, InputLevel, SignalTypeOK, LogicTypeOK
<1>6. \A i \in InputsOf(w) : i \notin InputsOf(u)
  BY OwnInputsAssumption DEF InputsOf
<1>7. ASSUME NEW i \in InputsOf(w) PROVE Seen'[i] = Seen[i]
  <2>1. i \notin Reads(u, v)
    BY <1>6, <1>7, ReadsOwn
  <2>2. i \in timer' <=> i \in timer
    BY <1>7, <2>1, OwnInputsAssumption DEF Update, InputsOf
  <2>3. i \in timer => level'[i] = level[i]
    BY <2>1 DEF Update, LogicTypeOK
  <2> QED BY <1>1, <1>3, <1>7, <2>2, <2>3 DEF Seen, InputLevel
<1>8. Result(w, Seen') = Result(w, Seen)
  BY <1>5, <1>7, ReadsDetermineResult, ReadsOwn
<1>9. lastValueValid'[w] = lastValueValid[w] /\ lastValue'[w] = lastValue[w]
  BY DEF Update, LogicTypeOK
<1> QED BY <1>8, <1>9 DEF UnitCurrent

\* So does setting a signal while nothing else of the units changes.
LEMMA SetLevelKeepsCurrent ==
  ASSUME SignalTypeOK, LogicTypeOK, NEW s \in Signal, NEW l \in BOOLEAN,
         SetLevel(s, l), UNCHANGED <<lastValue, lastValueValid, level, timer>>,
         NEW w \in Unit, UnitCurrent(w),
         \A i \in InputsOf(w) : InputSignal[i] \notin Range(Collecting')
  PROVE  UnitCurrent(w)'
<1>1. \A i \in InputsOf(w) : i \in LogicInput
  BY LogicAssumption, RangeOfSeq DEF InputsOf
<1>2. \A i \in InputsOf(w) : active'[InputSignal[i]] = active[InputSignal[i]]
  BY <1>1, SetLevelEffect, LogicAssumption DEF SignalTypeOK
<1>3. SignalTypeOK'
  BY SetLevelType
<1>4. Seen \in [LogicInput -> BOOLEAN] /\ Seen' \in [LogicInput -> BOOLEAN]
  BY <1>3, LogicAssumption DEF Seen, InputLevel, SignalTypeOK, LogicTypeOK
<1>5. \A i \in InputsOf(w) : Seen'[i] = Seen[i]
  BY <1>1, <1>2 DEF Seen, InputLevel
<1>6. Result(w, Seen') = Result(w, Seen)
  BY <1>4, <1>5, ReadsDetermineResult, ReadsOwn
<1> QED BY <1>6 DEF UnitCurrent

\* The value a unit computed is on its signal or at the end of its queue after
\* an update of any unit.
LEMMA UpdateDelivers ==
  ASSUME SignalTypeOK, LogicTypeOK, LastValueDelivered, NEW u \in Unit,
         NEW pending \in SUBSET timer, Update(u, pending)
  PROVE  LastValueDelivered'
<1> DEFINE result == Result(u, [i \in LogicInput |-> GetLevel(i)])
           changed == ~lastValueValid[u] \/ lastValue[u] # result
<1>1. PICK l \in BOOLEAN : SetLevel(OutOf[u], l)
  BY UpdateSetsOneSignal
<1>2. result \in BOOLEAN /\ OutOf[u] \in Signal
  BY ResultType, LogicAssumption
<1>3. \A w \in Unit \ {u} : /\ active'[OutOf[w]] = active[OutOf[w]]
                           /\ outQueue'[w] = outQueue[w]
                           /\ lastValue'[w] = lastValue[w]
                           /\ lastValueValid'[w] = lastValueValid[w]
  <2>1. active' = [active EXCEPT ![OutOf[u]] = l]
    BY <1>1, <1>2, SetLevelEffect
  <2> QED BY <2>1, SingleDriverAssumption, LogicAssumption
          DEF Update, LogicTypeOK, SignalTypeOK
<1>4. lastValue'[u] = result /\ lastValueValid'[u]
  BY DEF Update, LogicTypeOK
<1>5. CASE changed /\ u \notin Delayed
  <2>1. active'[OutOf[u]] = result
    <3>1. SetLevel(OutOf[u], result)
      BY <1>5 DEF Update, Drive
    <3> QED BY <1>2, <3>1, SetLevelEffect DEF SignalTypeOK
  <2>2. outQueue'[u] = <<>>
    BY <1>5 DEF Update, LogicTypeOK
  <2> QED BY <1>3, <1>4, <2>1, <2>2 DEF LastValueDelivered
<1>6. CASE changed /\ u \in Delayed
  <2>1. outQueue'[u] = PushBack(outQueue[u], result)
    BY <1>6 DEF Update, LogicTypeOK
  <2>2. outQueue'[u] # <<>> /\ outQueue'[u][Len(outQueue'[u])] = result
    BY <1>2, <2>1, PushBackProperties DEF LogicTypeOK
  <2> QED BY <1>3, <1>4, <2>2 DEF LastValueDelivered
<1>7. CASE ~changed
  <2>1. UNCHANGED <<active, outQueue>>
    BY <1>7 DEF Update, signalVars
  <2> QED BY <1>3, <1>4, <1>7, <2>1 DEF LastValueDelivered
<1> QED BY <1>5, <1>6, <1>7

\* And after a delayed change was applied.
LEMMA TimerHandlerDelivers ==
  ASSUME SignalTypeOK, LogicTypeOK, LastValueDelivered, NEW u \in Unit,
         TimerHandler(u)
  PROVE  LastValueDelivered'
<1> DEFINE q == outQueue[u]
<1>1. /\ q \in Seq(BOOLEAN) /\ q # <<>>
      /\ Head(q) \in BOOLEAN
      /\ outQueue'[u] = Tail(q)
  BY HeadTailProperties DEF TimerHandler, LogicTypeOK
<1>2. active' = [active EXCEPT ![OutOf[u]] = Head(q)]
  BY <1>1, SetLevelEffect, LogicAssumption DEF TimerHandler, Drive
<1>3. \A w \in Unit \ {u} : /\ active'[OutOf[w]] = active[OutOf[w]]
                           /\ outQueue'[w] = outQueue[w]
  BY <1>2, SingleDriverAssumption, LogicAssumption
     DEF TimerHandler, LogicTypeOK, SignalTypeOK
<1>4. UNCHANGED <<lastValue, lastValueValid>>
  BY DEF TimerHandler
<1>5. CASE Tail(q) = <<>>
  <2>1. Len(q) = 1
    <3>1. Len(q) \in Nat /\ Len(Tail(q)) = Len(q) - 1
      BY <1>1, HeadTailProperties, LenProperties
    <3>2. Len(Tail(q)) = 0
      BY <1>5, EmptySeq
    <3> HIDE DEF q
    <3> QED BY <3>1, <3>2
  <2>2. Head(q) = q[Len(q)]
    BY <1>1, <2>1
  <2>3. active'[OutOf[u]] = Head(q)
    BY <1>2, LogicAssumption DEF SignalTypeOK
  <2> QED BY <1>1, <1>3, <1>4, <1>5, <2>2, <2>3 DEF LastValueDelivered
<1>6. CASE Tail(q) # <<>>
  <2>1. /\ Tail(q) \in Seq(BOOLEAN)
        /\ Len(Tail(q)) = Len(q) - 1
        /\ \A i \in 1..Len(Tail(q)) : Tail(q)[i] = q[i + 1]
    BY <1>1, HeadTailProperties
  <2>2. Len(Tail(q)) \in 1..Len(Tail(q))
    BY <1>6, <2>1, EmptySeq
  <2>3. Tail(q)[Len(Tail(q))] = q[Len(q)]
    BY <2>1, <2>2
  <2> QED BY <1>1, <1>3, <1>4, <1>6, <2>3 DEF LastValueDelivered
<1> QED BY <1>5, <1>6
=============================================================================
