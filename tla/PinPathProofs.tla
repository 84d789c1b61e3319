--------------------------- MODULE PinPathProofs ---------------------------
(***************************************************************************)
(* Proofs about PinPath for every stability time, delay, capacity of the   *)
(* queues, lateness of the handlers, content of the memory and jump of the *)
(* wall clock.                                                             *)
(***************************************************************************)
EXTENDS PinPath, SequenceTheorems, TLAPS

-----------------------------------------------------------------------------
(***************************************************************************)
(* The queue of delayed changes                                            *)
(***************************************************************************)

\* What a push leaves in the queue: the new change at the end, and before it
\* what was there, without the oldest change when the queue was full.
LEMMA PushBackProperties ==
  ASSUME NEW q \in Seq(Change), Len(q) <= Capacity, NEW e \in Change
  PROVE  /\ PushBack(q, e) \in Seq(Change)
         /\ Len(PushBack(q, e)) \in 1..Capacity
         /\ PushBack(q, e)[Len(PushBack(q, e))] = e
         /\ Len(q) < Capacity =>
              /\ Len(PushBack(q, e)) = Len(q) + 1
              /\ \A k \in 1..Len(q) : PushBack(q, e)[k] = q[k]
         /\ Len(q) = Capacity =>
              /\ Len(PushBack(q, e)) = Len(q)
              /\ \A k \in 1..Len(q) - 1 : PushBack(q, e)[k] = q[k + 1]
<1>1. CASE Len(q) < Capacity
  <2>1. PushBack(q, e) = Append(q, e)
    BY <1>1 DEF PushBack
  <2>2. Len(q) \in Nat /\ Capacity \in Nat
    BY LenProperties, DelayAssumption
  <2> QED BY <1>1, <2>1, <2>2, AppendProperties
<1>2. CASE Len(q) = Capacity
  <2>1. PushBack(q, e) = Append(Tail(q), e)
    BY <1>2 DEF PushBack
  <2>2. q # <<>> /\ Capacity \in Nat \ {0, 1}
    BY <1>2, DelayAssumption
  <2>3. /\ Tail(q) \in Seq(Change)
        /\ Len(Tail(q)) = Capacity - 1
        /\ \A k \in 1..Len(Tail(q)) : Tail(q)[k] = q[k + 1]
    BY <1>2, <2>2, HeadTailProperties
  <2> HIDE DEF Change
  <2> QED BY <1>2, <2>1, <2>2, <2>3, AppendProperties
<1> QED BY <1>1, <1>2, LenProperties, DelayAssumption

\* The queue in terms of its elements.
LEMMA QueueElements ==
  ASSUME NEW q \in Seq(Change)
  PROVE  /\ Len(q) \in Nat
         /\ DOMAIN q = 1..Len(q)
         /\ (q = <<>>) <=> (Len(q) = 0)
         /\ \A k \in 1..Len(q) : /\ q[k] \in Change
                                 /\ q[k].level \in BOOLEAN
                                 /\ q[k].due \in 0..Delay
<1>1. Len(q) \in Nat /\ DOMAIN q = 1..Len(q)
  BY LenProperties
<1>2. (q = <<>>) <=> (Len(q) = 0)
  BY EmptySeq
<1>3. \A k \in 1..Len(q) : q[k] \in Change
  BY ElementOfSeq
<1> QED BY <1>1, <1>2, <1>3 DEF Change

-----------------------------------------------------------------------------
(***************************************************************************)
(* Type correctness                                                        *)
(***************************************************************************)

\* An update of the unit keeps the types.
LEMMA UpdateType ==
  ASSUME TypeOK, NEW pending \in SUBSET inTimer, Update(pending)
  PROVE  /\ level' \in BOOLEAN
         /\ inTimer' \in SUBSET Nat
         /\ lastValue' \in BOOLEAN
         /\ lastValueValid' \in BOOLEAN
         /\ outQueue' \in Seq(Change)
         /\ Len(outQueue') <= Capacity
         /\ outTimer' \in SUBSET Nat
         /\ out' \in BOOLEAN
         /\ overflowed' \in BOOLEAN
         /\ UNCHANGED <<active, age>>
<1> USE DEF TypeOK, UnitTypeOK, TimedSignalTypeOK
<1> DEFINE result == GetLevel /\ (Raw => active)
           e == [level |-> result, due |-> Delay]
<1>1. GetLevel \in BOOLEAN /\ result \in BOOLEAN
  BY DEF GetLevel
<1>2. e \in Change
  BY <1>1, DelayAssumption DEF Change
<1>3. inTimer' \in SUBSET Nat
  <2>1. pending \in SUBSET Nat /\ Stable - age \in Nat
    BY StableAssumption
  <2>2. CASE age >= Stable
    BY <2>1, <2>2 DEF Update, Rearm
  <2>3. CASE ~(age >= Stable)
    <3>1. PICK late \in SUBSET {r \in pending : r = 0} :
            inTimer' = late \cup {Stable - age}
      BY <2>3 DEF Update, Rearm
    <3> QED BY <2>1, <3>1
  <2> QED BY <2>2, <2>3
<1>4. /\ outQueue' \in Seq(Change)
      /\ Len(outQueue') <= Capacity
      /\ outTimer' \in SUBSET Nat
      /\ overflowed' \in BOOLEAN
  <2>1. CASE UNCHANGED <<outQueue, outTimer, overflowed>>
    BY <2>1
  <2>2. CASE Enqueue(result)
    <3>1. /\ PushBack(outQueue, e) \in Seq(Change)
          /\ Len(PushBack(outQueue, e)) \in 1..Capacity
      BY <1>2, PushBackProperties
    <3>2. Head(PushBack(outQueue, e)).due \in Nat
      BY <3>1, QueueElements, DelayAssumption
    <3>3. /\ outQueue' = PushBack(outQueue, e)
          /\ outTimer' = IF Len(PushBack(outQueue, e)) = 1
                         THEN {Head(PushBack(outQueue, e)).due} ELSE outTimer
          /\ overflowed' = (overflowed \/ Len(outQueue) = Capacity)
      BY <2>2 DEF Enqueue
    <3> QED BY <3>1, <3>2, <3>3, DelayAssumption
  <2> QED BY <2>1, <2>2 DEF Update
<1> QED BY <1>1, <1>3, <1>4 DEF Update

\* A step that updates the unit: the posted update, the timer of the input, or
\* an evaluation that finds the input dirty.
Updates ==
  \/ StartsUnit
  \/ InputSettles
  \/ "in" \in dirty /\ Evaluate

\* What these steps have in common.
LEMMA UpdatesEffect ==
  ASSUME Updates
  PROVE  /\ \E pending \in SUBSET inTimer : Update(pending)
         /\ SinceOut
         /\ UNCHANGED <<gpioVars, quiet, busy, clockSet>>
BY DEF Updates, StartsUnit, InputSettles, Evaluate, FirstUpdate, InputTimer

\* Steps that leave a part of the state alone keep its types.
LEMMA TypesKept ==
  /\ TimedSignalTypeOK /\ UNCHANGED timedSignalVars => TimedSignalTypeOK'
  /\ GpioTypeOK /\ UNCHANGED gpioVars => GpioTypeOK'
  /\ UnitTypeOK /\ UNCHANGED unitVars => UnitTypeOK'
<1>1. TimedSignalTypeOK /\ UNCHANGED timedSignalVars => TimedSignalTypeOK'
  BY DEF TimedSignalTypeOK, timedSignalVars
<1>2. GpioTypeOK /\ UNCHANGED gpioVars => GpioTypeOK'
  BY DEF GpioTypeOK, gpioVars
<1>3. UnitTypeOK /\ UNCHANGED unitVars => UnitTypeOK'
  BY DEF UnitTypeOK, unitVars
<1> QED BY <1>1, <1>2, <1>3

\* The types of the variables that only PinPath has.
PathTypeOK ==
  /\ pin \in BOOLEAN
  /\ quiet \in 0..Response
  /\ sinceOut \in 0..Stable
  /\ busy \in 0..Lag
  /\ clockSet \in BOOLEAN

\* The same for the variables of the path.
LEMMA PathTypeKept == PathTypeOK /\ UNCHANGED pathVars => PathTypeOK'
BY DEF PathTypeOK, pathVars

\* The bound is a number.
LEMMA ResponseType == Response \in Nat \ {0}
BY StableAssumption, DelayAssumption, PathAssumption DEF Response

\* The signal takes a level.
LEMMA TakeType ==
  ASSUME TimedSignalTypeOK, NEW l \in BOOLEAN, Take(l), unseen \in Int
  PROVE  TimedSignalTypeOK' /\ unseen' \in Int
<1>1. unseen' \in Int
  BY DEF Take
<1>2. CASE active = l
  BY <1>1, <1>2 DEF TimedSignalTypeOK, Take, SetLevel, timedSignalVars
<1>3. CASE active # l
  <2>1. active' = l /\ age' = 0 /\ dirty' = dirty \cup {"in"}
    BY <1>3 DEF Take, SetLevel
  <2>2. age' \in 0..Stable
    BY <2>1, StableAssumption
  <2>3. dirty' \in SUBSET {"in", "out"}
    BY <2>1 DEF TimedSignalTypeOK
  <2> QED BY <1>1, <2>1, <2>2, <2>3 DEF TimedSignalTypeOK
<1> QED BY <1>2, <1>3

\* The timer of the delayed changes runs exactly while there are some.
TimerRuns == (outTimer = {}) <=> (outQueue = <<>>)

\* What a delayed change that is due leaves in the queue.
LEMMA ChangeDueEffect ==
  ASSUME TypeOK, TimerRuns, ChangeDue
  PROVE  /\ 0 \in outTimer
         /\ outQueue # <<>>
         /\ Len(outQueue) >= 1
         /\ out' = outQueue[1].level
         /\ outQueue' \in Seq(Change)
         /\ Len(outQueue') = Len(outQueue) - 1
         /\ \A k \in 1..Len(outQueue') : outQueue'[k] = outQueue[k + 1]
         /\ outTimer' = IF Len(outQueue) = 1 THEN {} ELSE {outQueue[2].due}
         /\ MarksOut
         /\ SinceOut
         /\ UNCHANGED <<active, age, first, level, inTimer, lastValue,
                        lastValueValid, overflowed, gpioVars, pin, quiet, busy,
                        clockSet>>
<1>1. 0 \in outTimer /\ outQueue # <<>> /\ outQueue \in Seq(Change)
  BY DEF ChangeDue, OutputTimer, TimerRuns, TypeOK, UnitTypeOK
<1>2. /\ Tail(outQueue) \in Seq(Change)
      /\ Len(Tail(outQueue)) = Len(outQueue) - 1
      /\ \A k \in 1..Len(Tail(outQueue)) : Tail(outQueue)[k] = outQueue[k + 1]
  BY <1>1, HeadTailProperties
<1>3. Len(outQueue) >= 1 /\ DOMAIN outQueue = 1..Len(outQueue)
      /\ Len(outQueue) \in Nat
  BY <1>1, QueueElements
<1>4. outTimer' = {outQueue[k].due : k \in 2..2 \cap DOMAIN outQueue}
  BY DEF ChangeDue, OutputTimer
<1>5. 2..2 \cap DOMAIN outQueue = IF Len(outQueue) = 1 THEN {} ELSE {2}
  BY <1>3
<1>6. outTimer' = IF Len(outQueue) = 1 THEN {} ELSE {outQueue[2].due}
  BY <1>4, <1>5
<1>7. Head(outQueue) = outQueue[1]
  BY <1>1
<1> QED BY <1>1, <1>2, <1>3, <1>6, <1>7 DEF ChangeDue, OutputTimer

\* What a tick leaves in the queue.
LEMMA TickEffect ==
  ASSUME TypeOK, Tick
  PROVE  /\ outQueue' \in Seq(Change)
         /\ Len(outQueue') = Len(outQueue)
         /\ (outQueue' = <<>>) <=> (outQueue = <<>>)
         /\ \A k \in 1..Len(outQueue) :
              /\ outQueue'[k].level = outQueue[k].level
              /\ outQueue'[k].due = Left(outQueue[k].due)
<1>1. outQueue \in Seq(Change)
  BY DEF TypeOK, UnitTypeOK
<1>2. /\ Len(outQueue) \in Nat
      /\ DOMAIN outQueue = 1..Len(outQueue)
      /\ (outQueue = <<>>) <=> (Len(outQueue) = 0)
      /\ \A k \in 1..Len(outQueue) : /\ outQueue[k] \in Change
                                      /\ outQueue[k].level \in BOOLEAN
                                      /\ outQueue[k].due \in 0..Delay
  BY <1>1, QueueElements
<1>3. outQueue' = [k \in 1..Len(outQueue) |->
                     [outQueue[k] EXCEPT !.due = Left(outQueue[k].due)]]
  BY <1>2 DEF Tick
<1>4. \A k \in 1..Len(outQueue) :
        /\ [outQueue[k] EXCEPT !.due = Left(outQueue[k].due)] \in Change
        /\ outQueue'[k].level = outQueue[k].level
        /\ outQueue'[k].due = Left(outQueue[k].due)
  BY <1>2, <1>3, DelayAssumption DEF Change, Left
<1>5. outQueue' \in Seq(Change) /\ Len(outQueue') = Len(outQueue)
  <2> DEFINE n == Len(outQueue)
             e(k) == [outQueue[k] EXCEPT !.due = Left(outQueue[k].due)]
  <2>1. n \in Nat /\ \A k \in 1..n : e(k) \in Change
    BY <1>2, <1>4
  <2>2. outQueue' = [k \in 1..n |-> e(k)]
    BY <1>3
  <2> HIDE DEF n, e, Change
  <2>3. outQueue' \in Seq(Change) /\ Len(outQueue') = n
    BY <2>1, <2>2
  <2> QED BY <2>3 DEF n
<1>6. (outQueue' = <<>>) <=> (Len(outQueue') = 0)
  BY <1>5, QueueElements
<1> QED BY <1>2, <1>4, <1>5, <1>6

\* Every step keeps the types.
LEMMA TypeNext == TypeOK /\ TimerRuns /\ [Next]_vars => TypeOK'
<1> SUFFICES ASSUME TypeOK, TimerRuns, [Next]_vars PROVE TypeOK'
  OBVIOUS
<1>t. TimedSignalTypeOK /\ GpioTypeOK /\ UnitTypeOK /\ PathTypeOK
  BY DEF TypeOK, PathTypeOK
<1> SUFFICES /\ TimedSignalTypeOK' /\ GpioTypeOK'
             /\ UnitTypeOK' /\ PathTypeOK'
  BY DEF TypeOK, PathTypeOK
<1>1. CASE LineChanges
  <2>1. events' \in Seq(BOOLEAN) /\ Len(events') <= KernelCapacity
    <3>1. CASE Len(events) < KernelCapacity
      <4>1. events' = Append(events, ~line) /\ (~line) \in BOOLEAN
        BY <1>1, <3>1 DEF LineChanges, Edge
      <4>2. events \in Seq(BOOLEAN) /\ Len(events) \in Nat
        BY <1>t, LenProperties DEF GpioTypeOK
      <4>3. events' \in Seq(BOOLEAN) /\ Len(events') = Len(events) + 1
        BY <4>1, <4>2, AppendProperties
      <4>4. KernelCapacity \in Nat
        BY KernelAssumption
      <4> HIDE DEF Response
      <4> QED BY <3>1, <4>2, <4>3, <4>4
    <3>2. CASE ~(Len(events) < KernelCapacity)
      BY <1>1, <1>t, <3>2 DEF LineChanges, Edge, GpioTypeOK
    <3> QED BY <3>1, <3>2
  <2>2. line' \in BOOLEAN /\ dropped' \in BOOLEAN /\ unseen' \in Int
    <3>1. line' = ~line /\ unseen' = IF dropped' THEN 0 ELSE unseen + 1
      BY <1>1 DEF LineChanges, Edge
    <3>2. dropped' \in {dropped, TRUE}
      BY <1>1 DEF LineChanges, Edge
    <3>3. dropped' \in BOOLEAN /\ line' \in BOOLEAN
      BY <1>t, <3>1, <3>2 DEF GpioTypeOK
    <3>4. unseen' \in Int
      <4>1. CASE dropped'
        BY <3>1, <4>1
      <4>2. CASE ~dropped'
        BY <1>t, <3>1, <4>2 DEF GpioTypeOK
      <4> QED BY <4>1, <4>2
    <3> QED BY <3>3, <3>4
  <2>3. GpioTypeOK'
    BY <1>1, <1>t, <2>1, <2>2 DEF LineChanges, Edge, GpioTypeOK
  <2>4. PathTypeOK'
    BY <1>1, <1>t, ResponseType DEF LineChanges, PathTypeOK
  <2> QED BY <1>1, <1>t, <2>3, <2>4, TypesKept DEF LineChanges
<1>2. CASE ReadsLine
  <2>1. line \in BOOLEAN /\ unseen \in Int
    BY <1>t DEF GpioTypeOK
  <2>2. TimedSignalTypeOK' /\ unseen' \in Int
    BY <1>2, <1>t, <2>1, TakeType DEF ReadsLine, InitialRead
  <2>3. GpioTypeOK'
    BY <1>2, <1>t, <2>2 DEF ReadsLine, InitialRead, GpioTypeOK
  <2> QED BY <1>2, <1>t, <2>2, <2>3, TypesKept, PathTypeKept DEF ReadsLine
<1>3. CASE ReadsEvent
  <2>1. /\ Head(events) \in BOOLEAN
        /\ Tail(events) \in Seq(BOOLEAN)
        /\ Len(Tail(events)) <= KernelCapacity
    <3>1. events \in Seq(BOOLEAN) /\ events # <<>> /\ Len(events) <= KernelCapacity
      BY <1>3, <1>t DEF ReadsEvent, OnEvent, GpioTypeOK
    <3>2. /\ Head(events) \in BOOLEAN
          /\ Tail(events) \in Seq(BOOLEAN)
          /\ Len(Tail(events)) = Len(events) - 1
          /\ Len(events) \in Nat
      BY <3>1, HeadTailProperties, LenProperties
    <3> QED BY <3>1, <3>2, KernelAssumption
  <2>2. unseen \in Int
    BY <1>t DEF GpioTypeOK
  <2>3. TimedSignalTypeOK' /\ unseen' \in Int
    BY <1>3, <1>t, <2>1, <2>2, TakeType DEF ReadsEvent, OnEvent
  <2>4. GpioTypeOK'
    BY <1>3, <1>t, <2>1, <2>3 DEF ReadsEvent, OnEvent, GpioTypeOK
  <2> QED BY <1>3, <1>t, <2>3, <2>4, TypesKept, PathTypeKept DEF ReadsEvent
<1>4. CASE StopsWaiting
  <2>1. GpioTypeOK'
    BY <1>4, <1>t DEF StopsWaiting, WaitError, GpioTypeOK
  <2> QED BY <1>4, <1>t, <2>1, TypesKept, PathTypeKept
          DEF StopsWaiting, WaitError
<1>5. CASE Updates
  <2>1. PICK pending \in SUBSET inTimer : Update(pending)
    BY <1>5, UpdatesEffect
  <2>2. out' \in BOOLEAN
    BY <2>1, UpdateType
  <2>3. dirty' \in SUBSET {"in", "out"} /\ first' \in BOOLEAN /\ pin' \in BOOLEAN
    BY <1>5, <1>t, <2>2
       DEF Updates, StartsUnit, InputSettles, Evaluate, FirstUpdate,
           InputTimer, MarksOut, TimedSignalTypeOK, UnitTypeOK, PathTypeOK
  <2>4. UnitTypeOK' /\ TimedSignalTypeOK'
    BY <1>t, <2>1, <2>3, UpdateType DEF UnitTypeOK, TimedSignalTypeOK
  <2>5. sinceOut' \in 0..Stable
    BY <1>5, <1>t, UpdatesEffect, StableAssumption DEF SinceOut, PathTypeOK
  <2>6. GpioTypeOK' /\ PathTypeOK'
    BY <1>5, <1>t, <2>3, <2>5, UpdatesEffect, TypesKept DEF PathTypeOK
  <2> QED BY <2>4, <2>6
<1>6. CASE ChangeDue
  <2>1. /\ outQueue \in Seq(Change)
        /\ Len(outQueue) <= Capacity /\ Len(outQueue) \in Nat
        /\ outQueue[1].level \in BOOLEAN
        /\ Len(outQueue) # 1 => outQueue[2].due \in Nat
    <3>1. outQueue \in Seq(Change) /\ Len(outQueue) <= Capacity
      BY <1>t DEF UnitTypeOK
    <3>2. Len(outQueue) >= 1
      BY <1>6, ChangeDueEffect
    <3>3. Len(outQueue) \in Nat
          /\ \A k \in 1..Len(outQueue) : /\ outQueue[k].level \in BOOLEAN
                                          /\ outQueue[k].due \in 0..Delay
      BY <3>1, QueueElements
    <3>4. 1 \in 1..Len(outQueue)
      BY <3>2, <3>3
    <3>5. Len(outQueue) # 1 => 2 \in 1..Len(outQueue)
      <4> DEFINE n == Len(outQueue)
      <4>1. n \in Nat /\ n >= 1
        BY <3>2, <3>3
      <4> HIDE DEF n
      <4>2. n # 1 => 2 \in 1..n
        BY <4>1
      <4> QED BY <4>2 DEF n
    <3>6. outQueue[1].level \in BOOLEAN
      BY <3>3, <3>4
    <3>7. Len(outQueue) # 1 => outQueue[2].due \in Nat
      BY <3>3, <3>5, DelayAssumption
    <3> QED BY <3>1, <3>3, <3>6, <3>7
  <2>2. out' \in BOOLEAN /\ outTimer' \in SUBSET Nat
        /\ outQueue' \in Seq(Change) /\ Len(outQueue') <= Capacity
    BY <1>6, <2>1, ChangeDueEffect, DelayAssumption
  <2>3. UnitTypeOK'
    BY <1>6, <1>t, <2>2, ChangeDueEffect DEF UnitTypeOK
  <2>4. TimedSignalTypeOK'
    BY <1>6, <1>t, ChangeDueEffect DEF TimedSignalTypeOK, MarksOut
  <2>5. GpioTypeOK' /\ PathTypeOK'
    BY <1>6, <1>t, ChangeDueEffect, TypesKept, StableAssumption
       DEF PathTypeOK, SinceOut
  <2> QED BY <2>3, <2>4, <2>5
<1>7. CASE "in" \notin dirty /\ Evaluate
  <2>1. UNCHANGED <<active, age, unitVars>> /\ dirty' = {} /\ pin' = out'
        /\ UNCHANGED <<gpioVars, quiet, busy, clockSet>> /\ SinceOut
    BY <1>7 DEF Evaluate
  <2>2. UnitTypeOK' /\ GpioTypeOK' /\ out' = out
    BY <1>t, <2>1, TypesKept DEF unitVars
  <2>3. TimedSignalTypeOK'
    BY <1>t, <2>1 DEF TimedSignalTypeOK
  <2>4. PathTypeOK'
    BY <1>t, <2>1, <2>2 DEF SinceOut, PathTypeOK, UnitTypeOK
  <2> QED BY <2>2, <2>3, <2>4
<1>8. CASE Tick
  <2>1. inTimer' \in SUBSET Nat /\ outTimer' \in SUBSET Nat
    BY <1>8, <1>t DEF Tick, Left, UnitTypeOK
  <2>2. outQueue' \in Seq(Change) /\ Len(outQueue') <= Capacity
    BY <1>8, <1>t, TickEffect DEF UnitTypeOK
  <2>3. UnitTypeOK'
    BY <1>8, <1>t, <2>1, <2>2 DEF Tick, UnitTypeOK
  <2>4. TimedSignalTypeOK'
    BY <1>8, <1>t, StableAssumption DEF Tick, TimedSignalTypeOK
  <2>5. PathTypeOK'
    BY <1>8, <1>t, StableAssumption, PathAssumption, ResponseType
       DEF Tick, PathTypeOK
  <2> QED BY <1>8, <1>t, <2>3, <2>4, <2>5, TypesKept DEF Tick
<1>9. CASE SetClock
  <2>1. inTimer' \in SUBSET Nat /\ outTimer' \in SUBSET Nat
    BY <1>9, <1>t, PathAssumption DEF SetClock, UnitTypeOK
  <2>2. UnitTypeOK'
    BY <1>9, <1>t, <2>1 DEF SetClock, UnitTypeOK
  <2>3. PathTypeOK'
    BY <1>9, <1>t DEF SetClock, PathTypeOK
  <2> QED BY <1>9, <1>t, <2>2, <2>3, TypesKept DEF SetClock
<1>10. CASE UNCHANGED vars
  BY <1>10, <1>t, TypesKept, PathTypeKept DEF vars
<1> QED BY <1>1, <1>2, <1>3, <1>4, <1>5, <1>6, <1>7, <1>8, <1>9, <1>10
        DEF Next, Updates

-----------------------------------------------------------------------------
(***************************************************************************)
(* From the line to the signal                                             *)
(***************************************************************************)

\* The edges queued by the kernel alternate, and the last one is that of the
\* line.
EdgesAlternate ==
  ~dropped =>
    /\ events # <<>> => events[Len(events)] = line
    /\ \A k \in 1..Len(events) - 1 : events[k + 1] = ~events[k]

\* The level of the line before the edges that are queued.
Base == IF events = <<>> THEN line ELSE ~events[1]

\* Every edge in the queue is a change the signal may still make.  A signal that
\* differs from the level before them lags behind the line until the posted read
\* has run, and is ahead of the edges after it.
Accounted ==
  /\ dropped => unseen = 0
  /\ ~dropped =>
       unseen >= Len(events) + (IF active = Base THEN 0
                                ELSE IF initial THEN 1 ELSE -1)

GpioInv == EdgesAlternate /\ ShowsLine /\ Accounted

\* An input starts with its line unread and no edge.
LEMMA GpioInvInit == Init => GpioInv
<1> SUFFICES ASSUME Init PROVE GpioInv
  OBVIOUS
<1>1. /\ events = <<>> /\ Len(events) = 0
      /\ initial /\ ~dropped /\ active = FALSE
      /\ line \in BOOLEAN
      /\ unseen = IF line THEN 1 ELSE 0
  BY DEF Init, GpioInit, TimedSignalInit
<1>2. EdgesAlternate
  <2>1. ASSUME NEW k \in 1..Len(events) - 1 PROVE FALSE
    <3> DEFINE n == Len(events)
    <3>1. n = 0 /\ k \in 1..n - 1
      BY <1>1
    <3> HIDE DEF n
    <3> QED BY <3>1
  <2> QED BY <1>1, <2>1 DEF EdgesAlternate
<1>3. Base = line
  BY <1>1 DEF Base
<1>4. Accounted
  <2>1. CASE line
    BY <1>1, <1>3, <2>1 DEF Accounted
  <2>2. CASE ~line
    <3>1. active = Base /\ unseen = 0
      BY <1>1, <1>3, <2>2
    <3> QED BY <1>1, <3>1 DEF Accounted
  <2> QED BY <2>1, <2>2
<1> QED BY <1>1, <1>2, <1>4 DEF GpioInv, ShowsLine

\* The line changes: the edge is queued, or dropped.
LEMMA EdgeKeepsGpioInv ==
  ASSUME TypeOK, GpioInv, LineChanges
  PROVE  GpioInv'
<1>1. /\ line \in BOOLEAN
      /\ events \in Seq(BOOLEAN)
      /\ Len(events) \in Nat
      /\ unseen \in Int
  BY LenProperties DEF TypeOK, GpioTypeOK
<1>2. line' = ~line /\ active' = active /\ initial' = initial
  BY DEF LineChanges, Edge, timedSignalVars
<1>3. CASE Len(events) < KernelCapacity
  <2>1. /\ events' = Append(events, ~line)
        /\ dropped' = dropped
        /\ unseen' = IF dropped THEN 0 ELSE unseen + 1
    BY <1>3 DEF LineChanges, Edge
  <2>2. /\ events' \in Seq(BOOLEAN)
        /\ Len(events') = Len(events) + 1
        /\ events' # <<>>
        /\ events'[Len(events')] = ~line
        /\ \A k \in 1..Len(events) : events'[k] = events[k]
    BY <1>1, <2>1, AppendProperties
  <2>3. (events = <<>>) <=> (Len(events) = 0)
    BY <1>1, EmptySeq
  <2>4. EdgesAlternate'
    <3> SUFFICES ASSUME ~dropped, NEW k \in 1..Len(events')-1
                 PROVE  events'[k + 1] = ~events'[k]
      BY <1>2, <2>1, <2>2 DEF EdgesAlternate
    <3>1. CASE k = Len(events)
      <4>1. events'[k + 1] = ~line /\ events'[k] = events[Len(events)]
        BY <1>1, <2>2, <3>1
      <4>2. events # <<>>
        BY <1>1, <2>3, <3>1
      <4> QED BY <2>1, <4>1, <4>2 DEF GpioInv, EdgesAlternate
    <3>2. CASE k # Len(events)
      <4>1. k \in 1..Len(events) - 1 /\ k + 1 \in 1..Len(events)
        BY <1>1, <2>2, <3>2
      <4> QED BY <2>1, <2>2, <4>1 DEF GpioInv, EdgesAlternate
    <3> QED BY <3>1, <3>2
  <2>5. Base' = Base
    <3>1. CASE events = <<>>
      BY <1>1, <2>2, <2>3, <3>1 DEF Base
    <3>2. CASE events # <<>>
      <4>1. 1 \in 1..Len(events)
        BY <1>1, <2>3, <3>2
      <4> QED BY <2>2, <3>2, <4>1 DEF Base
    <3> QED BY <3>1, <3>2
  <2> QED BY <1>1, <1>2, <2>1, <2>2, <2>4, <2>5
          DEF GpioInv, ShowsLine, Accounted
<1>4. CASE ~(Len(events) < KernelCapacity)
  BY <1>4 DEF LineChanges, Edge, GpioInv, EdgesAlternate, ShowsLine, Accounted
<1> QED BY <1>3, <1>4

\* The posted read may set a level that is newer than the edges queued.
LEMMA ReadKeepsGpioInv ==
  ASSUME TypeOK, GpioInv, ReadsLine
  PROVE  GpioInv'
<1>1. /\ initial /\ ~initial'
      /\ UNCHANGED <<line, events, dropped>>
      /\ active' = line
      /\ unseen' = IF active = line \/ dropped THEN unseen ELSE unseen - 1
  BY DEF ReadsLine, InitialRead, Take, SetLevel, timedSignalVars
<1>2. /\ line \in BOOLEAN /\ active \in BOOLEAN
      /\ Len(events) \in Nat
      /\ unseen \in Int
  BY LenProperties DEF TypeOK, GpioTypeOK, TimedSignalTypeOK
<1>3. EdgesAlternate' /\ ShowsLine'
  BY <1>1 DEF GpioInv, EdgesAlternate, ShowsLine
<1>4. Base' = Base /\ Base \in BOOLEAN
  BY <1>1, <1>2 DEF Base
<1>5. CASE dropped
  BY <1>1, <1>3, <1>5 DEF GpioInv, Accounted
<1>6. CASE ~dropped
  <2>1. unseen >= Len(events) + (IF active = Base THEN 0 ELSE 1)
    BY <1>1, <1>6 DEF GpioInv, Accounted
  <2>2. unseen' >= Len(events) + (IF line = Base THEN 0 ELSE -1)
    BY <1>1, <1>2, <1>4, <1>6, <2>1
  <2> QED BY <1>1, <1>3, <1>4, <1>6, <2>2 DEF GpioInv, Accounted
<1> QED BY <1>5, <1>6

\* An edge is read.
LEMMA EventKeepsGpioInv ==
  ASSUME TypeOK, GpioInv, ReadsEvent
  PROVE  GpioInv'
<1> DEFINE h == events[1]
           n == Len(events)
<1>1. /\ events # <<>>
      /\ events' = Tail(events)
      /\ UNCHANGED <<line, dropped, initial>>
      /\ active' = h
      /\ unseen' = IF active = h \/ dropped THEN unseen ELSE unseen - 1
  BY DEF ReadsEvent, OnEvent, Take, SetLevel, timedSignalVars
<1>2. /\ line \in BOOLEAN /\ active \in BOOLEAN
      /\ events \in Seq(BOOLEAN)
      /\ unseen \in Int
  BY DEF TypeOK, GpioTypeOK, TimedSignalTypeOK
<1>3. /\ n \in Nat \ {0}
      /\ h \in BOOLEAN
      /\ events' \in Seq(BOOLEAN)
      /\ Len(events') = n - 1
      /\ \A k \in 1..n - 1 : events'[k] = events[k + 1]
      /\ (events' = <<>>) <=> (n = 1)
  <2>1. n \in Nat \ {0}
    BY <1>1, <1>2, EmptySeq
  <2>2. /\ events' \in Seq(BOOLEAN)
        /\ Len(events') = n - 1
        /\ \A k \in 1..Len(events') : events'[k] = events[k + 1]
    BY <1>1, <1>2, HeadTailProperties
  <2>3. (events' = <<>>) <=> (Len(events') = 0)
    BY <2>2, EmptySeq
  <2>4. h \in BOOLEAN
    BY <1>2, <2>1, ElementOfSeq
  <2> QED BY <2>1, <2>2, <2>3, <2>4
<1>4. CASE dropped
  BY <1>1, <1>4 DEF GpioInv, EdgesAlternate, ShowsLine, Accounted
<1>5. CASE ~dropped
  <2>1. events[n] = line /\ \A k \in 1..n - 1 : events[k + 1] = ~events[k]
    BY <1>1, <1>5 DEF GpioInv, EdgesAlternate
  <2> HIDE DEF n, h
  <2>2. EdgesAlternate'
    <3>1. events' # <<>> => events'[Len(events')] = line
      <4> SUFFICES ASSUME n # 1 PROVE events'[n - 1] = line
        BY <1>3
      <4>1. n - 1 \in 1..n - 1 /\ (n - 1) + 1 = n
        BY <1>3
      <4> QED BY <1>3, <2>1, <4>1
    <3>2. \A k \in 1..Len(events') - 1 : events'[k + 1] = ~events'[k]
      <4> SUFFICES ASSUME NEW k \in 1..(n - 1) - 1
                   PROVE  events'[k + 1] = ~events'[k]
        BY <1>3
      <4>1. k \in 1..n - 1 /\ k + 1 \in 1..n - 1
        BY <1>3
      <4> QED BY <1>3, <2>1, <4>1
    <3> QED BY <1>1, <3>1, <3>2 DEF EdgesAlternate
  <2>3. Base' = h
    <3>1. CASE n = 1
      BY <1>1, <1>3, <2>1, <3>1 DEF Base, n, h
    <3>2. CASE n # 1
      <4>1. 1 \in 1..n - 1
        BY <1>3, <3>2
      <4>2. events'[1] = ~h
        BY <1>3, <2>1, <4>1 DEF h
      <4> QED BY <1>3, <3>2, <4>2 DEF Base
    <3> QED BY <3>1, <3>2
  <2>4. Base = ~h
    BY <1>1 DEF Base, h
  <2>5. unseen' >= n - 1
    <3>1. CASE active = h
      BY <1>1, <1>2, <1>3, <1>5, <2>4, <3>1 DEF GpioInv, Accounted, n
    <3>2. CASE active # h
      BY <1>1, <1>2, <1>3, <1>5, <2>4, <3>2 DEF GpioInv, Accounted, n
    <3> QED BY <3>1, <3>2
  <2>6. ShowsLine'
    BY <1>1, <1>3, <2>1 DEF ShowsLine, n, h
  <2>7. Accounted'
    BY <1>1, <1>3, <1>5, <2>3, <2>5 DEF Accounted
  <2> QED BY <2>2, <2>6, <2>7 DEF GpioInv
<1> QED BY <1>4, <1>5

\* Every step preserves it; the steps of the unit do not touch the input.
LEMMA GpioInvNext == TypeOK /\ TimerRuns /\ GpioInv /\ [Next]_vars => GpioInv'
<1> SUFFICES ASSUME TypeOK, TimerRuns, GpioInv, [Next]_vars PROVE GpioInv'
  OBVIOUS
<1>1. CASE UNCHANGED <<active, line, events, initial, dropped, unseen>>
  BY <1>1 DEF GpioInv, EdgesAlternate, ShowsLine, Accounted, Base
<1>2. CASE Updates
  <2>1. UNCHANGED active
    BY <1>2, UpdatesEffect DEF Update
  <2> QED BY <1>1, <1>2, <2>1, UpdatesEffect DEF gpioVars
<1>3. CASE StopsWaiting
  BY <1>1, <1>3 DEF StopsWaiting, WaitError, timedSignalVars
<1>4. CASE ChangeDue
  BY <1>1, <1>4, ChangeDueEffect DEF gpioVars
<1>5. CASE "in" \notin dirty /\ Evaluate
  BY <1>1, <1>5 DEF Evaluate, gpioVars
<1>6. CASE Tick
  BY <1>1, <1>6 DEF Tick, gpioVars
<1>7. CASE SetClock
  BY <1>1, <1>7 DEF SetClock, gpioVars, timedSignalVars
<1>8. CASE UNCHANGED vars
  BY <1>1, <1>8 DEF vars, gpioVars, timedSignalVars
<1> QED BY <1>2, <1>3, <1>4, <1>5, <1>6, <1>7, <1>8, EdgeKeepsGpioInv,
           ReadKeepsGpioInv, EventKeepsGpioInv DEF Next, Updates

-----------------------------------------------------------------------------
(***************************************************************************)
(* The delayed changes and their timer                                     *)
(***************************************************************************)

LastChange == outQueue[Len(outQueue)]

\* The value computed last is driven, or the last of the changes.
Delivered ==
  lastValueValid =>
    lastValue = IF outQueue = <<>> THEN out ELSE LastChange.level

\* Changes are queued in the order they are due in.
InOrder ==
  \A j, k \in 1..Len(outQueue) : j <= k => outQueue[j].due <= outQueue[k].due

\* The timer expires when the first change is due, and earlier only when changes
\* were dropped.
TimerInTime ==
  ~clockSet => \A r \in outTimer : /\ r <= outQueue[1].due
                                   /\ ~overflowed => r = outQueue[1].due

QueueInv ==
  /\ TimerRuns
  /\ Delay = 0 => outQueue = <<>>
  /\ ~lastValueValid => outQueue = <<>> /\ ~out /\ ~lastValue
  /\ Delivered
  /\ InOrder
  /\ TimerInTime

\* A unit starts without changes.
LEMMA QueueInvInit == Init => QueueInv
BY DEF Init, UnitInit, QueueInv, TimerRuns, Delivered, InOrder, TimerInTime

\* What an update does to the queue: nothing, or one change more.
LEMMA UpdateEffect ==
  ASSUME TypeOK, NEW pending \in SUBSET inTimer, Update(pending),
         NEW result, result = (GetLevel /\ (Raw => active))
  PROVE  /\ lastValueValid' = TRUE
         /\ lastValue' = result
         /\ result \in BOOLEAN
         /\ \/ /\ UNCHANGED <<outQueue, outTimer, overflowed>>
               /\ lastValueValid /\ lastValue = result /\ out' = out
            \/ /\ UNCHANGED <<outQueue, outTimer, overflowed>>
               /\ ~lastValueValid \/ lastValue # result
               /\ Delay = 0 /\ out' = result
            \/ /\ ~lastValueValid \/ lastValue # result
               /\ Delay > 0
               /\ out' = out
               /\ outQueue' = PushBack(outQueue, [level |-> result,
                                                  due |-> Delay])
               /\ outTimer' = IF Len(outQueue') = 1 THEN {outQueue'[1].due}
                                                    ELSE outTimer
               /\ overflowed' = (overflowed \/ Len(outQueue) = Capacity)
<1>1. result \in BOOLEAN
  BY DEF GetLevel, TypeOK, UnitTypeOK, TimedSignalTypeOK
<1>2. lastValueValid' = TRUE /\ lastValue' = result
  BY DEF Update
<1> DEFINE changed == ~lastValueValid \/ lastValue # result
<1>3. CASE ~changed
  BY <1>1, <1>2, <1>3 DEF Update
<1>4. CASE changed /\ ~(Delay > 0)
  BY <1>1, <1>2, <1>4, DelayAssumption DEF Update
<1>5. CASE changed /\ Delay > 0
  <2>1. Enqueue(result) /\ out' = out
    BY <1>5 DEF Update
  <2>2. outTimer' = IF Len(outQueue') = 1 THEN {Head(outQueue').due} ELSE outTimer
    BY <2>1 DEF Enqueue
  <2>3. [level |-> result, due |-> Delay] \in Change
    BY <1>1, DelayAssumption DEF Change
  <2>4. outQueue' \in Seq(Change) /\ Len(outQueue') \in 1..Capacity
    BY <2>1, <2>3, PushBackProperties DEF Enqueue, TypeOK, UnitTypeOK
  <2>5. Len(outQueue') = 1 => Head(outQueue') = outQueue'[1]
    BY <2>4
  <2> QED BY <1>1, <1>2, <1>5, <2>1, <2>2, <2>5 DEF Enqueue
<1> QED BY <1>3, <1>4, <1>5

\* What a push leaves of the queue, in terms of TypeOK.
LEMMA QueueGrows ==
  ASSUME TypeOK, NEW l \in BOOLEAN,
         outQueue' = PushBack(outQueue, [level |-> l, due |-> Delay])
  PROVE  /\ Len(outQueue) \in 0..Capacity
         /\ Len(outQueue') \in 1..Capacity
         /\ outQueue' # <<>>
         /\ LastChange' = [level |-> l, due |-> Delay]
         /\ Len(outQueue) < Capacity =>
              /\ Len(outQueue') = Len(outQueue) + 1
              /\ \A k \in 1..Len(outQueue) : outQueue'[k] = outQueue[k]
         /\ Len(outQueue) = Capacity =>
              /\ Len(outQueue') = Len(outQueue)
              /\ \A k \in 1..Len(outQueue) - 1 : outQueue'[k] = outQueue[k + 1]
<1>1. /\ outQueue \in Seq(Change) /\ Len(outQueue) <= Capacity
      /\ Len(outQueue) \in Nat
  BY LenProperties DEF TypeOK, UnitTypeOK
<1> DEFINE e == [level |-> l, due |-> Delay]
<1>2. e \in Change
  BY DelayAssumption DEF Change
<1> HIDE DEF e
<1>3. /\ outQueue' \in Seq(Change)
      /\ Len(outQueue') \in 1..Capacity
      /\ outQueue'[Len(outQueue')] = e
      /\ Len(outQueue) < Capacity =>
           /\ Len(outQueue') = Len(outQueue) + 1
           /\ \A k \in 1..Len(outQueue) : outQueue'[k] = outQueue[k]
      /\ Len(outQueue) = Capacity =>
           /\ Len(outQueue') = Len(outQueue)
           /\ \A k \in 1..Len(outQueue) - 1 : outQueue'[k] = outQueue[k + 1]
  BY <1>1, <1>2, PushBackProperties DEF e
<1>4. outQueue' # <<>>
  BY <1>3, EmptySeq
<1>5. LastChange' = e
  BY <1>3 DEF LastChange
<1>6. Len(outQueue) \in 0..Capacity
  BY <1>1, DelayAssumption
<1> QED BY <1>3, <1>4, <1>5, <1>6 DEF e

\* An update appends what it computed, and starts the timer if it runs for
\* nothing.
LEMMA UpdateKeepsQueueInv ==
  ASSUME TypeOK, QueueInv, NEW pending \in SUBSET inTimer, Update(pending),
         UNCHANGED clockSet
  PROVE  QueueInv'
<1> DEFINE result == GetLevel /\ (Raw => active)
           n == Len(outQueue)
<1>1. /\ outQueue \in Seq(Change) /\ n \in Nat
      /\ (outQueue = <<>>) <=> (n = 0)
      /\ \A k \in 1..n : outQueue[k].due \in 0..Delay
      /\ outTimer \subseteq Nat
  BY QueueElements DEF TypeOK, UnitTypeOK
<1>2. lastValueValid' = TRUE /\ lastValue' = result /\ result \in BOOLEAN
  BY UpdateEffect
<1>3. CASE UNCHANGED <<outQueue, outTimer, overflowed>>
  <2>1. Delivered'
    <3>1. \/ lastValueValid /\ lastValue = result /\ out' = out
          \/ Delay = 0 /\ out' = result
          \/ /\ out' = out
             /\ outQueue' = PushBack(outQueue, [level |-> result, due |-> Delay])
      BY UpdateEffect
    <3>2. CASE lastValueValid /\ lastValue = result /\ out' = out
      BY <1>2, <1>3, <3>2 DEF QueueInv, Delivered, LastChange
    <3>3. CASE Delay = 0 /\ out' = result
      BY <1>2, <1>3, <3>3 DEF QueueInv, Delivered
    <3>4. CASE outQueue' = PushBack(outQueue, [level |-> result, due |-> Delay])
      <4>1. /\ outQueue' # <<>>
            /\ LastChange' = [level |-> result, due |-> Delay]
        BY <1>2, <3>4, QueueGrows
      <4> QED BY <1>2, <4>1 DEF Delivered
    <3> QED BY <3>1, <3>2, <3>3, <3>4
  <2> QED BY <1>2, <1>3, <2>1 DEF QueueInv, TimerRuns, InOrder, TimerInTime
<1>4. CASE ~UNCHANGED <<outQueue, outTimer, overflowed>>
  <2>1. /\ Delay > 0
        /\ outQueue' = PushBack(outQueue, [level |-> result, due |-> Delay])
        /\ outTimer' = IF Len(outQueue') = 1 THEN {outQueue'[1].due} ELSE outTimer
        /\ overflowed' = (overflowed \/ n = Capacity)
    BY <1>4, UpdateEffect
  <2>2. /\ n \in 0..Capacity
        /\ Len(outQueue') \in 1..Capacity
        /\ outQueue' # <<>>
        /\ LastChange' = [level |-> result, due |-> Delay]
        /\ n < Capacity =>
             /\ Len(outQueue') = n + 1
             /\ \A k \in 1..n : outQueue'[k] = outQueue[k]
        /\ n = Capacity =>
             /\ Len(outQueue') = n
             /\ \A k \in 1..n - 1 : outQueue'[k] = outQueue[k + 1]
    BY <1>2, <2>1, QueueGrows
  <2> HIDE DEF n, result
  <2>3. Delivered'
    BY <1>2, <2>2 DEF Delivered
  <2>4. Capacity \in Nat \ {0, 1} /\ Delay \in Nat
    BY DelayAssumption
  <2>5. outQueue'[Len(outQueue')].due = Delay
    BY <2>2 DEF LastChange
  <2>6. InOrder'
    <3> SUFFICES ASSUME NEW j \in 1..Len(outQueue'), NEW k \in 1..Len(outQueue'),
                        j <= k
                 PROVE  outQueue'[j].due <= outQueue'[k].due
      BY DEF InOrder
    <3>1. CASE n < Capacity
      <4>1. CASE k <= n
        BY <1>1, <2>2, <3>1, <4>1 DEF QueueInv, InOrder, n
      <4>2. CASE k = n + 1 /\ j <= n
        <5>1. j \in 1..n /\ k = Len(outQueue')
          BY <1>1, <2>2, <3>1, <4>2
        <5>2. outQueue'[j] = outQueue[j] /\ outQueue[j].due \in 0..Delay
          BY <1>1, <2>2, <3>1, <5>1
        <5> QED BY <2>4, <2>5, <5>1, <5>2
      <4>3. CASE j = k
        <5>1. outQueue'[k].due \in 0..Delay
          <6>1. CASE k = Len(outQueue')
            BY <2>4, <2>5, <6>1
          <6>2. CASE k # Len(outQueue')
            <7>1. k \in 1..n
              BY <1>1, <2>2, <3>1, <6>2
            <7> QED BY <1>1, <2>2, <3>1, <7>1
          <6> QED BY <6>1, <6>2
        <5> QED BY <2>4, <4>3, <5>1
      <4> QED BY <1>1, <2>2, <3>1, <4>1, <4>2, <4>3
    <3>2. CASE n = Capacity
      <4>1. CASE k < n
        <5>1. /\ j \in 1..n - 1 /\ k \in 1..n - 1
              /\ j + 1 \in 1..n /\ k + 1 \in 1..n /\ j + 1 <= k + 1
          BY <1>1, <2>2, <3>2, <4>1
        <5> QED BY <2>2, <3>2, <5>1 DEF QueueInv, InOrder, n
      <4>2. CASE k = n /\ j < n
        <5>1. j \in 1..n - 1 /\ j + 1 \in 1..n /\ k = Len(outQueue')
          BY <1>1, <2>2, <3>2, <4>2
        <5>2. outQueue'[j] = outQueue[j + 1] /\ outQueue[j + 1].due \in 0..Delay
          BY <1>1, <2>2, <3>2, <5>1
        <5> QED BY <2>4, <2>5, <5>1, <5>2
      <4>3. CASE j = k
        <5>1. outQueue'[k].due \in 0..Delay
          <6>1. CASE k = n
            BY <2>2, <2>4, <2>5, <3>2, <6>1
          <6>2. CASE k # n
            <7>1. k \in 1..n - 1 /\ k + 1 \in 1..n
              BY <1>1, <2>2, <3>2, <6>2
            <7> QED BY <1>1, <2>2, <3>2, <7>1
          <6> QED BY <6>1, <6>2
        <5> QED BY <2>4, <4>3, <5>1
      <4> QED BY <1>1, <2>2, <3>2, <4>1, <4>2, <4>3
    <3> QED BY <1>1, <2>2, <2>4, <3>1, <3>2
  <2>7. TimerRuns' /\ TimerInTime'
    <3>1. CASE Len(outQueue') = 1
      <4>1. outTimer' = {Delay} /\ outQueue'[1].due = Delay
        BY <2>1, <2>5, <3>1
      <4> QED BY <2>2, <2>4, <4>1 DEF TimerRuns, TimerInTime
    <3>2. CASE Len(outQueue') # 1
      <4>1. outTimer' = outTimer /\ n # 0
        <5>1. n = 0 => n < Capacity /\ n + 1 = 1
          BY <2>4
        <5> QED BY <2>1, <2>2, <3>2, <5>1
      <4>2. TimerRuns'
        BY <1>1, <2>2, <4>1 DEF QueueInv, TimerRuns
      <4>3. 1 \in 1..n
        BY <1>1, <4>1
      <4>4. CASE n < Capacity
        BY <2>1, <2>2, <4>1, <4>2, <4>3, <4>4 DEF QueueInv, TimerInTime
      <4>5. CASE n = Capacity
        <5>1. /\ outQueue'[1] = outQueue[2]
              /\ outQueue[1].due <= outQueue[2].due
              /\ overflowed'
          <6>1. 1 \in 1..n - 1 /\ 2 \in 1..n
            BY <2>4, <4>5
          <6>2. outQueue'[1] = outQueue[2]
            <7>1. \A k \in 1..n - 1 : outQueue'[k] = outQueue[k + 1]
              BY <2>2, <4>5
            <7>2. outQueue'[1] = outQueue[1 + 1]
              BY <6>1, <7>1
            <7> QED BY <7>2
          <6>3. outQueue[1].due <= outQueue[2].due
            BY <4>3, <6>1 DEF QueueInv, InOrder, n
          <6> QED BY <2>1, <4>5, <6>2, <6>3
        <5>2. outQueue[1].due \in Nat /\ outQueue[2].due \in Nat
          <6>1. 1 \in 1..n /\ 2 \in 1..n
            BY <2>4, <4>5
          <6>2. outQueue[1].due \in 0..Delay /\ outQueue[2].due \in 0..Delay
            BY <1>1, <6>1
          <6> QED BY <2>4, <6>2
        <5>3. ASSUME ~clockSet, NEW r \in outTimer PROVE r <= outQueue[2].due
          <6>1. r <= outQueue[1].due
            BY <5>3 DEF QueueInv, TimerInTime
          <6>2. r \in Nat
            BY <1>1, <5>3
          <6> QED BY <5>1, <5>2, <6>1, <6>2
        <5> QED BY <4>1, <4>2, <5>1, <5>3 DEF TimerInTime
      <4> QED BY <1>1, <2>2, <2>4, <4>4, <4>5
    <3> QED BY <3>1, <3>2
  <2> QED BY <1>2, <2>1, <2>3, <2>6, <2>7 DEF QueueInv
<1> QED BY <1>3, <1>4

\* The change that is due leaves, and the timer is started for the next one.
LEMMA ChangeDueKeepsQueueInv ==
  ASSUME TypeOK, QueueInv, ChangeDue
  PROVE  QueueInv'
<1> DEFINE n == Len(outQueue)
<1>1. /\ 0 \in outTimer
      /\ outQueue # <<>>
      /\ n >= 1
      /\ out' = outQueue[1].level
      /\ outQueue' \in Seq(Change)
      /\ Len(outQueue') = n - 1
      /\ \A k \in 1..Len(outQueue') : outQueue'[k] = outQueue[k + 1]
      /\ outTimer' = IF n = 1 THEN {} ELSE {outQueue[2].due}
      /\ UNCHANGED <<lastValue, lastValueValid, overflowed, clockSet>>
  BY ChangeDueEffect DEF QueueInv
<1>2. /\ outQueue \in Seq(Change) /\ n \in Nat
      /\ \A k \in 1..n : outQueue[k].due \in 0..Delay
      /\ (outQueue' = <<>>) <=> (n = 1)
      /\ Delay \in Nat
  <2>1. /\ outQueue \in Seq(Change) /\ n \in Nat
        /\ \A k \in 1..n : outQueue[k].due \in 0..Delay
    BY QueueElements DEF TypeOK, UnitTypeOK
  <2>2. (outQueue' = <<>>) <=> (Len(outQueue') = 0)
    BY <1>1, EmptySeq
  <2> QED BY <1>1, <2>1, <2>2, DelayAssumption
<1>3. lastValueValid
  BY <1>1 DEF QueueInv
<1> HIDE DEF n
<1>4. CASE n = 1
  <2>1. outQueue' = <<>> /\ outTimer' = {}
    BY <1>1, <1>2, <1>4
  <2>2. lastValue = outQueue[1].level
    BY <1>1, <1>3, <1>4 DEF QueueInv, Delivered, LastChange, n
  <2>3. InOrder'
    <3> SUFFICES ASSUME NEW j \in 1..Len(outQueue') PROVE FALSE
      BY DEF InOrder
    <3> QED BY <1>1, <1>4
  <2> QED BY <1>1, <1>3, <2>1, <2>2, <2>3
          DEF QueueInv, TimerRuns, Delivered, TimerInTime
<1>5. CASE n # 1
  <2>1. outQueue' # <<>> /\ n - 1 \in 1..n - 1 /\ 1 \in 1..n - 1 /\ 2 \in 1..n
    BY <1>1, <1>2, <1>5
  <2>2. \A k \in 1..n - 1 : k + 1 \in 1..n /\ outQueue'[k] = outQueue[k + 1]
    BY <1>1, <1>2
  <2>3. LastChange' = LastChange
    <3>1. outQueue'[n - 1] = outQueue[(n - 1) + 1] /\ (n - 1) + 1 = n
      BY <1>2, <2>1, <2>2
    <3> QED BY <1>1, <3>1 DEF LastChange, n
  <2>4. Delivered'
    BY <1>1, <1>3, <2>1, <2>3 DEF QueueInv, Delivered
  <2>5. InOrder'
    <3> SUFFICES ASSUME NEW j \in 1..n - 1, NEW k \in 1..n - 1, j <= k
                 PROVE  outQueue'[j].due <= outQueue'[k].due
      BY <1>1 DEF InOrder
    <3>1. j + 1 \in 1..n /\ k + 1 \in 1..n /\ j + 1 <= k + 1
      BY <1>2
    <3>2. outQueue[j + 1].due <= outQueue[k + 1].due
      BY <3>1 DEF QueueInv, InOrder, n
    <3> QED BY <2>2, <3>2
  <2>6. TimerRuns' /\ TimerInTime'
    <3>1. outQueue'[1] = outQueue[2]
      <4>1. outQueue'[1] = outQueue[1 + 1]
        BY <2>1, <2>2
      <4> QED BY <4>1
    <3>2. outQueue[2].due \in Nat
      <4>1. outQueue[2].due \in 0..Delay
        BY <1>2, <2>1
      <4> QED BY <1>2, <4>1
    <3>3. outTimer' = {outQueue'[1].due}
      BY <1>1, <1>5, <3>1
    <3>4. outQueue'[1].due \in Nat
      BY <3>1, <3>2
    <3>5. outTimer' # {} /\ TimerRuns'
      BY <2>1, <3>3 DEF TimerRuns
    <3>6. \A r \in outTimer' : r = outQueue'[1].due /\ r <= outQueue'[1].due
      BY <3>3, <3>4
    <3> QED BY <3>5, <3>6 DEF TimerInTime
  <2>7. Delay # 0
    BY <1>1 DEF QueueInv
  <2> QED BY <1>1, <1>3, <2>4, <2>5, <2>6, <2>7 DEF QueueInv
<1> QED BY <1>4, <1>5

\* The timer and the changes come closer together.
LEMMA TickKeepsQueueInv ==
  ASSUME TypeOK, QueueInv, Tick
  PROVE  QueueInv'
<1> DEFINE n == Len(outQueue)
<1>1. /\ UNCHANGED <<lastValue, lastValueValid, out, overflowed, clockSet>>
      /\ outTimer' = {Left(r) : r \in outTimer}
  BY DEF Tick
<1>2. /\ n \in Nat
      /\ (outQueue = <<>>) <=> (n = 0)
      /\ \A k \in 1..n : outQueue[k].due \in 0..Delay
      /\ outTimer \subseteq Nat
      /\ Delay \in Nat
  BY QueueElements, DelayAssumption DEF TypeOK, UnitTypeOK
<1>3. /\ Len(outQueue') = n
      /\ (outQueue' = <<>>) <=> (outQueue = <<>>)
      /\ \A k \in 1..n : /\ outQueue'[k].level = outQueue[k].level
                         /\ outQueue'[k].due = Left(outQueue[k].due)
  BY TickEffect
<1> HIDE DEF n
<1>4. Delivered'
  <2>1. outQueue # <<>> => LastChange'.level = LastChange.level
    <3>1. n # 0 => n \in 1..n
      BY <1>2
    <3> QED BY <1>2, <1>3, <3>1 DEF LastChange, n
  <2> QED BY <1>1, <1>3, <2>1 DEF QueueInv, Delivered
<1>5. InOrder'
  <2> SUFFICES ASSUME NEW j \in 1..n, NEW k \in 1..n, j <= k
               PROVE  outQueue'[j].due <= outQueue'[k].due
    BY <1>3 DEF InOrder
  <2>1. outQueue[j].due <= outQueue[k].due
    BY DEF QueueInv, InOrder, n
  <2>2. outQueue[j].due \in 0..Delay /\ outQueue[k].due \in 0..Delay
    BY <1>2
  <2>3. Left(outQueue[j].due) <= Left(outQueue[k].due)
    BY <1>2, <2>1, <2>2 DEF Left
  <2> QED BY <1>3, <2>3
<1>6. TimerRuns'
  BY <1>1, <1>3 DEF QueueInv, TimerRuns
<1>7. TimerInTime'
  <2> SUFFICES ASSUME ~clockSet, NEW r \in outTimer
               PROVE  /\ Left(r) <= outQueue'[1].due
                      /\ ~overflowed => Left(r) = outQueue'[1].due
    BY <1>1 DEF TimerInTime
  <2>1. /\ r \in Nat
        /\ r <= outQueue[1].due
        /\ ~overflowed => r = outQueue[1].due
    BY <1>2 DEF QueueInv, TimerInTime
  <2>2. 1 \in 1..n
    BY <1>2 DEF QueueInv, TimerRuns
  <2>3. outQueue[1].due \in 0..Delay /\ outQueue'[1].due = Left(outQueue[1].due)
    BY <1>2, <1>3, <2>2
  <2> QED BY <1>2, <2>1, <2>3 DEF Left
<1> QED BY <1>1, <1>3, <1>4, <1>5, <1>6, <1>7 DEF QueueInv

\* Every step preserves it; setting the clock frees the timers.
LEMMA QueueInvNext == TypeOK /\ QueueInv /\ [Next]_vars => QueueInv'
<1> SUFFICES ASSUME TypeOK, QueueInv, [Next]_vars PROVE QueueInv'
  OBVIOUS
<1>1. CASE UNCHANGED unitVars /\ UNCHANGED clockSet
  BY <1>1 DEF unitVars, QueueInv, TimerRuns, Delivered, InOrder, TimerInTime,
              LastChange
<1>2. CASE Updates
  BY <1>2, UpdatesEffect, UpdateKeepsQueueInv
<1>3. CASE LineChanges
  BY <1>1, <1>3 DEF LineChanges
<1>4. CASE ReadsLine \/ ReadsEvent \/ StopsWaiting
  BY <1>1, <1>4 DEF ReadsLine, ReadsEvent, StopsWaiting, pathVars
<1>5. CASE "in" \notin dirty /\ Evaluate
  BY <1>1, <1>5 DEF Evaluate
<1>6. CASE SetClock
  <2>1. /\ UNCHANGED <<lastValue, lastValueValid, outQueue, out, overflowed>>
        /\ clockSet'
        /\ (outTimer' = {}) <=> (outTimer = {})
    BY <1>6 DEF SetClock
  <2> QED BY <2>1 DEF QueueInv, TimerRuns, Delivered, InOrder, TimerInTime,
                      LastChange
<1>7. CASE UNCHANGED vars
  BY <1>1, <1>7 DEF vars, pathVars
<1> QED BY <1>2, <1>3, <1>4, <1>5, <1>6, <1>7, ChangeDueKeepsQueueInv,
           TickKeepsQueueInv DEF Next, Updates

\* What becomes of the last change when the first one is applied.
LEMMA LastChangeKept ==
  ASSUME TypeOK, TimerRuns, ChangeDue
  PROVE  /\ LastChange \in Change
         /\ Len(outQueue) = 1 => outQueue' = <<>>
         /\ Len(outQueue) # 1 => outQueue' # <<>> /\ LastChange' = LastChange
<1> DEFINE n == Len(outQueue)
<1>1. /\ n >= 1
      /\ outQueue' \in Seq(Change)
      /\ Len(outQueue') = n - 1
      /\ \A k \in 1..n - 1 : outQueue'[k] = outQueue[k + 1]
  BY ChangeDueEffect
<1>2. n \in Nat /\ \A k \in 1..n : outQueue[k] \in Change
  BY QueueElements DEF TypeOK, UnitTypeOK
<1>3. (outQueue' = <<>>) <=> (Len(outQueue') = 0)
  BY <1>1, EmptySeq
<1> HIDE DEF n
<1>4. n \in 1..n
  BY <1>1, <1>2
<1>5. n # 1 => LastChange' = LastChange
  <2> SUFFICES ASSUME n # 1 PROVE LastChange' = LastChange
    OBVIOUS
  <2>1. n - 1 \in 1..n - 1 /\ (n - 1) + 1 = n
    BY <1>1, <1>2
  <2>2. outQueue'[n - 1] = outQueue[(n - 1) + 1]
    BY <1>1, <2>1
  <2> QED BY <1>1, <2>1, <2>2 DEF LastChange, n
<1>6. (n = 1) <=> (Len(outQueue') = 0)
  BY <1>1, <1>2
<1> QED BY <1>2, <1>3, <1>4, <1>5, <1>6 DEF LastChange, n

\* What becomes of it when time passes.
LEMMA LastChangeAges ==
  ASSUME TypeOK, Tick, outQueue # <<>>
  PROVE  /\ outQueue' # <<>>
         /\ LastChange \in Change
         /\ LastChange'.level = LastChange.level
         /\ LastChange'.due = Left(LastChange.due)
<1> DEFINE n == Len(outQueue)
<1>1. n \in Nat /\ n # 0 /\ \A k \in 1..n : outQueue[k] \in Change
  BY QueueElements DEF TypeOK, UnitTypeOK
<1>2. /\ Len(outQueue') = n
      /\ outQueue' # <<>>
      /\ \A k \in 1..n : /\ outQueue'[k].level = outQueue[k].level
                         /\ outQueue'[k].due = Left(outQueue[k].due)
  BY TickEffect
<1> HIDE DEF n
<1>3. n \in 1..n
  BY <1>1
<1> QED BY <1>1, <1>2, <1>3 DEF LastChange, n

-----------------------------------------------------------------------------
(***************************************************************************)
(* The time a level takes                                                  *)
(***************************************************************************)

\* The unit has not computed the level its signal has.
Behind == first \/ "in" \in dirty \/ ~lastValueValid \/ lastValue # active

\* A unit that was updated has its timer running until its input is stable, or
\* agrees with it; a pin that differs is written by an evaluation on its way.
Served ==
  /\ ~clockSet /\ ~first /\ "in" \notin dirty =>
       /\ lastValueValid
       /\ age < Stable => Stable - age \in inTimer
       /\ age = Stable /\ lastValue # active => 0 \in inTimer
  /\ "out" \notin dirty => pin = out

\* A unit starts with its first update posted, a pin with an evaluation to
\* come.
LEMMA ServedInit == Init => Served
BY DEF Init, TimedSignalInit, Served

\* An update serves the unit.
LEMMA UpdateServes ==
  ASSUME TypeOK, NEW pending \in SUBSET inTimer, Update(pending)
  PROVE  /\ lastValueValid'
         /\ age < Stable => Stable - age \in inTimer'
         /\ age = Stable => lastValue' = active
         /\ age' = age /\ active' = active
<1>1. age \in 0..Stable /\ Stable \in Nat /\ active \in BOOLEAN
  BY StableAssumption DEF TypeOK, TimedSignalTypeOK
<1>2. /\ lastValueValid' = TRUE
      /\ lastValue' = (GetLevel /\ (Raw => active))
      /\ Rearm(pending)
      /\ age' = age /\ active' = active
  BY DEF Update
<1>3. age < Stable => Stable - age \in inTimer'
  BY <1>1, <1>2 DEF Rearm
<1>4. age = Stable => lastValue' = active
  <2> SUFFICES ASSUME age = Stable PROVE lastValue' = active
    OBVIOUS
  <2>1. GetLevel = active
    BY <1>1 DEF GetLevel
  <2> QED BY <1>1, <1>2, <2>1
<1> QED BY <1>2, <1>3, <1>4

\* Every step keeps it, unless it sets the clock.
LEMMA ServedNext == TypeOK /\ QueueInv /\ Served /\ [Next]_vars => Served'
<1> SUFFICES ASSUME TypeOK, QueueInv, Served, [Next]_vars PROVE Served'
  OBVIOUS
<1>1. CASE /\ UNCHANGED <<timedSignalVars, unitVars, pin, clockSet>>
  BY <1>1 DEF timedSignalVars, unitVars, Served
<1>2. CASE \E l \in BOOLEAN : Take(l) /\ UNCHANGED <<unitVars, pathVars>>
  <2>1. CASE UNCHANGED timedSignalVars
    BY <1>1, <1>2, <2>1 DEF pathVars
  <2>2. CASE dirty' = dirty \cup {"in"}
    BY <1>2, <2>2 DEF Served, unitVars, pathVars
  <2> QED BY <1>2, <2>1, <2>2 DEF Take, SetLevel
<1>3. CASE Updates
  <2>1. PICK pending \in SUBSET inTimer : Update(pending)
    BY <1>3, UpdatesEffect
  <2>2. /\ lastValueValid'
        /\ age' < Stable => Stable - age' \in inTimer'
        /\ age' = Stable => lastValue' = active'
    BY <2>1, UpdateServes
  <2>3. "out" \notin dirty' => pin' = out'
    <3>1. CASE MarksOut /\ pin' = pin
      BY <3>1 DEF MarksOut, Served
    <3>2. CASE pin' = out'
      BY <3>2
    <3> QED BY <1>3, <3>1, <3>2
            DEF Updates, StartsUnit, InputSettles, FirstUpdate, InputTimer,
                Evaluate
  <2> QED BY <2>2, <2>3 DEF Served
<1>4. CASE ChangeDue
  <2>1. /\ ("in" \in dirty') <=> ("in" \in dirty)
        /\ "out" \notin dirty' => "out" \notin dirty /\ out' = out
    BY <1>4, ChangeDueEffect DEF QueueInv, MarksOut
  <2>2. UNCHANGED <<active, age, first, inTimer, lastValue, lastValueValid, pin,
                    clockSet>>
    BY <1>4, ChangeDueEffect DEF QueueInv
  <2> QED BY <2>1, <2>2 DEF Served
<1>5. CASE "in" \notin dirty /\ Evaluate
  BY <1>5 DEF Evaluate, unitVars, Served
<1>6. CASE Tick
  <2>1. /\ UNCHANGED <<active, dirty, first, lastValue, lastValueValid, out, pin,
                       clockSet>>
        /\ age' = IF age < Stable THEN age + 1 ELSE age
        /\ inTimer' = {Left(r) : r \in inTimer}
    BY <1>6 DEF Tick
  <2>2. age \in 0..Stable /\ Stable \in Nat
    BY StableAssumption DEF TypeOK, TimedSignalTypeOK
  <2>3. ASSUME age < Stable, Stable - age \in inTimer
        PROVE  Stable - age' \in inTimer'
    <3>1. Left(Stable - age) = Stable - age'
      BY <2>1, <2>2, <2>3 DEF Left
    <3>2. Left(Stable - age) \in inTimer'
      BY <2>1, <2>3
    <3> QED BY <3>1, <3>2
  <2>4. 0 \in inTimer => 0 \in inTimer'
    <3>1. Left(0) = 0
      BY DEF Left
    <3> QED BY <2>1, <3>1
  <2>5. CASE age = Stable
    BY <2>1, <2>2, <2>4, <2>5 DEF Served
  <2>6. CASE age < Stable
    <3> SUFFICES ASSUME ~clockSet, ~first, "in" \notin dirty
                 PROVE  /\ lastValueValid'
                        /\ age' < Stable => Stable - age' \in inTimer'
                        /\ age' = Stable => 0 \in inTimer'
      BY <2>1 DEF Served
    <3>1. lastValueValid /\ Stable - age' \in inTimer'
      BY <2>3, <2>6 DEF Served
    <3> QED BY <2>1, <2>2, <3>1
  <2> QED BY <2>2, <2>5, <2>6
<1>7. CASE SetClock
  BY <1>7 DEF SetClock, timedSignalVars, Served
<1>8. CASE ReadsLine \/ ReadsEvent
  <2>1. line \in BOOLEAN /\ (events # <<>> => Head(events) \in BOOLEAN)
    BY HeadTailProperties DEF TypeOK, GpioTypeOK
  <2> QED BY <1>2, <1>8, <2>1 DEF ReadsLine, InitialRead, ReadsEvent, OnEvent
<1>9. CASE LineChanges \/ StopsWaiting
  BY <1>1, <1>9 DEF LineChanges, StopsWaiting, WaitError, pathVars
<1>10. CASE UNCHANGED vars
  BY <1>1, <1>10 DEF vars, pathVars
<1> QED BY <1>3, <1>4, <1>5, <1>6, <1>7, <1>8, <1>9, <1>10 DEF Next, Updates

\* How long ago the line may have changed, by where its level has got to: the
\* edge is not handled; the input is not stable; the unit has not computed it;
\* the change is not due; it is due; the pin is not written.  In the states where
\* the loop has work, busy bounds the time spent in them.
OnTime ==
  waiting /\ ~clockSet =>
    /\ initial \/ events # <<>> => quiet <= busy
    /\ age < Stable => quiet <= age + Lag
    /\ age = Stable /\ Behind => quiet <= Stable + Lag + busy
    /\ outQueue # <<>> =>
         quiet <= Stable + 2 * Lag + (Delay - LastChange.due)
                  + (IF LastChange.due = 0 THEN busy ELSE 0)
    /\ outQueue = <<>> /\ pin # out => quiet <= Stable + 2 * Lag + Delay + busy

\* The types of the numbers the bounds are about.
LEMMA TimeTypes ==
  ASSUME TypeOK
  PROVE  /\ Stable \in Nat \ {0} /\ Delay \in Nat /\ Lag \in Nat
         /\ age \in 0..Stable
         /\ busy \in 0..Lag
         /\ quiet \in Nat
         /\ outQueue # <<>> => LastChange \in Change /\ LastChange.due \in 0..Delay
<1>1. outQueue # <<>> => LastChange \in Change /\ LastChange.due \in 0..Delay
  <2> SUFFICES ASSUME outQueue # <<>>
               PROVE  LastChange \in Change /\ LastChange.due \in 0..Delay
    OBVIOUS
  <2> DEFINE n == Len(outQueue)
  <2>1. /\ n \in Nat /\ n # 0
        /\ \A k \in 1..n : outQueue[k] \in Change /\ outQueue[k].due \in 0..Delay
    BY QueueElements DEF TypeOK, UnitTypeOK
  <2> HIDE DEF n
  <2>2. n \in 1..n
    BY <2>1
  <2> QED BY <2>1, <2>2 DEF LastChange, n
<1> QED BY <1>1, StableAssumption, DelayAssumption, PathAssumption, ResponseType
        DEF TypeOK, TimedSignalTypeOK

\* Right after the line changed, or its edge was handled in time, no bound is hard.
LEMMA SoonIsOnTime == TypeOK /\ quiet <= busy => OnTime
<1> SUFFICES ASSUME TypeOK, quiet <= busy PROVE OnTime
  OBVIOUS
<1>1. /\ quiet <= Lag /\ quiet \in Nat /\ busy \in Nat /\ Lag \in Nat
      /\ Stable \in Nat /\ Delay \in Nat /\ age \in Nat
  BY TimeTypes
<1> DEFINE d == LastChange.due
<1>2. outQueue # <<>> => quiet <= Stable + 2 * Lag + (Delay - d)
                                  + (IF d = 0 THEN busy ELSE 0)
  <2> HIDE DEF d
  <2>1. d \in 0..Delay => quiet <= Stable + 2 * Lag + (Delay - d)
                                   + (IF d = 0 THEN busy ELSE 0)
    BY <1>1
  <2>2. outQueue # <<>> => d \in 0..Delay
    BY TimeTypes DEF d
  <2> QED BY <2>1, <2>2
<1>3. /\ quiet <= age + Lag
      /\ quiet <= Stable + Lag + busy
      /\ quiet <= Stable + 2 * Lag + Delay + busy
  BY <1>1
<1> QED BY <1>2, <1>3 DEF OnTime

\* The same in the next state.
LEMMA SoonIsOnTimeNext == (TypeOK /\ quiet <= busy => OnTime)'
BY SoonIsOnTime, PTL

\* At the start the line has just changed.
LEMMA OnTimeInit == Init /\ TypeOK => OnTime
<1> SUFFICES ASSUME Init, TypeOK PROVE OnTime
  OBVIOUS
<1>1. quiet <= busy
  BY DEF Init
<1> QED BY <1>1, SoonIsOnTime

\* Updates change neither the line nor the time.
LEMMA UpdateOnTime ==
  ASSUME TypeOK, TypeOK', QueueInv, QueueInv', Served, OnTime, Updates
  PROVE  OnTime'
<1> SUFFICES ASSUME waiting, ~clockSet PROVE OnTime'
  BY UpdatesEffect DEF OnTime, gpioVars
<1>1. PICK pending \in SUBSET inTimer : Update(pending)
  BY UpdatesEffect
<1>2. UNCHANGED <<gpioVars, quiet, busy, clockSet, age, active>>
  BY <1>1, UpdatesEffect DEF Update
<1> DEFINE result == GetLevel /\ (Raw => active)
           changed == ~lastValueValid \/ lastValue # result
<1>3. ASSUME changed PROVE quiet <= Stable + Lag + busy
  <2>1. CASE age < Stable
    <3>1. quiet <= age + Lag
      BY <2>1 DEF OnTime
    <3> QED BY <2>1, <3>1, TimeTypes
  <2>2. CASE age = Stable
    <3>1. result = active
      BY <2>2, TimeTypes DEF GetLevel, TypeOK, TimedSignalTypeOK
    <3>2. Behind
      BY <1>3, <3>1 DEF Behind
    <3> QED BY <2>2, <3>2 DEF OnTime
  <2> QED BY <2>1, <2>2, TimeTypes
<1>4. ASSUME age = Stable, Behind' PROVE Behind
  <2>1. lastValueValid' /\ lastValue' = active'
    BY <1>1, <1>4, UpdateServes
  <2>2. first' \/ "in" \in dirty'
    BY <1>4, <2>1 DEF Behind
  <2>3. first \/ "in" \in dirty
    BY <2>2
       DEF Updates, StartsUnit, InputSettles, FirstUpdate, InputTimer, Evaluate,
           MarksOut
  <2> QED BY <2>3 DEF Behind
<1>5. /\ initial' \/ events' # <<>> => quiet' <= busy'
      /\ age' < Stable => quiet' <= age' + Lag
      /\ age' = Stable /\ Behind' => quiet' <= Stable + Lag + busy'
  BY <1>2, <1>4 DEF OnTime, gpioVars
<1>6. pin' = pin \/ pin' = out'
  BY DEF Updates, StartsUnit, InputSettles, Evaluate
<1>7. CASE UNCHANGED <<outQueue, out>>
  <2>1. LastChange' = LastChange
    BY <1>7 DEF LastChange
  <2> QED BY <1>2, <1>5, <1>6, <1>7, <2>1 DEF OnTime
<1>8. CASE changed /\ UNCHANGED outQueue
  <2>1. LastChange' = LastChange
    BY <1>8 DEF LastChange
  <2>2. quiet <= Stable + 2 * Lag + Delay + busy
    BY <1>3, <1>8, TimeTypes
  <2> QED BY <1>2, <1>5, <1>8, <2>1, <2>2 DEF OnTime
<1>9. CASE changed /\ outQueue' = PushBack(outQueue, [level |-> result,
                                                      due |-> Delay])
  <2>1. outQueue' # <<>> /\ LastChange' = [level |-> result, due |-> Delay]
    BY <1>1, <1>9, UpdateEffect, QueueGrows
  <2>2. quiet <= Stable + 2 * Lag + (Delay - Delay)
    BY <1>3, <1>9, TimeTypes
  <2>3. LastChange'.due = Delay
    BY <2>1
  <2>4. quiet' <= Stable + 2 * Lag + (Delay - LastChange'.due)
                  + (IF LastChange'.due = 0 THEN busy' ELSE 0)
    BY <1>2, <2>2, <2>3, TimeTypes
  <2> QED BY <1>2, <1>5, <2>1, <2>4 DEF OnTime
<1> QED BY <1>1, <1>7, <1>8, <1>9, UpdateEffect

\* A change that is due is applied; it may be the last one.
LEMMA ChangeDueOnTime ==
  ASSUME TypeOK, QueueInv, OnTime, ChangeDue
  PROVE  OnTime'
<1> SUFFICES ASSUME waiting, ~clockSet PROVE OnTime'
  BY ChangeDueEffect DEF OnTime, QueueInv, gpioVars
<1>1. /\ outQueue # <<>>
      /\ UNCHANGED <<active, age, first, lastValue, lastValueValid, gpioVars,
                     pin, quiet, busy, clockSet>>
      /\ ("in" \in dirty') <=> ("in" \in dirty)
  BY ChangeDueEffect DEF QueueInv, MarksOut
<1>2. Behind' = Behind
  BY <1>1 DEF Behind
<1>3. /\ initial' \/ events' # <<>> => quiet' <= busy'
      /\ age' < Stable => quiet' <= age' + Lag
      /\ age' = Stable /\ Behind' => quiet' <= Stable + Lag + busy'
  BY <1>1, <1>2 DEF OnTime, gpioVars
<1>4. CASE outQueue' # <<>>
  <2>1. LastChange' = LastChange
    BY <1>4, LastChangeKept DEF QueueInv
  <2> QED BY <1>1, <1>3, <1>4, <2>1 DEF OnTime
<1>5. CASE outQueue' = <<>>
  <2> DEFINE d == LastChange.due
  <2>1. quiet <= Stable + 2 * Lag + (Delay - d) + (IF d = 0 THEN busy ELSE 0)
    BY <1>1 DEF OnTime
  <2>2. d \in 0..Delay
    BY <1>1, TimeTypes
  <2> HIDE DEF d
  <2>3. quiet <= Stable + 2 * Lag + Delay + busy
    BY <2>1, <2>2, TimeTypes
  <2> QED BY <1>1, <1>3, <1>5, <2>3 DEF OnTime
<1> QED BY <1>4, <1>5

\* Time passes.  Where a bound must not grow, the loop has work.
LEMMA TickOnTime ==
  ASSUME TypeOK, QueueInv, Served, OnTime, Tick
  PROVE  OnTime'
<1> SUFFICES ASSUME waiting, ~clockSet PROVE OnTime'
  BY DEF Tick, OnTime, gpioVars
<1>1. /\ UNCHANGED <<active, dirty, first, lastValue, lastValueValid, out, pin,
                     clockSet, gpioVars>>
      /\ age' = IF age < Stable THEN age + 1 ELSE age
      /\ busy' = IF Busy THEN busy + 1 ELSE 0
      /\ quiet' <= quiet + 1 /\ quiet' \in Nat
      /\ busy' \in Nat
  BY TimeTypes DEF Tick
<1>2. initial \/ events # <<>> => Busy
  BY DEF Busy
<1>3. age = Stable /\ Behind => Busy
  BY DEF Busy, Behind, Served
<1>4. pin # out => Busy
  BY DEF Busy, Served
<1>5. outQueue # <<>> /\ LastChange.due = 0 => Busy
  <2> SUFFICES ASSUME outQueue # <<>>, LastChange.due = 0
               PROVE  0 \in outTimer
    BY DEF Busy
  <2> DEFINE n == Len(outQueue)
  <2>1. n \in Nat /\ n # 0 /\ \A k \in 1..n : outQueue[k].due \in 0..Delay
    BY QueueElements DEF TypeOK, UnitTypeOK
  <2> HIDE DEF n
  <2>2. 1 \in 1..n /\ n \in 1..n /\ 1 <= n
    BY <2>1
  <2>3. outQueue[1].due <= outQueue[n].due
    BY <2>2 DEF QueueInv, InOrder, n
  <2>4. outQueue[n].due = 0
    BY DEF LastChange, n
  <2>5. outQueue[1].due = 0
    BY <2>1, <2>2, <2>3, <2>4, TimeTypes
  <2>6. PICK r \in outTimer : TRUE
    BY DEF QueueInv, TimerRuns
  <2>7. r \in Nat /\ r <= 0
    BY <2>5, <2>6 DEF QueueInv, TimerInTime, TypeOK, UnitTypeOK
  <2> QED BY <2>6, <2>7
<1>6. initial' \/ events' # <<>> => quiet' <= busy'
  BY <1>1, <1>2, TimeTypes DEF OnTime, gpioVars
<1>7. age' < Stable => quiet' <= age' + Lag
  BY <1>1, TimeTypes DEF OnTime
<1>8. age' = Stable /\ Behind' => quiet' <= Stable + Lag + busy'
  <2> SUFFICES ASSUME age' = Stable, Behind'
               PROVE  quiet' <= Stable + Lag + busy'
    OBVIOUS
  <2>1. Behind
    BY <1>1 DEF Behind
  <2>2. CASE age < Stable
    BY <1>1, <2>2, TimeTypes DEF OnTime
  <2>3. CASE age = Stable
    BY <1>1, <1>3, <2>1, <2>3, TimeTypes DEF OnTime
  <2> QED BY <2>2, <2>3, TimeTypes
<1>9. outQueue' # <<>> =>
        quiet' <= Stable + 2 * Lag + (Delay - LastChange'.due)
                  + (IF LastChange'.due = 0 THEN busy' ELSE 0)
  <2> SUFFICES ASSUME outQueue' # <<>>
               PROVE  quiet' <= Stable + 2 * Lag + (Delay - LastChange'.due)
                                + (IF LastChange'.due = 0 THEN busy' ELSE 0)
    OBVIOUS
  <2>1. outQueue # <<>>
    BY TickEffect
  <2> DEFINE d == LastChange.due
             e == LastChange'.due
  <2>2. e = Left(d)
    BY <2>1, LastChangeAges
  <2>3. d \in 0..Delay
    BY <2>1, TimeTypes
  <2>4. quiet <= Stable + 2 * Lag + (Delay - d) + (IF d = 0 THEN busy ELSE 0)
    BY <2>1 DEF OnTime
  <2>5. d = 0 => Busy
    BY <1>5, <2>1
  <2> HIDE DEF d, e
  <2>6. quiet' <= Stable + 2 * Lag + (Delay - e) + (IF e = 0 THEN busy' ELSE 0)
    <3>1. CASE d = 0
      BY <1>1, <2>2, <2>4, <2>5, <3>1, TimeTypes DEF Left
    <3>2. CASE d > 0
      <4>1. e = d - 1 /\ e \in Nat
        BY <2>2, <2>3, <3>2, TimeTypes DEF Left
      <4>2. quiet + 1 <= Stable + 2 * Lag + (Delay - e)
        BY <2>3, <2>4, <3>2, <4>1, TimeTypes
      <4>3. quiet' <= quiet + 1 /\ quiet' \in Nat /\ busy' \in Nat
        BY <1>1
      <4> QED BY <4>1, <4>2, <4>3, TimeTypes
    <3> QED BY <2>3, <3>1, <3>2, TimeTypes
  <2> QED BY <2>6 DEF e
<1>10. outQueue' = <<>> /\ pin' # out' =>
         quiet' <= Stable + 2 * Lag + Delay + busy'
  <2> SUFFICES ASSUME outQueue' = <<>>, pin' # out'
               PROVE  quiet' <= Stable + 2 * Lag + Delay + busy'
    OBVIOUS
  <2>1. outQueue = <<>> /\ pin # out
    BY <1>1, TickEffect
  <2>2. Busy /\ quiet <= Stable + 2 * Lag + Delay + busy
    BY <1>4, <2>1 DEF OnTime
  <2> QED BY <1>1, <2>2, TimeTypes
<1> QED BY <1>6, <1>7, <1>8, <1>9, <1>10 DEF OnTime

\* Every step keeps the bounds.
LEMMA OnTimeNext ==
  /\ TypeOK /\ TypeOK' /\ QueueInv /\ QueueInv' /\ Served /\ OnTime
  /\ [Next]_vars
  => OnTime'
<1> SUFFICES ASSUME TypeOK, TypeOK', QueueInv, QueueInv', Served, OnTime,
                    [Next]_vars
             PROVE  OnTime'
  OBVIOUS
<1>1. CASE LineChanges
  <2>1. quiet' = 0
    BY <1>1 DEF LineChanges
  <2>2. quiet' <= busy'
    BY <2>1 DEF TypeOK
  <2> QED BY <2>2, SoonIsOnTimeNext
<1>2. CASE ReadsLine \/ ReadsEvent
  <2>1. /\ waiting' = waiting /\ clockSet' = clockSet
        /\ initial \/ events # <<>>
        /\ quiet' = quiet /\ busy' = busy
    BY <1>2 DEF ReadsLine, InitialRead, ReadsEvent, OnEvent, pathVars
  <2>2. CASE waiting /\ ~clockSet
    <3>1. quiet <= busy
      BY <2>1, <2>2 DEF OnTime
    <3> QED BY <2>1, <3>1, SoonIsOnTimeNext
  <2> QED BY <2>1, <2>2 DEF OnTime
<1>3. CASE StopsWaiting
  BY <1>3 DEF StopsWaiting, WaitError, OnTime
<1>4. CASE "in" \notin dirty /\ Evaluate
  <2>1. /\ UNCHANGED <<active, age, unitVars, gpioVars, quiet, busy, clockSet>>
        /\ dirty' = {} /\ pin' = out'
    BY <1>4 DEF Evaluate
  <2>2. Behind' => Behind
    BY <2>1 DEF Behind, unitVars
  <2>3. UNCHANGED <<LastChange, outQueue, out, initial, events, waiting>>
    BY <2>1 DEF LastChange, unitVars, gpioVars
  <2> QED BY <2>1, <2>2, <2>3 DEF OnTime
<1>5. CASE SetClock
  BY <1>5 DEF SetClock, OnTime
<1>6. CASE UNCHANGED vars
  BY <1>6 DEF vars, timedSignalVars, gpioVars, unitVars, pathVars, OnTime,
              Behind, LastChange
<1> QED BY <1>1, <1>2, <1>3, <1>4, <1>5, <1>6, UpdateOnTime, ChangeDueOnTime,
           TickOnTime DEF Next, Updates

-----------------------------------------------------------------------------
(***************************************************************************)
(* The theorems                                                            *)
(***************************************************************************)

IInv == TypeOK /\ GpioInv /\ QueueInv /\ Served /\ OnTime

\* The variables start with their types.
LEMMA TypeInit == Init => TypeOK
<1> SUFFICES ASSUME Init PROVE TypeOK
  OBVIOUS
<1>1. TimedSignalTypeOK
  BY DEF Init, TimedSignalInit, TimedSignalTypeOK
<1>2. GpioTypeOK
  <2>1. events = <<>> /\ <<>> \in Seq(BOOLEAN) /\ Len(<<>>) = 0
    BY EmptySeq DEF Init, GpioInit
  <2>2. events \in Seq(BOOLEAN) /\ Len(events) <= KernelCapacity
    BY <2>1, KernelAssumption
  <2>3. unseen \in Int
    BY DEF Init, GpioInit
  <2>4. /\ line \in BOOLEAN /\ initial \in BOOLEAN /\ waiting \in BOOLEAN
        /\ dropped \in BOOLEAN
    BY Zenon DEF Init, GpioInit
  <2> QED BY <2>2, <2>3, <2>4 DEF GpioTypeOK
<1>3. UnitTypeOK
  <2>1. outQueue = <<>> /\ <<>> \in Seq(Change) /\ Len(<<>>) = 0
    BY EmptySeq DEF Init, UnitInit
  <2>2. inTimer \in SUBSET Nat
    BY <1>1, StableAssumption DEF Init, UnitInit, TimedSignalTypeOK
  <2>3. level \in BOOLEAN
    BY DelayAssumption DEF Init, UnitInit, TimedSignalInit
  <2>4. outQueue \in Seq(Change) /\ Len(outQueue) <= Capacity
    BY <2>1, DelayAssumption
  <2>5. /\ first \in BOOLEAN /\ lastValue \in BOOLEAN
        /\ lastValueValid \in BOOLEAN /\ out \in BOOLEAN
        /\ overflowed \in BOOLEAN /\ outTimer \in SUBSET Nat
    BY Zenon DEF Init, UnitInit
  <2> QED BY <2>2, <2>3, <2>4, <2>5 DEF UnitTypeOK
<1>4. quiet \in 0..Response /\ sinceOut \in 0..Stable /\ busy \in 0..Lag
  BY ResponseType, StableAssumption, PathAssumption DEF Init
<1>5. pin \in BOOLEAN /\ clockSet \in BOOLEAN
  BY Zenon DEF Init
<1> QED BY <1>1, <1>2, <1>3, <1>4, <1>5 DEF TypeOK

\* The invariant holds at the start.
LEMMA IInvInit == Init => IInv
BY TypeInit, GpioInvInit, QueueInvInit, ServedInit, OnTimeInit DEF IInv

\* Every step keeps it.
LEMMA IInvNext == IInv /\ [Next]_vars => IInv'
<1> SUFFICES ASSUME IInv, [Next]_vars PROVE IInv'
  OBVIOUS
<1>1. TypeOK /\ GpioInv /\ QueueInv /\ Served /\ OnTime /\ TimerRuns
  BY DEF IInv, QueueInv
<1>2. TypeOK'
  BY <1>1, TypeNext
<1>3. GpioInv' /\ QueueInv' /\ Served'
  BY <1>1, GpioInvNext, QueueInvNext, ServedNext
<1>4. OnTime'
  BY <1>1, <1>2, <1>3, OnTimeNext
<1> QED BY <1>2, <1>3, <1>4 DEF IInv

\* So it always holds.
LEMMA IInvAlways == Spec => []IInv
BY IInvInit, IInvNext, PTL DEF Spec

\* The variables keep their types for every stability time, delay, capacity and
\* lateness of the handlers, whatever the clock is set by.
THEOREM TypeTheorem == Spec => []TypeOK
<1>1. IInv => TypeOK
  BY DEF IInv
<1> QED BY <1>1, IInvAlways, PTL

\* A GPIO input that has run its posted read and handled its edges shows the
\* line, for every capacity of the kernel's queue and every interleaving.
THEOREM LineTheorem == Spec => []ShowsLine
<1>1. IInv => ShowsLine
  BY DEF IInv, GpioInv
<1> QED BY <1>1, IInvAlways, PTL

\* The posted read of a GPIO input and edges older than it never make the signal
\* change more often than the line did.
THEOREM NeverInventsTheorem == Spec => []NeverInvents
<1>1. IInv => NeverInvents
  <2> SUFFICES ASSUME IInv PROVE NeverInvents
    OBVIOUS
  <2>1. /\ events \in Seq(BOOLEAN) /\ Len(events) \in Nat /\ unseen \in Int
        /\ line \in BOOLEAN
    BY LenProperties DEF IInv, TypeOK, GpioTypeOK
  <2>2. CASE dropped
    BY <2>2 DEF IInv, GpioInv, Accounted, NeverInvents
  <2>3. CASE ~dropped /\ events # <<>>
    <3>1. Len(events) >= 1
      BY <2>1, <2>3, EmptySeq
    <3> QED BY <2>1, <2>3, <3>1 DEF IInv, GpioInv, Accounted, NeverInvents
  <2>4. CASE ~dropped /\ events = <<>>
    <3>1. Base = line /\ Len(events) = 0
      BY <2>4, EmptySeq DEF Base
    <3>2. active = Base \/ initial
      BY <2>4, <3>1 DEF IInv, GpioInv, ShowsLine
    <3> QED BY <2>1, <2>4, <3>1, <3>2 DEF IInv, GpioInv, Accounted, NeverInvents
  <2> QED BY <2>2, <2>3, <2>4
<1> QED BY <1>1, IInvAlways, PTL

\* A line that kept its level for the stability time, the delay and three times
\* the lateness of the handlers shows on the pin.
THEOREM ResponseTheorem == Spec => []BoundedResponse
<1>1. IInv => BoundedResponse
  <2> SUFFICES ASSUME IInv, quiet = Response, waiting, ~dropped, ~clockSet
               PROVE  pin = line
    BY DEF BoundedResponse
  <2>1. /\ TypeOK /\ ShowsLine /\ Delivered /\ OnTime
    BY DEF IInv, GpioInv, QueueInv
  <2>2. /\ Stable \in Nat /\ Delay \in Nat /\ Lag \in Nat /\ busy \in 0..Lag
        /\ age \in 0..Stable
        /\ quiet = Stable + Delay + 3 * Lag + 1
    BY <2>1, TimeTypes DEF Response
  <2>3. /\ ~(quiet <= busy)
        /\ ~(quiet <= Stable + Lag + busy)
        /\ ~(quiet <= Stable + 2 * Lag + Delay + busy)
        /\ age < Stable => ~(quiet <= age + Lag)
    BY <2>2
  <2>4. active = line
    BY <2>1, <2>3 DEF OnTime, ShowsLine
  <2>5. age = Stable
    BY <2>1, <2>2, <2>3 DEF OnTime
  <2>6. lastValueValid /\ lastValue = active
    BY <2>1, <2>3, <2>5 DEF OnTime, Behind
  <2>7. outQueue = <<>>
    <3> SUFFICES ASSUME outQueue # <<>> PROVE FALSE
      OBVIOUS
    <3> DEFINE d == LastChange.due
    <3>1. d \in 0..Delay
      BY <2>1, TimeTypes
    <3>2. quiet <= Stable + 2 * Lag + (Delay - d) + (IF d = 0 THEN busy ELSE 0)
      BY <2>1 DEF OnTime
    <3> HIDE DEF d
    <3> QED BY <2>2, <3>1, <3>2
  <2>8. pin = out
    BY <2>1, <2>3, <2>7 DEF OnTime
  <2> QED BY <2>1, <2>4, <2>6, <2>7, <2>8 DEF Delivered
<1> QED BY <1>1, IInvAlways, PTL

\* A delayed change leaves the queue once its time has come and not before, as
\* long as no change was dropped and the clock was not set.
THEOREM DelayTheorem == Spec => DelayKept
<1> DEFINE Kept == \A k \in 1..(Len(outQueue) - Len(outQueue')) :
                     outQueue[k].due = 0
<1>1. IInv /\ [Next]_vars => Kept \/ overflowed \/ clockSet
  <2> SUFFICES ASSUME IInv, [Next]_vars, ~overflowed, ~clockSet PROVE Kept
    OBVIOUS
  <2>1. TypeOK /\ QueueInv /\ TimerRuns /\ TimerInTime
    BY DEF IInv, QueueInv
  <2>2. Len(outQueue) \in Nat /\ outQueue \in Seq(Change)
    BY <2>1, LenProperties DEF TypeOK, UnitTypeOK
  <2>3. ASSUME Len(outQueue') \in Nat, Len(outQueue) <= Len(outQueue')
        PROVE  Kept
    <3>1. \A k \in Nat : k >= 1 => ~(k <= Len(outQueue) - Len(outQueue'))
      BY <2>2, <2>3
    <3> QED BY <3>1, <2>2, <2>3
  <2>4. CASE Updates
    <3>1. PICK pending \in SUBSET inTimer : Update(pending)
      BY <2>4, UpdatesEffect
    <3> DEFINE result == GetLevel /\ (Raw => active)
    <3>2. /\ result \in BOOLEAN
          /\ \/ UNCHANGED outQueue
             \/ outQueue' = PushBack(outQueue, [level |-> result, due |-> Delay])
      BY <2>1, <3>1, UpdateEffect
    <3> HIDE DEF result
    <3>3. CASE UNCHANGED outQueue
      BY <2>2, <2>3, <3>3
    <3>4. CASE outQueue' = PushBack(outQueue, [level |-> result, due |-> Delay])
      <4>1. /\ Len(outQueue) \in 0..Capacity /\ Len(outQueue') \in 1..Capacity
            /\ Len(outQueue) < Capacity => Len(outQueue') = Len(outQueue) + 1
            /\ Len(outQueue) = Capacity => Len(outQueue') = Len(outQueue)
        BY <2>1, <3>2, <3>4, QueueGrows
      <4> QED BY <2>3, <4>1, DelayAssumption
    <3> QED BY <3>2, <3>3, <3>4
  <2>5. CASE ChangeDue
    <3>1. /\ 0 \in outTimer /\ Len(outQueue') = Len(outQueue) - 1
      BY <2>1, <2>5, ChangeDueEffect
    <3>2. outQueue[1].due = 0
      BY <2>1, <3>1 DEF TimerInTime
    <3>3. 1..(Len(outQueue) - Len(outQueue')) = {1}
      BY <2>2, <3>1
    <3> QED BY <3>2, <3>3
  <2>6. CASE Tick
    BY <2>1, <2>2, <2>3, <2>6, TickEffect
  <2>7. CASE UNCHANGED outQueue
    BY <2>2, <2>3, <2>7
  <2>8. UNCHANGED outQueue \/ Updates \/ ChangeDue \/ Tick
    BY DEF Next, Updates, vars, unitVars, LineChanges, ReadsLine, ReadsEvent,
           StopsWaiting, Evaluate, SetClock
  <2> QED BY <2>4, <2>5, <2>6, <2>7, <2>8
<1> QED BY <1>1, IInvAlways, PTL DEF Spec, DelayKept
-----------------------------------------------------------------------------
(***************************************************************************)
(* The shortest low pulse                                                  *)
(*                                                                         *)
(* A rise of the output is the last link of a chain: the input was stable  *)
(* when it was computed, so it came Stable after the input last changed,   *)
(* and the fall before it was computed when the input was low.  The fall   *)
(* is in the queue, or was applied since.  The invariant keeps the         *)
(* distance between the two through every place they may be in.            *)
(***************************************************************************)

\* The case the bound is about: every input of the unit is debounced, no timer
\* was moved, and no change was dropped.
Plain == ~Raw /\ ~clockSet /\ ~overflowed

\* How late a change may be whose time has come.
Late(due) == IF due = 0 THEN busy ELSE 0

\* The change is the one of the first update: the output was low all the time.
Fresh(k) == k = 1 /\ ~out /\ sinceOut = Stable

\* While the unit has low and its input is high, the fall was computed before the
\* input rose: it is in the queue for as long as the input is high at least, or
\* was applied since, the delay after.
RiseFollows ==
  ~lastValue /\ active =>
    IF outQueue = <<>>
    THEN age <= sinceOut + Delay + Lag
    ELSE \/ Fresh(Len(outQueue))
         \/ age + LastChange.due <= Delay + Late(LastChange.due)

\* The rise that is due next keeps the output low for long enough.
NextRiseHolds ==
  outQueue # <<>> /\ outQueue[1].level /\ ~out =>
    sinceOut + outQueue[1].due + Lag >= Stable

\* A rise in the queue is due Stable after the fall before it.
RisesApart ==
  \A k \in 1..Len(outQueue) - 1 :
    ~outQueue[k].level /\ outQueue[k + 1].level =>
      \/ Fresh(k)
      \/ outQueue[k + 1].due + Late(outQueue[k].due) >= outQueue[k].due + Stable

Apart ==
  /\ ~lastValueValid => sinceOut = Stable
  /\ lastValueValid => lastValue = level
  /\ RiseFollows
  /\ NextRiseHolds
  /\ RisesApart

PulseInv == Plain => Apart

\* A step that lets the output rise, rises late enough.
RisesLate == ~out /\ out' => sinceOut >= Stable - Lag

\* The types of the numbers the distances are made of.
LEMMA PulseTypes ==
  ASSUME TypeOK
  PROVE  /\ Stable \in Nat \ {0} /\ Delay \in Nat /\ Lag \in Nat
         /\ age \in 0..Stable /\ sinceOut \in 0..Stable /\ busy \in 0..Lag
         /\ active \in BOOLEAN /\ level \in BOOLEAN /\ lastValue \in BOOLEAN
         /\ lastValueValid \in BOOLEAN /\ out \in BOOLEAN
         /\ Len(outQueue) \in Nat
         /\ (outQueue = <<>>) <=> (Len(outQueue) = 0)
         /\ \A k \in 1..Len(outQueue) : /\ outQueue[k].level \in BOOLEAN
                                         /\ outQueue[k].due \in 0..Delay
<1>1. outQueue \in Seq(Change)
  BY DEF TypeOK, UnitTypeOK
<1>2. /\ Len(outQueue) \in Nat
      /\ (outQueue = <<>>) <=> (Len(outQueue) = 0)
      /\ \A k \in 1..Len(outQueue) : /\ outQueue[k].level \in BOOLEAN
                                      /\ outQueue[k].due \in 0..Delay
  BY <1>1, QueueElements
<1>3. /\ age \in 0..Stable /\ sinceOut \in 0..Stable /\ busy \in 0..Lag
      /\ active \in BOOLEAN /\ level \in BOOLEAN /\ lastValue \in BOOLEAN
      /\ lastValueValid \in BOOLEAN /\ out \in BOOLEAN
  BY DEF TypeOK, UnitTypeOK, TimedSignalTypeOK
<1> QED BY <1>2, <1>3, StableAssumption, DelayAssumption, PathAssumption

\* An output that is low before any update has been low for long.
LEMMA PulseInvInit == Init /\ TypeOK => PulseInv
<1> SUFFICES ASSUME Init, TypeOK PROVE Apart
  BY DEF PulseInv
<1>1. /\ outQueue = <<>> /\ ~lastValueValid /\ sinceOut = Stable
  BY DEF Init, UnitInit
<1>2. RiseFollows
  BY <1>1, PulseTypes DEF RiseFollows
<1>3. RisesApart
  <2>1. ASSUME NEW k \in 1..Len(outQueue) - 1 PROVE FALSE
    <3> DEFINE n == Len(outQueue)
    <3>1. n = 0 /\ k \in 1..n - 1
      BY <1>1
    <3> HIDE DEF n
    <3> QED BY <3>1
  <2> QED BY <2>1 DEF RisesApart
<1> QED BY <1>1, <1>2, <1>3 DEF Apart, NextRiseHolds

\* An update computes a rise from an input that has been stable, and a fall from
\* one that is low.
LEMMA UpdateComputes ==
  ASSUME TypeOK, QueueInv, Plain, Apart,
         NEW pending \in SUBSET inTimer, Update(pending)
  PROVE  /\ level' = lastValue' /\ lastValue' = GetLevel
         /\ ~lastValueValid =>
              sinceOut = Stable /\ outQueue = <<>> /\ ~out /\ ~lastValue
         /\ lastValueValid /\ lastValue # GetLevel =>
              IF GetLevel THEN ~lastValue /\ active /\ age = Stable
                          ELSE ~active
<1>1. level' = GetLevel /\ lastValue' = GetLevel
  <2>1. (GetLevel /\ (Raw => active)) = GetLevel
    BY PulseTypes DEF Plain, GetLevel
  <2> QED BY <2>1 DEF Update
<1>2. lastValueValid /\ lastValue # GetLevel =>
        IF GetLevel THEN ~lastValue /\ active /\ age = Stable
                    ELSE ~active
  <2>1. lastValueValid => lastValue = level
    BY DEF Apart
  <2>2. age >= Stable => age = Stable
    BY PulseTypes
  <2> QED BY <2>1, <2>2, PulseTypes DEF GetLevel
<1> QED BY <1>1, <1>2 DEF Apart, QueueInv

\* An update keeps the distances: what it queues is a rise Stable after the
\* input rose, or a fall.
LEMMA UpdateKeepsPulse ==
  ASSUME TypeOK, TypeOK', QueueInv, Plain, Apart,
         NEW pending \in SUBSET inTimer, Update(pending),
         SinceOut, UNCHANGED <<busy, clockSet>>
  PROVE  PulseInv' /\ RisesLate
<1> DEFINE n == Len(outQueue)
           result == GetLevel
<1>1. /\ level' = lastValue' /\ lastValue' = result /\ lastValueValid' = TRUE
      /\ UNCHANGED <<active, age, busy>>
      /\ ~lastValueValid =>
           sinceOut = Stable /\ outQueue = <<>> /\ ~out /\ ~lastValue
      /\ lastValueValid /\ lastValue # result =>
           IF result THEN ~lastValue /\ active /\ age = Stable
                     ELSE ~active
  BY UpdateComputes DEF Update
<1>2. result = (GetLevel /\ (Raw => active)) /\ result \in BOOLEAN
  BY PulseTypes DEF Plain, GetLevel
<1>3. \/ /\ UNCHANGED <<outQueue, outTimer, overflowed>>
         /\ lastValueValid /\ lastValue = result /\ out' = out
      \/ /\ UNCHANGED <<outQueue, outTimer, overflowed>>
         /\ ~lastValueValid \/ lastValue # result
         /\ Delay = 0 /\ out' = result
      \/ /\ ~lastValueValid \/ lastValue # result
         /\ Delay > 0
         /\ out' = out
         /\ outQueue' = PushBack(outQueue, [level |-> result, due |-> Delay])
         /\ overflowed' = (overflowed \/ Len(outQueue) = Capacity)
  BY <1>2, UpdateEffect
<1>4. RiseFollows /\ NextRiseHolds /\ RisesApart
  BY DEF Apart
<1>5. CASE /\ UNCHANGED <<outQueue, outTimer, overflowed>>
           /\ lastValueValid /\ lastValue = result /\ out' = out
  <2>1. sinceOut' = sinceOut
    BY <1>5 DEF SinceOut
  <2>2. RiseFollows'
    BY <1>1, <1>4, <1>5, <2>1 DEF RiseFollows, Fresh, Late, LastChange
  <2>3. NextRiseHolds'
    BY <1>4, <1>5, <2>1 DEF NextRiseHolds
  <2>4. RisesApart'
    BY <1>1, <1>4, <1>5, <2>1 DEF RisesApart, Fresh, Late
  <2> QED BY <1>1, <1>5, <2>2, <2>3, <2>4 DEF PulseInv, Apart, RisesLate
<1>6. CASE /\ UNCHANGED <<outQueue, outTimer, overflowed>>
           /\ ~lastValueValid \/ lastValue # result
           /\ Delay = 0 /\ out' = result
  <2>1. outQueue = <<>> /\ outQueue' = <<>>
    BY <1>6 DEF QueueInv
  <2>2. RisesApart'
    <3>1. ASSUME NEW k \in 1..Len(outQueue') - 1 PROVE FALSE
      <4> DEFINE m == Len(outQueue')
      <4>1. m = 0 /\ k \in 1..m - 1
        BY <2>1
      <4> HIDE DEF m
      <4> QED BY <4>1
    <3> QED BY <3>1 DEF RisesApart
  <2>3. RiseFollows'
    <3> SUFFICES ASSUME ~result, active
                 PROVE  age <= sinceOut' + Delay + Lag
      BY <1>1, <2>1 DEF RiseFollows
    <3>1. ~lastValueValid
      BY <1>1, <1>6
    <3>2. sinceOut' = Stable
      BY <1>1, <1>2, <1>6, <3>1, PulseTypes DEF SinceOut
    <3> QED BY <3>2, PulseTypes
  <2>4. RisesLate
    <3> SUFFICES ASSUME ~out, result PROVE sinceOut >= Stable - Lag
      BY <1>6 DEF RisesLate
    <3>1. CASE ~lastValueValid
      BY <1>1, <3>1, PulseTypes
    <3>2. CASE lastValueValid
      <4>1. ~lastValue /\ active /\ age = Stable
        BY <1>1, <1>6, <3>2
      <4>2. Stable <= sinceOut + Delay + Lag
        BY <1>4, <2>1, <4>1 DEF RiseFollows
      <4> QED BY <1>6, <4>2, PulseTypes
    <3> QED BY <3>1, <3>2
  <2> QED BY <1>1, <2>1, <2>2, <2>3, <2>4 DEF PulseInv, Apart, NextRiseHolds
<1>7. CASE /\ ~lastValueValid \/ lastValue # result
           /\ Delay > 0
           /\ out' = out
           /\ outQueue' = PushBack(outQueue, [level |-> result, due |-> Delay])
           /\ overflowed' = (overflowed \/ Len(outQueue) = Capacity)
  <2>1. sinceOut' = sinceOut /\ RisesLate
    BY <1>7 DEF SinceOut, RisesLate
  <2> SUFFICES ASSUME n # Capacity PROVE Apart'
    BY <1>7, <2>1 DEF PulseInv, Plain
  <2>2. /\ n \in Nat /\ n < Capacity
        /\ outQueue' # <<>>
        /\ LastChange' = [level |-> result, due |-> Delay]
        /\ Len(outQueue') = n + 1
        /\ \A k \in 1..n : outQueue'[k] = outQueue[k]
    BY <1>2, <1>7, QueueGrows, DelayAssumption
  <2>3. outQueue'[n + 1].level = result /\ outQueue'[n + 1].due = Delay
    BY <2>2 DEF LastChange
  <2>4. (outQueue = <<>>) <=> (n = 0)
    BY PulseTypes
  <2>5. lastValueValid /\ n # 0 => LastChange = outQueue[n] /\ n \in 1..n
    BY <2>2 DEF LastChange
  <2>6. n # 0 => outQueue[n].due \in 0..Delay
    BY <2>2, PulseTypes
  <2>7. RiseFollows'
    <3> SUFFICES ASSUME ~result, active PROVE (Fresh(Len(outQueue)))'
      BY <1>1, <2>2 DEF RiseFollows
    <3>1. ~lastValueValid
      BY <1>1, <1>7
    <3>2. n = 0 /\ sinceOut = Stable /\ ~out
      BY <1>1, <2>4, <3>1
    <3> QED BY <1>7, <2>1, <2>2, <3>2 DEF Fresh
  <2>8. NextRiseHolds'
    <3> SUFFICES ASSUME outQueue'[1].level, ~out
                 PROVE  sinceOut + outQueue'[1].due + Lag >= Stable
      BY <1>7, <2>1 DEF NextRiseHolds
    <3>1. CASE n = 0
      <4>1. result /\ outQueue'[1].due = Delay
        BY <2>3, <3>1
      <4>2. CASE ~lastValueValid
        BY <1>1, <4>1, <4>2, PulseTypes
      <4>3. CASE lastValueValid
        <5>1. ~lastValue /\ active /\ age = Stable
          BY <1>1, <1>7, <4>1, <4>3
        <5>2. Stable <= sinceOut + Delay + Lag
          BY <1>4, <2>4, <3>1, <5>1 DEF RiseFollows
        <5> QED BY <4>1, <5>2, PulseTypes
      <4> QED BY <4>2, <4>3
    <3>2. CASE n # 0
      <4>1. outQueue'[1] = outQueue[1] /\ outQueue # <<>>
        BY <2>2, <2>4, <3>2
      <4> QED BY <1>4, <4>1 DEF NextRiseHolds
    <3> QED BY <3>1, <3>2
  <2>9. RisesApart'
    <3> SUFFICES ASSUME NEW k \in 1..n,
                        ~outQueue'[k].level, outQueue'[k + 1].level
                 PROVE  \/ Fresh(k)
                        \/ outQueue'[k + 1].due + Late(outQueue[k].due)
                             >= outQueue[k].due + Stable
      <4>1. (n + 1) - 1 = n
        BY <2>2
      <4>2. \A k \in 1..n : /\ Fresh(k)' <=> Fresh(k)
                            /\ outQueue'[k] = outQueue[k]
        BY <1>7, <2>1, <2>2 DEF Fresh
      <4> QED BY <1>1, <2>2, <4>1, <4>2 DEF RisesApart, Late
    <3>1. CASE k # n
      <4>1. k \in 1..n - 1 /\ k + 1 \in 1..n
        BY <2>2, <3>1
      <4> QED BY <1>4, <2>2, <4>1 DEF RisesApart, n
    <3>2. CASE k = n
      <4>1. /\ outQueue # <<>> /\ lastValueValid /\ LastChange = outQueue[n]
            /\ outQueue'[k + 1].due = Delay /\ result
            /\ outQueue[n].due \in 0..Delay
        BY <1>1, <2>2, <2>3, <2>4, <2>5, <2>6, <3>2
      <4>2. ~lastValue /\ active /\ age = Stable
        BY <1>1, <1>7, <4>1
      <4>3. \/ Fresh(n)
            \/ age + outQueue[n].due <= Delay + Late(outQueue[n].due)
        BY <1>4, <4>1, <4>2 DEF RiseFollows
      <4>4. Late(outQueue[n].due) \in Nat
        BY PulseTypes DEF Late
      <4> QED BY <3>2, <4>1, <4>2, <4>3, <4>4, PulseTypes
    <3> QED BY <3>1, <3>2
  <2> QED BY <1>1, <2>7, <2>8, <2>9 DEF Apart
<1> QED BY <1>3, <1>5, <1>6, <1>7
\* A change that is due was queued in time, and the one after it is as far from
\* it as before.
LEMMA ChangeDueKeepsPulse ==
  ASSUME TypeOK, TypeOK', QueueInv, Plain, Apart, ChangeDue
  PROVE  PulseInv' /\ RisesLate
<1> DEFINE n == Len(outQueue)
<1>1. /\ 0 \in outTimer
      /\ outQueue # <<>>
      /\ n >= 1
      /\ out' = outQueue[1].level
      /\ Len(outQueue') = n - 1
      /\ \A k \in 1..n - 1 : outQueue'[k] = outQueue[k + 1]
      /\ SinceOut
      /\ UNCHANGED <<active, age, level, lastValue, lastValueValid, busy>>
  BY ChangeDueEffect DEF QueueInv
<1>2. /\ n \in Nat
      /\ \A k \in 1..n : outQueue[k].due \in 0..Delay
      /\ sinceOut' \in 0..Stable
  BY PulseTypes DEF TypeOK
<1>3. outQueue[1].due = 0
  BY <1>1 DEF QueueInv, TimerInTime, Plain
<1>4. RiseFollows /\ NextRiseHolds /\ RisesApart /\ lastValueValid
  BY <1>1 DEF Apart, QueueInv
<1>5. /\ n = 1 => outQueue' = <<>>
      /\ n # 1 => outQueue' # <<>> /\ LastChange' = LastChange
  BY LastChangeKept DEF QueueInv
<1>6. RisesLate
  <2> SUFFICES ASSUME ~out, outQueue[1].level PROVE sinceOut >= Stable - Lag
    BY <1>1 DEF RisesLate
  <2> QED BY <1>1, <1>3, <1>4, PulseTypes DEF NextRiseHolds
<1> HIDE DEF n
<1>7. RiseFollows'
  <2> SUFFICES ASSUME ~lastValue, active
               PROVE  /\ n = 1 => age <= sinceOut' + Delay + Lag
                      /\ n # 1 => \/ Fresh(Len(outQueue))'
                                  \/ age + LastChange.due
                                       <= Delay + Late(LastChange.due)
    BY <1>1, <1>5 DEF RiseFollows, Late
  <2>1. \/ Fresh(n)
        \/ age + LastChange.due <= Delay + Late(LastChange.due)
    BY <1>1, <1>4 DEF RiseFollows, n
  <2>2. CASE n = 1
    <3>1. LastChange.due = 0 /\ LastChange.level = lastValue
      BY <1>1, <1>3, <1>4, <2>2 DEF LastChange, n, QueueInv, Delivered
    <3>2. out' = FALSE
      BY <1>1, <2>2, <3>1 DEF LastChange, n
    <3>3. CASE Fresh(n)
      <4>1. sinceOut' = Stable
        BY <1>1, <3>2, <3>3, PulseTypes DEF SinceOut, Fresh
      <4> QED BY <2>2, <4>1, PulseTypes
    <3>4. CASE age + LastChange.due <= Delay + Late(LastChange.due)
      <4>1. age + 0 <= Delay + busy
        BY <3>1, <3>4 DEF Late
      <4> QED BY <1>2, <2>2, <4>1, PulseTypes
    <3> QED BY <2>1, <3>3, <3>4
  <2>3. CASE n # 1
    BY <2>1, <2>3 DEF Fresh
  <2> QED BY <2>2, <2>3
<1>8. NextRiseHolds'
  <2> SUFFICES ASSUME outQueue' # <<>>, outQueue'[1].level, ~out'
               PROVE  sinceOut' + outQueue'[1].due + Lag >= Stable
    BY DEF NextRiseHolds
  <2>1. n # 1 /\ 1 \in 1..n - 1 /\ 1 + 1 = 2 /\ 2 \in 1..n
    BY <1>1, <1>2, <1>5
  <2>2. outQueue'[1] = outQueue[2]
    BY <1>1, <2>1
  <2>3. ~outQueue[1].level /\ outQueue[1 + 1].level
    BY <1>1, <2>2
  <2>4. \/ Fresh(1)
        \/ outQueue[1 + 1].due + Late(outQueue[1].due) >= outQueue[1].due + Stable
    BY <1>4, <2>1, <2>3 DEF RisesApart, n
  <2>5. outQueue[2].due \in 0..Delay
    BY <1>2, <2>1
  <2>6. CASE Fresh(1)
    <3>1. sinceOut' = Stable
      BY <1>1, <2>3, <2>6, PulseTypes DEF SinceOut, Fresh
    <3> QED BY <2>2, <2>5, <3>1, PulseTypes
  <2>7. CASE outQueue[1 + 1].due + Late(outQueue[1].due) >= outQueue[1].due + Stable
    <3>1. outQueue[2].due + busy >= Stable
      BY <1>3, <2>5, <2>7, PulseTypes DEF Late
    <3> QED BY <1>2, <2>2, <2>5, <3>1, PulseTypes
  <2> QED BY <2>4, <2>6, <2>7
<1>9. RisesApart'
  <2> SUFFICES ASSUME NEW k \in 1..Len(outQueue') - 1,
                      ~outQueue'[k].level, outQueue'[k + 1].level
               PROVE  outQueue'[k + 1].due + Late(outQueue'[k].due)
                        >= outQueue'[k].due + Stable
    BY <1>1 DEF RisesApart, Late
  <2>1. /\ k \in 1..n - 1 /\ k + 1 \in 1..n - 1 /\ k + 1 # 1
    BY <1>1, <1>2
  <2>2. outQueue'[k] = outQueue[k + 1] /\ outQueue'[k + 1] = outQueue[(k + 1) + 1]
    BY <1>1, <2>1
  <2>3. ~outQueue[k + 1].level /\ outQueue[(k + 1) + 1].level
    BY <2>2
  <2>4. \/ Fresh(k + 1)
        \/ outQueue[(k + 1) + 1].due + Late(outQueue[k + 1].due)
             >= outQueue[k + 1].due + Stable
    BY <1>4, <2>1, <2>3 DEF RisesApart, n
  <2> QED BY <2>1, <2>2, <2>4 DEF Fresh
<1> QED BY <1>1, <1>4, <1>6, <1>7, <1>8, <1>9 DEF PulseInv, Apart

\* A change that is due keeps the loop busy.
LEMMA DueIsBusy ==
  ASSUME TypeOK, QueueInv, Plain,
         NEW k \in 1..Len(outQueue), outQueue[k].due = 0
  PROVE  Busy
<1> SUFFICES 0 \in outTimer
  BY DEF Busy, Plain
<1> DEFINE n == Len(outQueue)
<1>1. n \in Nat /\ \A j \in 1..n : outQueue[j].due \in 0..Delay
  BY PulseTypes
<1> HIDE DEF n
<1>2. 1 \in 1..n /\ k \in 1..n /\ 1 <= k
  BY <1>1 DEF n
<1>3. outQueue[1].due <= outQueue[k].due
  BY <1>2 DEF QueueInv, InOrder, n
<1>4. outQueue[1].due = 0
  <2>1. outQueue[1].due \in 0..Delay
    BY <1>1, <1>2
  <2> QED BY <1>3, <2>1, PulseTypes
<1>5. outQueue # <<>>
  BY <1>1, <1>2, PulseTypes DEF n
<1>6. PICK r \in outTimer : TRUE
  BY <1>5 DEF QueueInv, TimerRuns
<1>7. r = 0
  BY <1>4, <1>6 DEF QueueInv, TimerInTime, Plain
<1> QED BY <1>6, <1>7

\* Time passes for all places a change may be in alike.
LEMMA TickKeepsPulse ==
  ASSUME TypeOK, TypeOK', QueueInv, Plain, Apart, Tick
  PROVE  PulseInv' /\ RisesLate
<1> DEFINE n == Len(outQueue)
<1>1. /\ UNCHANGED <<active, level, lastValue, lastValueValid, out>>
      /\ age' = IF age < Stable THEN age + 1 ELSE age
      /\ sinceOut' = IF sinceOut < Stable THEN sinceOut + 1 ELSE sinceOut
      /\ busy' = IF Busy THEN busy + 1 ELSE 0
  BY DEF Tick
<1>2. /\ Len(outQueue') = n
      /\ (outQueue' = <<>>) <=> (outQueue = <<>>)
      /\ \A k \in 1..n : /\ outQueue'[k].level = outQueue[k].level
                         /\ outQueue'[k].due = Left(outQueue[k].due)
  BY TickEffect
<1>3. /\ n \in Nat
      /\ (outQueue = <<>>) <=> (n = 0)
      /\ \A k \in 1..n : outQueue[k].due \in 0..Delay
      /\ busy' \in Nat
  BY PulseTypes DEF TypeOK
<1>4. \A k \in 1..n : outQueue[k].due = 0 => Busy
  BY DueIsBusy
<1>5. RiseFollows /\ NextRiseHolds /\ RisesApart
  BY DEF Apart
<1>6. \A k \in Nat : Fresh(k) => Fresh(k)'
  BY <1>1, PulseTypes DEF Fresh
<1>7. RisesLate
  BY <1>1 DEF RisesLate
<1> HIDE DEF n
<1>8. RiseFollows'
  <2> SUFFICES ASSUME ~lastValue, active
               PROVE  IF n = 0
                      THEN age' <= sinceOut' + Delay + Lag
                      ELSE \/ Fresh(n)'
                           \/ age' + outQueue'[n].due
                                <= Delay + (Late(outQueue[n].due))'
    BY <1>1, <1>2, <1>3 DEF RiseFollows, LastChange, n, Fresh
  <2>1. CASE n = 0
    <3>1. age <= sinceOut + Delay + Lag
      BY <1>3, <1>5, <2>1 DEF RiseFollows
    <3> QED BY <1>1, <2>1, <3>1, PulseTypes
  <2>2. CASE n # 0
    <3>1. n \in 1..n
      BY <1>3, <2>2
    <3> DEFINE d == outQueue[n].due
               e == outQueue'[n].due
    <3>2. Fresh(n) \/ age + d <= Delay + Late(d)
      BY <1>3, <1>5, <2>2 DEF RiseFollows, LastChange, n
    <3>3. d \in 0..Delay /\ e = Left(d)
      BY <1>2, <1>3, <3>1
    <3> HIDE DEF d, e
    <3>4. age + d <= Delay + Late(d) => age' + e <= Delay + IF e = 0 THEN busy' ELSE 0
      <4>1. CASE d = 0
        <5>1. e = 0 /\ Busy
          BY <1>4, <3>1, <3>3, <4>1 DEF Left, d
        <5> QED BY <1>1, <4>1, <5>1, PulseTypes DEF Late
      <4>2. CASE d # 0
        <5>1. e = d - 1 /\ d \in Nat /\ Late(d) = 0
          BY <3>3, <4>2, PulseTypes DEF Left, Late
        <5>2. age' <= age + 1 /\ age' \in Nat
          BY <1>1, PulseTypes
        <5> QED BY <1>3, <5>1, <5>2, PulseTypes
      <4> QED BY <4>1, <4>2
    <3>5. n' = n
      BY <1>2 DEF n
    <3>6. Fresh(n) => Fresh(n)'
      BY <1>3, <1>6, <3>5
    <3>7. Fresh(n)' \/ age' + e <= Delay + IF e = 0 THEN busy' ELSE 0
      BY <3>2, <3>4, <3>6
    <3>8. (Late(outQueue[n].due))' = IF e = 0 THEN busy' ELSE 0
      BY <3>5 DEF Late, e
    <3> QED BY <2>2, <3>7, <3>8 DEF e
  <2> QED BY <2>1, <2>2
<1>9. NextRiseHolds'
  <2> SUFFICES ASSUME n # 0, outQueue'[1].level, ~out
               PROVE  sinceOut' + outQueue'[1].due + Lag >= Stable
    BY <1>1, <1>2, <1>3 DEF NextRiseHolds
  <2>1. 1 \in 1..n
    BY <1>3
  <2>2. /\ outQueue[1].level /\ outQueue'[1].due = Left(outQueue[1].due)
        /\ outQueue[1].due \in 0..Delay
    BY <1>2, <1>3, <2>1
  <2>3. sinceOut + outQueue[1].due + Lag >= Stable
    BY <1>3, <1>5, <2>2 DEF NextRiseHolds
  <2> DEFINE d == outQueue[1].due
  <2>4. d \in 0..Delay /\ sinceOut + d + Lag >= Stable
    BY <2>2, <2>3
  <2> HIDE DEF d
  <2>5. sinceOut' + Left(d) + Lag >= Stable
    BY <1>1, <2>4, PulseTypes DEF Left
  <2> QED BY <2>2, <2>5 DEF d
<1>10. RisesApart'
  <2> SUFFICES ASSUME NEW k \in 1..n - 1,
                      ~outQueue'[k].level, outQueue'[k + 1].level, ~Fresh(k)'
               PROVE  outQueue'[k + 1].due + (IF outQueue'[k].due = 0 THEN busy' ELSE 0)
                        >= outQueue'[k].due + Stable
    BY <1>2 DEF RisesApart, Late
  <2> DEFINE d == outQueue[k].due
             e == outQueue[k + 1].due
  <2>1. k \in 1..n /\ k + 1 \in 1..n /\ k \in Nat
    BY <1>3
  <2>2. /\ ~outQueue[k].level /\ outQueue[k + 1].level
        /\ outQueue'[k].due = Left(d) /\ outQueue'[k + 1].due = Left(e)
        /\ d \in 0..Delay /\ e \in 0..Delay
    BY <1>2, <1>3, <2>1
  <2>3. d = 0 => Busy
    BY <1>4, <2>1
  <2>4. e + Late(d) >= d + Stable
    BY <1>5, <1>6, <2>1, <2>2 DEF RisesApart, n
  <2> HIDE DEF d, e
  <2>5. Left(e) + (IF Left(d) = 0 THEN busy' ELSE 0) >= Left(d) + Stable
    <3>1. CASE d = 0
      <4>1. busy' = busy + 1 /\ Left(d) = 0
        BY <1>1, <2>3, <3>1 DEF Left
      <4>2. e + busy >= Stable
        BY <2>2, <2>4, <3>1, PulseTypes DEF Late
      <4> QED BY <2>2, <4>1, <4>2, PulseTypes DEF Left
    <3>2. CASE d # 0
      <4>1. e >= d + Stable /\ d > 0
        BY <2>2, <2>4, <3>2, PulseTypes DEF Late
      <4>2. Left(d) = d - 1 /\ Left(e) = e - 1
        BY <2>2, <4>1, PulseTypes DEF Left
      <4> QED BY <1>3, <2>2, <4>1, <4>2, PulseTypes
    <3> QED BY <3>1, <3>2
  <2> QED BY <2>2, <2>5
<1>11. ~lastValueValid' => sinceOut' = Stable
  BY <1>1, PulseTypes DEF Apart
<1> QED BY <1>1, <1>7, <1>8, <1>9, <1>10, <1>11 DEF PulseInv, Apart

\* A new level of the input is no older than any change.
LEMMA TakeKeepsPulse ==
  ASSUME TypeOK, PulseInv, NEW l \in BOOLEAN, Take(l),
         UNCHANGED <<unitVars, pathVars>>
  PROVE  PulseInv'
<1> SUFFICES ASSUME Plain, Apart PROVE Apart'
  BY DEF PulseInv, Plain, unitVars, pathVars
<1>1. UNCHANGED <<level, lastValue, lastValueValid, outQueue, out, sinceOut,
                  busy, LastChange>>
  BY DEF unitVars, pathVars, LastChange
<1>2. (active' = active /\ age' = age) \/ age' = 0
  BY DEF Take, SetLevel, timedSignalVars
<1>3. RiseFollows'
  <2>1. CASE active' = active /\ age' = age
    BY <1>1, <2>1 DEF RiseFollows, Fresh, Late, Apart
  <2>2. CASE age' = 0
    <3>1. 0 <= sinceOut + Delay + Lag
      BY PulseTypes
    <3>2. outQueue # <<>> => 0 + LastChange.due <= Delay + Late(LastChange.due)
      BY TimeTypes DEF Late
    <3> QED BY <1>1, <2>2, <3>1, <3>2 DEF RiseFollows, Late
  <2> QED BY <1>2, <2>1, <2>2
<1>4. NextRiseHolds' /\ RisesApart'
  BY <1>1 DEF Apart, NextRiseHolds, RisesApart, Fresh, Late
<1> QED BY <1>1, <1>3, <1>4 DEF Apart

\* Every step keeps the distances, and lets the output rise late enough.
LEMMA PulseNext ==
  ASSUME TypeOK, TypeOK', QueueInv, PulseInv, [Next]_vars
  PROVE  PulseInv' /\ (Plain => RisesLate)
<1>1. ASSUME UNCHANGED <<active, age, unitVars, sinceOut, busy, clockSet>>
      PROVE  PulseInv' /\ RisesLate
  <2>1. UNCHANGED <<active, age, level, lastValue, lastValueValid, outQueue, out,
                    overflowed, sinceOut, busy, clockSet>>
    BY <1>1 DEF unitVars
  <2> QED BY <2>1 DEF PulseInv, Plain, Apart, RiseFollows, NextRiseHolds,
                      RisesApart, Fresh, Late, LastChange, RisesLate
<1>2. CASE LineChanges \/ StopsWaiting \/ UNCHANGED vars
  BY <1>1, <1>2 DEF LineChanges, StopsWaiting, WaitError, vars, pathVars,
                    timedSignalVars
<1>3. CASE ReadsLine
  <2>1. line \in BOOLEAN
    BY DEF TypeOK, GpioTypeOK
  <2>2. out' = out
    BY <1>3 DEF ReadsLine, unitVars
  <2> QED BY <1>3, <2>1, <2>2, TakeKeepsPulse DEF ReadsLine, InitialRead, RisesLate
<1>4. CASE ReadsEvent
  <2>1. Head(events) \in BOOLEAN
    BY <1>4 DEF ReadsEvent, OnEvent, TypeOK, GpioTypeOK
  <2>2. out' = out
    BY <1>4 DEF ReadsEvent, unitVars
  <2> QED BY <1>4, <2>1, <2>2, TakeKeepsPulse DEF ReadsEvent, OnEvent, RisesLate
<1>5. CASE "in" \notin dirty /\ Evaluate
  <2>1. UNCHANGED <<active, age, unitVars, busy, clockSet>> /\ SinceOut
    BY <1>5 DEF Evaluate
  <2>2. sinceOut' = sinceOut
    BY <2>1 DEF unitVars, SinceOut
  <2> QED BY <1>1, <2>1, <2>2
<1>6. CASE SetClock
  <2>1. clockSet' /\ out' = out
    BY <1>6 DEF SetClock
  <2> QED BY <2>1 DEF PulseInv, Plain, RisesLate
<1>7. CASE Updates \/ ChangeDue \/ Tick
  <2>1. CASE Plain
    <3>1. Apart
      BY <2>1 DEF PulseInv
    <3>2. CASE Updates
      <4>1. PICK pending \in SUBSET inTimer : Update(pending)
        BY <3>2, UpdatesEffect
      <4>2. SinceOut /\ UNCHANGED <<busy, clockSet>>
        BY <3>2, UpdatesEffect
      <4> QED BY <2>1, <3>1, <4>1, <4>2, UpdateKeepsPulse
    <3> QED BY <1>7, <2>1, <3>1, <3>2, ChangeDueKeepsPulse, TickKeepsPulse
  <2>2. CASE ~Plain
    <3>1. ~Plain'
      <4>1. overflowed => overflowed'
        <5>1. CASE Updates
          <6>1. PICK pending \in SUBSET inTimer : Update(pending)
            BY <5>1, UpdatesEffect
          <6> QED BY <6>1 DEF Update, Enqueue
        <5>2. CASE ChangeDue
          BY <5>2 DEF ChangeDue, OutputTimer
        <5>3. CASE Tick
          BY <5>3 DEF Tick
        <5> QED BY <1>7, <5>1, <5>2, <5>3
      <4>2. clockSet' = clockSet
        BY <1>7, UpdatesEffect DEF ChangeDue, Tick
      <4> QED BY <2>2, <4>1, <4>2 DEF Plain
    <3> QED BY <2>2, <3>1 DEF PulseInv
  <2> QED BY <2>1, <2>2
<1> QED BY <1>2, <1>3, <1>4, <1>5, <1>6, <1>7 DEF Next, Updates

\* The output of a unit with debounced inputs only stays low for the stability
\* time, less what the handlers are late, for every delay and every interleaving
\* of edges, timers and evaluations, as long as no change was dropped and the
\* clock was not set.
THEOREM PulseTheorem == Spec => LowPulseHolds
<1> DEFINE Held == IInv /\ PulseInv
           Holds == ~out /\ out' =>
                      sinceOut >= Stable - Lag \/ Raw \/ clockSet \/ overflowed
<1>1. Init => Held
  BY IInvInit, PulseInvInit DEF IInv
<1>2. Held /\ [Next]_vars => Held' /\ Holds
  <2> SUFFICES ASSUME Held, [Next]_vars PROVE Held' /\ Holds
    OBVIOUS
  <2>1. IInv'
    BY IInvNext
  <2>2. PulseInv' /\ (Plain => RisesLate)
    BY <2>1, PulseNext DEF IInv
  <2> QED BY <2>1, <2>2 DEF Plain, RisesLate
<1> QED BY <1>1, <1>2, PTL DEF Spec, LowPulseHolds
=============================================================================
