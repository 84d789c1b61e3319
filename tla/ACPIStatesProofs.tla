-------------------------- MODULE ACPIStatesProofs --------------------------
(***************************************************************************)
(* Theorems about the ACPI state handler, for any platform and any number  *)
(* of completion handlers.                                                 *)
(***************************************************************************)
EXTENDS ACPIStates, TLAPS

\* The observed level is one of the four levels or invalid.
LEMMA CurrentType == GetCurrent \in Level \cup {"INVALID"}
<1>1. CASE \E l \in Level : \A m \in Level : outputs[m] <=> m = l
  <2>1. \E l \in Level : outputs[l]
    BY <1>1
  <2> QED
    BY <1>1, <2>1 DEF GetCurrent
<1>2. CASE ~\E l \in Level : \A m \in Level : outputs[m] <=> m = l
  BY <1>2 DEF GetCurrent
<1> QED
  BY <1>1, <1>2

\* Every host state the handler shows is one D-Bus knows.
LEMMA HostStateType ==
  ASSUME NEW l \in Level \cup {"INVALID"}, NEW host \in BOOLEAN
  PROVE HostStateAt(l, host) \in HostState
BY DEF HostStateAt, HostState, Level

\* Update keeps the type of D-Bus and timer: it may move the one pending wait
\* to the completion handlers, and never adds another.
LEMMA UpdateType ==
  ASSUME TypeOK, NEW host \in BOOLEAN,
         NEW queue \in Seq({"expired", "aborted"}), Update(host, queue),
         Len(queue) + (IF waiting THEN 1 ELSE 0) <= MaxHandlers + 1
  PROVE  /\ currentHost' \in HostState
         /\ currentPower' \in BOOLEAN
         /\ waiting' \in BOOLEAN
         /\ handlers' \in Seq({"expired", "aborted"})
         /\ Len(handlers') + (IF waiting' THEN 1 ELSE 0) <= MaxHandlers + 1
<1>1. GetCurrent \in Level \cup {"INVALID"}
  BY CurrentType
<1>2. currentHost' \in HostState /\ currentPower' \in BOOLEAN
  BY <1>1, HostStateType DEF Update, SetDbus, TypeOK
<1>3. waiting' \in BOOLEAN /\ waiting \in BOOLEAN
  BY DEF Update, TypeOK
<1>4. /\ handlers' \in Seq({"expired", "aborted"})
      /\ Len(handlers') + (IF waiting' THEN 1 ELSE 0) <= MaxHandlers + 1
  <2>1. Len(queue) \in Nat /\ MaxHandlers \in Nat
    BY ACPIAssumption
  <2>2. CASE GetCurrent = "G3" /\ waiting
    <3>1. handlers' = Append(queue, "aborted") /\ ~waiting'
      BY <2>2 DEF Update, Cancel
    <3>2. Append(queue, "aborted") \in Seq({"expired", "aborted"})
          /\ Len(Append(queue, "aborted")) = Len(queue) + 1
      OBVIOUS
    <3> QED
      BY <2>1, <2>2, <3>1, <3>2
  <2>3. CASE ~(GetCurrent = "G3" /\ waiting)
    <3>1. handlers' = queue /\ waiting' = waiting
      BY <1>3, <2>3 DEF Update, Cancel
    <3> QED
      BY <2>1, <3>1
  <2> QED
    BY <2>2, <2>3
<1> QED
  BY <1>2, <1>3, <1>4

-----------------------------------------------------------------------------
\* Every step keeps the type.
LEMMA TypeNext == TypeOK /\ [Next]_vars => TypeOK'
<1> SUFFICES ASSUME TypeOK, [Next]_vars PROVE TypeOK'
  OBVIOUS
<1> USE ACPIAssumption
<1>1. /\ signalHostState \in BOOLEAN /\ waiting \in BOOLEAN
      /\ handlers \in Seq({"expired", "aborted"})
      /\ Len(handlers) + (IF waiting THEN 1 ELSE 0) <= MaxHandlers + 1
  BY DEF TypeOK
<1>2. CASE HostOff
  BY <1>1, <1>2, UpdateType DEF HostOff, RequestHost, TypeOK
<1>3. CASE HostOn
  BY <1>1, <1>3, UpdateType DEF HostOn, RequestHost, TypeOK
<1>4. CASE ChassisOff
  BY <1>1, <1>4, UpdateType DEF ChassisOff, RequestHost, TypeOK
<1>5. CASE ChassisOn
  BY <1>1, <1>5, UpdateType DEF ChassisOn, RequestChassis, TypeOK
<1>6. CASE PowerCycle
  <2>1. CASE GetCurrent = "G3"
    BY <1>1, <1>6, <2>1, UpdateType DEF PowerCycle, RequestChassis, TypeOK
  <2>2. CASE GetCurrent # "G3"
    <3>1. currentHost' \in HostState /\ currentPower' \in BOOLEAN
      BY <1>1, <1>6, <2>2, CurrentType, HostStateType
      DEF PowerCycle, SetDbus, TypeOK
    <3>2. /\ handlers' \in Seq({"expired", "aborted"})
          /\ Len(handlers') <= MaxHandlers
      <4>1. Len(handlers) < MaxHandlers /\ handlers' = Cancel(handlers)
        BY <1>6, <2>2 DEF PowerCycle
      <4>2. /\ Append(handlers, "aborted") \in Seq({"expired", "aborted"})
            /\ Len(Append(handlers, "aborted")) = Len(handlers) + 1
            /\ Len(handlers) \in Nat
        BY <1>1
      <4> QED
        BY <1>1, <4>1, <4>2 DEF Cancel
    <3>3. Len(handlers') \in Nat
      BY <3>2
    <3>4. Len(handlers') + 1 <= MaxHandlers + 1
      BY <3>2, <3>3
    <3>5. waiting' = TRUE /\ signalChassisState' = FALSE /\ wanted' = TRUE
      BY <1>6, <2>2 DEF PowerCycle
    <3> QED
      BY <1>1, <1>6, <2>2, <3>1, <3>2, <3>4, <3>5 DEF PowerCycle, TypeOK
  <2> QED
    BY <2>1, <2>2
<1>7. CASE TimerExpires
  <2>1. /\ handlers' \in Seq({"expired", "aborted"})
        /\ Len(handlers') = Len(handlers) + 1
    BY <1>1, <1>7 DEF TimerExpires
  <2>2. Len(handlers') + (IF waiting' THEN 1 ELSE 0) <= MaxHandlers + 1
    BY <1>1, <1>7, <2>1 DEF TimerExpires
  <2> QED
    BY <1>7, <2>1, <2>2 DEF TimerExpires, TypeOK
<1>8. CASE TimerHandler
  <2>1. handlers # <<>>
    BY <1>8 DEF TimerHandler, GivesUp, TurnsOn
  <2>2. /\ Tail(handlers) \in Seq({"expired", "aborted"})
        /\ Len(Tail(handlers)) + (IF waiting THEN 1 ELSE 0) <= MaxHandlers + 1
    BY <1>1, <2>1
  <2>3. CASE GivesUp
    BY <1>1, <2>2, <2>3 DEF GivesUp, TypeOK
  <2>4. CASE TurnsOn
    BY <1>1, <2>2, <2>4, UpdateType DEF TurnsOn, RequestChassis, TypeOK
  <2> QED
    BY <1>8, <2>3, <2>4 DEF TimerHandler
<1>9. ASSUME NEW l \in Level, Notify(l) PROVE TypeOK'
  BY <1>1, <1>9, UpdateType DEF Notify, TypeOK
<1>10. ASSUME NEW l \in Level, Observe(l) PROVE TypeOK'
  BY <1>10 DEF Observe, TypeOK
<1>11. CASE UNCHANGED vars
  BY <1>11 DEF vars, TypeOK
<1> QED
  BY <1>2, <1>3, <1>4, <1>5, <1>6, <1>7, <1>8, <1>9, <1>10, <1>11
  DEF Next, Request

\* The type invariant, with its bound on the waits: cancelling a timer that is
\* not pending never queues a handler (powerCycleTimer.cancel in Update).
THEOREM TypeCorrect == Spec => []TypeOK
<1>1. Init => TypeOK
  <2> SUFFICES ASSUME Init PROVE TypeOK
    OBVIOUS
  <2>1. handlers \in Seq({"expired", "aborted"}) /\ Len(handlers) = 0
    BY DEF Init
  <2>2. outputs \in [Level -> BOOLEAN] /\ changed \in SUBSET Level
    BY DEF Init
  <2>3. Len(handlers) + (IF waiting THEN 1 ELSE 0) <= MaxHandlers + 1
    BY <2>1, ACPIAssumption DEF Init
  <2> QED
    BY <2>1, <2>2, <2>3 DEF Init, TypeOK, HostState
<1> QED
  BY <1>1, TypeNext, PTL DEF Spec

-----------------------------------------------------------------------------
\* The mirror and the timer agree with the observed level once it is evaluated.
MirrorInv == MirrorCurrent /\ NeverWaitsInG3

\* Update restores the agreement whatever it was, for an unchanged level.
LEMMA UpdateMirrors ==
  ASSUME NEW queue, Update(signalHostState', queue), UNCHANGED outputs
  PROVE MirrorInv'
<1>1. GetCurrent' = GetCurrent
  BY DEF GetCurrent
<1> QED
  BY <1>1 DEF Update, SetDbus, MirrorInv, MirrorCurrent, NeverWaitsInG3,
              HostStateAt

\* Every step keeps the agreement: a change of the level is still to be
\* evaluated, and everything else updates the mirror or leaves it alone.
LEMMA MirrorNext == TypeOK /\ MirrorInv /\ [Next]_vars => MirrorInv'
<1> SUFFICES ASSUME TypeOK, MirrorInv, [Next]_vars PROVE MirrorInv'
  OBVIOUS
<1>1. CASE HostOff
  BY <1>1, UpdateMirrors DEF HostOff, RequestHost
<1>2. CASE HostOn
  BY <1>2, UpdateMirrors DEF HostOn, RequestHost
<1>3. CASE ChassisOff
  BY <1>3, UpdateMirrors DEF ChassisOff, RequestHost
<1>4. CASE ChassisOn
  BY <1>4, UpdateMirrors DEF ChassisOn, RequestChassis
<1>5. CASE PowerCycle
  <2>1. CASE GetCurrent = "G3"
    BY <1>5, <2>1, UpdateMirrors DEF PowerCycle, RequestChassis
  <2>2. CASE GetCurrent # "G3"
    <3>1. GetCurrent' = GetCurrent
      BY <1>5 DEF PowerCycle, GetCurrent
    <3> QED
      BY <1>5, <2>2, <3>1
      DEF PowerCycle, SetDbus, MirrorInv, MirrorCurrent, NeverWaitsInG3,
          HostStateAt
  <2> QED
    BY <2>1, <2>2
<1>6. CASE TimerExpires
  <2>1. GetCurrent' = GetCurrent
    BY <1>6 DEF TimerExpires, GetCurrent
  <2> QED
    BY <1>6, <2>1
    DEF TimerExpires, MirrorInv, MirrorCurrent, NeverWaitsInG3, HostStateAt
<1>7. CASE TimerHandler
  <2>1. CASE GivesUp
    <3>1. GetCurrent' = GetCurrent
      BY <2>1 DEF GivesUp, GetCurrent
    <3> QED
      BY <2>1, <3>1
      DEF GivesUp, MirrorInv, MirrorCurrent, NeverWaitsInG3, HostStateAt
  <2>2. CASE TurnsOn
    BY <2>2, UpdateMirrors DEF TurnsOn, RequestChassis
  <2> QED
    BY <1>7, <2>1, <2>2 DEF TimerHandler
<1>8. ASSUME NEW l \in Level, Notify(l) PROVE MirrorInv'
  BY <1>8, UpdateMirrors DEF Notify
<1>9. ASSUME NEW l \in Level, Observe(l) PROVE MirrorInv'
  <2>1. changed' # {}
    BY <1>9 DEF Observe
  <2> QED
    BY <2>1 DEF MirrorInv, MirrorCurrent, NeverWaitsInG3
<1>10. CASE UNCHANGED vars
  <2>1. GetCurrent' = GetCurrent
    BY <1>10 DEF vars, GetCurrent
  <2> QED
    BY <1>10, <2>1
    DEF vars, MirrorInv, MirrorCurrent, NeverWaitsInG3, HostStateAt
<1> QED
  BY <1>1, <1>2, <1>3, <1>4, <1>5, <1>6, <1>7, <1>8, <1>9, <1>10
  DEF Next, Request

\* Together, from the start.
LEMMA MirrorAlways == Spec => []MirrorInv
<1>1. Init => MirrorInv
  BY DEF Init, Level, MirrorInv, MirrorCurrent, NeverWaitsInG3
<1> QED
  BY <1>1, MirrorNext, TypeCorrect, PTL DEF Spec

\* What D-Bus shows is never stale once the changes are evaluated
\* (ACPIStates::Update), whatever the order of requests and changes.
THEOREM MirrorTheorem == Spec => []MirrorCurrent
<1>1. MirrorInv => MirrorCurrent
  BY DEF MirrorInv
<1> QED
  BY <1>1, MirrorAlways, PTL

\* No power cycle waits in G3 (ACPIStates::Update and the timer's handler).
THEOREM WaitTheorem == Spec => []NeverWaitsInG3
<1>1. MirrorInv => NeverWaitsInG3
  BY DEF MirrorInv
<1> QED
  BY <1>1, MirrorAlways, PTL
=============================================================================
