----------------------------- MODULE ACPIStates -----------------------------
(***************************************************************************)
(* The ACPI state handler (src/ACPIStates.cpp, src/Dbus.cpp): it turns the *)
(* transitions requested over D-Bus into the signals STATE_REQ_HOST_ON and *)
(* STATE_REQ_CHASSIS_ON, mirrors the observed ACPI state to D-Bus, and     *)
(* runs a power cycle with a timer.                                        *)
(*                                                                         *)
(* The logic between the requests and the observed state belongs to the    *)
(* configuration.  It is any environment that changes one ACPI_STATE_IS_*  *)
(* signal at a time; EvaluateState calls Update for each change later.     *)
(* The 10 seconds of the timer are abstract: it may expire at any moment.  *)
(***************************************************************************)
EXTENDS Naturals, Sequences

CONSTANTS MaxHandlers,  \* bound: no power cycle is requested above it
          Unasked       \* the platform may leave G3 without being asked to

ASSUME ACPIAssumption == MaxHandlers \in Nat /\ Unasked \in BOOLEAN

Level == {"G3", "S5", "S3", "S0"}
HostState == {"running", "off", "transitionToOff", "standby",
              "transitionToRunning"}

VARIABLES outputs,             \* levels of the ACPI_STATE_IS_* signals
          signalHostState,     \* level of STATE_REQ_HOST_ON
          signalChassisState,  \* level of STATE_REQ_CHASSIS_ON
          currentHost,         \* D-Bus CurrentHostState
          currentPower,        \* D-Bus CurrentPowerState, TRUE is On
          changed,             \* signals whose change was not yet evaluated
          waiting,             \* a wait on powerCycleTimer is pending
          handlers,            \* its completion handlers in the io_context
          wanted               \* history: chassis state requested last

vars == <<outputs, signalHostState, signalChassisState, currentHost,
          currentPower, changed, waiting, handlers, wanted>>

\* Only a power cycle adds to the waits, pending and completed.
TypeOK ==
  /\ outputs \in [Level -> BOOLEAN]
  /\ signalHostState \in BOOLEAN
  /\ signalChassisState \in BOOLEAN
  /\ currentHost \in HostState
  /\ currentPower \in BOOLEAN
  /\ changed \in SUBSET Level
  /\ waiting \in BOOLEAN
  /\ handlers \in Seq({"expired", "aborted"})
  /\ Len(handlers) + (IF waiting THEN 1 ELSE 0) <= MaxHandlers + 1
  /\ wanted \in BOOLEAN

\* Every signal is low and waits for the first evaluation, D-Bus shows Off.
Init ==
  /\ outputs = [l \in Level |-> FALSE]
  /\ signalHostState = FALSE
  /\ signalChassisState = FALSE
  /\ currentHost = "off"
  /\ currentPower = FALSE
  /\ changed = Level
  /\ waiting = FALSE
  /\ handlers = <<>>
  /\ wanted = FALSE

-----------------------------------------------------------------------------
\* The level whose signal is the only high one.
GetCurrent ==
  IF \E l \in Level : \A m \in Level : outputs[m] <=> m = l
  THEN CHOOSE l \in Level : outputs[l]
  ELSE "INVALID"

\* The host state shown for an ACPI level and a host request.
HostStateAt(l, host) ==
  CASE l = "S0" -> IF host THEN "running" ELSE "transitionToOff"
    [] l = "S3" -> IF host THEN "transitionToRunning" ELSE "standby"
    [] l = "S5" -> IF host THEN "transitionToRunning" ELSE "off"
    [] OTHER -> "off"

\* A mutant of Cancel: a handler is queued when nothing waits, too.
CancelAlways(queue) == Append(queue, "aborted")

\* deadline_timer::cancel, with queue the handlers so far: the pending wait
\* completes with operation_aborted.
Cancel(queue) == IF waiting THEN Append(queue, "aborted") ELSE queue

\* Dbus::SetHostState and Dbus::SetChassisState as Update calls them: an invalid
\* level leaves both properties alone.
SetDbus(l, host) ==
  /\ currentHost' = IF l = "INVALID" THEN currentHost ELSE HostStateAt(l, host)
  /\ currentPower' = IF l = "INVALID" THEN currentPower ELSE l # "G3"

\* Mutants of Update: it only cancels the timer; it leaves the timer alone.
UpdateSilent(host, queue) ==
  /\ UNCHANGED <<currentHost, currentPower>>
  /\ waiting' = (waiting /\ GetCurrent # "G3")
  /\ handlers' = IF GetCurrent = "G3" THEN Cancel(queue) ELSE queue

UpdateKeepsTimer(host, queue) ==
  /\ SetDbus(GetCurrent, host)
  /\ waiting' = waiting
  /\ handlers' = queue

\* ACPIStates::Update, with host the level of STATE_REQ_HOST_ON and queue the
\* completion handlers.  G3 ends the wait of a power cycle.
Update(host, queue) ==
  /\ SetDbus(GetCurrent, host)
  /\ waiting' = (waiting /\ GetCurrent # "G3")
  /\ handlers' = IF GetCurrent = "G3" THEN Cancel(queue) ELSE queue

-----------------------------------------------------------------------------
\* RequestHost, and RequestChassis where the host is left as it is.  Of the two
\* calls of Update where both signals are set the last one decides.
RequestHost(on) == signalHostState' = on /\ Update(on, handlers)
RequestChassis(on, queue) ==
  signalChassisState' = on /\ Update(signalHostState, queue)

\* RequestedHostTransition Off: the chassis is left as it is.
HostOff ==
  /\ RequestHost(FALSE)
  /\ UNCHANGED <<outputs, signalChassisState, changed, wanted>>

\* RequestedHostTransition On: RequestChassis, then RequestHost.
HostOn ==
  /\ signalChassisState' = TRUE
  /\ RequestHost(TRUE)
  /\ wanted' = TRUE
  /\ UNCHANGED <<outputs, changed>>

\* RequestedPowerTransition Off: RequestHost, then RequestChassis.
ChassisOff ==
  /\ RequestHost(FALSE)
  /\ signalChassisState' = FALSE
  /\ wanted' = FALSE
  /\ UNCHANGED <<outputs, changed>>

\* RequestedPowerTransition On: the host is left as it is.
ChassisOn ==
  /\ RequestChassis(TRUE, handlers)
  /\ wanted' = TRUE
  /\ UNCHANGED <<outputs, signalHostState, changed>>

\* RequestedPowerTransition PowerCycle: in G3 the chassis only has to be turned
\* on.  Otherwise it is turned off and the timer started; setting the expiry
\* time cancels a wait that is pending.
PowerCycle ==
  /\ Len(handlers) < MaxHandlers
  /\ wanted' = TRUE
  /\ IF GetCurrent = "G3"
     THEN RequestChassis(TRUE, handlers)
     ELSE /\ signalChassisState' = FALSE
          /\ SetDbus(GetCurrent, signalHostState)
          /\ waiting' = TRUE
          /\ handlers' = Cancel(handlers)
  /\ UNCHANGED <<outputs, signalHostState, changed>>

\* The 10 seconds are over.
TimerExpires ==
  /\ waiting
  /\ waiting' = FALSE
  /\ handlers' = Append(handlers, "expired")
  /\ UNCHANGED <<outputs, signalHostState, signalChassisState, currentHost,
                 currentPower, changed, wanted>>

\* The handler gives up, and logs it, unless the level is G3.
GivesUp ==
  /\ handlers # <<>>
  /\ GetCurrent # "G3"
  /\ handlers' = Tail(handlers)
  /\ UNCHANGED <<outputs, signalHostState, signalChassisState, currentHost,
                 currentPower, changed, waiting, wanted>>

\* A mutant of TurnsOn: an aborted wait is not a reason to turn on.
TurnsOnExpired ==
  /\ handlers # <<>>
  /\ GetCurrent = "G3"
  /\ signalChassisState' = (signalChassisState \/ Head(handlers) = "expired")
  /\ Update(signalHostState, Tail(handlers))
  /\ UNCHANGED <<outputs, signalHostState, changed, wanted>>

\* The handler turns the chassis on in G3, be the wait expired or aborted.
TurnsOn ==
  /\ handlers # <<>>
  /\ GetCurrent = "G3"
  /\ RequestChassis(TRUE, Tail(handlers))
  /\ UNCHANGED <<outputs, signalHostState, changed, wanted>>

TimerHandler == GivesUp \/ TurnsOn

\* EvaluateState reaches a changed ACPI_STATE_IS_* signal.
Notify(l) ==
  /\ l \in changed
  /\ changed' = changed \ {l}
  /\ Update(signalHostState, handlers)
  /\ UNCHANGED <<outputs, signalHostState, signalChassisState, wanted>>

\* The environment: the logic sets one of the signals.
Observe(l) ==
  /\ GetCurrent = "G3" /\ ~signalChassisState => Unasked
  /\ outputs' = [outputs EXCEPT ![l] = ~@]
  /\ changed' = changed \cup {l}
  /\ UNCHANGED <<signalHostState, signalChassisState, currentHost, currentPower,
                 waiting, handlers, wanted>>

Request == HostOff \/ HostOn \/ ChassisOff \/ ChassisOn \/ PowerCycle

Next ==
  \/ Request
  \/ TimerExpires
  \/ TimerHandler
  \/ \E l \in Level : Notify(l) \/ Observe(l)

\* The io_context serves its handlers in order, the evaluation reaches every
\* changed signal and the timer expires.  Requests and the platform are free.
Fairness ==
  /\ WF_vars(TimerHandler)
  /\ WF_vars(TimerExpires)
  /\ \A l \in Level : WF_vars(Notify(l))

Spec == Init /\ [][Next]_vars
FairSpec == Spec /\ Fairness

-----------------------------------------------------------------------------
\* With every change evaluated, D-Bus shows the observed level and the host
\* request, in whatever order requests and changes came.  While the level is
\* ambiguous the last one is kept, so the level may have been invalid on the
\* way and the mirror must catch up.
MirrorCurrent ==
  changed = {} /\ GetCurrent # "INVALID" =>
    /\ currentHost = HostStateAt(GetCurrent, signalHostState)
    /\ currentPower = (GetCurrent # "G3")

\* A power cycle does not sit out its timer in G3: reaching G3 ends the wait,
\* and no request starts one there.
NeverWaitsInG3 == changed = {} /\ GetCurrent = "G3" => ~waiting

\* A power cycle that reaches G3 in time turns the chassis on again, unless Off
\* is requested after it: what becomes of the cycle then is left to OffStaysOff.
PowerCycleCompletes ==
  waiting /\ GetCurrent = "G3" ~> signalChassisState \/ ~wanted

\* "RequestChassis tells the logic which on is the desired power state of the
\* chassis" (src/ACPIStates.hpp:29): once Off is requested the chassis is not
\* turned on without another request.
OffStaysOff == ~wanted => ~signalChassisState
=============================================================================
