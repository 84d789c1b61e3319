-------------------------- MODULE VoltageRegulator --------------------------
(***************************************************************************)
(* A voltage regulator (src/VoltageRegulator.cpp) with the watcher of its  *)
(* three files.  Handlers for state, status and events update shadows and  *)
(* drive the signals Enabled, Fault and PowerGood from them; Apply writes  *)
(* the level of On unless the shadow of state shows it already.            *)
(*                                                                         *)
(* The constructor runs before any handler does, and handlers run in the   *)
(* order they were posted.  An evaluation is one step here, StateMachine   *)
(* models it in detail.  How the regulator reacts to what is written, and  *)
(* when, is up to the hardware.                                            *)
(***************************************************************************)
EXTENDS SysFsWatcher

CONSTANTS StatusIn,    \* statuses the hardware may show in each state
          Independent  \* the state may change without being written

State == {"enabled", "disabled", "unknown"}

\* "on" stands for on, fast, normal, idle and standby, "failure" for any
\* number with a bit of REGULATOR_EVENT_FAILURE, "none" for the other numbers.
Status == {"off", "on", "error"}
Events == {"none", "failure"}

ASSUME RegulatorAssumption ==
  /\ File = {"state", "status", "events"}
  /\ Content = State \cup Status \cup Events
  /\ ClearOnRead = {"events"}
  /\ Cleared = "none"
  /\ StatusIn \in [State -> SUBSET Status]
  /\ Independent \in BOOLEAN

VARIABLES ctor,          \* the next step of the constructor
          stateShadow,
          statusShadow,
          eventsShadow,
          on,            \* level of _On
          enabled,       \* level of _Enabled
          fault,         \* level of _Fault
          powergood,     \* level of _PowerGood
          dirty,         \* a signal changed, EvaluateState is queued
          ahead,         \* handlers queued before it
          consumer,      \* external: what was written to the consumer's state
          delivered      \* history: files whose handler ran

shadowVars == <<stateShadow, statusShadow, eventsShadow>>
signalVars == <<enabled, fault, powergood>>
evalVars == <<dirty, ahead>>
regVars == <<ctor, shadowVars, on, signalVars, evalVars, consumer, delivered>>
vars == <<watcherVars, regVars>>

TypeOK ==
  /\ WatcherTypeOK
  /\ content["state"] \in State
  /\ content["status"] \in Status
  /\ content["events"] \in Events
  /\ ctor \in {"find", "readStatus", "readState", "state", "status", "exists",
               "events", "done", "failed"}
  /\ stateShadow \in State
  /\ statusShadow \in Status
  /\ eventsShadow \in Events
  /\ on \in BOOLEAN /\ enabled \in BOOLEAN
  /\ fault \in BOOLEAN /\ powergood \in BOOLEAN
  /\ dirty \in BOOLEAN
  /\ ahead \in 0..Len(posted)
  /\ consumer \in State
  /\ delivered \in SUBSET events

\* The first evaluation is queued by Run, behind the handlers posted until then:
\* one that comes earlier with _On as the state is changes nothing, and OtherSignal
\* queues the next one behind them.
Init ==
  /\ WatcherInit
  /\ content["state"] \in {"enabled", "disabled"}
  /\ content["status"] \in StatusIn[content["state"]]
  /\ content["events"] \in Events
  /\ request.file = "state"
  /\ ctor = "find"
  /\ stateShadow = "unknown"
  /\ statusShadow = "error"
  /\ eventsShadow = "none"
  /\ on = FALSE
  /\ enabled = FALSE
  /\ fault = FALSE
  /\ powergood = FALSE
  /\ dirty = TRUE
  /\ ahead = 0
  /\ consumer = content["state"]
  /\ delivered = {}

-----------------------------------------------------------------------------
(* Decoding.                                                               *)

\* Followed by other characters a word is not recognised, a number is.
DecodeState(data, tail) == IF tail THEN "unknown" ELSE data
DecodeStatus(data, tail) == IF tail THEN "error" ELSE data
DecodeRegulatorEvent(data) == data

\* The levels that DecodeStatesSysfs leaves.
Enabled(state, status) == state # "disabled" /\ status # "off"
PowerGood(state, status) == Enabled(state, status) /\ status # "error"
Fault(state, status, failure) ==
  IF state = "disabled" THEN fault \/ failure ELSE status = "error"

\* A mutant of DecodeStatesSysfs: disabling leaves PowerGood alone.
DecodeStatesSysfsWhenEnabled(state, status, ev) ==
  /\ enabled' = Enabled(state, status)
  /\ powergood' = IF state = "disabled" THEN powergood
                  ELSE PowerGood(state, status)
  /\ fault' = Fault(state, status, ev = "failure")
  /\ dirty' = TRUE

\* A failure event first clears PowerGood and sets Fault; what follows may set
\* them back, which counts as two changes.
DecodeStatesSysfs(state, status, ev) ==
  /\ enabled' = Enabled(state, status)
  /\ powergood' = PowerGood(state, status)
  /\ fault' = Fault(state, status, ev = "failure")
  /\ dirty' = \/ dirty
              \/ signalVars' # signalVars
              \/ ev = "failure" /\ (powergood \/ ~fault)

-----------------------------------------------------------------------------
(* The constructor.                                                        *)

\* Without its directory, or that of its consumer, the constructor throws.
FindSysfs ==
  /\ ctor = "find"
  /\ ctor' \in {"readStatus", "failed"}
  /\ UNCHANGED <<watcherVars, shadowVars, on, signalVars, evalVars, consumer,
                 delivered>>

\* A file that cannot be opened reads as an empty line, which decodes to d.
ReadLine(f, d) == {content[f]} \cup (IF "open" \in Fails THEN {d} ELSE {})

ReadStatus ==
  /\ ctor = "readStatus"
  /\ statusShadow' \in ReadLine("status", "error")
  /\ ctor' = "readState"
  /\ UNCHANGED <<watcherVars, stateShadow, eventsShadow, on, signalVars,
                 evalVars, consumer, delivered>>

\* The state is read last and the signals are set.
ReadState ==
  /\ ctor = "readState"
  /\ stateShadow' \in ReadLine("state", "unknown")
  /\ DecodeStatesSysfs(stateShadow', statusShadow, eventsShadow)
  /\ ctor' = "state"
  /\ UNCHANGED <<watcherVars, statusShadow, eventsShadow, on, ahead, consumer,
                 delivered>>

WatchState ==
  /\ ctor = "state"
  /\ Register("state")
  /\ ctor' = "status"
  /\ UNCHANGED <<shadowVars, on, signalVars, evalVars, consumer, delivered>>

WatchStatus ==
  /\ ctor = "status"
  /\ Register("status")
  /\ ctor' = "exists"
  /\ UNCHANGED <<shadowVars, on, signalVars, evalVars, consumer, delivered>>

NoEvents ==
  /\ ctor = "exists"
  /\ main = "idle"
  /\ ctor' = "done"
  /\ UNCHANGED <<watcherVars, shadowVars, on, signalVars, evalVars, consumer,
                 delivered>>

\* Reading the events clears them.  The signals are not set here.
ReadEvents ==
  /\ ctor = "exists"
  /\ main = "idle"
  /\ eventsShadow' = DecodeRegulatorEvent(content["events"])
  /\ ReadElsewhere("events")
  /\ ctor' = "events"
  /\ UNCHANGED <<stateShadow, statusShadow, on, signalVars, evalVars, consumer,
                 delivered>>

\* An empty line is not a number: the constructor throws.
ReadEventsFails ==
  /\ ctor = "exists"
  /\ main = "idle"
  /\ "open" \in Fails
  /\ ctor' = "failed"
  /\ UNCHANGED <<watcherVars, shadowVars, on, signalVars, evalVars, consumer,
                 delivered>>

WatchEvents ==
  /\ ctor = "events"
  /\ Register("events")
  /\ ctor' = "done"
  /\ UNCHANGED <<shadowVars, on, signalVars, evalVars, consumer, delivered>>

Construct ==
  \/ FindSysfs \/ ReadStatus \/ ReadState
  \/ WatchState \/ WatchStatus
  \/ NoEvents \/ ReadEvents \/ ReadEventsFails \/ WatchEvents

-----------------------------------------------------------------------------
(* Handlers of the main thread.                                            *)

\* The handler registered for the file that was read.  If it changes a signal,
\* EvaluateState is queued last.
Handler ==
  LET m == Head(posted) IN
  /\ ctor = "done"
  /\ dirty => ahead > 0
  /\ RunHandler
  /\ stateShadow' = IF m.file = "state" THEN DecodeState(m.data, m.tail)
                    ELSE stateShadow
  /\ statusShadow' = IF m.file = "status" THEN DecodeStatus(m.data, m.tail)
                     ELSE statusShadow
  /\ eventsShadow' = IF m.file = "events" THEN DecodeRegulatorEvent(m.data)
                     ELSE eventsShadow
  /\ DecodeStatesSysfs(stateShadow', statusShadow', eventsShadow')
  /\ ahead' = IF dirty THEN ahead - 1 ELSE IF dirty' THEN Len(posted') ELSE 0
  /\ delivered' = delivered \cup {m.file}
  /\ UNCHANGED <<ctor, on, consumer>>

\* A mutant of Apply: it compares with the level it wrote last, as GpioOutput
\* does.
ApplyWhenChanged(level) ==
  consumer' = IF level # on THEN (IF level THEN "enabled" ELSE "disabled")
              ELSE consumer

\* Apply, with the level Update took from _On.
Apply(level) ==
  LET s == IF level THEN "enabled" ELSE "disabled" IN
  consumer' = IF s # stateShadow THEN s ELSE consumer

\* EvaluateState.  The logic may drive _On, now or since the last evaluation;
\* Update and Apply follow.
Evaluate ==
  /\ ctor = "done"
  /\ main = "idle"
  /\ dirty
  /\ ahead = 0
  /\ dirty' = FALSE
  /\ on' \in BOOLEAN
  /\ Apply(on')
  /\ UNCHANGED <<watcherVars, ctor, shadowVars, signalVars, ahead, delivered>>

\* A timer, an input or a request changes a signal of the logic.
OtherSignal ==
  /\ ctor = "done"
  /\ main = "idle"
  /\ ~dirty
  /\ dirty' = TRUE
  /\ ahead' = Len(posted)
  /\ UNCHANGED <<watcherVars, ctor, shadowVars, on, signalVars, consumer,
                 delivered>>

-----------------------------------------------------------------------------
(* The hardware.                                                           *)

\* It follows what was written, or does what it likes.
StateChanges ==
  /\ \E v \in IF Independent THEN State ELSE {consumer} : Change("state", v)
  /\ UNCHANGED regVars

\* The status follows the state, or changes among those allowed in it.
StatusChanges ==
  /\ \E v \in StatusIn[content["state"]] : Change("status", v)
  /\ UNCHANGED regVars

Failure ==
  /\ Change("events", "failure")
  /\ UNCHANGED regVars

Hardware == StateChanges \/ StatusChanges \/ Failure

\* The thread reads in the order of the descriptors, which are opened in the
\* order state, status, events.
InOrder ==
  thread = "reading" =>
    /\ "state" \in toRead => "state" \notin toRead'
    /\ "status" \in toRead /\ "state" \notin toRead => "status" \notin toRead'

WatcherThread == ThreadStep /\ InOrder /\ UNCHANGED regVars
WatcherFails == ThreadFails /\ InOrder /\ UNCHANGED regVars
WatcherCall == MainStep /\ UNCHANGED regVars

Next ==
  \/ Construct \/ WatcherCall
  \/ WatcherThread \/ WatcherFails
  \/ Handler \/ Evaluate \/ OtherSignal
  \/ Hardware

Spec == Init /\ [][Next]_vars

\* Both threads run.
Fairness ==
  /\ WF_vars(Construct \/ WatcherCall)
  /\ WF_vars(WatcherThread)
  /\ WF_vars(Handler \/ Evaluate)
FairSpec == Spec /\ Fairness

-----------------------------------------------------------------------------
(***************************************************************************)
(* Properties                                                              *)
(***************************************************************************)

\* "PowerGood = Enabled && !Fault" (doc/IO.md:49), in whatever order and however
\* late the three files are handled.
PowerGoodDefined == powergood <=> enabled /\ ~fault

Pending(f) == f \in notified \/ \E k \in DOMAIN posted : posted[k].file = f

\* The shadow of f shows what f holds, as far as decoding can tell.
StateFresh ==
  \/ stateShadow = DecodeState(content["state"], FALSE)
  \/ TRUE \in Tails /\ stateShadow = "unknown"
StatusFresh ==
  \/ statusShadow = DecodeStatus(content["status"], FALSE)
  \/ TRUE \in Tails /\ statusShadow = "error"

\* Handlers that run late, behind each other and with old data leave the shadows
\* of the present: a shadow that was updated by a handler at all is out of date
\* only while another handler for the file is on its way.
ShadowsFollow ==
  "read" \notin Fails =>
    /\ "state" \in delivered => StateFresh \/ Pending("state")
    /\ "status" \in delivered => StatusFresh \/ Pending("status")

\* Nothing is on its way, and the hardware did what was written.
AtRest ==
  /\ ctor = "done"
  /\ main = "idle"
  /\ notified = {}
  /\ posted = <<>>
  /\ ~dirty
  /\ content["state"] = consumer
  /\ content["status"] \in StatusIn[consumer]

\* At rest the regulator is off when _On is low, though Apply decides by a shadow
\* that is old while a change is on its way, and then writes nothing: the change
\* that arrives later moves a signal, and the evaluation applies again.  Both
\* files must be watched for that: one that cannot be opened is not.
OffIsApplied ==
  AtRest /\ {"state", "status"} \subseteq events /\ ~on => consumer = "disabled"

\* Every change of the hardware shows in the shadows in the end, unless an error
\* of poll has ended the watcher thread for good, or a file that could not be
\* opened has left the watcher without one.
HardwareStops ==
  <>[][content' = [content EXCEPT !["events"] = content'["events"]]]_vars
ChangesArrive ==
  HardwareStops => <>[](\/ thread \in {"ended", "none"}
                        \/ /\ "state" \in delivered => StateFresh
                           /\ "status" \in delivered => StatusFresh)

(***************************************************************************)
(* What the documents and comments say                                     *)
(***************************************************************************)

\* "An input driver must fetch the hardware state and call the SetLevel()
\* method" (doc/IO.md:18): at rest the shadows are those of the hardware, also
\* when it changed between the constructor's reads and the watcher's first.
ShowsHardware == AtRest => StateFresh /\ StatusFresh

\* "An output driver must apply the current signal level" (doc/IO.md:21): at rest
\* the regulator is on when _On is high.
OnIsApplied == AtRest /\ on => consumer = "enabled"

\* "DecodeStatus converts the value read" (VoltageRegulator.hpp:99): the shadow
\* is the status that was read.
DecodesWhatWasRead ==
  [][posted # <<>> /\ posted' = Tail(posted) /\ Head(posted).file = "status"
       => statusShadow' = Head(posted).data]_vars
=============================================================================
