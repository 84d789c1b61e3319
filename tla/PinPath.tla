------------------------------ MODULE PinPath ------------------------------
(***************************************************************************)
(* The way of a level through the sequencer: from a GPIO line through      *)
(* GpioInput, a debounced and delayed logic unit and GpioOutput to a pin,  *)
(* in time.                                                                *)
(*                                                                         *)
(* One thread runs the handlers, in any order when several are ready.  It  *)
(* is never busy for more than Lag ticks on end.  The wall clock, which    *)
(* the timers run on, may be set once while the program runs.              *)
(***************************************************************************)
EXTENDS GpioInput, DelayedUnit

CONSTANTS Lag,   \* ticks the handlers may be late
          Jumps  \* by how much the wall clock may be set

ASSUME PathAssumption ==
  /\ Lag \in Nat
  /\ Jumps \subseteq Int

VARIABLES pin,       \* the output line
          quiet,     \* time since the line changed, up to Response
          sinceOut,  \* time since out changed, up to Stable
          busy,      \* ticks passed since the loop was last idle
          clockSet   \* the wall clock was set

pathVars == <<pin, quiet, sinceOut, busy, clockSet>>
vars == <<timedSignalVars, gpioVars, unitVars, pathVars>>

\* A level has crossed the path after this time: the edge, the timer of the input,
\* and the delayed change with the write of the pin are each late by Lag.
Response == Stable + Delay + 3 * Lag + 1

TypeOK ==
  /\ TimedSignalTypeOK
  /\ GpioTypeOK
  /\ UnitTypeOK
  /\ pin \in BOOLEAN
  /\ quiet \in 0..Response
  /\ sinceOut \in 0..Stable
  /\ busy \in 0..Lag
  /\ clockSet \in BOOLEAN

Init ==
  /\ TimedSignalInit
  /\ GpioInit
  /\ UnitInit
  /\ pin \in BOOLEAN
  /\ quiet = 0
  /\ sinceOut = Stable
  /\ busy = 0
  /\ clockSet = FALSE

-----------------------------------------------------------------------------
SinceOut == sinceOut' = IF out' = out THEN sinceOut ELSE 0

\* The steps of the input change neither the unit nor the pin.
LineChanges ==
  /\ Edge
  /\ quiet' = 0
  /\ UNCHANGED <<timedSignalVars, unitVars, pin, sinceOut, busy, clockSet>>

ReadsLine == InitialRead /\ UNCHANGED <<unitVars, pathVars>>
ReadsEvent == OnEvent /\ UNCHANGED <<unitVars, pathVars>>
StopsWaiting == WaitError /\ UNCHANGED <<unitVars, pathVars>>

StartsUnit ==
  /\ FirstUpdate
  /\ SinceOut
  /\ UNCHANGED <<gpioVars, pin, quiet, busy, clockSet>>

InputSettles ==
  /\ InputTimer
  /\ SinceOut
  /\ UNCHANGED <<gpioVars, pin, quiet, busy, clockSet>>

ChangeDue ==
  /\ OutputTimer
  /\ SinceOut
  /\ UNCHANGED <<gpioVars, pin, quiet, busy, clockSet>>

\* EvaluateState: update the unit when its input is dirty, and write the pin
\* once nothing is dirty any more.
Evaluate ==
  /\ dirty # {}
  /\ IF "in" \in dirty
     THEN /\ Update(inTimer)
          /\ UNCHANGED first
     ELSE UNCHANGED <<active, age, unitVars>>
  /\ dirty' = {}
  /\ pin' = out'
  /\ SinceOut
  /\ UNCHANGED <<gpioVars, quiet, busy, clockSet>>

\* Time passes.  Due times and timers count down; the loop must not have been
\* busy for Lag ticks already, unless it is idle.  A timer that is due counts
\* as work until the clock is set: when asio notices that is not known then.
Left(t) == IF t > 0 THEN t - 1 ELSE 0

Busy ==
  \/ initial
  \/ first
  \/ waiting /\ events # <<>>
  \/ dirty # {}
  \/ ~clockSet /\ 0 \in inTimer \cup outTimer

Tick ==
  /\ Busy => busy < Lag
  /\ busy' = IF Busy THEN busy + 1 ELSE 0
  /\ age' = IF age < Stable THEN age + 1 ELSE age
  /\ quiet' = IF quiet < Response THEN quiet + 1 ELSE quiet
  /\ sinceOut' = IF sinceOut < Stable THEN sinceOut + 1 ELSE sinceOut
  /\ inTimer' = {Left(r) : r \in inTimer}
  /\ outTimer' = {Left(r) : r \in outTimer}
  /\ outQueue' = [k \in DOMAIN outQueue |->
                    [outQueue[k] EXCEPT !.due = Left(@)]]
  /\ UNCHANGED <<active, dirty, gpioVars, first, level, lastValue,
                 lastValueValid, out, overflowed, pin, clockSet>>

\* The wall clock is set forward or back, and the timers with it; what is
\* measured with steady_clock is not affected.
SetClock ==
  /\ ~clockSet
  /\ clockSet' = TRUE
  /\ \E j \in Jumps :
       LET Moved(r) == IF r > j THEN r - j ELSE 0
       IN /\ inTimer' = {Moved(r) : r \in inTimer}
          /\ outTimer' = {Moved(r) : r \in outTimer}
  /\ UNCHANGED <<timedSignalVars, gpioVars, first, level, lastValue,
                 lastValueValid, outQueue, out, overflowed, pin, quiet,
                 sinceOut, busy>>

Next ==
  \/ LineChanges
  \/ ReadsLine
  \/ ReadsEvent
  \/ StopsWaiting
  \/ StartsUnit
  \/ InputSettles
  \/ ChangeDue
  \/ Evaluate
  \/ Tick
  \/ SetClock

Spec == Init /\ [][Next]_vars

\* The loop runs a handler while one is ready, and time passes.
Handler ==
  \/ ReadsLine \/ ReadsEvent
  \/ StartsUnit \/ InputSettles \/ ChangeDue
  \/ Evaluate

Fairness == WF_vars(Handler) /\ WF_vars(Tick)

FairSpec == Spec /\ Fairness

-----------------------------------------------------------------------------
\* Once the posted read has run and no edge is left, the signal has the level
\* of the line, in whichever order edges and the read were handled.  Edges the
\* kernel dropped are the exception.
ShowsLine == ~initial /\ events = <<>> /\ ~dropped => active = line

\* The signal never changes more often than the line did, although the posted
\* read may be newer than edges handled after it.
NeverInvents == unseen >= 0

\* A line that kept its level for Response shows on the pin, whatever the memory
\* of the input held, however the changes before were interleaved, and even
\* when the queue of delayed changes overflowed.  An error of the wait, a
\* dropped edge and a clock that is set are the exceptions.
BoundedResponse ==
  quiet = Response /\ waiting /\ ~dropped /\ ~clockSet => pin = line

\* A delayed change is applied once its time has come.  TimerHandler does not
\* look at the time, so this is up to how the timer is started; a change that
\* fell out of the queue and a clock that is set are the exceptions.
DelayKept ==
  [][\/ \A k \in 1..(Len(outQueue) - Len(outQueue')) : outQueue[k].due = 0
     \/ overflowed
     \/ clockSet]_vars

\* The output of a unit with a debounced input stays low for the stability time,
\* less what the handlers are late: the debouncing and the delay together do
\* not shorten a pulse.
LowPulseHolds ==
  [][~out /\ out' => sinceOut >= Stable - Lag \/ Raw \/ clockSet \/ overflowed]_vars

\* When the line stops changing the pin shows it in the end, also when the clock
\* is set meanwhile.
EventuallyShown ==
  <>[][FALSE]_line => <>[](pin = line \/ dropped \/ ~waiting)

\* config/genesis3/pch.yaml:8: "If the input is not stable or logical '0' the
\* result is '0'."  The unit computes high only from a stable input.
UnstableIsZero ==
  [][lastValue' /\ (~lastValue \/ ~lastValueValid) => age >= Stable]_vars
=============================================================================
