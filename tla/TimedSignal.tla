---------------------------- MODULE TimedSignal ----------------------------
(***************************************************************************)
(* A signal and the time of its last change (src/Signal.cpp), as the       *)
(* debounced input of a logic unit sees it.                                *)
(*                                                                         *)
(* Time is discrete and kept relative to the present: age is how long ago  *)
(* the level changed, and it stops at Stable, the only value it is         *)
(* compared with.  The bookkeeping of SignalProvider is modelled in        *)
(* SignalProvider; here dirty is the set of signals an EvaluateState       *)
(* handler is queued for.                                                  *)
(***************************************************************************)
EXTENDS Integers

CONSTANT Stable  \* LogicInput::inputStableUsec, in ticks

ASSUME StableAssumption == Stable \in Nat \ {0}

VARIABLES active,  \* Signal::active of the unit's input signal
          age,     \* time since Signal::lastLevelChangeTime, up to Stable
          dirty    \* which of the unit's signals wait for EvaluateState

timedSignalVars == <<active, age, dirty>>

TimedSignalTypeOK ==
  /\ active \in BOOLEAN
  /\ age \in 0..Stable
  /\ dirty \in SUBSET {"in", "out"}

\* All signals are created low and dirty; how long the constructors of the
\* others take is left open.
TimedSignalInit ==
  /\ active = FALSE
  /\ age \in 0..Stable
  /\ dirty = {"in", "out"}

\* Signal::SetLevel: a change restarts the clock and marks the signal.
SetLevel(newLevel) ==
  IF active = newLevel
  THEN UNCHANGED timedSignalVars
  ELSE /\ active' = newLevel
       /\ age' = 0
       /\ dirty' = dirty \cup {"in"}
=============================================================================
