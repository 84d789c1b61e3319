--------------------------- MODULE SignalProvider ---------------------------
(***************************************************************************)
(* The signals of the sequencer and the provider that tracks which of them *)
(* changed (src/Signal.cpp, src/SignalProvider.cpp).                       *)
(*                                                                         *)
(* Every call comes from the one thread that runs the io_context, so an    *)
(* operation is a step.  The provider keeps two vectors, dirtyA and        *)
(* dirtyB: one collects the signals that change, the other is the list     *)
(* handed out last, which EvaluateState still iterates.                    *)
(***************************************************************************)
EXTENDS Naturals, Sequences, Functions

CONSTANTS Signal,    \* the signals of the configuration
          Created    \* the signals in the order FindOrAdd created them

ASSUME CreatedAssumption ==
  /\ Created \in Seq(Signal)
  /\ Range(Created) = Signal
  /\ IsInjective(Created)

VARIABLES active,          \* Signal::active, the level of each signal
          dirty,           \* Signal::dirty
          dirtyA,          \* SignalProvider::dirtyA
          dirtyB,          \* SignalProvider::dirtyB
          dirtyAIsActive,  \* SignalProvider::dirtyAIsActive
          posted           \* EvaluateState handlers queued by dirtyBitSignal

signalVars == <<active, dirty, dirtyA, dirtyB, dirtyAIsActive, posted>>

\* The vector that collects changes, and the one handed out last.
Collecting == IF dirtyAIsActive THEN dirtyA ELSE dirtyB
HandedOut == IF dirtyAIsActive THEN dirtyB ELSE dirtyA

SignalTypeOK ==
  /\ active \in [Signal -> BOOLEAN]
  /\ dirty \in [Signal -> BOOLEAN]
  /\ dirtyA \in Seq(Signal)
  /\ dirtyB \in Seq(Signal)
  /\ dirtyAIsActive \in BOOLEAN
  /\ posted \in Nat

\* Constructed but not yet running: every signal is dirty and recorded in
\* dirtyB.  No dirtyBitSignal fired, since Add does not raise it and SetDirty
\* finds the signal in the list; the one handler is the one Run posts.
SignalInit ==
  /\ active \in [Signal -> BOOLEAN]
  /\ dirty = [s \in Signal |-> TRUE]
  /\ dirtyA = <<>>
  /\ dirtyB = Created
  /\ dirtyAIsActive = FALSE
  /\ posted = 1

-----------------------------------------------------------------------------
\* Mutants of SetDirty: a signal that is still in the list being iterated is not
\* recorded again; always the same vector collects; the event is raised only
\* for a list that already had an element.
SetDirtyOnceInBoth(s) ==
  IF s \in Range(dirtyA) \cup Range(dirtyB)
  THEN UNCHANGED <<dirtyA, dirtyB, posted>>
  ELSE /\ dirtyA' = IF dirtyAIsActive THEN Append(dirtyA, s) ELSE dirtyA
       /\ dirtyB' = IF dirtyAIsActive THEN dirtyB ELSE Append(dirtyB, s)
       /\ posted' = posted + 1

SetDirtyInA(s) ==
  IF s \in Range(dirtyA)
  THEN UNCHANGED <<dirtyA, dirtyB, posted>>
  ELSE dirtyA' = Append(dirtyA, s) /\ posted' = posted + 1 /\ UNCHANGED dirtyB

SetDirtyQuiet(s) ==
  IF s \in Range(Collecting)
  THEN UNCHANGED <<dirtyA, dirtyB, posted>>
  ELSE /\ dirtyA' = IF dirtyAIsActive THEN Append(dirtyA, s) ELSE dirtyA
       /\ dirtyB' = IF dirtyAIsActive THEN dirtyB ELSE Append(dirtyB, s)
       /\ posted' = IF Collecting = <<>> THEN posted ELSE posted + 1

\* SignalProvider::SetDirty: record s once and raise dirtyBitSignal, which
\* queues an EvaluateState handler (StateMachine::OnDirtySet).
SetDirty(s) ==
  IF s \in Range(Collecting)
  THEN UNCHANGED <<dirtyA, dirtyB, posted>>
  ELSE /\ dirtyA' = IF dirtyAIsActive THEN Append(dirtyA, s) ELSE dirtyA
       /\ dirtyB' = IF dirtyAIsActive THEN dirtyB ELSE Append(dirtyB, s)
       /\ posted' = posted + 1

\* Signal::SetLevel: nothing happens unless the level changes.
SetLevel(s, newLevel) ==
  IF active[s] = newLevel
  THEN UNCHANGED signalVars
  ELSE /\ active' = [active EXCEPT ![s] = newLevel]
       /\ dirty' = [dirty EXCEPT ![s] = TRUE]
       /\ SetDirty(s)
       /\ UNCHANGED dirtyAIsActive

\* A mutant of ClearDirty: it runs after the vectors were swapped.
ClearDirtyLate ==
  dirty' = [s \in Signal |-> dirty[s] /\ s \notin Range(HandedOut)]

\* SignalProvider::ClearDirty: the dirty bits of the collecting vector.
ClearDirty ==
  dirty' = [s \in Signal |-> dirty[s] /\ s \notin Range(Collecting)]

\* A mutant of GetDirtySignalsAndClearList: the list is empty when it is
\* returned, as the comment on ClearDirty would have it.
GetDirtySignalsCleared ==
  /\ ClearDirty
  /\ dirtyAIsActive' = ~dirtyAIsActive
  /\ dirtyA' = <<>>
  /\ dirtyB' = <<>>
  /\ UNCHANGED active

\* SignalProvider::GetDirtySignalsAndClearList: swap the vectors and empty the
\* one that collects from now on.  HandedOut' is the returned list.
GetDirtySignalsAndClearList ==
  /\ ClearDirty
  /\ dirtyAIsActive' = ~dirtyAIsActive
  /\ dirtyA' = IF dirtyAIsActive THEN dirtyA ELSE <<>>
  /\ dirtyB' = IF dirtyAIsActive THEN <<>> ELSE dirtyB
  /\ UNCHANGED active

-----------------------------------------------------------------------------
\* The dirty bit of a signal says whether the collecting vector holds it, and
\* it holds it once.  SetDirty searches the vector, ClearDirty walks it, and
\* the swap happens between the two.
DirtyTracked ==
  /\ \A s \in Signal : dirty[s] <=> s \in Range(Collecting)
  /\ IsInjective(Collecting)
=============================================================================
