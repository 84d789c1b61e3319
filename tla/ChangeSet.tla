----------------------------- MODULE ChangeSet -----------------------------
(***************************************************************************)
(* What the signals and their provider promise to EvaluateState, without   *)
(* vectors, dirty bits and events: a signal that changes its level is in   *)
(* the set of changes that is taken next, and only such a signal is.       *)
(* Taking the set empties it at once, so no change falls between two sets. *)
(***************************************************************************)
CONSTANT Signal

VARIABLES level,    \* the level of each signal
          changed,  \* the signals that changed since the last Take
          taken     \* the set taken last

\* Everything counts as changed when the program starts.
Init ==
  /\ level \in [Signal -> BOOLEAN]
  /\ changed = Signal
  /\ taken = {}

Change(s) ==
  /\ level' = [level EXCEPT ![s] = ~@]
  /\ changed' = changed \cup {s}
  /\ UNCHANGED taken

Take ==
  /\ taken' = changed
  /\ changed' = {}
  /\ UNCHANGED level

Next == Take \/ \E s \in Signal : Change(s)

Spec == Init /\ [][Next]_<<level, changed, taken>>
=============================================================================
