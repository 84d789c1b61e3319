---------------------------- MODULE MCRegulator ----------------------------
(***************************************************************************)
(* A regulator whose three files are watched.                              *)
(***************************************************************************)
EXTENDS VoltageRegulator

Files == {"state", "status", "events"}
Contents == State \cup Status \cup Events
Cleans == {"events"}

\* A disabled regulator is off, an enabled one on or in error.
Regular == [s \in State |-> CASE s = "enabled" -> {"on", "error"}
                              [] s = "disabled" -> {"off"}
                              [] OTHER -> Status]

\* An enabled one may also be off: it ramps up, or another consumer rules it.
Slow == [Regular EXCEPT !["enabled"] = Status]

\* Anything goes.
Wild == [s \in State |-> Status]
=============================================================================
