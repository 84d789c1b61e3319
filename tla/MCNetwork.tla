----------------------------- MODULE MCNetwork -----------------------------
(***************************************************************************)
(* A network with a loop, in the manner of config/genesis3/pch.yaml: the   *)
(* set/reset latch                                                         *)
(*   q  = NOT (rst OR nq)                                                  *)
(*   nq = NOT (set held for a while OR q)                                  *)
(* and a delayed, active low unit behind it,                               *)
(*   led = NOT (q OR NOT set), some time later                             *)
(* with an output on q and on led.  Two states of the latch are consistent *)
(* when neither input is high, so the order in which the units are updated *)
(* decides between them, and the loop may need more than one pass.  set    *)
(* reaches led directly, and debounced through the latch.                  *)
(***************************************************************************)
EXTENDS StateMachine

MCSignal == {"set", "rst", "q", "nq", "led"}
MCCreated == <<"rst", "nq", "set", "q", "led">>
MCUnit == {"uq", "unq", "uled"}
MCLogicInput == {"q1", "q2", "n1", "n2", "l1", "l2"}
MCAndInputs == [uq |-> <<>>, unq |-> <<>>, uled |-> <<"l1">>]
MCOrInputs ==
  [uq |-> <<"q1", "q2">>, unq |-> <<"n1", "n2">>, uled |-> <<"l2">>]
MCAndThenOr == [uq |-> FALSE, unq |-> FALSE, uled |-> TRUE]
MCInvertFirst == [uq |-> TRUE, unq |-> TRUE, uled |-> FALSE]
MCActiveLow == [uq |-> FALSE, unq |-> FALSE, uled |-> TRUE]
MCDelayed == {"uled"}
MCOutOf == [uq |-> "q", unq |-> "nq", uled |-> "led"]
MCParent ==
  [q1 |-> "uq", q2 |-> "uq", n1 |-> "unq", n2 |-> "unq", l1 |-> "uled",
   l2 |-> "uled"]
MCInputSignal ==
  [q1 |-> "rst", q2 |-> "nq", n1 |-> "set", n2 |-> "q", l1 |-> "q",
   l2 |-> "set"]
MCInvert == [i \in MCLogicInput |-> i = "l2"]
MCDebounced == {"n1"}
MCInput == {"set", "rst"}
MCOutput == {"oq", "oled"}
MCOutputSignal == [oq |-> "q", oled |-> "led"]
MCReceivers ==
  [set |-> <<"n1", "l2">>, rst |-> <<"q1">>, q |-> <<"n2", "l1", "oq">>,
   nq |-> <<"q2">>, led |-> <<"oled">>]
=============================================================================
