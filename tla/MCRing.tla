------------------------------- MODULE MCRing -------------------------------
(***************************************************************************)
(* The smallest loop without a stable state, a unit that inverts its own   *)
(* signal while enabled:  osc = enable AND NOT osc.                        *)
(***************************************************************************)
EXTENDS StateMachine

MCSignal == {"enable", "osc"}
MCCreated == <<"enable", "osc">>
MCUnit == {"ring"}
MCLogicInput == {"i1", "i2"}
MCAndInputs == [ring |-> <<"i1", "i2">>]
MCOrInputs == [ring |-> <<>>]
MCAndThenOr == [ring |-> TRUE]
MCInvertFirst == [ring |-> FALSE]
MCActiveLow == [ring |-> FALSE]
MCDelayed == {}
MCOutOf == [ring |-> "osc"]
MCParent == [i1 |-> "ring", i2 |-> "ring"]
MCInputSignal == [i1 |-> "enable", i2 |-> "osc"]
MCInvert == [i1 |-> FALSE, i2 |-> TRUE]
MCDebounced == {}
MCInput == {"enable"}
MCOutput == {"o"}
MCOutputSignal == [o |-> "osc"]
MCReceivers == [enable |-> <<"i1">>, osc |-> <<"i2", "o">>]
=============================================================================
