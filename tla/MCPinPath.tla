----------------------------- MODULE MCPinPath -----------------------------
(***************************************************************************)
(* A clock that may be set back or forward.                                *)
(***************************************************************************)
EXTENDS PinPath

MCJumps == {-1, 1}
=============================================================================
