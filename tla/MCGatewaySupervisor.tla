------------------------ MODULE MCGatewaySupervisor ------------------------
(***************************************************************************)
(* TLC instance of GatewaySupervisor: an old and a new password.           *)
(***************************************************************************)
EXTENDS GatewaySupervisor

CONSTANTS old, new

MCPairings == {old, new}
=============================================================================
