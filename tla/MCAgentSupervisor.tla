------------------------- MODULE MCAgentSupervisor -------------------------
(***************************************************************************)
(* TLC instance of AgentSupervisor: two addresses, and an old and a new    *)
(* pair code and password; the Host has the new ones.                      *)
(***************************************************************************)
EXTENDS AgentSupervisor

CONSTANTS h1, h2, old, new, r1

MCAddrs == {h1, h2}
MCCodes == {old, new}
MCNew == {new}
MCHandlers == {r1}
=============================================================================
