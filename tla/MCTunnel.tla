------------------------------ MODULE MCTunnel ------------------------------
(***************************************************************************)
(* TLC instance of Tunnel: two ports for the agent's sockets.              *)
(***************************************************************************)
EXTENDS Tunnel

CONSTANTS port1, port2

MCAgentAddrs == {port1, port2}
=============================================================================
