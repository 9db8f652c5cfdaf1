------------------------------ MODULE MCRelay ------------------------------
(***************************************************************************)
(* TLC instance of Relay: each role has a connection for its client and    *)
(* one that the server may still hold for a client long gone.              *)
(***************************************************************************)
EXTENDS Relay

CONSTANTS a1, a2, g1, g2

MCAgentConns == {a1, a2}
MCGatewayConns == {g1, g2}
=============================================================================
