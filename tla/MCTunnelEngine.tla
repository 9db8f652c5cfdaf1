--------------------------- MODULE MCTunnelEngine ---------------------------
(***************************************************************************)
(* TLC instance of TunnelEngine: two hosts with two ports each, an agent,  *)
(* a gateway, and a gateway that was given its peer.                       *)
(***************************************************************************)
EXTENDS TunnelEngine

CONSTANTS host1, host2, tunnelPort, otherPort

MCIps == {host1, host2}
MCPorts == {tunnelPort, otherPort}
MCOptions == {[role |-> "agent", peer |-> <<host1, tunnelPort>>],
              [role |-> "gateway", peer |-> NoPeer],
              [role |-> "gateway", peer |-> <<host1, otherPort>>]}
=============================================================================
