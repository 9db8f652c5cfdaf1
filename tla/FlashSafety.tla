----------------------------- MODULE FlashSafety -----------------------------
(***************************************************************************)
(* The flash-safety verdict of the gateway: evaluate() of enet-core's      *)
(* safety.rs over the statistics of LossTracking, as api_status of the     *)
(* gateway calls it for every window and browser tab that shows it.        *)
(*                                                                         *)
(* Each call judges the window since the last one, whoever made that, and  *)
(* starts a new one.  The vehicle and the peer are the engine's business   *)
(* (TunnelEngine): here they may come and go at any time, and so may round *)
(* trip times and CPU load above their limits.                             *)
(***************************************************************************)
EXTENDS LossTracking

CONSTANTS Viewers,              \* callers of api_status and api_safety
          MinSamples,           \* min_rtt_samples_hint
          LimitNum, LimitDen    \* safety_max_loss_rate = LimitNum / LimitDen

ASSUME SafetyAssumption ==
    /\ MinSamples \in Nat
    /\ LimitNum \in Nat /\ LimitDen \in Nat \ {0} /\ LimitNum <= LimitDen

VARIABLES
    rxPackets,  \* rx_packets, up to MinSamples: packets since the engine started
    ready,      \* peer connected, vehicle linked and awake
    idle,       \* the window is so long that its packet rate is 0.5/s at most
    verdict,    \* the last answer to each viewer
    lost, got,  \* history: per viewer, losses charged and packets received since
                \* the last answer
    alone       \* history: per viewer, nobody else has ended a window since then

safetyVars == <<rxPackets, ready, idle, verdict, lost, got, alone>>
allVars == <<vars, safetyVars>>

SafetyInit ==
    /\ Init
    /\ rxPackets = 0
    /\ ready = FALSE
    /\ idle = FALSE
    /\ verdict = [v \in Viewers |-> "none"]
    /\ lost = [v \in Viewers |-> 0] /\ got = [v \in Viewers |-> 0]
    /\ alone = [v \in Viewers |-> TRUE]
-----------------------------------------------------------------------------
Send ==
    /\ SendEthernet \/ LoseEthernet \/ SendControl \/ RestartSender
    /\ UNCHANGED safetyVars

Receive ==
    /\ ReceiveEthernet \/ ReceiveControl
    /\ rxPackets' = IF rxPackets < MinSamples THEN rxPackets + 1 ELSE rxPackets
    /\ got' = [v \in Viewers |-> got[v] + 1]
    /\ lost' = [v \in Viewers |-> lost[v] + (seqGaps' - seqGaps)]
    /\ UNCHANGED <<ready, idle, verdict, alone>>

\* The engine meets another peer: reset_rx_sequence drops the window's losses.
PeerChanges ==
    /\ PeerIdentityChanged
    /\ alone' = [v \in Viewers |-> FALSE]
    /\ UNCHANGED <<rxPackets, ready, idle, verdict, lost, got>>

\* The car and the laptop come and go.
ReadyChanges ==
    /\ ready' = ~ready
    /\ UNCHANGED <<vars, rxPackets, idle, verdict, lost, got, alone>>

\* A long time without packets, or with few.
Silence ==
    /\ ~idle /\ idle' = TRUE
    /\ UNCHANGED <<vars, rxPackets, ready, verdict, lost, got, alone>>

\* losses / (packets + losses) is above the limit.
ExceedsLimit(losses, packets) ==
    LET received == IF packets = 0 THEN 1 ELSE packets
    IN  losses * LimitDen > LimitNum * (received + losses)

\* MUTANT: snapshot() is called before the rate is computed.
ReasonsOfNextWindow ==
    \/ ~ready
    \/ ExceedsLimit(0, 0) /\ ~idle
    \/ rxPackets < MinSamples

\* evaluate() finds something but RTT and CPU against flashing.
Reasons ==
    \/ ~ready
    \/ ExceedsLimit(windowLoss, windowRx) /\ ~idle
    \/ rxPackets < MinSamples

\* api_status, api_safety
Judge(v) ==
    /\ PollStatus
    /\ \E slow \in BOOLEAN :
          verdict' = [verdict EXCEPT ![v] = IF Reasons \/ slow THEN "unsafe" ELSE "safe"]
    /\ idle' = FALSE
    /\ lost' = [lost EXCEPT ![v] = 0] /\ got' = [got EXCEPT ![v] = 0]
    /\ alone' = [w \in Viewers |-> w = v]
    /\ UNCHANGED <<rxPackets, ready>>

SafetyNext ==
    \/ Send \/ Receive \/ PeerChanges \/ ReadyChanges \/ Silence
    \/ \E v \in Viewers : Judge(v)

SafetySpec == SafetyInit /\ [][SafetyNext]_allVars
-----------------------------------------------------------------------------
(***************************************************************************)
(* A viewer is told that flashing is safe only if the losses charged since *)
(* its last answer are within the limit (safety.rs:107-116), unless        *)
(* another viewer or a new peer has ended the window in between, or the    *)
(* losses are diluted by a long silence.                                   *)
(***************************************************************************)
SafeMeansFewLosses ==
    [][\A v \in Viewers :
          Judge(v) /\ verdict'[v] = "safe" /\ alone[v] /\ ~idle => ~ExceedsLimit(lost[v], got[v])]_allVars
=============================================================================
