---------------------------- MODULE LossTracking ----------------------------
(***************************************************************************)
(* One direction of a tunnel as the loss estimate sees it: the sender's    *)
(* tasks number their frames from one shared counter (tx_seq), the network *)
(* delivers, loses or repeats them, and the receiver feeds its PacketStats *)
(* with the numbers of the Ethernet frames only (engine.rs:297-305).       *)
(*                                                                         *)
(* A control frame reaches the statistics without its number, so only how  *)
(* many of them are in flight matters.  The network keeps the order of     *)
(* Ethernet frames: a frame that is overtaken is charged as a loss.        *)
(***************************************************************************)
EXTENDS PacketStats, Sequences

CONSTANTS MaxSent,      \* bound: frames sent, over all sessions of the sender
          MaxRestarts,  \* bound: restarts of the sender
          MaxInFlight   \* bound: frames in the network

ASSUME BoundsAssumption == MaxSent \in Nat /\ MaxRestarts \in Nat /\ MaxInFlight \in Nat

VARIABLES
    txSeq,      \* the sender's tx_seq
    wire,       \* Ethernet frames in flight, oldest first
    ctlWire,    \* control frames in flight
    restarts,   \* restarts of the sender so far
    ctlSent,    \* history: control frames sent
    ethSent,    \* history: Ethernet frames sent
    ethLost,    \* history: Ethernet frames the network lost
    rxSkip      \* history: the mark of the last Ethernet frame received

netVars == <<txSeq, wire, ctlWire, restarts>>
histVars == <<ctlSent, ethSent, ethLost, rxSkip>>
vars == <<statsVars, netVars, histVars>>

\* The sequence numbers no delivered Ethernet frame carries.  A frame is
\* marked, for the properties only, with their number at the time it is sent.
Skipped == ctlSent + ethLost

Frames == [seq : Nat, skip : Nat]

TypeOK ==
    /\ StatsTypeOK
    /\ txSeq \in Nat \ {0}
    /\ wire \in Seq(Frames)
    /\ ctlWire \in Nat /\ restarts \in Nat
    /\ ctlSent \in Nat /\ ethSent \in Nat /\ ethLost \in Nat
    /\ rxSkip \in Nat

Init ==
    /\ StatsInit
    /\ txSeq = 1
    /\ wire = <<>>
    /\ ctlWire = 0
    /\ restarts = 0
    /\ ctlSent = 0
    /\ ethSent = 0
    /\ ethLost = 0
    /\ rxSkip = 0
-----------------------------------------------------------------------------
CanSend == ctlSent + ethSent < MaxSent

\* eth_to_udp takes the next number for an Ethernet frame; the network may
\* deliver the frame twice ...
SendEthernet ==
    /\ CanSend
    /\ txSeq' = txSeq + 1
    /\ LET frame == [seq |-> txSeq, skip |-> Skipped]
       IN  wire' \in {Append(wire, frame), Append(Append(wire, frame), frame)}
    /\ Len(wire') <= MaxInFlight
    /\ ethSent' = ethSent + 1
    /\ UNCHANGED <<statsVars, ctlWire, restarts, ctlSent, ethLost, rxSkip>>

\* ... or lose it.  In a network that keeps the order it makes
\* no difference to the receiver when the loss happens.
LoseEthernet ==
    /\ CanSend
    /\ txSeq' = txSeq + 1
    /\ ethSent' = ethSent + 1
    /\ ethLost' = ethLost + 1
    /\ UNCHANGED <<statsVars, wire, ctlWire, restarts, ctlSent, rxSkip>>

\* A keepalive, a reply, a Hello or a Status takes a number of the same counter.
SendControl ==
    /\ CanSend
    /\ txSeq' = txSeq + 1
    /\ ctlSent' = ctlSent + 1
    /\ ctlWire' \in {ctlWire, ctlWire + 1}      \* lost or in flight
    /\ ctlWire' <= MaxInFlight
    /\ UNCHANGED <<statsVars, wire, restarts, ethSent, ethLost, rxSkip>>

\* The sender's engine is started anew with a counter of its own.
RestartSender ==
    /\ restarts < MaxRestarts
    /\ restarts' = restarts + 1
    /\ txSeq' = 1
    /\ UNCHANGED <<statsVars, wire, ctlWire, histVars>>

ReceiveEthernet ==
    /\ wire # <<>>
    /\ RecordRxSeq(Head(wire).seq)
    /\ rxSkip' = Head(wire).skip
    /\ wire' = Tail(wire)
    /\ UNCHANGED <<txSeq, ctlWire, restarts, ctlSent, ethSent, ethLost>>

ReceiveControl ==
    /\ ctlWire > 0
    /\ ctlWire' = ctlWire - 1
    /\ RecordRxNoSeq
    /\ UNCHANGED <<txSeq, wire, restarts, histVars>>

\* The engine resets the sequence when it learns or changes its peer; as to
\* the statistics that can happen at any time.
PeerIdentityChanged ==
    /\ ResetRxSequence
    /\ UNCHANGED <<netVars, histVars>>

\* Some caller of the status API takes a snapshot.
PollStatus ==
    /\ Snapshot
    /\ UNCHANGED <<netVars, histVars>>

Next ==
    \/ SendEthernet
    \/ LoseEthernet
    \/ SendControl
    \/ RestartSender
    \/ ReceiveEthernet
    \/ ReceiveControl
    \/ PeerIdentityChanged
    \/ PollStatus

Spec == Init /\ [][Next]_vars
-----------------------------------------------------------------------------
(***************************************************************************)
(* However frames are lost, repeated and polled, and however often the     *)
(* sender restarts or the receiver forgets its sequence, record_rx         *)
(* (stats.rs:117-146) never charges more loss than there are sequence      *)
(* numbers which no delivered Ethernet frame carries: those of control     *)
(* frames and of lost frames.                                              *)
(***************************************************************************)
LossIsAccounted == seqGaps <= Skipped
=============================================================================
