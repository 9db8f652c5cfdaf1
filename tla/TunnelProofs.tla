---------------------------- MODULE TunnelProofs ----------------------------
(***************************************************************************)
(* Proofs about TunnelEngine, for any addresses, any options that satisfy  *)
(* OptionsAssumption and any link behaviour: its invariants, by an         *)
(* inductive one, and the refinement of PeerSession.  Then about Tunnel,   *)
(* for any number of ports of the laptop: the types of both ends and of    *)
(* what is under way between them, and that an end which is stranded stays *)
(* so until it, or for a gateway an agent, is started again.               *)
(***************************************************************************)
EXTENDS TunnelEngine, Tunnel, TLAPS

\* What the tasks rely on: a Status is never awake without a link, and the
\* steps that only an agent has are taken by agents only.
PcCoherent ==
    /\ rxFrame.awake => rxFrame.link
    /\ kaPc = "link" => IsAgent
    /\ ethPc = "touch" => IsAgent

\* The inductive invariant.
EngineInv == TypeOK /\ PcCoherent /\ ConnectionCoherent /\ StatusHonest
-----------------------------------------------------------------------------
\* Frames of the program are frames.
LEMMA FrameIsFrame == \A kind \in Kinds : Frame(kind) \in Frames
BY DEF Frame, Frames

LEMMA StatusIsFrame == TypeOK => StatusFrame \in Frames
BY DEF StatusFrame, Frames, Kinds, TypeOK

\* What is sent to the peer of the moment is a set of datagrams.
LEMMA ToPeerIsDatagrams ==
    ASSUME TypeOK, NEW frames \in SUBSET Frames
    PROVE  ToPeer(frames) \in SUBSET Datagrams
BY DEF ToPeer, TypeOK, Datagrams

\* The sends of the program.
LEMMA SendsAreDatagrams ==
    ASSUME TypeOK
    PROVE  /\ ToPeer({Frame("Ethernet")}) \in SUBSET Datagrams
           /\ ToPeer({Frame("Probe")}) \in SUBSET Datagrams
           /\ ToPeer({Frame("Reply")}) \in SUBSET Datagrams
           /\ ToPeer({Frame("Probe"), Frame("Hello")}) \in SUBSET Datagrams
           /\ ToPeer({StatusFrame}) \in SUBSET Datagrams
           /\ {} \in SUBSET Datagrams
<1>1. \A kind \in Kinds : Frame(kind) \in Frames
  BY FrameIsFrame
<1>2. StatusFrame \in Frames
  BY StatusIsFrame
<1>3. \A kind \in Kinds : ToPeer({Frame(kind)}) \in SUBSET Datagrams
  BY <1>1, ToPeerIsDatagrams
<1>4. {Frame("Probe"), Frame("Hello")} \in SUBSET Frames
  BY <1>1 DEF Kinds
<1>5. ToPeer({Frame("Probe"), Frame("Hello")}) \in SUBSET Datagrams
  BY <1>4, ToPeerIsDatagrams
<1>6. ToPeer({StatusFrame}) \in SUBSET Datagrams
  BY <1>2, ToPeerIsDatagrams
<1>7. QED
  BY <1>3, <1>5, <1>6 DEF Kinds
-----------------------------------------------------------------------------
LEMMA InitType == Init => TypeOK
<1> SUFFICES ASSUME Init PROVE TypeOK
  OBVIOUS
<1>1. Frame("Hello") \in Frames /\ Frame("Reply") \in Frames
  BY FrameIsFrame DEF Kinds
<1>2. /\ opts \in Options
      /\ opts.peer \in Addrs \cup {NoPeer}
      /\ opts.role \in {"agent", "gateway"}
  BY OptionsAssumption DEF Init
<1>3. out \in SUBSET Datagrams
  BY <1>1, <1>2 DEF Init, ToPeer, Datagrams
<1>4. QED
  BY <1>1, <1>2, <1>3 DEF Init, TypeOK

\* Types survive a step of udp_to_eth ...
LEMMA TypeUdpToEth == TypeOK /\ UdpToEth => TypeOK'
<1> SUFFICES ASSUME TypeOK, UdpToEth PROVE TypeOK'
  OBVIOUS
<1> USE DEF TypeOK, stateVars, rxVars
<1>1. ASSUME NEW src \in Addrs, RecvDropped(src) PROVE TypeOK'
  BY <1>1 DEF RecvDropped
<1>2. ASSUME NEW src \in Addrs, NEW frame \in Arriving, Recv(src, frame) PROVE TypeOK'
  BY <1>2 DEF Recv, Arriving
<1>3. CASE Stamp
  BY <1>3 DEF Stamp, RxDone
<1>4. CASE HandleEthernet
  BY <1>4 DEF HandleEthernet, RxDone, SetConnected
<1>5. CASE EthernetInjectFails
  BY <1>5 DEF EthernetInjectFails, RxDone
<1>6. CASE ReplyToProbe
  <2>1. out' \in SUBSET Datagrams
    BY <1>6, SendsAreDatagrams DEF ReplyToProbe
  <2>2. rxPc' = "mark" /\ UNCHANGED <<opts, slot, fresh, stateVars, rxFrame, kaPc, ethPc>>
    BY <1>6 DEF ReplyToProbe
  <2>3. QED
    BY <2>1, <2>2
<1>7. CASE ApplyHello
  BY <1>7 DEF ApplyHello
<1>8. CASE ApplyStatusOnGateway
  BY <1>8 DEF ApplyStatusOnGateway, Frames
<1>9. CASE ApplyStatusOnAgent
  BY <1>9 DEF ApplyStatusOnAgent, SetConnected
<1>10. CASE MarkConnected
  BY <1>10 DEF MarkConnected, SetConnected
<1>11. CASE AckHello
  <2>1. out' \in SUBSET Datagrams
    BY <1>11, SendsAreDatagrams DEF AckHello
  <2>2. rxPc' = "idle" /\ UNCHANGED <<opts, slot, fresh, stateVars, rxFrame, kaPc, ethPc>>
    BY <1>11 DEF AckHello, RxDone
  <2>3. QED
    BY <2>1, <2>2
<1>12. QED
  BY <1>1, <1>2, <1>3, <1>4, <1>5, <1>6, <1>7, <1>8, <1>9, <1>10, <1>11 DEF UdpToEth

\* ... and any other step.
LEMMA TypeStep == TypeOK /\ [Next]_vars => TypeOK'
<1> SUFFICES ASSUME TypeOK, [Next]_vars PROVE TypeOK'
  OBVIOUS
<1> USE DEF TypeOK, stateVars, rxVars
<1>1. CASE UdpToEth
  BY <1>1, TypeUdpToEth
<1>2. CASE KaProbe
  <2> USE <1>2 DEF KaProbe
  <2>1. out' \in SUBSET Datagrams
    BY SendsAreDatagrams
  <2>2. kaPc' \in {"link", "status"}
    OBVIOUS
  <2>3. UNCHANGED <<opts, slot, fresh, stateVars, rxVars, ethPc>>
    OBVIOUS
  <2>4. QED
    BY <2>1, <2>2, <2>3
<1>3. CASE KaLink
  <2>1. link' \in BOOLEAN
    BY <1>3, OptionsAssumption DEF KaLink
  <2>2. awake' \in BOOLEAN
    <3>1. PICK up \in LinkStates, quiet \in BOOLEAN : awake' = (awake /\ up /\ ~quiet)
      BY <1>3, Zenon DEF KaLink
    <3>2. QED
      BY <3>1
  <2>3. QED
    BY <1>3, <2>1, <2>2 DEF KaLink
<1>4. CASE KaStatus
  BY <1>4, SendsAreDatagrams DEF KaStatus
<1>5. CASE KaCheck
  BY <1>5 DEF KaCheck
<1>6. CASE KaFail
  BY <1>6 DEF KaFail
<1>7. CASE KaClear
  BY <1>7 DEF KaClear
<1>8. CASE EthToUdp
  <2>1. out' \in SUBSET Datagrams
    BY <1>8, SendsAreDatagrams DEF EthToUdp
  <2>2. QED
    BY <1>8, <2>1 DEF EthToUdp
<1>9. CASE EthTouch
  BY <1>9 DEF EthTouch
<1>10. CASE Elapse
  <2>1. fresh' \in BOOLEAN
    BY <1>10 DEF Elapse
  <2>2. UNCHANGED <<opts, slot, stateVars, rxVars, kaPc, ethPc>> /\ out' = {}
    BY <1>10 DEF Elapse
  <2>3. QED
    BY <2>1, <2>2
<1>11. CASE UNCHANGED vars
  BY <1>11 DEF vars
<1>12. QED
  BY <1>1, <1>2, <1>3, <1>4, <1>5, <1>6, <1>7, <1>8, <1>9, <1>10, <1>11 DEF Next, Keepalive

(***************************************************************************)
(* Every variable of the engine has its type in every reachable state; in  *)
(* particular nothing is ever sent to an endpoint that is not there.       *)
(***************************************************************************)
THEOREM TypeCorrect == Spec => []TypeOK
<1>1. Init => TypeOK
  BY InitType
<1>2. TypeOK /\ [Next]_vars => TypeOK'
  BY TypeStep
<1>3. QED
  BY <1>1, <1>2, PTL DEF Spec
-----------------------------------------------------------------------------
\* What is sent is honest about the vehicle.
Honest(datagrams) == \A d \in datagrams : d.frame.awake => d.frame.link

LEMMA SendsAreHonest ==
    ASSUME TypeOK
    PROVE  /\ \A kind \in Kinds : Honest(ToPeer({Frame(kind)}))
           /\ Honest(ToPeer({Frame("Probe"), Frame("Hello")}))
           /\ (awake => link) => Honest(ToPeer({StatusFrame}))
           /\ Honest({})
<1>1. \A kind \in Kinds : Honest(ToPeer({Frame(kind)}))
  BY DEF Honest, ToPeer, Frame
<1>2. Honest(ToPeer({Frame("Probe"), Frame("Hello")}))
  BY DEF Honest, ToPeer, Frame
<1>3. ASSUME awake => link PROVE Honest(ToPeer({StatusFrame}))
  <2>1. StatusFrame.awake => StatusFrame.link
    BY <1>3 DEF StatusFrame, TypeOK
  <2>2. QED
    BY <2>1 DEF Honest, ToPeer
<1>4. Honest({})
  BY DEF Honest
<1>5. QED
  BY <1>1, <1>2, <1>3, <1>4

LEMMA InitInv == Init => EngineInv
<1> SUFFICES ASSUME Init PROVE EngineInv
  OBVIOUS
<1>1. TypeOK
  BY InitType
<1>2. Honest(out)
  BY <1>1, SendsAreHonest DEF Init, Kinds
<1>3. QED
  BY <1>1, <1>2 DEF Init, EngineInv, PcCoherent, ConnectionCoherent,
                    StatusHonest, HalfApplied, Honest, Frame

\* Each part of the invariant survives every step.
LEMMA PcStep == TypeOK /\ PcCoherent /\ [Next]_vars => PcCoherent'
<1> SUFFICES ASSUME TypeOK /\ PcCoherent, [Next]_vars PROVE PcCoherent'
  OBVIOUS
<1> USE DEF TypeOK, PcCoherent, IsAgent, stateVars, rxVars
<1>1. ASSUME NEW src \in Addrs, RecvDropped(src) PROVE PcCoherent'
  BY <1>1 DEF RecvDropped
<1>2. ASSUME NEW src \in Addrs, NEW frame \in Arriving, Recv(src, frame) PROVE PcCoherent'
  BY <1>2 DEF Recv, Arriving
<1>3. CASE Stamp
  BY <1>3 DEF Stamp, RxDone
<1>4. CASE HandleEthernet
  BY <1>4 DEF HandleEthernet, Handling, RxDone, SetConnected
<1>5. CASE EthernetInjectFails
  BY <1>5 DEF EthernetInjectFails, Handling, RxDone
<1>6. CASE ReplyToProbe
  BY <1>6 DEF ReplyToProbe, Handling
<1>7. CASE ApplyHello
  BY <1>7 DEF ApplyHello, Handling
<1>8. CASE ApplyStatusOnGateway
  BY <1>8 DEF ApplyStatusOnGateway, Handling, IsGateway
<1>9. CASE ApplyStatusOnAgent
  BY <1>9 DEF ApplyStatusOnAgent, Handling, IsAgent, SetConnected
<1>10. CASE MarkConnected
  BY <1>10 DEF MarkConnected, Handling, SetConnected
<1>11. CASE AckHello
  BY <1>11 DEF AckHello, RxDone
<1>12. CASE KaProbe
  BY <1>12 DEF KaProbe
<1>13. CASE KaLink
  BY <1>13 DEF KaLink
<1>14. CASE KaStatus
  BY <1>14 DEF KaStatus
<1>15. CASE KaCheck
  BY <1>15 DEF KaCheck
<1>16. CASE KaFail
  BY <1>16 DEF KaFail
<1>17. CASE KaClear
  BY <1>17 DEF KaClear
<1>18. CASE EthToUdp
  BY <1>18 DEF EthToUdp
<1>19. CASE EthTouch
  BY <1>19 DEF EthTouch
<1>20. CASE Elapse
  BY <1>20 DEF Elapse
<1>21. CASE UNCHANGED vars
  BY <1>21 DEF vars
<1>22. QED
  BY <1>1, <1>2, <1>3, <1>4, <1>5, <1>6, <1>7, <1>8, <1>9, <1>10, <1>11, <1>12, <1>13, <1>14, <1>15, <1>16, <1>17, <1>18, <1>19, <1>20, <1>21 DEF Next, UdpToEth, Keepalive

LEMMA ConnectionStep == TypeOK /\ PcCoherent /\ ConnectionCoherent /\ [Next]_vars => ConnectionCoherent'
<1> SUFFICES ASSUME TypeOK /\ PcCoherent /\ ConnectionCoherent, [Next]_vars PROVE ConnectionCoherent'
  OBVIOUS
<1> USE DEF TypeOK, PcCoherent, ConnectionCoherent, HalfApplied, IsAgent, IsGateway, stateVars, rxVars
<1>1. ASSUME NEW src \in Addrs, RecvDropped(src) PROVE ConnectionCoherent'
  BY <1>1 DEF RecvDropped
<1>2. ASSUME NEW src \in Addrs, NEW frame \in Arriving, Recv(src, frame) PROVE ConnectionCoherent'
  BY <1>2 DEF Recv, Arriving
<1>3. CASE Stamp
  BY <1>3 DEF Stamp, RxDone
<1>4. CASE HandleEthernet
  BY <1>4 DEF HandleEthernet, Handling, RxDone, SetConnected
<1>5. CASE EthernetInjectFails
  BY <1>5 DEF EthernetInjectFails, Handling, RxDone
<1>6. CASE ReplyToProbe
  BY <1>6 DEF ReplyToProbe, Handling
<1>7. CASE ApplyHello
  BY <1>7 DEF ApplyHello, Handling
<1>8. CASE ApplyStatusOnGateway
  BY <1>8 DEF ApplyStatusOnGateway, Handling, IsGateway
<1>9. CASE ApplyStatusOnAgent
  BY <1>9 DEF ApplyStatusOnAgent, Handling, IsAgent, SetConnected
<1>10. CASE MarkConnected
  BY <1>10 DEF MarkConnected, Handling, SetConnected
<1>11. CASE AckHello
  BY <1>11 DEF AckHello, RxDone
<1>12. CASE KaProbe
  BY <1>12 DEF KaProbe
<1>13. CASE KaLink
  BY <1>13 DEF KaLink
<1>14. CASE KaStatus
  BY <1>14 DEF KaStatus
<1>15. CASE KaCheck
  BY <1>15 DEF KaCheck
<1>16. CASE KaFail
  BY <1>16 DEF KaFail
<1>17. CASE KaClear
  BY <1>17 DEF KaClear
<1>18. CASE EthToUdp
  BY <1>18 DEF EthToUdp
<1>19. CASE EthTouch
  BY <1>19 DEF EthTouch
<1>20. CASE Elapse
  BY <1>20 DEF Elapse
<1>21. CASE UNCHANGED vars
  BY <1>21 DEF vars
<1>22. QED
  BY <1>1, <1>2, <1>3, <1>4, <1>5, <1>6, <1>7, <1>8, <1>9, <1>10, <1>11, <1>12, <1>13, <1>14, <1>15, <1>16, <1>17, <1>18, <1>19, <1>20, <1>21 DEF Next, UdpToEth, Keepalive

LEMMA AwakeStep ==
    TypeOK /\ PcCoherent /\ (awake => link) /\ [Next]_vars => (awake => link)'
<1> SUFFICES ASSUME TypeOK, PcCoherent, awake => link, [Next]_vars PROVE (awake => link)'
  OBVIOUS
<1> USE DEF TypeOK, PcCoherent, IsAgent, IsGateway, stateVars, rxVars
<1>1. ASSUME NEW src \in Addrs, RecvDropped(src) PROVE (awake => link)'
  BY <1>1 DEF RecvDropped
<1>2. ASSUME NEW src \in Addrs, NEW frame \in Arriving, Recv(src, frame) PROVE (awake => link)'
  BY <1>2 DEF Recv, Arriving
<1>3. CASE Stamp
  BY <1>3 DEF Stamp, RxDone
<1>4. CASE HandleEthernet
  BY <1>4 DEF HandleEthernet, Handling, RxDone, SetConnected
<1>5. CASE EthernetInjectFails
  BY <1>5 DEF EthernetInjectFails, Handling, RxDone
<1>6. CASE ReplyToProbe
  BY <1>6 DEF ReplyToProbe, Handling
<1>7. CASE ApplyHello
  BY <1>7 DEF ApplyHello, Handling
<1>8. CASE ApplyStatusOnGateway
  BY <1>8 DEF ApplyStatusOnGateway, Handling
<1>9. CASE ApplyStatusOnAgent
  BY <1>9 DEF ApplyStatusOnAgent, Handling, SetConnected
<1>10. CASE MarkConnected
  BY <1>10 DEF MarkConnected, Handling, SetConnected
<1>11. CASE AckHello
  BY <1>11 DEF AckHello, RxDone
<1>12. CASE KaProbe
  BY <1>12 DEF KaProbe
<1>13. CASE KaLink
  <2>1. PICK up \in LinkStates, quiet \in BOOLEAN :
            link' = up /\ awake' = (awake /\ up /\ ~quiet)
    BY <1>13 DEF KaLink
  <2>2. awake' => up
    BY <2>1, Zenon
  <2>3. QED
    BY <2>1, <2>2, Zenon
<1>14. CASE KaStatus
  BY <1>14 DEF KaStatus
<1>15. CASE KaCheck
  BY <1>15 DEF KaCheck
<1>16. CASE KaFail
  BY <1>16 DEF KaFail
<1>17. CASE KaClear
  BY <1>17 DEF KaClear
<1>18. CASE EthToUdp
  BY <1>18 DEF EthToUdp
<1>19. CASE EthTouch
  BY <1>19 DEF EthTouch
<1>20. CASE Elapse
  BY <1>20 DEF Elapse
<1>21. CASE UNCHANGED vars
  BY <1>21 DEF vars
<1>22. QED
  BY <1>1, <1>2, <1>3, <1>4, <1>5, <1>6, <1>7, <1>8, <1>9, <1>10, <1>11, <1>12, <1>13, <1>14, <1>15, <1>16, <1>17, <1>18, <1>19, <1>20, <1>21 DEF Next, UdpToEth, Keepalive

LEMMA OutStep ==
    TypeOK /\ (awake => link) /\ Honest(out) /\ [Next]_vars => Honest(out)'
<1> SUFFICES ASSUME TypeOK, awake => link, Honest(out), [Next]_vars PROVE Honest(out)'
  OBVIOUS
<1>s. Honest(out)' <=> Honest(out')
  BY DEF Honest
<1>1. ASSUME NEW src \in Addrs, RecvDropped(src) PROVE Honest(out)'
  BY <1>1, <1>s, SendsAreHonest DEF RecvDropped
<1>2. ASSUME NEW src \in Addrs, NEW frame \in Arriving, Recv(src, frame) PROVE Honest(out)'
  BY <1>2, <1>s, SendsAreHonest DEF Recv, Arriving
<1>3. CASE Stamp
  BY <1>3, <1>s, SendsAreHonest DEF Stamp, RxDone
<1>4. CASE HandleEthernet
  BY <1>4, <1>s, SendsAreHonest DEF HandleEthernet, Handling, RxDone, SetConnected
<1>5. CASE EthernetInjectFails
  BY <1>5, <1>s, SendsAreHonest DEF EthernetInjectFails, Handling, RxDone
<1>6. CASE ReplyToProbe
  BY <1>6, <1>s, SendsAreHonest DEF Kinds, ReplyToProbe, Handling
<1>7. CASE ApplyHello
  BY <1>7, <1>s, SendsAreHonest DEF ApplyHello, Handling
<1>8. CASE ApplyStatusOnGateway
  BY <1>8, <1>s, SendsAreHonest DEF ApplyStatusOnGateway, Handling
<1>9. CASE ApplyStatusOnAgent
  BY <1>9, <1>s, SendsAreHonest DEF ApplyStatusOnAgent, Handling, SetConnected
<1>10. CASE MarkConnected
  BY <1>10, <1>s, SendsAreHonest DEF MarkConnected, Handling, SetConnected
<1>11. CASE AckHello
  BY <1>11, <1>s, SendsAreHonest DEF Kinds, AckHello, RxDone
<1>12. CASE KaProbe
  BY <1>12, <1>s, SendsAreHonest DEF Kinds, KaProbe
<1>13. CASE KaLink
  BY <1>13, <1>s, SendsAreHonest DEF KaLink
<1>14. CASE KaStatus
  BY <1>14, <1>s, SendsAreHonest DEF KaStatus
<1>15. CASE KaCheck
  BY <1>15, <1>s, SendsAreHonest DEF KaCheck
<1>16. CASE KaFail
  BY <1>16, <1>s, SendsAreHonest DEF KaFail
<1>17. CASE KaClear
  BY <1>17, <1>s, SendsAreHonest DEF KaClear
<1>18. CASE EthToUdp
  BY <1>18, <1>s, SendsAreHonest DEF Kinds, EthToUdp
<1>19. CASE EthTouch
  BY <1>19, <1>s, SendsAreHonest DEF EthTouch
<1>20. CASE Elapse
  BY <1>20, <1>s, SendsAreHonest DEF Elapse
<1>21. CASE UNCHANGED vars
  BY <1>21, <1>s DEF vars
<1>22. QED
  BY <1>1, <1>2, <1>3, <1>4, <1>5, <1>6, <1>7, <1>8, <1>9, <1>10, <1>11, <1>12, <1>13, <1>14, <1>15, <1>16, <1>17, <1>18, <1>19, <1>20, <1>21 DEF Next, UdpToEth, Keepalive

LEMMA InvStep == EngineInv /\ [Next]_vars => EngineInv'
<1> SUFFICES ASSUME EngineInv, [Next]_vars PROVE EngineInv'
  OBVIOUS
<1>1. /\ TypeOK
      /\ PcCoherent
      /\ ConnectionCoherent
      /\ awake => link
      /\ Honest(out)
  BY Zenon DEF EngineInv, StatusHonest, Honest
<1>2. TypeOK'
  BY <1>1, TypeStep
<1>3. PcCoherent'
  BY <1>1, PcStep
<1>4. ConnectionCoherent'
  BY <1>1, ConnectionStep
<1>5. (awake => link)' /\ Honest(out)'
  BY <1>1, AwakeStep, OutStep
<1>6. StatusHonest'
  BY <1>5, Zenon DEF StatusHonest, Honest
<1>7. QED
  BY <1>2, <1>3, <1>4, <1>6 DEF EngineInv

LEMMA Invariant == Spec => []EngineInv
<1>1. Init => EngineInv
  BY InitInv
<1>2. EngineInv /\ [Next]_vars => EngineInv'
  BY InvStep
<1>3. QED
  BY <1>1, <1>2, PTL DEF Spec

(***************************************************************************)
(* laptop_connected and connection agree and a gateway shows no car after  *)
(* its peer timed out, in whichever way the receive and the keepalive task *)
(* interleave, except while a Status is half applied.                      *)
(***************************************************************************)
THEOREM Coherence == Spec => []ConnectionCoherent
<1>1. EngineInv => ConnectionCoherent
  BY DEF EngineInv
<1>2. QED
  BY <1>1, Invariant, PTL

(***************************************************************************)
(* awake implies link_up, in the state and in every Status an agent sends. *)
(***************************************************************************)
THEOREM HonestStatus == Spec => []StatusHonest
<1>1. EngineInv => StatusHonest
  BY DEF EngineInv
<1>2. QED
  BY <1>1, Invariant, PTL
-----------------------------------------------------------------------------
(***************************************************************************)
(* The refinement.  Every step of the engine is a step of PeerSession, or  *)
(* leaves it as it is: SilentStep and TalkStep are what has to be shown of *)
(* an action.                                                              *)
(***************************************************************************)
LEMMA ToPeerRefines ==
    ASSUME NEW frames, frames # {}
    PROVE  {d.dst : d \in ToPeer(frames)} = Session!ToPeer
<1>1. CASE slot = NoPeer
  BY <1>1 DEF ToPeer, Session!ToPeer
<1>2. CASE slot # NoPeer
  <2>1. ToPeer(frames) = {[dst |-> slot, frame |-> f] : f \in frames}
    BY <1>2 DEF ToPeer
  <2>2. \A d \in ToPeer(frames) : d.dst = slot
    BY <2>1
  <2>3. \E d \in ToPeer(frames) : TRUE
    BY <2>1
  <2>4. QED
    BY <1>2, <2>2, <2>3 DEF Session!ToPeer
<1>3. QED
  BY <1>1, <1>2

LEMMA SendsToPeer ==
    /\ \A kind \in Kinds : {d.dst : d \in ToPeer({Frame(kind)})} = Session!ToPeer
    /\ {d.dst : d \in ToPeer({Frame("Probe"), Frame("Hello")})} = Session!ToPeer
    /\ {d.dst : d \in ToPeer({StatusFrame})} = Session!ToPeer
BY ToPeerRefines

LEMMA SilentStep ==
    ASSUME opts' = opts, out' = {}, Session!Silent
    PROVE  Session!Next
<1>1. sessionOut' = {}
  BY DEF sessionOut
<1>2. QED
  BY <1>1 DEF Session!Next

LEMMA TalkStep ==
    ASSUME opts' = opts, UNCHANGED Session!session, sessionOut' \in {{}, Session!ToPeer}
    PROVE  Session!Next
BY DEF Session!Next

LEMMA InitRefines == Init => Session!Init
<1> SUFFICES ASSUME Init PROVE Session!Init
  OBVIOUS
<1>1. /\ opts.role \in {"agent", "gateway"}
      /\ slot \in Addrs \cup {NoPeer}
  BY OptionsAssumption DEF Init
<1>2. sessionOut = Session!ToPeer
  BY SendsToPeer DEF Init, sessionOut, Kinds
<1>3. sessionRx = "idle" /\ sessionKa = "idle"
  BY DEF Init, sessionRx, sessionKa
<1>4. QED
  BY <1>1, <1>2, <1>3 DEF Init, Session!Init, Session!Begin

LEMMA StepRefines == TypeOK /\ PcCoherent /\ [Next]_vars => [Session!Next]_(Session!vars)
<1> SUFFICES ASSUME TypeOK, PcCoherent, [Next]_vars PROVE [Session!Next]_(Session!vars)
  OBVIOUS
<1> USE DEF TypeOK, PcCoherent, stateVars, rxVars
<1>1. ASSUME NEW src \in Addrs, RecvDropped(src) PROVE Session!Next
  <2>1. UNCHANGED Session!session
    BY <1>1 DEF RecvDropped, Session!session, sessionRx, sessionKa
  <2>2. sessionOut' \in {{}, Session!ToPeer}
    BY <1>1, SendsToPeer DEF RecvDropped, sessionOut, Kinds
  <2>3. QED
    BY <1>1, <2>1, <2>2, TalkStep DEF RecvDropped
<1>2. ASSUME NEW src \in Addrs, NEW frame \in Arriving, Recv(src, frame) PROVE Session!Next
  <2>1. Session!Recv(src, frame.readable)
    BY <1>2 DEF Recv, Session!Recv, sessionRx, sessionKa
  <2>2. frame.readable \in BOOLEAN
    BY DEF Arriving, Frames
  <2>3. QED
    BY <1>2, <2>1, <2>2, SilentStep DEF Recv, Session!Silent
<1>3. CASE Stamp
  <2>1. Session!Stamp
    BY <1>3 DEF Stamp, RxDone, Session!Stamp, sessionRx, sessionKa
  <2>2. QED
    BY <1>3, <2>1, SilentStep DEF Stamp, Session!Silent
<1>4. CASE HandleEthernet
  <2>1. Session!Connect
    BY <1>4 DEF HandleEthernet, Handling, RxDone, SetConnected, Session!Connect, sessionRx, sessionKa
  <2>2. QED
    BY <1>4, <2>1, SilentStep DEF HandleEthernet, Session!Silent
<1>5. CASE EthernetInjectFails
  <2>1. Session!Ignore
    BY <1>5 DEF EthernetInjectFails, Handling, RxDone, Session!Ignore, sessionRx, sessionKa
  <2>2. QED
    BY <1>5, <2>1, SilentStep DEF EthernetInjectFails, Session!Silent
<1>6. CASE ReplyToProbe
  <2>1. UNCHANGED Session!session
    BY <1>6 DEF ReplyToProbe, Handling, Session!session, sessionRx, sessionKa
  <2>2. sessionOut' \in {{}, Session!ToPeer}
    BY <1>6, SendsToPeer DEF ReplyToProbe, sessionOut, Kinds
  <2>3. QED
    BY <1>6, <2>1, <2>2, TalkStep DEF ReplyToProbe
<1>7. CASE ApplyHello
  <2>1. UNCHANGED Session!session
    BY <1>7 DEF ApplyHello, Handling, Session!session, sessionRx, sessionKa
  <2>2. sessionOut' \in {{}, Session!ToPeer}
    BY <1>7, SendsToPeer DEF ApplyHello, sessionOut, Kinds
  <2>3. QED
    BY <1>7, <2>1, <2>2, TalkStep DEF ApplyHello
<1>8. CASE ApplyStatusOnGateway
  <2>1. UNCHANGED Session!session
    BY <1>8 DEF ApplyStatusOnGateway, Handling, Session!session, sessionRx, sessionKa
  <2>2. sessionOut' \in {{}, Session!ToPeer}
    BY <1>8, SendsToPeer DEF ApplyStatusOnGateway, sessionOut, Kinds
  <2>3. QED
    BY <1>8, <2>1, <2>2, TalkStep DEF ApplyStatusOnGateway
<1>9. CASE ApplyStatusOnAgent
  <2>1. Session!ConnectEarly
    BY <1>9 DEF ApplyStatusOnAgent, Handling, SetConnected, Session!ConnectEarly, sessionRx, sessionKa
  <2>2. QED
    BY <1>9, <2>1, SilentStep DEF ApplyStatusOnAgent, Session!Silent
<1>10. CASE MarkConnected
  <2>1. Session!Connect
    BY <1>10 DEF MarkConnected, Handling, SetConnected, Session!Connect, sessionRx, sessionKa
  <2>2. QED
    BY <1>10, <2>1, SilentStep DEF MarkConnected, Session!Silent
<1>11. CASE AckHello
  <2>1. UNCHANGED Session!session
    BY <1>11 DEF AckHello, RxDone, Session!session, sessionRx, sessionKa
  <2>2. sessionOut' \in {{}, Session!ToPeer}
    BY <1>11, SendsToPeer DEF AckHello, sessionOut, Kinds
  <2>3. QED
    BY <1>11, <2>1, <2>2, TalkStep DEF AckHello
<1>12. CASE KaProbe
  <2>1. UNCHANGED Session!session
    BY <1>12 DEF KaProbe, Session!session, sessionRx, sessionKa
  <2>2. sessionOut' \in {{}, Session!ToPeer}
    BY <1>12, SendsToPeer DEF KaProbe, sessionOut, Kinds
  <2>3. QED
    BY <1>12, <2>1, <2>2, TalkStep DEF KaProbe
<1>13. CASE KaLink
  <2>1. UNCHANGED Session!session
    BY <1>13 DEF KaLink, Session!session, sessionRx, sessionKa
  <2>2. sessionOut' \in {{}, Session!ToPeer}
    BY <1>13, SendsToPeer DEF KaLink, sessionOut, Kinds
  <2>3. QED
    BY <1>13, <2>1, <2>2, TalkStep DEF KaLink
<1>14. CASE KaStatus
  <2>1. UNCHANGED Session!session
    BY <1>14 DEF KaStatus, Session!session, sessionRx, sessionKa
  <2>2. sessionOut' \in {{}, Session!ToPeer}
    BY <1>14, SendsToPeer DEF KaStatus, sessionOut, Kinds
  <2>3. QED
    BY <1>14, <2>1, <2>2, TalkStep DEF KaStatus
<1>15. CASE KaCheck
  <2>1. CASE TimedOut
    <3>1. Session!Check
      BY <1>15, <2>1 DEF KaCheck, TimedOut, Session!Check, sessionRx, sessionKa
    <3>2. QED
      BY <1>15, <3>1, SilentStep DEF KaCheck, Session!Silent
  <2>2. CASE ~TimedOut
    <3>1. UNCHANGED Session!session
      BY <1>15, <2>2 DEF KaCheck, Session!session, sessionRx, sessionKa
    <3>2. sessionOut' \in {{}, Session!ToPeer}
      BY <1>15 DEF KaCheck, sessionOut
    <3>3. QED
      BY <1>15, <3>1, <3>2, TalkStep DEF KaCheck
  <2>3. QED
    BY <2>1, <2>2
<1>16. CASE KaFail
  <2>1. opts.role \in {"agent", "gateway"}
    BY OptionsAssumption
  <2>2. Session!Fail
    BY <1>16, <2>1 DEF KaFail, IsAgent, IsGateway, Session!Fail, sessionRx, sessionKa
  <2>3. QED
    BY <1>16, <2>2, SilentStep DEF KaFail, Session!Silent
<1>17. CASE KaClear
  <2>1. Session!Clear
    BY <1>17 DEF KaClear, Session!Clear, sessionRx, sessionKa
  <2>2. QED
    BY <1>17, <2>1, SilentStep DEF KaClear, Session!Silent
<1>18. CASE EthToUdp
  <2>1. UNCHANGED Session!session
    BY <1>18 DEF EthToUdp, Session!session, sessionRx, sessionKa
  <2>2. sessionOut' \in {{}, Session!ToPeer}
    BY <1>18, SendsToPeer DEF EthToUdp, sessionOut, Kinds
  <2>3. QED
    BY <1>18, <2>1, <2>2, TalkStep DEF EthToUdp
<1>19. CASE EthTouch
  <2>1. UNCHANGED Session!session
    BY <1>19 DEF EthTouch, Session!session, sessionRx, sessionKa
  <2>2. sessionOut' \in {{}, Session!ToPeer}
    BY <1>19, SendsToPeer DEF EthTouch, sessionOut, Kinds
  <2>3. QED
    BY <1>19, <2>1, <2>2, TalkStep DEF EthTouch
<1>20. CASE Elapse
  <2>1. Session!Elapse
    BY <1>20 DEF Elapse, Session!Elapse, sessionRx, sessionKa
  <2>2. QED
    BY <1>20, <2>1, SilentStep DEF Elapse, Session!Silent
<1>21. CASE UNCHANGED vars
  BY <1>21 DEF vars, Session!vars, Session!session, sessionRx, sessionKa, sessionOut
<1>22. QED
  BY <1>1, <1>2, <1>3, <1>4, <1>5, <1>6, <1>7, <1>8, <1>9, <1>10, <1>11, <1>12, <1>13, <1>14, <1>15, <1>16, <1>17, <1>18, <1>19, <1>20, <1>21 DEF Next, UdpToEth, Keepalive

(***************************************************************************)
(* The engine implements PeerSession, for any addresses and options.       *)
(***************************************************************************)
THEOREM Refinement == Spec => ImplementsSession
<1>1. Init => Session!Init
  BY InitRefines
<1>2. EngineInv => TypeOK /\ PcCoherent
  BY DEF EngineInv
<1>3. TypeOK /\ PcCoherent /\ [Next]_vars => [Session!Next]_(Session!vars)
  BY StepRefines
<1>4. QED
  BY <1>1, <1>2, <1>3, Invariant, PTL DEF Spec, ImplementsSession, Session!Spec
-----------------------------------------------------------------------------
(***************************************************************************)
(* The two ends together.  An end is in the middle of a timeout only while *)
(* it has a peer, since nothing else takes a peer away; and a datagram is  *)
(* always from one end's address to the other's.                           *)
(***************************************************************************)
AgentSide ==
    IF AgentRuns THEN A!SessionTypeOK /\ (aKa # "idle" => aSlot # Nobody)
                 ELSE aSlot = Nobody /\ aRx = "idle" /\ aKa = "idle"
GatewaySide ==
    IF GatewayRuns THEN G!SessionTypeOK /\ (gKa # "idle" => gSlot # Nobody)
                   ELSE gSlot = Nobody /\ gRx = "idle" /\ gKa = "idle"

Between ==
    /\ aAddr \in AgentAddrs /\ stable \in BOOLEAN
    /\ net \subseteq Packets
    /\ \A d \in net : d.dst \in AgentAddrs <=> d.src = GatewayAddr

TunnelInv == AgentSide /\ GatewaySide /\ Between

USE AddressAssumption

\* Nothing is sent without a peer.
LEMMA SendFacts ==
    ASSUME Between, NEW from, NEW to, Send(from, to)
    PROVE  /\ to = Nobody => net' = net
           /\ net' \subseteq Packets
           /\ \A d \in net' : d \in net \/ (d.src = from /\ d.dst = to /\ to # Nobody)
  BY DEF Between, Send, Packets

LEMMA AgentSteps ==
    ASSUME AgentSide, AgentRuns,
           \/ A!Recv(GatewayAddr, TRUE) \/ A!Stamp \/ A!Connect \/ A!ConnectEarly \/ A!Ignore
           \/ A!Check \/ A!Fail \/ A!Clear \/ A!Elapse
    PROVE  AgentSide'
  BY DEF AgentSide, AgentRuns, A!SessionTypeOK, A!Recv, A!Stamp, A!Connect, A!ConnectEarly, A!Ignore,
     A!Check, A!Fail, A!Clear, A!Elapse

LEMMA GatewaySteps ==
    ASSUME GatewaySide, GatewayRuns,
           \/ \E src \in AgentAddrs : G!Recv(src, TRUE)
           \/ G!Stamp \/ G!Connect \/ G!ConnectEarly \/ G!Ignore
           \/ G!Check \/ G!Fail \/ G!Clear \/ G!Elapse
    PROVE  GatewaySide'
  BY DEF GatewaySide, GatewayRuns, G!SessionTypeOK, G!Recv, G!Stamp, G!Connect, G!ConnectEarly,
     G!Ignore, G!Check, G!Fail, G!Clear, G!Elapse

LEMMA AgentKeeps == AgentSide /\ UNCHANGED aVars => AgentSide'
  BY DEF AgentSide, AgentRuns, A!SessionTypeOK, aVars

LEMMA GatewayKeeps == GatewaySide /\ UNCHANGED gVars => GatewaySide'
  BY DEF GatewaySide, GatewayRuns, G!SessionTypeOK, gVars

LEMMA AgentPart ==
    ASSUME TunnelInv,
           AgentRx \/ AgentProbe \/ AgentTimeout \/ AgentExtra \/ AgentElapse
    PROVE  TunnelInv'
<1> USE DEF TunnelInv
<1>1. GatewaySide' /\ aAddr' = aAddr /\ stable' = stable
  BY GatewayKeeps DEF AgentRx, AgentProbe, AgentTimeout, AgentExtra, AgentElapse
<1>2. aSlot \in {GatewayAddr, Nobody}
  BY DEF AgentSide, A!SessionTypeOK
<1>3. AgentSide'
  <2>1. CASE AgentRx
    <3>1. ASSUME NEW d \in net, d.dst = aAddr, A!Recv(d.src, TRUE) PROVE AgentSide'
      BY <2>1, <3>1, AgentSteps DEF AgentRx, Between
    <3> QED
      BY <2>1, <3>1, AgentSteps DEF AgentRx
  <2>2. CASE AgentProbe
    BY <2>2, AgentKeeps DEF AgentProbe
  <2>3. CASE AgentTimeout \/ AgentExtra \/ AgentElapse
    BY <2>3, AgentSteps, AgentKeeps DEF AgentTimeout, AgentExtra, AgentElapse
  <2> QED
    BY <2>1, <2>2, <2>3
<1>4. Between'
  <2>1. CASE net' \subseteq net
    BY <1>1, <2>1 DEF Between
  <2>2. CASE Send(aAddr, aSlot)
    BY <1>1, <1>2, <2>2, SendFacts DEF Between
  <2> QED
    BY <2>1, <2>2 DEF AgentRx, AgentProbe, AgentTimeout, AgentExtra, AgentElapse, Take
<1> QED
  BY <1>1, <1>3, <1>4

LEMMA GatewayPart ==
    ASSUME TunnelInv,
           GatewayRx \/ GatewayProbe \/ GatewayTimeout \/ GatewayExtra \/ GatewayElapse
    PROVE  TunnelInv'
<1> USE DEF TunnelInv
<1>1. AgentSide' /\ aAddr' = aAddr /\ stable' = stable
  BY AgentKeeps DEF GatewayRx, GatewayProbe, GatewayTimeout, GatewayExtra, GatewayElapse
<1>2. gSlot \in AgentAddrs \cup {Nobody}
  BY DEF GatewaySide, G!SessionTypeOK
<1>3. GatewaySide'
  <2>1. CASE GatewayRx
    <3>1. ASSUME NEW d \in net, d.dst = GatewayAddr, G!Recv(d.src, TRUE) PROVE GatewaySide'
      <4>1. d.src \in AgentAddrs
        BY <3>1 DEF Between, Packets
      <4> QED
        BY <2>1, <3>1, <4>1, GatewaySteps DEF GatewayRx
    <3> QED
      BY <2>1, <3>1, GatewaySteps DEF GatewayRx
  <2>2. CASE GatewayProbe
    BY <2>2, GatewayKeeps DEF GatewayProbe
  <2>3. CASE GatewayTimeout \/ GatewayExtra \/ GatewayElapse
    BY <2>3, GatewaySteps, GatewayKeeps DEF GatewayTimeout, GatewayExtra, GatewayElapse
  <2> QED
    BY <2>1, <2>2, <2>3
<1>4. Between'
  <2>1. CASE net' \subseteq net
    BY <1>1, <2>1 DEF Between
  <2>2. CASE Send(GatewayAddr, gSlot)
    BY <1>1, <1>2, <2>2, SendFacts DEF Between
  <2> QED
    BY <2>1, <2>2 DEF GatewayRx, GatewayProbe, GatewayTimeout, GatewayExtra, GatewayElapse, Take
<1> QED
  BY <1>1, <1>3, <1>4

\* Processes start and die, datagrams are lost.
LEMMA WorldPart ==
    ASSUME TunnelInv,
           \/ BootAgent \/ RestartFailedAgent \/ BootGateway
           \/ CrashAgent \/ CrashGateway
           \/ Lose \/ Stabilise
    PROVE  TunnelInv'
<1> USE DEF TunnelInv
<1>1. CASE BootAgent \/ RestartFailedAgent
  <2>1. GatewaySide'
    BY <1>1, GatewayKeeps DEF BootAgent, RestartFailedAgent, StartAgent
  <2>2. AgentSide'
    BY <1>1 DEF BootAgent, RestartFailedAgent, StartAgent, A!Reset, AgentSide, AgentRuns, A!SessionTypeOK
  <2>3. Between'
    BY <1>1 DEF BootAgent, RestartFailedAgent, StartAgent, Between, Packets
  <2> QED
    BY <2>1, <2>2, <2>3
<1>2. CASE BootGateway \/ CrashGateway
  <2>1. AgentSide' /\ Between'
    BY <1>2, AgentKeeps DEF BootGateway, CrashGateway, Between
  <2>2. GatewaySide'
    BY <1>2 DEF BootGateway, CrashGateway, G!Reset, GatewaySide, GatewayRuns, G!SessionTypeOK
  <2> QED
    BY <2>1, <2>2
<1>3. CASE CrashAgent
  <2>1. GatewaySide' /\ Between'
    BY <1>3, GatewayKeeps DEF CrashAgent, Between
  <2>2. AgentSide'
    BY <1>3 DEF CrashAgent, A!Reset, AgentSide, AgentRuns
  <2> QED
    BY <2>1, <2>2
<1>4. CASE Lose \/ Stabilise
  <2>1. AgentSide' /\ GatewaySide'
    BY <1>4, AgentKeeps, GatewayKeeps DEF Lose, Stabilise
  <2>2. Between'
    BY <1>4 DEF Lose, Stabilise, Between
  <2> QED
    BY <2>1, <2>2
<1> QED
  BY <1>1, <1>2, <1>3, <1>4

LEMMA TunnelInvariant == TunnelSpec => []TunnelInv
<1>1. TunnelInit => TunnelInv
  BY DEF TunnelInit, TunnelInv, AgentSide, GatewaySide, AgentRuns, GatewayRuns, Between
<1>2. TunnelInv /\ [TunnelNext]_tunnelVars => TunnelInv'
  <2>1. TunnelInv /\ TunnelNext => TunnelInv'
    BY AgentPart, GatewayPart, WorldPart DEF TunnelNext
  <2>2. TunnelInv /\ UNCHANGED tunnelVars => TunnelInv'
    BY AgentKeeps, GatewayKeeps DEF tunnelVars, TunnelInv, Between
  <2> QED
    BY <2>1, <2>2
<1> QED
  BY <1>1, <1>2, PTL DEF TunnelSpec

(***************************************************************************)
(* The types of both ends and of the datagrams between them, for any       *)
(* number of ports (engine.rs:121-140, enet-agent/src/main.rs:1072-1115).  *)
(***************************************************************************)
THEOREM TunnelTypeCorrect == TunnelSpec => []TunnelTypeOK
<1>1. TunnelInv => TunnelTypeOK
  BY DEF TunnelInv, AgentSide, GatewaySide, Between, TunnelTypeOK
<1> QED
  BY <1>1, TunnelInvariant, PTL

\* With a peer neither to send to nor to hear, a stranded end does nothing.
LEMMA DeafAgent ==
    ASSUME TunnelInv, TunnelNext, AgentDeaf, AgentRuns'
    PROVE  AgentDeaf'
<1> USE DEF TunnelInv
<1>1. AgentRuns /\ aKa = "idle" /\ aConn = "Connected" /\ aSlot = Nobody /\ aRx = "idle"
  BY DEF AgentDeaf, AgentStranded, Deaf, AgentSide, AgentRuns, A!SessionTypeOK
<1>2. gSlot # aAddr /\ \A d \in net : d.dst # aAddr /\ d.src # aAddr
  BY DEF AgentDeaf, Deaf
<1>3. SUFFICES /\ UNCHANGED <<aSlot, aConn, aRx, aAddr>>
               /\ gSlot' # aAddr
               /\ \A d \in net' : d.dst # aAddr /\ d.src # aAddr
  BY <1>1 DEF AgentDeaf, AgentStranded, Deaf
<1>4. CASE AgentRx
  BY <1>1, <1>2, <1>4 DEF AgentRx, A!Stamp, A!Connect, A!Ignore
<1>5. CASE AgentProbe
  <2>1. net' = net
    BY <1>1, <1>5, SendFacts DEF AgentProbe
  <2> QED
    BY <1>2, <1>5, <2>1 DEF AgentProbe, aVars, gVars
<1>6. CASE AgentTimeout
  BY <1>1, <1>6 DEF AgentTimeout, A!Check, A!Fail, A!Clear
<1>7. CASE AgentExtra
  <2>1. UNCHANGED aVars /\ Send(aAddr, aSlot)
    BY <1>1, <1>7 DEF AgentExtra, A!ConnectEarly
  <2>2. net' = net
    BY <1>1, <2>1, SendFacts
  <2> QED
    BY <1>2, <1>7, <2>1, <2>2 DEF AgentExtra, aVars, gVars
<1>8. CASE AgentElapse
  BY <1>2, <1>8 DEF AgentElapse, A!Elapse, gVars
\* The gateway learns of no address but those that datagrams come from.
<1>9. CASE GatewayRx
  <2>1. gSlot' = gSlot \/ \E d \in net : gSlot' = d.src
    BY <1>9 DEF GatewayRx, G!Recv, G!Stamp, G!Connect, G!Ignore
  <2>2. net' \subseteq net
    BY <1>9 DEF GatewayRx, Take
  <2> QED
    BY <1>2, <1>9, <2>1, <2>2 DEF GatewayRx, aVars
<1>10. CASE GatewayProbe \/ GatewayExtra
  <2>1. gSlot' = gSlot /\ UNCHANGED <<aVars, aAddr>>
    BY <1>10 DEF GatewayProbe, GatewayExtra, G!ConnectEarly, gVars
  <2>2. net' = net \/ Send(GatewayAddr, gSlot)
    BY <1>10 DEF GatewayProbe, GatewayExtra
  <2>3. \A d \in net' : d \in net \/ (d.src = GatewayAddr /\ d.dst = gSlot)
    BY <2>2, SendFacts
  <2>4. GatewayAddr # aAddr
    BY DEF Between
  <2> QED
    BY <1>2, <2>1, <2>3, <2>4 DEF aVars
<1>11. CASE GatewayTimeout \/ GatewayElapse
  <2>1. gSlot' \in {gSlot, Nobody}
    BY <1>11 DEF GatewayTimeout, GatewayElapse, G!Check, G!Fail, G!Clear, G!Elapse
  <2>2. aAddr # Nobody
    BY DEF Between
  <2> QED
    BY <1>2, <1>11, <2>1, <2>2 DEF GatewayTimeout, GatewayElapse, aVars
<1>12. CASE BootAgent \/ RestartFailedAgent
  BY <1>1, <1>12 DEF BootAgent, RestartFailedAgent
<1>13. CASE BootGateway \/ CrashGateway
  <2>1. aAddr # Nobody
    BY DEF Between
  <2> QED
    BY <1>2, <1>13, <2>1 DEF BootGateway, CrashGateway, G!Reset, aVars
<1>14. CASE CrashAgent
  BY <1>14 DEF CrashAgent, A!Reset, AgentRuns
<1>15. CASE Lose \/ Stabilise
  BY <1>2, <1>15 DEF Lose, Stabilise, aVars, gVars
<1> QED
  BY <1>4, <1>5, <1>6, <1>7, <1>8, <1>9, <1>10, <1>11, <1>12, <1>13, <1>14, <1>15 DEF TunnelNext

LEMMA DeafGateway ==
    ASSUME TunnelInv, TunnelNext, GatewayDeaf, ~AgentRuns', GatewayRuns'
    PROVE  GatewayDeaf'
<1> USE DEF TunnelInv
<1>1. GatewayRuns /\ gKa = "idle" /\ gConn = "Connected" /\ gSlot = Nobody /\ gRx = "idle"
  BY DEF GatewayDeaf, GatewayStranded, Deaf, GatewaySide, GatewayRuns, G!SessionTypeOK
<1>2. ~AgentRuns /\ \A d \in net : d.dst # GatewayAddr
  BY DEF GatewayDeaf, Deaf
<1>3. SUFFICES UNCHANGED <<gSlot, gConn, gRx>> /\ net' \subseteq net
  BY <1>1, <1>2 DEF GatewayDeaf, GatewayStranded, Deaf
<1>4. CASE AgentRx \/ AgentProbe \/ AgentTimeout \/ AgentExtra \/ AgentElapse \/ CrashAgent
  BY <1>2, <1>4 DEF AgentRx, AgentProbe, AgentTimeout, AgentExtra, AgentElapse, CrashAgent
<1>5. CASE GatewayRx
  BY <1>1, <1>2, <1>5 DEF GatewayRx, G!Stamp, G!Connect, G!Ignore
<1>6. CASE GatewayProbe
  <2>1. net' = net
    BY <1>1, <1>6, SendFacts DEF GatewayProbe
  <2> QED
    BY <1>6, <2>1 DEF GatewayProbe, gVars
<1>7. CASE GatewayTimeout
  BY <1>1, <1>7 DEF GatewayTimeout, G!Check, G!Fail, G!Clear
<1>8. CASE GatewayExtra
  <2>1. UNCHANGED gVars /\ Send(GatewayAddr, gSlot)
    BY <1>1, <1>8 DEF GatewayExtra, G!ConnectEarly
  <2>2. net' = net
    BY <1>1, <2>1, SendFacts
  <2> QED
    BY <2>1, <2>2 DEF gVars
<1>9. CASE GatewayElapse
  BY <1>9 DEF GatewayElapse, G!Elapse
<1>10. CASE BootAgent \/ RestartFailedAgent
  BY <1>10 DEF BootAgent, RestartFailedAgent, StartAgent, A!Reset, AgentRuns
<1>11. CASE BootGateway
  BY <1>1, <1>11 DEF BootGateway
<1>12. CASE CrashGateway
  BY <1>12 DEF CrashGateway, G!Reset, GatewayRuns
<1>13. CASE Lose \/ Stabilise
  BY <1>13 DEF Lose, Stabilise, gVars
<1> QED
  BY <1>4, <1>5, <1>6, <1>7, <1>8, <1>9, <1>10, <1>11, <1>12, <1>13 DEF TunnelNext

(***************************************************************************)
(* A stranded agent stays stranded whatever the desktop and the network    *)
(* do, and a stranded gateway as long as no agent is started, for any      *)
(* number of ports (engine.rs:453-454 and 530-549).                        *)
(***************************************************************************)
THEOREM StrandedForGood == TunnelSpec => StrandedIsFinal
<1>1. TunnelInv /\ UNCHANGED tunnelVars /\ AgentDeaf => AgentDeaf'
  BY DEF tunnelVars, aVars, gVars, AgentDeaf, AgentStranded, Deaf
<1>2. TunnelInv /\ UNCHANGED tunnelVars /\ GatewayDeaf => GatewayDeaf'
  BY DEF tunnelVars, aVars, gVars, GatewayDeaf, GatewayStranded, Deaf, AgentRuns
<1>3. TunnelInv /\ [TunnelNext]_tunnelVars =>
        [ /\ AgentDeaf /\ AgentRuns' => AgentDeaf'
          /\ GatewayDeaf /\ ~AgentRuns' /\ GatewayRuns' => GatewayDeaf' ]_tunnelVars
  BY <1>1, <1>2, DeafAgent, DeafGateway
<1> QED
  BY <1>3, TunnelInvariant, PTL DEF TunnelSpec, StrandedIsFinal
=============================================================================
