---------------------------- MODULE TunnelEngine ----------------------------
(***************************************************************************)
(* The UDP tunnel engine, enet-tunnel/src/engine.rs: one endpoint, the     *)
(* desktop's gateway or a laptop's agent, among any peers.  The engine is  *)
(* three tasks on a multi-threaded runtime that share the learned peer     *)
(* (peer_slot), the instant of the last datagram (last_peer_rx) and the    *)
(* GatewayState, each behind a lock of its own.  Every action below is one *)
(* such critical section or one send; between two of them the other tasks  *)
(* may run.  Datagrams arrive at any time, from any address.               *)
(*                                                                         *)
(* Left out: text for display (status_message, peer_endpoint), the counters*)
(* of PacketStats (module LossTracking), the CIDR filter, and the handlers *)
(* of Goodbye, SafetyProbe and Ack, frames that nothing ever sends.        *)
(***************************************************************************)
CONSTANTS
    Ips, Ports,     \* addresses of peers are pairs of these
    Options,        \* opts: [role, peer] the engine may be run with
    NoPeer,         \* peer_slot = None, and opts.peer = None
    ReadableFlags,  \* whether a frame may arrive that does not decode
    LinkStates      \* what the agent's network card may report as its link

VARIABLES
    opts,       \* TunnelOptions; never changes
    slot,       \* peer_slot: the address datagrams are sent to
    fresh,      \* whether last_peer_rx is younger than the peer timeout
    conn,       \* state.connection
    laptop,     \* state.laptop_connected
    link,       \* state.vehicle.link_up
    awake,      \* state.vehicle.awake
    rxPc,       \* where udp_to_eth is in its loop
    rxFrame,    \* the frame it is working on
    kaPc,       \* where keepalive is in its loop
    ethPc,      \* where eth_to_udp is in its loop
    out         \* the datagrams sent by the last step

stateVars == <<conn, laptop, link, awake>>
rxVars == <<rxPc, rxFrame>>
vars == <<opts, slot, fresh, stateVars, rxVars, kaPc, ethPc, out>>

Addrs == Ips \X Ports
Ip(addr) == addr[1]
Port(addr) == addr[2]

Kinds == {"Ethernet", "Probe", "Reply", "Hello", "Status"}

\* A frame is readable if decode() succeeds and it is not a plaintext frame
\* for an endpoint that requires encryption (engine.rs:286-295).
Frames == [kind : Kinds, readable : BOOLEAN, link : BOOLEAN, awake : BOOLEAN]
Datagrams == [dst : Addrs, frame : Frames]

Frame(kind) == [kind |-> kind, readable |-> TRUE, link |-> FALSE, awake |-> FALSE]

\* What peers send: only a Status carries vehicle flags, and as the agents
\* guarantee (StatusHonest below) it is not awake without a link.
Arriving == {f \in Frames : /\ f.readable \in ReadableFlags
                            /\ f.awake => f.link
                            /\ f.link => f.kind = "Status"}

IsAgent == opts.role = "agent"
IsGateway == opts.role = "gateway"

ASSUME OptionsAssumption ==
    /\ NoPeer \notin Addrs
    /\ Options \subseteq [role : {"agent", "gateway"}, peer : Addrs \cup {NoPeer}]
    \* the agent's main loop never starts this engine without a peer
    /\ \A o \in Options : o.role = "agent" => o.peer # NoPeer
    /\ ReadableFlags \subseteq BOOLEAN
    /\ LinkStates \subseteq BOOLEAN

TypeOK ==
    /\ opts \in Options
    /\ slot \in Addrs \cup {NoPeer}
    /\ fresh \in BOOLEAN
    /\ conn \in {"WaitingForPeer", "Connected", "Reconnecting", "Failed"}
    /\ laptop \in BOOLEAN
    /\ link \in BOOLEAN
    /\ awake \in BOOLEAN
    /\ rxPc \in {"idle", "stamp", "handle", "mark", "ack"}
    /\ rxFrame \in Frames
    /\ kaPc \in {"sleep", "link", "status", "check", "fail", "clear"}
    /\ ethPc \in {"recv", "touch"}
    /\ out \in SUBSET Datagrams
-----------------------------------------------------------------------------
\* Mutant of ToPeer: it forgets that there may be no peer.
ToPeerUnchecked(frames) == {[dst |-> slot, frame |-> f] : f \in frames}

\* The datagrams that carry frames to the peer of the moment.
ToPeer(frames) == IF slot = NoPeer THEN {} ELSE {[dst |-> slot, frame |-> f] : f \in frames}

\* run(): a peer given in the options is greeted; a gateway has usually none.
Init ==
    /\ opts \in Options
    /\ slot = opts.peer
    /\ fresh = TRUE
    /\ conn = "WaitingForPeer"
    /\ laptop = FALSE
    /\ link = FALSE
    /\ awake = FALSE
    /\ rxPc = "idle"
    /\ rxFrame = Frame("Reply")
    /\ kaPc = "sleep"
    /\ ethPc = "recv"
    /\ out = ToPeer({Frame("Hello")})
-----------------------------------------------------------------------------
(***************************************************************************)
(* udp_to_eth.  First critical section (engine.rs:220-281): who is our     *)
(* peer?  A datagram from another IP than the peer's is followed by an     *)
(* agent if it comes from the tunnel port, ignored by an endpoint that was *)
(* given its peer, and followed by a gateway that was not.                 *)
(***************************************************************************)
OtherIp(src) == slot # NoPeer /\ Ip(slot) # Ip(src)
FromTunnelPort(src) == opts.peer # NoPeer /\ Port(src) = Port(opts.peer)
Dropped(src) == OtherIp(src) /\ opts.peer # NoPeer /\ ~(IsAgent /\ FromTunnelPort(src))

RecvDropped(src) ==
    /\ rxPc = "idle"
    /\ Dropped(src)
    /\ out' = {}
    /\ UNCHANGED <<opts, slot, fresh, stateVars, rxVars, kaPc, ethPc>>

Recv(src, frame) ==
    /\ rxPc = "idle"
    /\ ~Dropped(src)
    /\ slot' = src
    /\ rxPc' = "stamp"
    /\ rxFrame' = frame
    /\ out' = {}
    /\ UNCHANGED <<opts, fresh, stateVars, kaPc, ethPc>>

RxDone == rxPc' = "idle" /\ UNCHANGED rxFrame

\* engine.rs:282-295: the datagram counts as a sign of life before it turns
\* out whether it can be read.
Stamp ==
    /\ rxPc = "stamp"
    /\ fresh' = TRUE
    /\ IF rxFrame.readable
       THEN rxPc' = "handle" /\ UNCHANGED rxFrame
       ELSE RxDone
    /\ out' = {}
    /\ UNCHANGED <<opts, slot, stateVars, kaPc, ethPc>>

Handling(kind) == rxPc = "handle" /\ rxFrame.kind = kind

\* Mutant of SetConnected: the flag for older status pages is forgotten.
SetConnectedOnly == conn' = "Connected" /\ UNCHANGED laptop

SetConnected ==
    /\ conn' = "Connected"
    /\ laptop' = TRUE

\* engine.rs:307-324
HandleEthernet ==
    /\ Handling("Ethernet")
    /\ RxDone
    /\ SetConnected
    /\ awake' = (awake \/ (IsGateway /\ link))
    /\ out' = {}
    /\ UNCHANGED <<opts, slot, fresh, link, kaPc, ethPc>>

\* The network adapter refuses the frame.
EthernetInjectFails ==
    /\ Handling("Ethernet")
    /\ RxDone
    /\ out' = {}
    /\ UNCHANGED <<opts, slot, fresh, stateVars, kaPc, ethPc>>

\* A probe is answered at once, to whoever is the peer now (engine.rs:330-345).
ReplyToProbe ==
    /\ Handling("Probe")
    /\ rxPc' = "mark"
    /\ out' = ToPeer({Frame("Reply")})
    /\ UNCHANGED <<opts, slot, fresh, stateVars, rxFrame, kaPc, ethPc>>

\* apply_control (engine.rs:597-638), a critical section of its own.
ApplyHello ==
    /\ Handling("Hello")
    /\ rxPc' = "mark"
    /\ out' = {}
    /\ UNCHANGED <<opts, slot, fresh, stateVars, rxFrame, kaPc, ethPc>>

ApplyStatusOnGateway ==
    /\ IsGateway
    /\ Handling("Status")
    /\ rxPc' = "mark"
    /\ link' = rxFrame.link
    /\ awake' = rxFrame.awake
    /\ laptop' = TRUE
    /\ out' = {}
    /\ UNCHANGED <<opts, slot, fresh, conn, rxFrame, kaPc, ethPc>>

ApplyStatusOnAgent ==
    /\ IsAgent
    /\ Handling("Status")
    /\ rxPc' = "mark"
    /\ SetConnected
    /\ out' = {}
    /\ UNCHANGED <<opts, slot, fresh, link, awake, rxFrame, kaPc, ethPc>>

\* engine.rs:346-357 and 369-374; a Hello is still to be acknowledged.
MarkConnected ==
    /\ rxPc = "mark" \/ Handling("Reply")
    /\ SetConnected
    /\ rxPc' = IF rxFrame.kind = "Hello" THEN "ack" ELSE "idle"
    /\ out' = {}
    /\ UNCHANGED <<opts, slot, fresh, link, awake, rxFrame, kaPc, ethPc>>

\* engine.rs:377-392
AckHello ==
    /\ rxPc = "ack"
    /\ RxDone
    /\ out' = ToPeer({Frame("Reply")})
    /\ UNCHANGED <<opts, slot, fresh, stateVars, kaPc, ethPc>>
-----------------------------------------------------------------------------
(***************************************************************************)
(* keepalive: one tick (engine.rs:450-551).  It probes the peer first; an  *)
(* agent that is not connected repeats its Hello every fifth tick.         *)
(***************************************************************************)
KaProbe ==
    /\ kaPc = "sleep"
    /\ kaPc' = IF IsAgent THEN "link" ELSE "status"
    /\ \/ out' = ToPeer({Frame("Probe")})
       \/ IsAgent /\ conn # "Connected" /\ out' = ToPeer({Frame("Probe"), Frame("Hello")})
    /\ UNCHANGED <<opts, slot, fresh, stateVars, rxVars, ethPc>>

\* Mutant of KaLink: awake is left alone when the link goes down.
KaLinkKeepsAwake ==
    /\ kaPc = "link"
    /\ kaPc' = "status"
    /\ link' \in LinkStates
    /\ out' = {}
    /\ UNCHANGED <<opts, slot, fresh, conn, laptop, awake, rxVars, ethPc>>

\* An agent refreshes the vehicle's link; awake needs it, and expires.
KaLink ==
    /\ kaPc = "link"
    /\ kaPc' = "status"
    /\ \E up \in LinkStates, quiet \in BOOLEAN :
        /\ link' = up
        /\ awake' = (awake /\ up /\ ~quiet)
    /\ out' = {}
    /\ UNCHANGED <<opts, slot, fresh, conn, laptop, rxVars, ethPc>>

\* Only an agent reports the vehicle (engine.rs:501-517).
StatusFrame ==
    [kind |-> "Status", readable |-> TRUE, link |-> IsAgent /\ link, awake |-> IsAgent /\ awake]

\* A gateway sends its Status every tick, an agent every fourth.
KaStatus ==
    /\ kaPc = "status"
    /\ kaPc' = "check"
    /\ \/ out' = ToPeer({StatusFrame})
       \/ IsAgent /\ out' = {}
    /\ UNCHANGED <<opts, slot, fresh, stateVars, rxVars, ethPc>>

\* Mutant of TimedOut: it looks at the clock only.
TimedOutWithoutPeer == ~fresh

\* engine.rs:530-531: both locks are held while timed_out is computed ...
TimedOut == slot # NoPeer /\ ~fresh

KaCheck ==
    /\ kaPc = "check"
    /\ kaPc' = IF TimedOut THEN "fail" ELSE "sleep"
    /\ out' = {}
    /\ UNCHANGED <<opts, slot, fresh, stateVars, rxVars, ethPc>>

\* ... but released before it is used (engine.rs:535-548) ...
KaFail ==
    /\ kaPc = "fail"
    /\ kaPc' = "clear"
    /\ laptop' = FALSE
    /\ conn' = IF IsGateway THEN "Reconnecting" ELSE "Failed"
    /\ link' = (link /\ IsAgent)
    /\ awake' = (awake /\ IsAgent)
    /\ out' = {}
    /\ UNCHANGED <<opts, slot, fresh, rxVars, ethPc>>

\* ... once more (engine.rs:549).
KaClear ==
    /\ kaPc = "clear"
    /\ kaPc' = "sleep"
    /\ slot' = NoPeer
    /\ out' = {}
    /\ UNCHANGED <<opts, fresh, stateVars, rxVars, ethPc>>
-----------------------------------------------------------------------------
(***************************************************************************)
(* eth_to_udp: a frame of the car (on an agent) or of the tools (on the    *)
(* gateway); without a peer it is discarded.                               *)
(***************************************************************************)
EthToUdp ==
    /\ ethPc = "recv"
    /\ slot # NoPeer
    /\ out' = ToPeer({Frame("Ethernet")})
    /\ ethPc' = IF IsAgent THEN "touch" ELSE "recv"
    /\ UNCHANGED <<opts, slot, fresh, stateVars, rxVars, kaPc>>

\* engine.rs:168-175
EthTouch ==
    /\ ethPc = "touch"
    /\ ethPc' = "recv"
    /\ awake' = (awake \/ link)
    /\ out' = {}
    /\ UNCHANGED <<opts, slot, fresh, conn, laptop, link, rxVars, kaPc>>

\* The peer timeout passes without a datagram.
Elapse ==
    /\ fresh' = FALSE
    /\ out' = {}
    /\ UNCHANGED <<opts, slot, stateVars, rxVars, kaPc, ethPc>>
-----------------------------------------------------------------------------
UdpToEth ==
    \/ \E src \in Addrs : RecvDropped(src)
    \/ \E src \in Addrs, frame \in Arriving : Recv(src, frame)
    \/ Stamp
    \/ HandleEthernet
    \/ EthernetInjectFails
    \/ ReplyToProbe
    \/ ApplyHello
    \/ ApplyStatusOnGateway
    \/ ApplyStatusOnAgent
    \/ MarkConnected
    \/ AckHello

Keepalive ==
    \/ KaProbe
    \/ KaLink
    \/ KaStatus
    \/ KaCheck
    \/ KaFail
    \/ KaClear

Next == UdpToEth \/ Keepalive \/ EthToUdp \/ EthTouch \/ Elapse

Spec == Init /\ [][Next]_vars
-----------------------------------------------------------------------------
\* Between apply_control and the critical section after it, udp_to_eth has
\* written half of what a Status says (engine.rs:366 and 370).
HalfApplied == rxPc = "mark" /\ rxFrame.kind = "Status"

(***************************************************************************)
(* What the desktop is shown goes together.  laptop_connected and          *)
(* connection are written in several critical sections of two tasks, and   *)
(* api_status reports the one or the other (enet-gateway/src/main.rs:      *)
(* 744-770); and a lost tunnel never comes with a car: with the connection *)
(* gone, link_up and awake are off (engine.rs:538-542).  The only          *)
(* exception is the time in which a Status is half applied.                *)
(***************************************************************************)
ConnectionCoherent ==
    \/ HalfApplied
    \/ /\ laptop <=> conn = "Connected"
       /\ IsGateway /\ (link \/ awake) => conn = "Connected"

(***************************************************************************)
(* awake is never on without link_up, neither on the laptop, where two     *)
(* tasks write them (engine.rs:168-175, 481-494), nor on the desktop,      *)
(* where Status frames, Ethernet frames and timeouts do (318-323, 541,     *)
(* 610-611), if it holds for the Status frames that arrive; and it holds   *)
(* for those an agent sends, whatever it was doing when it took them down. *)
(***************************************************************************)
StatusHonest ==
    /\ awake => link
    /\ \A d \in out : d.frame.awake => d.frame.link

\* The abstract view of this engine.
sessionRx ==
    CASE rxPc = "stamp" -> (IF rxFrame.readable THEN "good" ELSE "bad")
      [] rxPc \in {"handle", "mark"} -> "heard"
      [] OTHER -> "idle"
sessionKa == IF kaPc \in {"fail", "clear"} THEN kaPc ELSE "idle"
sessionOut == {d.dst : d \in out}

Session == INSTANCE PeerSession WITH
    Peers <- Addrs, role <- opts.role, rx <- sessionRx, ka <- sessionKa, out <- sessionOut

(***************************************************************************)
(* The engine implements PeerSession: whatever the tasks interleave, it    *)
(* sends only to the peer of the moment, becomes connected only through a  *)
(* readable frame of an admitted sender, and gives a peer up only after a  *)
(* timeout check that found it silent.                                     *)
(***************************************************************************)
ImplementsSession == Session!Spec
=============================================================================
