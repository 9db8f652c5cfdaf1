------------------------------- MODULE Tunnel -------------------------------
(***************************************************************************)
(* The tunnel in LAN mode: a laptop's agent and the desktop's gateway,     *)
(* each behaving as PeerSession says (which TunnelEngine implements), the  *)
(* network between them, processes that die and are started again, and the *)
(* part of the agent's main loop that replaces a failed engine             *)
(* (enet-agent/src/main.rs:1072-1115 and 1396-1460).                       *)
(*                                                                         *)
(* Until it is `stable' the network delays, reorders and loses datagrams at *)
(* will, and processes die at will; from then on nothing of this happens   *)
(* any more.                                                               *)
(***************************************************************************)
CONSTANTS
    AgentAddrs,     \* the laptop's address, with one of several ephemeral ports
    GatewayAddr,    \* the desktop's address
    Nobody          \* no peer is known

ASSUME AddressAssumption == GatewayAddr \notin AgentAddrs /\ Nobody \notin AgentAddrs \cup {GatewayAddr}

VARIABLES
    aSlot, aFresh, aConn, aRx, aKa,     \* the agent's session
    gSlot, gFresh, gConn, gRx, gKa,     \* the gateway's session
    aAddr,                              \* the address of the agent's socket
    net,                                \* datagrams under way
    stable

aVars == <<aSlot, aFresh, aConn, aRx, aKa>>
gVars == <<gSlot, gFresh, gConn, gRx, gKa>>
tunnelVars == <<aVars, gVars, aAddr, net, stable>>

A == INSTANCE PeerSession WITH
        Peers <- {GatewayAddr}, NoPeer <- Nobody, role <- "agent",
        slot <- aSlot, fresh <- aFresh, conn <- aConn, rx <- aRx, ka <- aKa, out <- {}
G == INSTANCE PeerSession WITH
        Peers <- AgentAddrs, NoPeer <- Nobody, role <- "gateway",
        slot <- gSlot, fresh <- gFresh, conn <- gConn, rx <- gRx, ka <- gKa, out <- {}

Packets == [src : AgentAddrs \cup {GatewayAddr}, dst : AgentAddrs \cup {GatewayAddr}]

AgentRuns == aConn # "Stopped"
GatewayRuns == gConn # "Stopped"

TunnelTypeOK ==
    /\ AgentRuns => A!SessionTypeOK
    /\ GatewayRuns => G!SessionTypeOK
    /\ aAddr \in AgentAddrs
    /\ net \subseteq Packets
    /\ stable \in BOOLEAN
-----------------------------------------------------------------------------
TunnelInit ==
    /\ aSlot = Nobody /\ aFresh = TRUE /\ aConn = "Stopped" /\ aRx = "idle" /\ aKa = "idle"
    /\ gSlot = Nobody /\ gFresh = TRUE /\ gConn = "Stopped" /\ gRx = "idle" /\ gKa = "idle"
    /\ aAddr \in AgentAddrs
    /\ net = {}
    /\ stable = FALSE

\* Mutant of Send: it forgets that there may be no peer.
SendUnchecked(src, slot) == net' = net \cup {[src |-> src, dst |-> slot]}

\* A datagram to `slot', if there is a peer, starts on its way, unless it is one
\* to a port the agent has left.  Copies of one under way are not counted.
Send(src, slot) ==
    net' = net \cup {d \in Packets : d.src = src /\ d.dst = slot /\ d.dst \in {aAddr, GatewayAddr}}
Take(d) == net' = net \ {d}
-----------------------------------------------------------------------------
AgentRx ==
    /\ AgentRuns
    /\ \/ \E d \in net :
            /\ d.dst = aAddr
            /\ A!Recv(d.src, TRUE)
            /\ Take(d)
       \/ (A!Stamp \/ A!Connect \/ A!Ignore) /\ UNCHANGED net
    /\ UNCHANGED <<gVars, aAddr, stable>>

AgentProbe ==
    /\ AgentRuns
    /\ aKa = "idle"
    /\ Send(aAddr, aSlot)
    /\ UNCHANGED <<aVars, gVars, aAddr, stable>>

AgentTimeout ==
    /\ AgentRuns
    /\ A!Check \/ A!Fail \/ A!Clear
    /\ UNCHANGED net
    /\ UNCHANGED <<gVars, aAddr, stable>>

\* What may happen besides, or never.
AgentExtra ==
    /\ AgentRuns
    /\ \/ UNCHANGED aVars /\ Send(aAddr, aSlot)
       \/ A!ConnectEarly /\ UNCHANGED net
    /\ UNCHANGED <<gVars, aAddr, stable>>

\* While one end knows where to send, twice a second at least, and nothing is
\* lost, the other end learns of it and answers long before a timeout passes.
Talking == AgentRuns /\ GatewayRuns /\ (aSlot = GatewayAddr \/ gSlot = aAddr)

SilentAt(addr) == ~Talking /\ \A d \in net : d.dst # addr

AgentElapse ==
    /\ AgentRuns
    /\ aFresh
    /\ stable => SilentAt(aAddr)
    /\ A!Elapse
    /\ UNCHANGED net
    /\ UNCHANGED <<gVars, aAddr, stable>>

GatewayRx ==
    /\ GatewayRuns
    /\ \/ \E d \in net :
            /\ d.dst = GatewayAddr
            /\ G!Recv(d.src, TRUE)
            /\ Take(d)
       \/ (G!Stamp \/ G!Connect \/ G!Ignore) /\ UNCHANGED net
    /\ UNCHANGED <<aVars, aAddr, stable>>

GatewayProbe ==
    /\ GatewayRuns
    /\ gKa = "idle"
    /\ Send(GatewayAddr, gSlot)
    /\ UNCHANGED <<aVars, gVars, aAddr, stable>>

GatewayTimeout ==
    /\ GatewayRuns
    /\ G!Check \/ G!Fail \/ G!Clear
    /\ UNCHANGED net
    /\ UNCHANGED <<aVars, aAddr, stable>>

GatewayExtra ==
    /\ GatewayRuns
    /\ \/ UNCHANGED gVars /\ Send(GatewayAddr, gSlot)
       \/ G!ConnectEarly /\ UNCHANGED net
    /\ UNCHANGED <<aVars, aAddr, stable>>

GatewayElapse ==
    /\ GatewayRuns
    /\ gFresh
    /\ stable => SilentAt(GatewayAddr)
    /\ G!Elapse
    /\ UNCHANGED net
    /\ UNCHANGED <<aVars, aAddr, stable>>
-----------------------------------------------------------------------------
\* A new engine of the agent, on a socket with a port of its own, that knows
\* the desktop's address from discovery and says Hello to it.
StartAgent ==
    /\ aAddr' \in AgentAddrs
    /\ A!Reset(GatewayAddr, "WaitingForPeer")
    /\ net' = {d \in net : d.dst # aAddr} \cup {[src |-> aAddr', dst |-> GatewayAddr]}
    /\ UNCHANGED <<gVars, stable>>

BootAgent == ~AgentRuns /\ StartAgent

\* run_until_stop sees Failed, stops the engine, and the main loop finds the
\* desktop again.
RestartFailedAgent == aConn = "Failed" /\ StartAgent

BootGateway ==
    /\ ~GatewayRuns
    /\ G!Reset(Nobody, "WaitingForPeer")
    /\ UNCHANGED <<aVars, aAddr, net, stable>>

CrashAgent ==
    /\ ~stable
    /\ AgentRuns
    /\ A!Reset(Nobody, "Stopped")
    /\ UNCHANGED <<gVars, aAddr, net, stable>>

CrashGateway ==
    /\ ~stable
    /\ GatewayRuns
    /\ G!Reset(Nobody, "Stopped")
    /\ UNCHANGED <<aVars, aAddr, net, stable>>

\* Lost on the way, or at an address where nobody listens.
Undeliverable(d) ==
    \/ ~stable
    \/ d.dst = GatewayAddr /\ ~GatewayRuns
    \/ d.dst \in AgentAddrs /\ ~(AgentRuns /\ d.dst = aAddr)

Lose ==
    /\ \E d \in net : Undeliverable(d) /\ net' = net \ {d}
    /\ UNCHANGED <<aVars, gVars, aAddr, stable>>

Stabilise ==
    /\ ~stable
    /\ stable' = TRUE
    /\ UNCHANGED <<aVars, gVars, aAddr, net>>

TunnelNext ==
    \/ AgentRx \/ AgentProbe \/ AgentTimeout \/ AgentExtra \/ AgentElapse
    \/ GatewayRx \/ GatewayProbe \/ GatewayTimeout \/ GatewayExtra \/ GatewayElapse
    \/ BootAgent \/ RestartFailedAgent \/ BootGateway
    \/ CrashAgent \/ CrashGateway
    \/ Lose \/ Stabilise

(***************************************************************************)
(* TunnelFairness.  The runtime runs every task that can run, and time passes.   *)
(* Among the readable frames an endpoint receives again and again are      *)
(* probes and replies, which no network adapter can refuse.  The main loop *)
(* looks at its engine every second (main.rs:1077): of the failures that   *)
(* come and go, 20 seconds apart at least, it does not miss every one.     *)
(* Nothing makes a process boot, the network stabilise or a car send.      *)
(***************************************************************************)
TunnelFairness ==
    /\ WF_tunnelVars(AgentRx) /\ WF_tunnelVars(AgentProbe) /\ WF_tunnelVars(AgentTimeout) /\ WF_tunnelVars(AgentElapse)
    /\ WF_tunnelVars(GatewayRx) /\ WF_tunnelVars(GatewayProbe) /\ WF_tunnelVars(GatewayTimeout) /\ WF_tunnelVars(GatewayElapse)
    /\ SF_tunnelVars(AgentRx /\ A!Connect) /\ SF_tunnelVars(GatewayRx /\ G!Connect)
    /\ SF_tunnelVars(RestartFailedAgent)

TunnelSpec == TunnelInit /\ [][TunnelNext]_tunnelVars /\ TunnelFairness
-----------------------------------------------------------------------------
BothConnected == aConn = "Connected" /\ gConn = "Connected"

\* What a timeout leaves behind that overtakes the datagram which ends the
\* silence: an endpoint that is connected but has no peer, so that its timeout
\* check can never fire again (engine.rs:530-549).
AgentStranded == aConn = "Connected" /\ aSlot = Nobody
GatewayStranded == gConn = "Connected" /\ gSlot = Nobody

\* ... and nothing under way, and nobody who knows where to send it, can reach it.
Deaf(rxIdle, addr) == rxIdle /\ \A d \in net : d.dst # addr

AgentDeaf ==
    /\ AgentStranded /\ Deaf(aRx = "idle", aAddr)
    /\ gSlot # aAddr /\ \A d \in net : d.src # aAddr
GatewayDeaf == GatewayStranded /\ Deaf(gRx = "idle", GatewayAddr) /\ ~AgentRuns

(***************************************************************************)
(* Why "or stranded" stands in the properties below.  A stranded agent     *)
(* that nobody has the address of stays so, for a gateway started again    *)
(* too, until it is itself started again: it has nobody to probe, and      *)
(* without a peer its timeout finds nothing (engine.rs:453-454, 530-531).  *)
(* So does a stranded gateway until an agent is started.                   *)
(***************************************************************************)
StrandedIsFinal ==
    [][ /\ AgentDeaf /\ AgentRuns' => AgentDeaf'
        /\ GatewayDeaf /\ ~AgentRuns' /\ GatewayRuns' => GatewayDeaf' ]_tunnelVars

(***************************************************************************)
(* docs/ARCHITECTURE.md:211 says of a laptop that disconnects: "Gateway    *)
(* marks peer lost".  When the agent is gone for good, the gateway in the  *)
(* end no longer reports a connection, unless a last datagram has raced    *)
(* the timeout (engine.rs:220-282 against 530-549), which is all that can  *)
(* keep the gateway from it.                                               *)
(***************************************************************************)
GatewayMarksPeerLostOrStranded ==
    <>[]~AgentRuns => <>[](gConn # "Connected") \/ <>[]GatewayStranded

(***************************************************************************)
(* docs/ARCHITECTURE.md:211-212: the agent reconnects.  Once the network   *)
(* is stable and both processes run, both get connected and stay so,       *)
(* whatever was lost and whoever timed out before and whichever port the   *)
(* agent had, unless the same race has left the agent stranded.            *)
(***************************************************************************)
ReconnectsOrStranded ==
    <>[](stable /\ AgentRuns /\ GatewayRuns) => <>[]BothConnected \/ <>[]AgentStranded
=============================================================================
