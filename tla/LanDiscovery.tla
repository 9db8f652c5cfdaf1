---------------------------- MODULE LanDiscovery ----------------------------
(***************************************************************************)
(* How a laptop finds its desktop on the LAN: enet-core's lan_discovery.rs *)
(* and resolve_peer of the agent.  Desktops announce themselves every two  *)
(* seconds and answer queries; a laptop asks, listens for five seconds and *)
(* dials one of the desktops it has heard.                                 *)
(*                                                                         *)
(* An address is a pair <<net, host>>, where net stands for the first 24   *)
(* bits.  All machines are on one LAN; besides, each may have adapters of  *)
(* its own (virtual machines, containers) on networks that no other        *)
(* machine can reach, although another may have one of the same number.    *)
(* Such an adapter has the host number 1.  Queries that are sent from a    *)
(* socket per interface are left out: these sockets are closed before an   *)
(* answer can arrive.                                                      *)
(***************************************************************************)
EXTENDS Naturals, Sequences, FiniteSets

CONSTANTS
    Desktops, Laptop,
    Codes, AnyCode,     \* pair codes; the laptop has AnyCode when it was given none
    Wanted,         \* those the laptop may have been given
    Lan,            \* the number of the LAN
    LanHosts, LaptopHost,   \* host numbers on the LAN: for desktops, of the laptop
    Layouts,        \* for each machine, the numbers of its private networks
    None,           \* no announcement, no address
    MaxChanges      \* bound: starts and stops, new codes, new addresses

Machines == Desktops \cup {Laptop}

ASSUME LanAssumption ==
    /\ Lan \in Nat /\ LanHosts \subseteq Nat /\ LaptopHost \in Nat \ LanHosts
    /\ Laptop \notin Desktops
    /\ Layouts \subseteq [Machines -> SUBSET (Nat \ {Lan})]
    /\ AnyCode \notin Codes /\ Wanted \subseteq Codes \cup {AnyCode}
    /\ MaxChanges \in Nat

VARIABLES
    leases,     \* the host numbers of each desktop on the LAN
    private,    \* the layout
    up,         \* each desktop: off, on, or deaf - running without its beacon
    code,       \* the pair code of each desktop
    want,       \* the laptop's
    round,      \* discover_gateways: listen, or idle when it does not run
    found,      \* what it has heard, in order
    air,        \* for each desktop, the announcement under way
    dial,       \* the address the laptop dials, peer_addr
    changes

desktopVars == <<leases, up, code>>
roundVars == <<round, found, dial>>
vars == <<desktopVars, private, want, roundVars, air, changes>>

Addresses == Nat \X Nat
LanIps(d) == {<<Lan, h>> : h \in leases[d]}
PrivateIps(m) == {<<n, 1>> : n \in private[m]}

\* list_lan_ipv4s
Ips(m) == PrivateIps(m) \cup (IF m = Laptop THEN {<<Lan, LaptopHost>>} ELSE LanIps(m))

Announcements == [ips : SUBSET Addresses, code : Codes, to : {"query", "beacon"}]
Gateways == [addr : Addresses, ips : SUBSET Addresses, host : Desktops]

TypeOK ==
    /\ leases \in [Desktops -> SUBSET LanHosts]
    /\ private \in Layouts
    /\ up \in [Desktops -> {"off", "on", "deaf"}]
    /\ code \in [Desktops -> Codes] /\ want \in Wanted
    /\ round \in {"idle", "listen"}
    /\ found \in Seq(Gateways)
    /\ air \in [Desktops -> Announcements \cup {None}]
    /\ dial \in Addresses \cup {None}
    /\ changes \in 0 .. MaxChanges

\* No two desktops have the same address; some have two on the LAN.
LeasesOK(l) ==
    /\ \A d \in Desktops : Cardinality(l[d]) \in 1 .. 2
    /\ \A d, e \in Desktops : d # e => l[d] \cap l[e] = {}

Init ==
    /\ leases \in {l \in [Desktops -> SUBSET LanHosts] : LeasesOK(l)}
    /\ private \in Layouts
    /\ up = [d \in Desktops |-> "on"]
    /\ code \in [Desktops -> Codes] /\ want \in Wanted
    /\ round = "idle" /\ found = <<>>
    /\ air = [d \in Desktops |-> None]
    /\ dial = None
    /\ changes = 0
-----------------------------------------------------------------------------
(***************************************************************************)
(* pick_reachable_host_ip                                                  *)
(***************************************************************************)
Least(S) ==
    CHOOSE a \in S : \A b \in S : a[1] < b[1] \/ (a[1] = b[1] /\ a[2] <= b[2])

\* MUTANT: the first address will do.
PickFirst(candidates, local) == Least(candidates)

\* Of the laptop's own addresses in order, the first with a candidate in its /24.
\* The source of the announcement is always among the addresses it lists.
Pick(candidates, local) ==
    LET shared == {l \in local : \E c \in candidates : c[1] = l[1]}
    IN  IF shared = {} THEN Least(candidates)
                       ELSE Least({c \in candidates : c[1] = Least(shared)[1]})
-----------------------------------------------------------------------------
(***************************************************************************)
(* The desktops.                                                           *)
(***************************************************************************)
Change == changes < MaxChanges /\ changes' = changes + 1

\* The beacon is started once, in network mode LAN only, and ends for good when
\* the discovery port is taken; the desktop serves without it.
Boot(d) ==
    /\ up[d] = "off" /\ Change
    /\ up' \in {[up EXCEPT ![d] = s] : s \in {"on", "deaf"}}
    /\ UNCHANGED <<leases, code, private, want, roundVars, air>>

Halt(d) ==
    /\ up[d] # "off" /\ Change
    /\ up' = [up EXCEPT ![d] = "off"]
    /\ UNCHANGED <<leases, code, private, want, roundVars, air>>

\* The settings page changes the pair code under the beacon.
SetPairCode(d) ==
    /\ up[d] # "off" /\ Change
    /\ code' \in {[code EXCEPT ![d] = c] : c \in Codes \ {code[d]}}
    /\ UNCHANGED <<leases, up, private, want, roundVars, air>>

\* DHCP, or a cable that is plugged in or pulled.
Move(d) ==
    /\ Change
    /\ leases' \in {l \in {[leases EXCEPT ![d] = new] : new \in SUBSET LanHosts} : LeasesOK(l)}
    /\ leases' # leases
    /\ UNCHANGED <<up, code, private, want, roundVars, air>>

\* An announcement of its present addresses and pair code.
Send(d, to) == air' = [air EXCEPT ![d] = [ips |-> Ips(d), code |-> code[d], to |-> to]]

Beacon(d) ==
    /\ up[d] = "on"
    /\ Send(d, "beacon")
    /\ UNCHANGED <<desktopVars, private, want, roundVars, changes>>

Matches(c) == want = AnyCode \/ want = c

\* The query goes to several addresses, so that there may be several answers,
\* but none if it has another pair code.
Answer(d) ==
    /\ up[d] = "on" /\ round = "listen" /\ Matches(code[d])
    /\ Send(d, "query")
    /\ UNCHANGED <<desktopVars, private, want, roundVars, changes>>

Lose(d) ==
    /\ air[d] # None
    /\ air' = [air EXCEPT ![d] = None]
    /\ UNCHANGED <<desktopVars, private, want, roundVars, changes>>
-----------------------------------------------------------------------------
(***************************************************************************)
(* The laptop.                                                             *)
(***************************************************************************)
StartRound ==
    /\ round = "idle"
    /\ round' = "listen" /\ found' = <<>>
    /\ UNCHANGED <<desktopVars, private, want, dial, air, changes>>

\* MUTANT: what a desktop says of itself is taken as the gateway.
HearAll(d) ==
    /\ round = "listen" /\ air[d] # None
    /\ air' = [air EXCEPT ![d] = None]
    /\ found' = IF Matches(air[d].code) THEN Append(found, air[d]) ELSE found
    /\ UNCHANGED <<desktopVars, private, want, round, dial, changes>>

\* An answer, or a beacon if the laptop has the discovery port.
Hear(d) ==
    /\ round = "listen" /\ air[d] # None
    /\ air' = [air EXCEPT ![d] = None]
    /\ LET addr == Pick(air[d].ips, Ips(Laptop))
           known == \E i \in DOMAIN found : found[i].addr = addr
       IN  found' = IF Matches(air[d].code) /\ ~known
                      THEN Append(found, [addr |-> addr, ips |-> air[d].ips, host |-> d])
                      ELSE found
    /\ UNCHANGED <<desktopVars, private, want, round, dial, changes>>

Ended ==
    /\ round = "listen" /\ round' = "idle"
    /\ air' = [d \in Desktops |-> IF air[d] # None /\ air[d].to = "query" THEN None ELSE air[d]]
    /\ UNCHANGED <<desktopVars, private, want, found, changes>>

\* MUTANT: an address that was given or found once is kept.
EndRoundSticky ==
    /\ Ended
    /\ dial' = IF found = <<>> \/ dial # None THEN dial ELSE found[1].addr

\* resolve_peer: the one dialled before if it was heard - unless a new search
\* was asked for - else the first; without any, the one dialled before.
EndRound ==
    /\ Ended
    /\ LET heard == {found[i].addr : i \in DOMAIN found}
       IN  \/ found = <<>> /\ dial' = dial
           \/ found # <<>> /\ dial' = found[1].addr
           \/ dial \in heard /\ dial' = dial

Next ==
    \/ \E d \in Desktops :
          Boot(d) \/ Halt(d) \/ SetPairCode(d) \/ Move(d)
          \/ Beacon(d) \/ Answer(d) \/ Lose(d) \/ Hear(d)
    \/ StartRound \/ EndRound

\* A desktop runs under the address the laptop dials, with whatever pair code:
\* on a LAN the tunnel does not ask for it.
Reached == \E d \in Desktops : up[d] # "off" /\ dial \in LanIps(d)

\* The laptop looks again while its tunnel fails - it may at other times, when the
\* user wants to - and not every query or answer is lost.  Beacons are not relied
\* upon: another program may have the discovery port.
Fairness ==
    /\ WF_vars(~Reached /\ StartRound) /\ WF_vars(EndRound)
    /\ \A d \in Desktops : SF_vars(Answer(d)) /\ SF_vars(Hear(d) /\ air[d].to = "query")

Spec == Init /\ [][Next]_vars /\ Fairness
-----------------------------------------------------------------------------
\* A private network of the laptop that comes before the LAN and that, by its
\* number, could be one of these addresses'.
Misleading(ips) == \E n \in private[Laptop] : n < Lan /\ <<n, 1>> \in ips

\* The address found for a desktop is one of those it had on the LAN when it
\* announced itself, whichever of its adapters the laptop has heard, and so it
\* is found once (lan_discovery.rs:219-246, 338-340).
FoundReachable ==
    /\ \A i \in DOMAIN found :
          Misleading(found[i].ips) \/ (found[i].addr \in found[i].ips /\ found[i].addr[1] = Lan)
    /\ \A i, j \in DOMAIN found : found[i].ips = found[j].ips => i = j

\* If the laptop shares no misleading network with a desktop, and a desktop with
\* its pair code comes to stay, with its beacon, then the laptop ends up dialling
\* one that runs, however they move (lan_discovery.rs:1-4, main.rs:511-560 of the
\* agent).  It need not be this one: the address dialled before may have passed to
\* another, which serves the laptop all the same.
HostIsDialled ==
    (\A d \in Desktops : ~Misleading(PrivateIps(d))) =>
        \A d \in Desktops :
            <>[](up[d] = "on" /\ Matches(code[d])) => <>[]Reached
=============================================================================
