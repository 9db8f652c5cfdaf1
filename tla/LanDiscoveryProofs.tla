------------------------- MODULE LanDiscoveryProofs -------------------------
(***************************************************************************)
(* Proofs that LanDiscovery keeps its types and finds reachable addresses, *)
(* for every number of desktops, layout of networks and number of changes. *)
(*                                                                         *)
(* An announcement under way always lists an address on the LAN, though    *)
(* its sender may have lost it since; and what was found for it is what    *)
(* Pick returns for its list, now as then, because the laptop's own        *)
(* networks stay.  From this both parts of FoundReachable follow.          *)
(***************************************************************************)
EXTENDS LanDiscovery, FiniteSetTheorems, WellFoundedInduction, TLAPS

-----------------------------------------------------------------------------
(***************************************************************************)
(* Least and Pick.                                                         *)
(***************************************************************************)
\* Every nonempty set of numbers has a least.
LEMMA LeastNat ==
    ASSUME NEW T \in SUBSET Nat, T # {}
    PROVE  \E x \in T : \A y \in T : x <= y
<1> DEFINE R == {ss \in Nat \X Nat : ss[1] < ss[2]}
<1>1. IsWellFoundedOn(R, Nat)
  BY NatLessThanWellFounded DEF OpToRel
<1> HIDE DEF R
<1>2. PICK x \in T : \A y \in T : <<y, x>> \notin R
  BY <1>1, WFMin
<1>3. ASSUME NEW y \in T PROVE x <= y
  <2>1. x \in Nat /\ y \in Nat /\ <<y, x>> \notin R
    BY <1>2
  <2>2. ~ (y < x)
    BY <2>1 DEF R
  <2>. QED
    BY <2>1, <2>2
<1>. QED
  BY <1>3

\* Every nonempty set of addresses has a least, with the least net of all.
LEMMA LeastIsLeast ==
    ASSUME NEW S \in SUBSET Addresses, S # {}
    PROVE  Least(S) \in S /\ \A b \in S : Least(S)[1] <= b[1]
<1> DEFINE nets == {b[1] : b \in S}
<1>1. PICK n \in nets : \A m \in nets : n <= m
  <2>1. nets \in SUBSET Nat /\ nets # {}
    BY DEF Addresses
  <2>. QED
    BY ONLY <2>1, LeastNat
<1> DEFINE hosts == {b[2] : b \in {c \in S : c[1] = n}}
<1>2. PICK h \in hosts : \A m \in hosts : h <= m
  <2>1. hosts \in SUBSET Nat /\ hosts # {}
    BY <1>1 DEF Addresses
  <2>. QED
    BY ONLY <2>1, LeastNat
<1>3. PICK a \in S : a[1] = n /\ a[2] = h
  BY <1>2
<1>4. \A b \in S : a[1] < b[1] \/ (a[1] = b[1] /\ a[2] <= b[2])
  BY <1>1, <1>2, <1>3 DEF Addresses
<1>5. Least(S) \in S /\ \A b \in S : Least(S)[1] < b[1]
                          \/ (Least(S)[1] = b[1] /\ Least(S)[2] <= b[2])
  BY <1>4 DEF Least
<1>. QED
  BY <1>5 DEF Addresses

\* If both lists have an address on the LAN, Pick returns a candidate, and one on
\* the LAN unless a candidate shares an earlier network with the local list.
LEMMA PickReachable ==
    ASSUME NEW candidates \in SUBSET Addresses, NEW local \in SUBSET Addresses,
           NEW a \in candidates, NEW l \in local, a[1] = Lan, l[1] = Lan
    PROVE  /\ Pick(candidates, local) \in candidates
           /\ \/ Pick(candidates, local)[1] = Lan
              \/ \E b \in candidates, k \in local : b[1] = k[1] /\ k[1] < Lan
<1> DEFINE shared == {k \in local : \E c \in candidates : c[1] = k[1]}
           best == {c \in candidates : c[1] = Least(shared)[1]}
<1>1. shared \in SUBSET Addresses /\ l \in shared
  OBVIOUS
<1>2. Least(shared) \in shared /\ Least(shared)[1] <= Lan
  BY <1>1, LeastIsLeast
<1>3. PICK c \in candidates : c[1] = Least(shared)[1]
  BY <1>2
<1>4. Least(best) \in best
  BY <1>3, LeastIsLeast
<1>5. Pick(candidates, local) = Least(best)
  BY <1>1 DEF Pick
<1>6. CASE Least(shared)[1] = Lan
  BY <1>4, <1>5, <1>6
<1>7. CASE Least(shared)[1] # Lan
  <2>1. Least(shared)[1] < Lan
    BY <1>2, <1>7, LanAssumption DEF Addresses
  <2>. QED
    BY <1>2, <1>3, <1>4, <1>5, <2>1
<1>. QED
  BY <1>6, <1>7
-----------------------------------------------------------------------------
(***************************************************************************)
(* The inductive invariant.                                                *)
(***************************************************************************)
\* Every desktop has an address on the LAN.
Leased == \A d \in Desktops : leases[d] # {}

\* What an announcement lists: addresses of private adapters and of the LAN, and
\* at least one of the latter.
Listed(ips) ==
    /\ ips \in SUBSET Addresses
    /\ \A a \in ips : a[1] = Lan \/ a[2] = 1
    /\ \E a \in ips : a[1] = Lan

Announced == \A d \in Desktops : air[d] # None => Listed(air[d].ips)

\* What was found is what Pick returns, once for each address.
Picked ==
    /\ \A i \in DOMAIN found :
          Listed(found[i].ips) /\ found[i].addr = Pick(found[i].ips, Ips(Laptop))
    /\ \A i, j \in DOMAIN found : found[i].addr = found[j].addr => i = j

IInv == TypeOK /\ Leased /\ Announced /\ Picked

LEMMA NonEmptyLeases ==
    ASSUME NEW l, LeasesOK(l)
    PROVE  \A d \in Desktops : l[d] # {}
<1> SUFFICES ASSUME NEW d \in Desktops, l[d] = {} PROVE FALSE
  OBVIOUS
<1>. QED
  BY FS_EmptySet DEF LeasesOK

\* What the laptop and the desktops have as addresses.
LEMMA LaptopIps ==
    ASSUME TypeOK
    PROVE  /\ Ips(Laptop) \in SUBSET Addresses
           /\ <<Lan, LaptopHost>> \in Ips(Laptop)
           /\ \A a \in Ips(Laptop) : a[1] < Lan => a[1] \in private[Laptop]
  BY LanAssumption DEF TypeOK, Ips, PrivateIps, Addresses, Machines

LEMMA DesktopIps ==
    ASSUME TypeOK, Leased, NEW d \in Desktops
    PROVE  Listed(Ips(d))
<1>1. PICK h \in leases[d] : TRUE
  BY DEF Leased
<1>2. Ips(d) = PrivateIps(d) \cup LanIps(d)
  BY LanAssumption DEF Ips
<1>3. \A a \in PrivateIps(d) : a \in Addresses /\ a[2] = 1
  BY LanAssumption DEF TypeOK, PrivateIps, Addresses, Machines
<1>4. \A a \in LanIps(d) : a \in Addresses /\ a[1] = Lan
  BY LanAssumption DEF TypeOK, LanIps, Addresses
<1>5. <<Lan, h>> \in LanIps(d)
  BY DEF LanIps
<1>. QED
  BY <1>2, <1>3, <1>4, <1>5 DEF Listed

LEMMA PickListed ==
    ASSUME TypeOK, NEW ips, Listed(ips)
    PROVE  /\ Pick(ips, Ips(Laptop)) \in ips
           /\ Misleading(ips) \/ Pick(ips, Ips(Laptop))[1] = Lan
<1>1. PICK a \in ips : a[1] = Lan
  BY DEF Listed
<1>2. /\ Pick(ips, Ips(Laptop)) \in ips
      /\ \/ Pick(ips, Ips(Laptop))[1] = Lan
         \/ \E b \in ips, k \in Ips(Laptop) : b[1] = k[1] /\ k[1] < Lan
  BY <1>1, LaptopIps, PickReachable DEF Listed
<1>3. ASSUME NEW b \in ips, NEW k \in Ips(Laptop), b[1] = k[1], k[1] < Lan
      PROVE  Misleading(ips)
  <2>1. b[1] \in private[Laptop] /\ b[1] < Lan
    BY <1>3, LaptopIps
  <2>2. b[1] # Lan
    BY <2>1, LanAssumption, LaptopIps DEF TypeOK, Machines
  <2>3. b = <<b[1], 1>>
    BY <2>2 DEF Listed, Addresses
  <2>. QED
    BY <2>1, <2>3 DEF Misleading
<1>. QED
  BY <1>2, <1>3
-----------------------------------------------------------------------------
LEMMA InitInv ==
    Init => IInv
<1> SUFFICES ASSUME Init PROVE IInv
  OBVIOUS
<1>1. TypeOK
  BY LanAssumption DEF Init, TypeOK
<1>2. Leased
  BY NonEmptyLeases DEF Init, Leased
<1>3. Announced /\ Picked
  BY DEF Init, Announced, Picked
<1>. QED
  BY <1>1, <1>2, <1>3 DEF IInv

\* Sending keeps all announcements well-formed.
LEMMA SendInv ==
    ASSUME IInv, NEW d \in Desktops, NEW to \in {"query", "beacon"}, Send(d, to)
    PROVE  air' \in [Desktops -> Announcements \cup {None}] /\ Announced'
<1>1. Listed(Ips(d))
  BY DesktopIps DEF IInv
<1>2. [ips |-> Ips(d), code |-> code[d], to |-> to] \in Announcements
  BY <1>1 DEF IInv, TypeOK, Listed, Announcements
<1>3. air' \in [Desktops -> Announcements \cup {None}]
  BY <1>2 DEF IInv, TypeOK, Send
<1>4. ASSUME NEW e \in Desktops, air'[e] # None PROVE Listed(air'[e].ips)
  <2>1. CASE e = d
    BY <1>1, <2>1 DEF IInv, TypeOK, Send
  <2>2. CASE e # d
    BY <1>4, <2>2 DEF IInv, TypeOK, Send, Announced
  <2>. QED
    BY <2>1, <2>2
<1>5. Announced'
  BY <1>4 DEF Announced, Listed
<1>. QED
  BY <1>3, <1>5

\* Announcements that arrive or are lost do no harm to the others.
LEMMA GoneInv ==
    ASSUME IInv, \A d \in Desktops : air'[d] \in {air[d], None},
           air' = [d \in Desktops |-> air'[d]]
    PROVE  air' \in [Desktops -> Announcements \cup {None}] /\ Announced'
<1>1. air' \in [Desktops -> Announcements \cup {None}]
  BY DEF IInv, TypeOK
<1>2. ASSUME NEW d \in Desktops, air'[d] # None PROVE Listed(air'[d].ips)
  BY <1>2 DEF IInv, Announced
<1>. QED
  BY <1>1, <1>2 DEF Announced, Listed

\* The count of changes stays within its bound.
LEMMA ChangeInv ==
    ASSUME TypeOK, Change
    PROVE  changes' \in 0 .. MaxChanges
  BY LanAssumption DEF TypeOK, Change

\* What was found stays what Pick returns as long as the laptop's networks stay.
LEMMA PickedStays ==
    ASSUME Picked, UNCHANGED <<found, private>>
    PROVE  Picked'
  BY DEF Picked, Ips, PrivateIps, LanIps, Listed, Pick

LEMMA HearInv ==
    ASSUME IInv, NEW d \in Desktops, Hear(d)
    PROVE  IInv'
<1> DEFINE addr == Pick(air[d].ips, Ips(Laptop))
           g == [addr |-> addr, ips |-> air[d].ips, host |-> d]
<1>1. Listed(air[d].ips)
  BY DEF Hear, IInv, Announced
<1>2. addr \in Addresses
  BY <1>1, PickListed DEF IInv, Listed
<1>3. g \in Gateways
  BY <1>1, <1>2 DEF Gateways, Listed
<1>4. air' \in [Desktops -> Announcements \cup {None}] /\ Announced'
  BY GoneInv DEF Hear, IInv, TypeOK
<1>5. Leased'
  BY DEF Hear, desktopVars, IInv, Leased
<1>6. CASE found' = found
  <2>1. TypeOK'
    BY <1>4, <1>6 DEF Hear, desktopVars, IInv, TypeOK
  <2>2. Picked'
    BY <1>6, PickedStays DEF Hear, IInv
  <2>. QED
    BY <1>4, <1>5, <2>1, <2>2 DEF IInv
<1>7. CASE found' = Append(found, g) /\ \A i \in DOMAIN found : found[i].addr # addr
  <2>0. found \in Seq(Gateways)
    BY DEF IInv, TypeOK
  <2>1. found' \in Seq(Gateways)
    BY <1>3, <1>7, <2>0
  <2>2. TypeOK'
    BY <1>4, <2>1 DEF Hear, desktopVars, IInv, TypeOK
  <2>3. /\ DOMAIN found' = DOMAIN found \cup {Len(found) + 1}
        /\ \A i \in DOMAIN found : found'[i] = found[i] /\ i # Len(found) + 1
        /\ found'[Len(found) + 1] = g
    BY <1>3, <1>7, <2>0
  <2>4. Ips(Laptop)' = Ips(Laptop)
    BY LanAssumption DEF Hear, Ips, PrivateIps, LanIps, desktopVars
  <2>5. ASSUME NEW i \in DOMAIN found'
        PROVE  Listed(found'[i].ips) /\ found'[i].addr = Pick(found'[i].ips, Ips(Laptop))
    <3>1. CASE i \in DOMAIN found
      BY <2>3, <3>1 DEF IInv, Picked
    <3>2. CASE i = Len(found) + 1
      BY <1>1, <2>3, <3>2
    <3>. QED
      BY <2>3, <2>5, <3>1, <3>2
  <2>6. ASSUME NEW i \in DOMAIN found', NEW j \in DOMAIN found',
               found'[i].addr = found'[j].addr
        PROVE  i = j
    <3>1. \A k \in DOMAIN found : found'[k].addr # g.addr
      BY <1>7, <2>3
    <3>2. CASE i \in DOMAIN found /\ j \in DOMAIN found
      BY <2>3, <2>6, <3>2 DEF IInv, Picked
    <3>. QED
      BY <2>3, <2>6, <3>1, <3>2
  <2>7. Picked'
    BY <2>4, <2>5, <2>6 DEF Picked, Listed
  <2>. QED
    BY <1>4, <1>5, <2>2, <2>7 DEF IInv
<1>. QED
  BY <1>6, <1>7 DEF Hear

LEMMA EndRoundInv ==
    ASSUME IInv, EndRound
    PROVE  IInv'
<1>1. dial' \in Addresses \cup {None}
  <2>1. \A i \in DOMAIN found : found[i].addr \in Addresses
    <3>1. \A i \in DOMAIN found : found[i] \in Gateways
      BY DEF IInv, TypeOK
    <3>. QED
      BY <3>1 DEF Gateways
  <2>2. found # <<>> => 1 \in DOMAIN found
    BY DEF IInv, TypeOK
  <2>. QED
    BY <2>1, <2>2 DEF EndRound, IInv, TypeOK
<1>2. air' \in [Desktops -> Announcements \cup {None}] /\ Announced'
  <2>1. /\ \A d \in Desktops : air'[d] \in {air[d], None}
        /\ air' = [d \in Desktops |-> air'[d]]
    BY DEF EndRound, Ended
  <2>. QED
    BY <2>1, GoneInv
<1>3. TypeOK'
  BY <1>1, <1>2 DEF EndRound, Ended, desktopVars, IInv, TypeOK
<1>4. Leased' /\ Picked'
  BY PickedStays DEF EndRound, Ended, desktopVars, IInv, Leased
<1>. QED
  BY <1>2, <1>3, <1>4 DEF IInv

LEMMA NextInv ==
    ASSUME IInv, Next
    PROVE  IInv'
<1>1. ASSUME NEW d \in Desktops, Boot(d) \/ Halt(d) \/ SetPairCode(d)
      PROVE  IInv'
  <2>1. TypeOK'
    BY <1>1, ChangeInv DEF Boot, Halt, SetPairCode, roundVars, IInv, TypeOK
  <2>2. UNCHANGED <<leases, air, found, private>>
    BY <1>1 DEF Boot, Halt, SetPairCode, roundVars
  <2>3. Leased' /\ Announced' /\ Picked'
    BY <2>2, PickedStays DEF IInv, Leased, Announced, Listed
  <2>. QED
    BY <2>1, <2>3 DEF IInv
<1>2. ASSUME NEW d \in Desktops, Move(d) PROVE IInv'
  <2>1. PICK new \in SUBSET LanHosts :
            leases' = [leases EXCEPT ![d] = new] /\ LeasesOK(leases')
    BY <1>2 DEF Move
  <2>2. TypeOK'
    BY <1>2, <2>1, ChangeInv DEF Move, roundVars, IInv, TypeOK
  <2>3. Leased'
    BY <2>1, NonEmptyLeases DEF Leased
  <2>4. Announced' /\ Picked'
    BY <1>2, PickedStays DEF Move, roundVars, IInv, Announced, Listed
  <2>. QED
    BY <2>2, <2>3, <2>4 DEF IInv
<1>3. ASSUME NEW d \in Desktops, Beacon(d) \/ Answer(d) PROVE IInv'
  <2>1. air' \in [Desktops -> Announcements \cup {None}] /\ Announced'
    BY <1>3, SendInv DEF Beacon, Answer
  <2>2. TypeOK'
    BY <1>3, <2>1 DEF Beacon, Answer, desktopVars, roundVars, IInv, TypeOK
  <2>3. Leased' /\ Picked'
    BY <1>3, PickedStays DEF Beacon, Answer, desktopVars, roundVars, IInv, Leased
  <2>. QED
    BY <2>1, <2>2, <2>3 DEF IInv
<1>4. ASSUME NEW d \in Desktops, Lose(d) PROVE IInv'
  <2>1. air' \in [Desktops -> Announcements \cup {None}] /\ Announced'
    BY <1>4, GoneInv DEF Lose, IInv, TypeOK
  <2>2. TypeOK'
    BY <1>4, <2>1 DEF Lose, desktopVars, roundVars, IInv, TypeOK
  <2>3. Leased' /\ Picked'
    BY <1>4, PickedStays DEF Lose, desktopVars, roundVars, IInv, Leased
  <2>. QED
    BY <2>1, <2>2, <2>3 DEF IInv
<1>5. CASE StartRound
  <2>1. TypeOK'
    BY <1>5 DEF StartRound, desktopVars, IInv, TypeOK
  <2>2. Leased' /\ Announced' /\ Picked'
    BY <1>5 DEF StartRound, desktopVars, IInv, Leased, Announced, Listed, Picked
  <2>. QED
    BY <2>1, <2>2 DEF IInv
<1>. QED
  BY <1>1, <1>2, <1>3, <1>4, <1>5, HearInv, EndRoundInv DEF Next

LEMMA Inductive ==
    IInv /\ [Next]_vars => IInv'
<1> SUFFICES ASSUME IInv, [Next]_vars PROVE IInv'
  OBVIOUS
<1>1. CASE Next
  BY <1>1, NextInv
<1>2. CASE UNCHANGED vars
  <2>1. Picked'
    BY <1>2, PickedStays DEF vars, roundVars, IInv
  <2>. QED
    BY <1>2, <2>1 DEF vars, desktopVars, roundVars, IInv, TypeOK, Leased, Announced, Listed
<1>. QED
  BY <1>1, <1>2
-----------------------------------------------------------------------------
LEMMA Invariant ==
    Spec => []IInv
<1>1. Init => IInv
  BY InitInv
<1>2. IInv /\ [Next]_vars => IInv'
  BY Inductive
<1>. QED
  BY <1>1, <1>2, PTL DEF Spec

\* LanDiscovery keeps its types (lan_discovery.rs:128-146, 371-466): whatever is
\* announced, found and dialled is an address.
THEOREM TypeCorrect ==
    Spec => []TypeOK
<1>1. IInv => TypeOK
  BY DEF IInv
<1>. QED
  BY <1>1, Invariant, PTL

\* For every layout of networks and every sequence of moves, what discover_gateways
\* returns are addresses on the LAN unless a network misleads, each desktop's
\* announcement under one of them (lan_discovery.rs:219-246, 338-340).
THEOREM FindsReachable ==
    Spec => []FoundReachable
<1>1. ASSUME IInv PROVE FoundReachable
  <2>1. ASSUME NEW i \in DOMAIN found
        PROVE  Misleading(found[i].ips)
                 \/ (found[i].addr \in found[i].ips /\ found[i].addr[1] = Lan)
    BY <1>1, PickListed DEF IInv, Picked
  <2>2. ASSUME NEW i \in DOMAIN found, NEW j \in DOMAIN found,
               found[i].ips = found[j].ips
        PROVE  i = j
    BY <1>1, <2>2 DEF IInv, Picked
  <2>. QED
    BY <2>1, <2>2 DEF FoundReachable
<1>. QED
  BY <1>1, Invariant, PTL
=============================================================================
