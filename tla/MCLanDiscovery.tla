--------------------------- MODULE MCLanDiscovery ---------------------------
(***************************************************************************)
(* TLC instance of LanDiscovery: two desktops, and a LAN whose number lies *)
(* between those of two private networks.  It starts with one assignment   *)
(* of addresses and codes; the changes lead to the others.                 *)
(***************************************************************************)
EXTENDS LanDiscovery, TLC

CONSTANTS d1, d2, laptop, a, b

MCDesktops == {d1, d2}
MCCodes == {a, b}
MCWanted == {a, AnyCode}
MCLanHosts == {3, 4, 5}

\* A private network that is shared, but comes after the LAN; one that misleads.
MCLayouts ==
    { (d1 :> {1, 9} @@ d2 :> {} @@ laptop :> {9}),
      (d1 :> {1} @@ d2 :> {9} @@ laptop :> {1}) }

MCInit ==
    /\ Init
    /\ leases = (d1 :> {3} @@ d2 :> {4})
    /\ code = (d1 :> a @@ d2 :> b)

MCSpec == MCInit /\ [][Next]_vars /\ Fairness
=============================================================================
