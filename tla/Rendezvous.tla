----------------------------- MODULE Rendezvous -----------------------------
(***************************************************************************)
(* What the relay promises the clients of a pair code, in the abstract:    *)
(* it brings an agent and a gateway together and leaves them to one        *)
(* another.  Whoever has a mate keeps it for as long as it stays, bytes    *)
(* flow between mates only, and when they part both are gone; nobody is    *)
(* parted from a mate and given another.  Neither the room nor the tasks   *)
(* that hand streams to each other appear.  Relay implements this.         *)
(***************************************************************************)
CONSTANTS
    Agents, Gateways,   \* the connections of either role
    None

VARIABLES
    present,    \* the connections the relay has not closed
    mate,       \* for each of them the connection it is paired with
    flowing     \* the connections between which bytes are copied

vars == <<present, mate, flowing>>

Init ==
    /\ present = {}
    /\ mate = [c \in Agents \cup Gateways |-> None]
    /\ flowing = {}

Enter(c) ==
    /\ c \notin present
    /\ present' = present \cup {c}
    /\ UNCHANGED <<mate, flowing>>

\* Both are alone.
Match(a, g) ==
    /\ {a, g} \subseteq present /\ mate[a] = None /\ mate[g] = None
    /\ mate' = [mate EXCEPT ![a] = g, ![g] = a]
    /\ UNCHANGED <<present, flowing>>

Flow(a, g) ==
    /\ mate[a] = g
    /\ flowing' = flowing \cup {a, g}
    /\ UNCHANGED <<present, mate>>

\* One that is refused, lost or never found.
Leave(c) ==
    /\ c \in present /\ mate[c] = None
    /\ present' = present \ {c}
    /\ UNCHANGED <<mate, flowing>>

\* Mates leave together.
Part(a, g) ==
    /\ mate[a] = g
    /\ present' = present \ {a, g}
    /\ mate' = [mate EXCEPT ![a] = None, ![g] = None]
    /\ flowing' = flowing \ {a, g}

Restart ==
    /\ present' = {}
    /\ mate' = [c \in Agents \cup Gateways |-> None]
    /\ flowing' = {}

Next ==
    \/ \E c \in Agents \cup Gateways : Enter(c) \/ Leave(c)
    \/ \E a \in Agents, g \in Gateways : Match(a, g) \/ Flow(a, g) \/ Part(a, g)
    \/ Restart

Spec == Init /\ [][Next]_vars
=============================================================================
