---------------------------- MODULE PeerSession ----------------------------
(***************************************************************************)
(* What a tunnel endpoint does about its peer, in the abstract: whom it    *)
(* sends to, when it counts as connected and when it gives the peer up.    *)
(* Vehicle state, the kinds of frames and the order in which a tick sends  *)
(* them do not appear; the race between receiving a datagram and timing    *)
(* out does.  TunnelEngine implements this specification, and Tunnel joins *)
(* two endpoints that behave according to it.                              *)
(***************************************************************************)
CONSTANTS
    Peers,      \* addresses a datagram may come from
    NoPeer      \* no peer is known

VARIABLES
    role,       \* "agent" or "gateway"; a parameter, it never changes
    slot,       \* the peer
    fresh,      \* whether the peer was heard within the timeout
    conn,       \* the connection state
    rx,         \* progress of the task that receives
    ka,         \* progress of the task that times out
    out         \* where this step sent datagrams

session == <<slot, fresh, conn, rx, ka>>
vars == <<role, session, out>>

SessionTypeOK ==
    /\ role \in {"agent", "gateway"}
    /\ slot \in Peers \cup {NoPeer}
    /\ fresh \in BOOLEAN
    /\ conn \in {"WaitingForPeer", "Connected", "Reconnecting", "Failed"}
    /\ rx \in {"idle", "good", "bad", "heard"}
    /\ ka \in {"idle", "fail", "clear"}

TypeOK == SessionTypeOK /\ out \in SUBSET Peers

ToPeer == IF slot = NoPeer THEN {} ELSE {slot}

\* A session begins with a known peer or without one.
Begin(peer) ==
    /\ slot = peer
    /\ fresh = TRUE
    /\ conn = "WaitingForPeer"
    /\ rx = "idle"
    /\ ka = "idle"

\* The session is started anew, or ends, in state c.
Reset(peer, c) ==
    /\ slot' = peer
    /\ fresh' = TRUE
    /\ conn' = c
    /\ rx' = "idle"
    /\ ka' = "idle"

Init ==
    /\ role \in {"agent", "gateway"}
    /\ \E peer \in Peers \cup {NoPeer} : Begin(peer)
    /\ out = ToPeer
-----------------------------------------------------------------------------
\* The actions leave open what a step sends; Next says it.

\* A datagram arrives; its sender becomes the peer.
Recv(src, readable) ==
    /\ rx = "idle"
    /\ slot' = src
    /\ rx' = IF readable THEN "good" ELSE "bad"
    /\ UNCHANGED <<fresh, conn, ka>>

\* It counts as a sign of life, readable or not.
Stamp ==
    /\ rx \in {"good", "bad"}
    /\ fresh' = TRUE
    /\ rx' = IF rx = "good" THEN "heard" ELSE "idle"
    /\ UNCHANGED <<slot, conn, ka>>

\* A readable frame proves that the tunnel is up.
Connect ==
    /\ rx = "heard"
    /\ conn' = "Connected"
    /\ rx' = "idle"
    /\ UNCHANGED <<slot, fresh, ka>>

\* Some frames say so twice.
ConnectEarly ==
    /\ rx = "heard"
    /\ conn' = "Connected"
    /\ UNCHANGED <<slot, fresh, rx, ka>>

\* A frame the network adapter refuses proves nothing.
Ignore ==
    /\ rx = "heard"
    /\ rx' = "idle"
    /\ UNCHANGED <<slot, fresh, conn, ka>>

\* Mutants of Check and Fail: only agents watch their peer; a failed agent waits
\* for the peer instead of giving up.
CheckOnAgentOnly ==
    /\ role = "agent"
    /\ ka = "idle"
    /\ slot # NoPeer
    /\ ~fresh
    /\ ka' = "fail"
    /\ UNCHANGED <<slot, fresh, conn, rx>>

FailNeverFails ==
    /\ ka = "fail"
    /\ ka' = "clear"
    /\ conn' = "Reconnecting"
    /\ UNCHANGED <<slot, fresh, rx>>

\* A tick finds that the peer has been silent for too long.  By the time the
\* result is used, in the two steps that follow, this may no longer be so.
Check ==
    /\ ka = "idle"
    /\ slot # NoPeer
    /\ ~fresh
    /\ ka' = "fail"
    /\ UNCHANGED <<slot, fresh, conn, rx>>

Fail ==
    /\ ka = "fail"
    /\ ka' = "clear"
    /\ conn' = IF role = "agent" THEN "Failed" ELSE "Reconnecting"
    /\ UNCHANGED <<slot, fresh, rx>>

Clear ==
    /\ ka = "clear"
    /\ ka' = "idle"
    /\ slot' = NoPeer
    /\ UNCHANGED <<fresh, conn, rx>>

\* The peer timeout passes since the last datagram.
Elapse ==
    /\ fresh' = FALSE
    /\ UNCHANGED <<slot, conn, rx, ka>>
-----------------------------------------------------------------------------
Silent ==
    \/ \E src \in Peers, readable \in BOOLEAN : Recv(src, readable)
    \/ Stamp \/ Connect \/ ConnectEarly \/ Ignore
    \/ Check \/ Fail \/ Clear
    \/ Elapse

\* Probes, replies, statuses, Hellos and Ethernet frames go to the peer of the
\* moment at any time.
Next ==
    /\ UNCHANGED role
    /\ \/ Silent /\ out' = {}
       \/ UNCHANGED session /\ out' \in {{}, ToPeer}

Spec == Init /\ [][Next]_vars
=============================================================================
