------------------------------- MODULE Relay -------------------------------
(***************************************************************************)
(* The relay server, enet-relay/src/main.rs, with the two clients of one   *)
(* pair code: relay_client.rs, and of relay_engine.rs and the main loops   *)
(* what opens and closes a connection.                                     *)
(*                                                                         *)
(* Every accepted connection is served by a handle_client task of its own; *)
(* the tasks share the map of rooms behind a mutex.  An action is one      *)
(* critical section, one write or one event of a connection.  A write to a *)
(* client that is gone may fail or not.  Other pair codes and malformed    *)
(* hellos do not touch this room and are left out, as is what the pipe     *)
(* carries.  A client and the server name a connection by an element of    *)
(* Conns, which is used again once both have closed it.                    *)
(***************************************************************************)
EXTENDS FiniteSets

CONSTANTS
    AgentConns, GatewayConns,   \* the connections either role may have
    None

ASSUME ConnAssumption ==
    /\ AgentConns \cap GatewayConns = {}
    /\ None \notin AgentConns \cup GatewayConns

VARIABLES
    room,   \* the Room: for each role the connection whose task waits there
    srv,    \* for each connection, what its task does, or that the task has
            \* ended: its stream given to another task, or closed
    got,    \* the stream a waiting task was sent through `notify'
    told,   \* the connections whose client has been sent a status other than error
    cli     \* what the client does at its end

vars == <<room, srv, got, told, cli>>

Conns == AgentConns \cup GatewayConns
Roles == {"agent", "gateway"}
Role(c) == IF c \in AgentConns THEN "agent" ELSE "gateway"
Other(role) == IF role = "agent" THEN "gateway" ELSE "agent"
ConnsOf(role) == {c \in Conns : Role(c) = role}

TypeOK ==
    /\ room \in [Roles -> Conns \cup {None}]
    /\ srv \in [Conns -> {"hello", "announce", "await", "refuse", "pair", "pipe", "given", "closed"}]
    /\ got \in [Conns -> Conns \cup {None}]
    /\ told \in SUBSET Conns
    /\ cli \in [Conns -> {"dialing", "joined", "closed"}]

Init ==
    /\ room = [role \in Roles |-> None]
    /\ srv = [c \in Conns |-> "closed"]
    /\ got = [c \in Conns |-> None]
    /\ told = {}
    /\ cli = [c \in Conns |-> "closed"]
-----------------------------------------------------------------------------
(***************************************************************************)
(* The server.  A task holds the receiver of its `notify' until it pairs   *)
(* or ends.                                                                *)
(***************************************************************************)
Listens(c) == srv[c] \in {"announce", "await"}

(***************************************************************************)
(* A join is one critical section (main.rs:112-140) with three outcomes.   *)
(***************************************************************************)
Duplicate(c) ==
    /\ room[Role(c)] # None
    /\ srv' = [srv EXCEPT ![c] = "refuse"]
    /\ UNCHANGED <<room, got>>

\* Mutants of Wait: it does not look for a client of its own role; it also
\* registers beside a lost client of the other.
WaitUnchecked(c) ==
    /\ room[Other(Role(c))] = None
    /\ room' = [room EXCEPT ![Role(c)] = c]
    /\ srv' = [srv EXCEPT ![c] = "announce"]
    /\ UNCHANGED got

WaitBesideLost(c) ==
    /\ room[Role(c)] = None
    /\ \A w \in {room[Other(Role(c))]} \ {None} : ~Listens(w)
    /\ room' = [room EXCEPT ![Role(c)] = c]
    /\ srv' = [srv EXCEPT ![c] = "announce"]
    /\ UNCHANGED got

Wait(c) ==
    /\ \A role \in Roles : room[role] = None
    /\ room' = [room EXCEPT ![Role(c)] = c]
    /\ srv' = [srv EXCEPT ![c] = "announce"]
    /\ UNCHANGED got

\* Mutant of HandOff: the entry is used but stays in the room.
HandOffKeepsEntry(c) ==
    /\ room[Role(c)] = None
    /\ \E w \in {room[Other(Role(c))]} \ {None} :
        /\ Listens(w)
        /\ srv' = [srv EXCEPT ![c] = "given"]
        /\ got' = [got EXCEPT ![w] = c]
    /\ UNCHANGED room

\* Another: it takes whoever waits, a client of its own role, too.
HandOffToAnyRole(c) ==
    \E w \in {room[role] : role \in Roles} \ {None} :
        /\ room' = [room EXCEPT ![Role(w)] = None]
        /\ srv' = [srv EXCEPT ![c] = IF Listens(w) THEN "given" ELSE "closed"]
        /\ got' = IF Listens(w) THEN [got EXCEPT ![w] = c] ELSE got

\* Another: an entry that leads nowhere stays in the room.
HandOffKeepsLost(c) ==
    /\ room[Role(c)] = None
    /\ \E w \in {room[Other(Role(c))]} \ {None} :
        /\ room' = IF Listens(w) THEN [room EXCEPT ![Role(w)] = None] ELSE room
        /\ srv' = [srv EXCEPT ![c] = IF Listens(w) THEN "given" ELSE "closed"]
        /\ got' = IF Listens(w) THEN [got EXCEPT ![w] = c] ELSE got

\* The stream is sent to the task that waits, or dropped if it listens no more.
HandOff(c) ==
    /\ room[Role(c)] = None
    /\ room' = [room EXCEPT ![Other(Role(c))] = None]
    /\ \E w \in {room[Other(Role(c))]} \ {None} :
        /\ srv' = [srv EXCEPT ![c] = IF Listens(w) THEN "given" ELSE "closed"]
        /\ got' = IF Listens(w) THEN [got EXCEPT ![w] = c] ELSE got

Join(c) ==
    /\ srv[c] = "hello"
    /\ Duplicate(c) \/ Wait(c) \/ HandOff(c)
    /\ UNCHANGED <<told, cli>>

\* "role already connected for this pair code"
Refuse(c) ==
    /\ srv[c] = "refuse"
    /\ srv' = [srv EXCEPT ![c] = "closed"]
    /\ UNCHANGED <<room, got, told, cli>>

\* The task of c ends: its stream and the one it was sent are closed.
End(c) ==
    /\ srv' = [d \in Conns |-> IF d \in {c, got[c]} THEN "closed" ELSE srv[d]]
    /\ got' = [got EXCEPT ![c] = None]
    /\ UNCHANGED <<room, told, cli>>

\* main.rs:157-161: the status "waiting" ...
Announce(c) ==
    /\ srv[c] = "announce"
    /\ srv' = [srv EXCEPT ![c] = "await"]
    /\ told' = told \cup {c}
    /\ UNCHANGED <<room, got, cli>>

\* ... or the client is gone already; the entry stays in the room.
AnnounceFails(c) ==
    /\ srv[c] = "announce"
    /\ cli[c] = "closed"
    /\ End(c)

\* Mutant of Receive: it does not wait for the stream.
ReceiveAtOnce(c) ==
    /\ srv[c] = "await"
    /\ srv' = [srv EXCEPT ![c] = "pair"]
    /\ UNCHANGED <<room, got, told, cli>>

\* main.rs:162-164: nothing but a stream ends the wait, not even its client.
Receive(c) ==
    /\ srv[c] = "await"
    /\ got[c] # None
    /\ srv' = [srv EXCEPT ![c] = "pair"]
    /\ UNCHANGED <<room, got, told, cli>>

\* main.rs:165-171
Pair(c) ==
    /\ srv[c] = "pair"
    /\ srv' = [srv EXCEPT ![c] = "pipe"]
    /\ told' = told \cup {got[c]}
    /\ UNCHANGED <<room, got, cli>>

PairFails(c) ==
    /\ srv[c] = "pair"
    /\ cli[got[c]] = "closed"
    /\ End(c)

\* copy_bidirectional returns when either client has closed its end: it closes
\* the other direction too, and that client's next write fails.
PipeEnds(c) ==
    /\ srv[c] = "pipe"
    /\ cli[c] = "closed" \/ cli[got[c]] = "closed"
    /\ End(c)

Serve(c) ==
    \/ Join(c) \/ Refuse(c)
    \/ Announce(c) \/ AnnounceFails(c) \/ Receive(c)
    \/ Pair(c) \/ PairFails(c) \/ PipeEnds(c)
-----------------------------------------------------------------------------
(***************************************************************************)
(* The clients.  An agent whose connection fails dials again, by its main  *)
(* loop; a gateway is started by its user.                                 *)
(***************************************************************************)
Offline(role) == \A c \in ConnsOf(role) : cli[c] = "closed"

Dial(role) ==
    /\ Offline(role)
    /\ \E c \in ConnsOf(role) :
        /\ srv[c] = "closed"
        /\ \A r \in Roles : room[r] # c
        /\ cli' = [cli EXCEPT ![c] = "dialing"]
        /\ srv' = [srv EXCEPT ![c] = "hello"]
        /\ told' = told \ {c}
    /\ UNCHANGED <<room, got>>

\* connect_relay returns a stream (relay_client.rs:77-87) ...
Joined(c) ==
    /\ cli[c] = "dialing"
    /\ c \in told
    /\ cli' = [cli EXCEPT ![c] = "joined"]
    /\ UNCHANGED <<room, srv, got, told>>

\* ... or an error; later, a read or a keepalive fails (relay_engine.rs:299-358).
Fails(c) ==
    /\ \/ cli[c] = "dialing" /\ c \notin told
       \/ cli[c] = "joined"
    /\ srv[c] = "closed"
    /\ cli' = [cli EXCEPT ![c] = "closed"]
    /\ UNCHANGED <<room, srv, got, told>>

\* The process ends, or its user makes it start over.
HangUp(c) ==
    /\ cli[c] # "closed"
    /\ cli' = [cli EXCEPT ![c] = "closed"]
    /\ UNCHANGED <<room, srv, got, told>>

HangUpOf(conns) == \E c \in conns : HangUp(c)

\* The relay is restarted and forgets its rooms.
RelayRestart ==
    /\ room' = [role \in Roles |-> None]
    /\ srv' = [c \in Conns |-> "closed"]
    /\ got' = [c \in Conns |-> None]
    /\ UNCHANGED <<told, cli>>

Regular ==
    \/ \E c \in Conns : Serve(c)
    \/ \E role \in Roles : Dial(role)
    \/ \E c \in Conns : Joined(c)
    \/ \E c \in Conns : Fails(c)

Next == Regular \/ HangUpOf(Conns) \/ RelayRestart

\* The server's tasks and the clients run, and the agent's main loop dials.
Fairness ==
    /\ \A c \in Conns : WF_vars(Serve(c)) /\ WF_vars(Joined(c) \/ Fails(c))
    /\ WF_vars(Dial("agent"))

Spec == Init /\ [][Next]_vars /\ Fairness
-----------------------------------------------------------------------------
(***************************************************************************)
(* The match-making leaves no pair behind: agent and gateway never both    *)
(* wait in the room (main.rs:115-138), however their tasks interleave.     *)
(***************************************************************************)
NeverBothWait == \E role \in Roles : room[role] = None

(***************************************************************************)
(* Streams are handed from task to task and never shared or leaked: each   *)
(* stream that was given away is held by exactly one task, which serves    *)
(* the other role (main.rs:120, 131 and 162).                              *)
(***************************************************************************)
StreamsHaveOneOwner ==
    \A c \in Conns :
        srv[c] = "given" <=>
            Cardinality({d \in Conns : got[d] = c /\ Role(d) # Role(c)
                                       /\ srv[d] \in {"announce", "await", "pair", "pipe"}}) = 1

(***************************************************************************)
(* No task waits where nobody can find it: one that awaits a peer is in    *)
(* the room or has been sent its peer (main.rs:133-135 and 162).           *)
(***************************************************************************)
WaitersCanBeFound ==
    \A c \in Conns : Listens(c) => room[Role(c)] = c \/ got[c] # None

\* The pairs that streams sent from task to task make, seen from both sides.
MatesIn(streams) ==
    [c \in Conns |->
        IF streams[c] # None THEN streams[c]
        ELSE IF \E w \in Conns : streams[w] = c
             THEN CHOOSE w \in Conns : streams[w] = c
             ELSE None]

Piped == {c \in Conns : \E w \in Conns : srv[w] = "pipe" /\ c \in {w, got[w]}}

(***************************************************************************)
(* However joins, refusals, hand-offs and ends of tasks interleave, the    *)
(* server does nothing but bring two clients of different roles together   *)
(* and keep them together until both are closed (main.rs:86-183): no       *)
(* client is ever in two pairs, changes its partner or outlives it, and    *)
(* no pipe runs between any others.                                        *)
(***************************************************************************)
Meeting == INSTANCE Rendezvous WITH
    Agents <- AgentConns,
    Gateways <- GatewayConns,
    present <- {c \in Conns : srv[c] # "closed"},
    mate <- MatesIn(got),
    flowing <- Piped

ImplementsRendezvous == Meeting!Spec

\* Both clients have joined and the relay pipes between them.
Tunnelled ==
    \E c \in Conns : /\ srv[c] = "pipe"
                     /\ cli[c] = "joined"
                     /\ cli[got[c]] = "joined"

\* From some time on nobody hangs up and the relay is not restarted.  Clients
\* may still be refused, dropped or lost with their pipe, and dial again, for ever.
NoMoreTrouble == <>[][Regular]_vars

(***************************************************************************)
(* If the gateway dialled again as the agent does, the two would find each *)
(* other in the end, whatever entries of lost clients earlier hang-ups and *)
(* restarts left in the room (main.rs:112-171): the refusals and the dead  *)
(* hand-offs that these cause come to an end.  The gateway does not        *)
(* (relay_engine.rs:354): after one hang-up of the laptop it waits in no   *)
(* room, contrary to docs/ARCHITECTURE.md:211, "exponential backoff        *)
(* reconnect from agent".                                                  *)
(***************************************************************************)
PairsUpIfBothRedial == WF_vars(Dial("gateway")) /\ NoMoreTrouble => <>[]Tunnelled
=============================================================================
