---------------------------- MODULE RelayEngine ----------------------------
(***************************************************************************)
(* The tunnel through a relay: the engines of agent and gateway,           *)
(* enet-tunnel/src/relay_engine.rs, at the two ends of the relay's pipe.   *)
(* Each is three tasks: eth_to_relay forwards Ethernet frames, keepalive   *)
(* sends probes and watches the peer's silence, relay_to_eth reads frames  *)
(* and answers probes.  All three write to one TCP stream, and hold its    *)
(* lock until the frame is written, however long that takes: a stream      *)
(* accepts no more than its buffers and the relay's hold.                  *)
(*                                                                         *)
(* Left out: the vehicle flags, since no frame that is sent here carries   *)
(* them, and the handlers of Hello, Status, Goodbye and Ack, which are not *)
(* sent either; statistics; and the stopping of an engine, which the other *)
(* end sees as Close.  That an endpoint learns of a frame and notes the    *)
(* time of it is one step, as is a keepalive's look at that time after its *)
(* probe: in between there is no lock for which another task could wait.   *)
(***************************************************************************)
EXTENDS Naturals, Sequences

CONSTANT Capacity   \* frames that the buffers of one direction hold

ASSUME CapacityAssumption == Capacity \in Nat \ {0}

VARIABLES
    open,       \* whether the pipe, and the connections to the relay, are up
    joined,     \* who has joined the relay
    wire,       \* frames an end has written and the other has not read
    writer,     \* which task holds an end's writer
    conn,       \* state.connection
    fresh,      \* whether last_peer_rx is younger than the timeout
    eth,        \* whether eth_to_relay runs
    rx,         \* where relay_to_eth is in its loop
    ka          \* where keepalive is

engineVars == <<open, joined, wire, writer, conn, fresh, eth, rx, ka>>

Ends == {"agent", "gateway"}
Peer(e) == IF e = "agent" THEN "gateway" ELSE "agent"
Frames == {"ethernet", "probe", "reply"}

EngineTypeOK ==
    /\ open \in BOOLEAN
    /\ joined \in [Ends -> BOOLEAN]
    /\ wire \in [Ends -> Seq(Frames)]
    /\ \A e \in Ends : Len(wire[e]) <= Capacity
    /\ writer \in [Ends -> {"free", "eth", "rx", "ka"}]
    /\ conn \in [Ends -> {"WaitingForPeer", "Connected", "Reconnecting", "Failed"}]
    /\ fresh \in [Ends -> BOOLEAN]
    /\ eth \in [Ends -> BOOLEAN]
    /\ rx \in [Ends -> {"read", "reply", "mark", "ended"}]
    /\ ka \in [Ends -> {"sleep", "expire", "ended"}]

\* One end has joined and waits, or both have.
EngineInit ==
    /\ open = TRUE
    /\ joined \in [Ends -> BOOLEAN] /\ \E e \in Ends : joined[e]
    /\ wire = [e \in Ends |-> <<>>]
    /\ writer = [e \in Ends |-> "free"]
    /\ conn = [e \in Ends |-> "WaitingForPeer"]
    /\ fresh = [e \in Ends |-> TRUE]
    /\ eth = [e \in Ends |-> TRUE]
    /\ rx = [e \in Ends |-> "read"]
    /\ ka = [e \in Ends |-> "sleep"]
-----------------------------------------------------------------------------
(***************************************************************************)
(* Writing: a task takes the lock, and gives it back when all is written   *)
(* or the connection turns out to be closed.                               *)
(***************************************************************************)
Lock(e, task) ==
    /\ joined[e]
    /\ writer[e] = "free"
    /\ writer' = [writer EXCEPT ![e] = task]
    /\ UNCHANGED <<open, joined, wire, conn, fresh, eth, rx, ka>>

Unlock(e) == writer' = [writer EXCEPT ![e] = "free"]

\* Mutant of Put: a full buffer takes another frame.
PutUnchecked(e, frame) ==
    /\ open
    /\ wire' = [wire EXCEPT ![e] = Append(@, frame)]

Put(e, frame) ==
    /\ open
    /\ Len(wire[e]) < Capacity
    /\ wire' = [wire EXCEPT ![e] = Append(@, frame)]

Broken == ~open /\ UNCHANGED wire

\* eth_to_relay ends when a write fails.
EthTake(e) == eth[e] /\ Lock(e, "eth")

EthWrite(e) ==
    /\ writer[e] = "eth"
    /\ Put(e, "ethernet") \/ Broken
    /\ Unlock(e)
    /\ eth' = [eth EXCEPT ![e] = open]
    /\ UNCHANGED <<open, joined, conn, fresh, rx, ka>>
-----------------------------------------------------------------------------
(***************************************************************************)
(* relay_to_eth.                                                           *)
(***************************************************************************)
\* What follows a frame: a probe is answered, and then, as after a reply or an
\* Ethernet frame that the adapter has taken, the connection is marked.
After(frame) == CASE frame = "probe" -> {"reply"}
                  [] frame = "reply" -> {"mark"}
                  [] frame = "ethernet" -> {"mark", "read"}

RxRead(e) ==
    /\ joined[e]
    /\ rx[e] = "read"
    /\ wire[Peer(e)] # <<>>
    /\ wire' = [wire EXCEPT ![Peer(e)] = Tail(@)]
    /\ \E next \in After(Head(wire[Peer(e)])) : rx' = [rx EXCEPT ![e] = next]
    /\ fresh' = [fresh EXCEPT ![e] = TRUE]
    /\ UNCHANGED <<open, joined, writer, conn, eth, ka>>

\* A frame in plaintext, or of another password.
RxDrop(e) ==
    /\ joined[e]
    /\ rx[e] = "read"
    /\ wire[Peer(e)] # <<>>
    /\ wire' = [wire EXCEPT ![Peer(e)] = Tail(@)]
    /\ UNCHANGED <<open, joined, writer, conn, fresh, eth, rx, ka>>

RxTake(e) ==
    /\ rx[e] = "reply"
    /\ Lock(e, "rx")

\* Mutant of RxReply: it does not give up on a closed connection.
RxReplyWhenOpen(e) ==
    /\ writer[e] = "rx"
    /\ Put(e, "reply")
    /\ Unlock(e)
    /\ rx' = [rx EXCEPT ![e] = "mark"]
    /\ UNCHANGED <<open, joined, conn, fresh, eth, ka>>

\* An error is ignored.
RxReply(e) ==
    /\ writer[e] = "rx"
    /\ Put(e, "reply") \/ Broken
    /\ Unlock(e)
    /\ rx' = [rx EXCEPT ![e] = "mark"]
    /\ UNCHANGED <<open, joined, conn, fresh, eth, ka>>

RxMark(e) ==
    /\ rx[e] = "mark"
    /\ conn' = [conn EXCEPT ![e] = "Connected"]
    /\ rx' = [rx EXCEPT ![e] = "read"]
    /\ UNCHANGED <<open, joined, wire, writer, fresh, eth, ka>>

\* Reading fails; the state is left as it is.
RxEnd(e) ==
    /\ joined[e]
    /\ rx[e] = "read"
    /\ ~open
    /\ rx' = [rx EXCEPT ![e] = "ended"]
    /\ UNCHANGED <<open, joined, wire, writer, conn, fresh, eth, ka>>
-----------------------------------------------------------------------------
(***************************************************************************)
(* keepalive.                                                              *)
(***************************************************************************)
KaTake(e) == ka[e] = "sleep" /\ Lock(e, "ka")

KaProbe(e) ==
    /\ writer[e] = "ka"
    /\ Put(e, "probe")
    /\ Unlock(e)
    /\ ka' = [ka EXCEPT ![e] = IF fresh[e] THEN "sleep" ELSE "expire"]
    /\ UNCHANGED <<open, joined, conn, fresh, eth, rx>>

\* Mutant of KaProbeFails: an error is ignored here, too.
KaProbeFailsUnnoticed(e) ==
    /\ writer[e] = "ka"
    /\ Broken
    /\ Unlock(e)
    /\ UNCHANGED <<open, joined, conn, fresh, eth, rx, ka>>

\* The failure is marked as soon as the lock is given back.
KaProbeFails(e) ==
    /\ writer[e] = "ka"
    /\ Broken
    /\ Unlock(e)
    /\ conn' = [conn EXCEPT ![e] = "Failed"]
    /\ ka' = [ka EXCEPT ![e] = "ended"]
    /\ UNCHANGED <<open, joined, fresh, eth, rx>>

\* Mutant of KaExpire: only an end that waits is told to wait.
KaExpireWaiting(e) ==
    /\ ka[e] = "expire"
    /\ conn' = [conn EXCEPT ![e] = IF @ = "WaitingForPeer" THEN "Reconnecting" ELSE @]
    /\ ka' = [ka EXCEPT ![e] = "sleep"]
    /\ UNCHANGED <<open, joined, wire, writer, fresh, eth, rx>>

KaExpire(e) ==
    /\ ka[e] = "expire"
    /\ conn' = [conn EXCEPT ![e] = IF @ = "Connected" THEN "Reconnecting" ELSE @]
    /\ ka' = [ka EXCEPT ![e] = "sleep"]
    /\ UNCHANGED <<open, joined, wire, writer, fresh, eth, rx>>
-----------------------------------------------------------------------------
(***************************************************************************)
(* The world.  A connection breaks, or is closed by an end that stops, and *)
(* the relay closes the other.  What is under way is lost; a frame that    *)
(* arrives all the same is one that was read just before.                  *)
(***************************************************************************)
PeerJoins(e) ==
    /\ open /\ ~joined[e]
    /\ joined' = [joined EXCEPT ![e] = TRUE]
    /\ UNCHANGED <<open, wire, writer, conn, fresh, eth, rx, ka>>

\* Time passes while relay_to_eth waits, for a frame or for the lock.
Elapse(e) ==
    /\ joined[e] /\ fresh[e]
    /\ rx[e] = "read" => wire[Peer(e)] = <<>>
    /\ rx[e] # "mark"
    /\ fresh' = [fresh EXCEPT ![e] = FALSE]
    /\ UNCHANGED <<open, joined, wire, writer, conn, eth, rx, ka>>

Close ==
    /\ open
    /\ open' = FALSE
    /\ wire' = [e \in Ends |-> <<>>]
    /\ UNCHANGED <<joined, writer, conn, fresh, eth, rx, ka>>

Rx(e) == RxRead(e) \/ RxDrop(e) \/ RxReply(e) \/ RxMark(e) \/ RxEnd(e)
Ka(e) == KaProbe(e) \/ KaProbeFails(e) \/ KaExpire(e)

EngineNext ==
    \/ \E e \in Ends : EthTake(e) \/ EthWrite(e)
    \/ \E e \in Ends : RxTake(e) \/ Rx(e)
    \/ \E e \in Ends : KaTake(e) \/ Ka(e)
    \/ \E e \in Ends : PeerJoins(e) \/ Elapse(e)
    \/ Close

\* Tasks run, and are given the lock in the order in which they ask.
EngineFairness ==
    \A e \in Ends :
        /\ WF_engineVars(EthWrite(e)) /\ WF_engineVars(Rx(e)) /\ WF_engineVars(Ka(e))
        /\ SF_engineVars(RxTake(e)) /\ SF_engineVars(KaTake(e))

EngineSpec == EngineInit /\ [][EngineNext]_engineVars /\ EngineFairness
-----------------------------------------------------------------------------
\* Both ends are about to answer a probe and cannot: all that both have written
\* is waiting for the other to read on, which it does after it has answered.
Gridlock ==
    /\ open
    /\ \A e \in Ends : /\ joined[e]
                       /\ rx[e] = "reply"
                       /\ writer[e] # "free"
                       /\ Len(wire[e]) = Capacity

\* relay_to_eth has taken back the failure that keepalive has ended with.
Overtaken(e) == ka[e] = "ended" /\ conn[e] = "Connected"

(***************************************************************************)
(* What an end claims has a reason at the other one: a peer it calls       *)
(* connected or lost has joined the relay, and a connection it calls       *)
(* failed, which makes the main loop of an agent start over, is closed -   *)
(* silence alone, in a gridlock too, is not taken for a failure            *)
(* (relay_engine.rs:241-253, 336-356; enet-agent/src/main.rs:1098).        *)
(***************************************************************************)
ClaimsHaveReason ==
    \A e \in Ends :
        /\ conn[e] \in {"Connected", "Reconnecting"} => joined[Peer(e)]
        /\ conn[e] = "Failed" \/ ka[e] = "ended" => ~open

(***************************************************************************)
(* Once both ends are gridlocked nothing but the end of the connection     *)
(* helps: no timeout is looked at, since keepalive waits for the lock, too *)
(* (relay_engine.rs:329-337).                                              *)
(***************************************************************************)
GridlockIsFinal == [][Gridlock /\ open' => Gridlock']_engineVars

(***************************************************************************)
(* Every write ends, whichever task it is of and however full the buffers  *)
(* are, when there is a peer to read: the gridlock is the only way in      *)
(* which the tasks of both ends block one another.                         *)
(***************************************************************************)
WritesEndOrGridlock ==
    <>[](\A e \in Ends : joined[e])
        => <>[]Gridlock \/ \A e \in Ends : []<>(writer[e] = "free")

(***************************************************************************)
(* relay_engine.rs:336: "Peer silence -> stop claiming Connected."  An end *)
(* that hears nothing more does not stay Connected.  All that can keep it  *)
(* from that is a gridlock, or a frame that is being handled while         *)
(* keepalive marks the failure (relay_engine.rs:241-253 and 352-356).      *)
(***************************************************************************)
StopsClaimingOrStuck ==
    \A e \in Ends :
        <>[]~fresh[e] => \/ <>[](conn[e] # "Connected")
                         \/ <>[]Overtaken(e)
                         \/ <>[]Gridlock

(***************************************************************************)
(* relay_engine.rs:352: "Keepalive writer failed -> relay TCP is dead."    *)
(* A closed connection is marked Failed in the end, which is what the main *)
(* loop of an agent waits for (enet-agent/src/main.rs:1098), unless a      *)
(* frame that is being handled takes it back.                              *)
(***************************************************************************)
ClosingIsNoticedOrOvertaken ==
    \A e \in Ends :
        <>[](joined[e] /\ ~open) => <>[](conn[e] = "Failed") \/ <>[]Overtaken(e)
=============================================================================
