# A verification project for the ENET remote gateway

The program connects a BMW car that is plugged into a desktop (the *Host*, or
*gateway*) with the diagnostics software on a laptop (the *agent*). It carries
raw Ethernet frames of the ENET cable over UDP on a LAN, or over TCP through a
relay server on the Internet. This directory models the parts of it that decide
whether the tunnel exists, with whom, and what is reported about it; TLC checks
the models on small instances and TLAPS proves the main results for every
value of their constants. `PROJECT.json` lists the runs, the mutants, the
definitions with the source lines they stand for, the hazards, the findings and
the theorems.

Run everything in this directory: `tlc -config X.cfg M` for a run of the table
below, `tlapm M.tla` for a module of proofs.

## 1. Inventory

Paths are below `src/crates/`.

| Component | State it keeps | Operations | What makes it correct |
|---|---|---|---|
| Packet statistics, `enet-core/src/stats.rs` | last sequence number, a window of received and lost frames, counters | `record_rx` with and without number, `reset_rx_sequence`, `snapshot` | loss is charged at most once, and only for numbers that did not come |
| UDP tunnel engine, `enet-tunnel/src/engine.rs` | learned peer, instant of the last datagram, `GatewayState`; three tasks that share them, each behind a lock of its own | receive and dispatch a datagram, forward an Ethernet frame, the keepalive tick with probe, Status and timeout | connection, laptop and vehicle flags agree; a peer is given up only when silent; traffic goes only to the peer |
| LAN tunnel (two engines, processes, network) | both sessions, datagrams under way | crashes, boots, replacement of a failed engine | the two ends find each other again; a dead peer is noticed |
| Relay server, `enet-relay/src/main.rs` | a room per pair code with at most one waiting task per role; one task per connection | join, wait, hand over a stream, pipe, close | both roles never wait in one room; every stream has one owner; lost entries heal |
| Relay client and engine, `enet-tunnel/src/relay_client.rs`, `relay_engine.rs` | a TCP stream, the state of an engine | join handshake; the tasks of an engine over TCP | a lost connection is noticed and dialled again |
| Gateway process, `enet-gateway/src/main.rs` | settings, the handle of the running engine, an unbounded queue of commands | HTTP handlers, the supervisor, the update task, beacon and activity watcher | one tunnel at a time; the request sent last wins; a changed password restarts the tunnel; updates spare sessions |
| Agent process, `enet-agent/src/main.rs` | its copy of the settings, the file, `LiveStatus` with handle, pair code, address and `force_reconnect` | the main loop (read, discover, save, start, watch, back off), handlers of the status page, update task | reconnects are taken up; outdated engines are replaced; the Host is found wherever it moved |
| Flash-safety gate, `enet-core/src/safety.rs`, `state.rs` | none of its own; it judges the statistics window, which each call ends | `evaluate`, called by `api_status` and `api_safety` for every viewer | who is told "safe" has had no more loss than the limit |
| Self-update, `enet-core/src/updater.rs` | the files of the installation folder and their `.old` copies; tasks of both processes | check, download, rename and write each file, restart, clean up `.old` | a crash leaves a program that starts; the newest release is installed in the end |
| LAN discovery, `enet-core/src/lan_discovery.rs`, `resolve_peer` of the agent | the beacon's pairing, the desktops heard in a search, the address dialled | beacon, query, answer, filter by pair code, choice of an address | what is found can be reached, and the laptop ends up at a desktop that runs |
| Installer and setup, `enet-installer`, `enet-setup` | the wizard's page, a worker thread, program files, the scheduled task, the settings file | wizard pages, download, copy, write settings, register, launch | the wizard comes to an end that is true; one Host runs with the pair code shown |
| Configuration, `enet-core/src/config.rs` | a TOML file | load with defaults, save in place | what is saved is what is loaded |
| Wire protocol, `enet-protocol` | none | encode, decode, seal and open | decode inverts encode; wrong keys are refused |
| Peer filter, `enet-tunnel/src/peer.rs` | allowed networks | is an address allowed | CIDR arithmetic |
| Ethernet ports, `ethernet.rs`, `pcap_ethernet.rs`, `discovery.rs`, `npcap.rs` | drivers | capture, inject, enumerate | outside |
| Desktop GUI, `enet-gui` | the last status, form fields, an update in progress | poll the HTTP API, post settings, start the agent | what is shown and posted is what the user entered |
| Simulator, health, logging | none that others depend on | frames for tests, figures, log files | outside |

**How they interact.** The main loop or supervisor of a process starts an
engine, holds a handle to it and stops it. The engine's tasks share the
statistics and the `GatewayState` with the HTTP handlers, which poll both. Both
engines exchange Hello, Probe, Reply, Status and Ethernet frames over UDP. In
relay mode each engine keeps a TCP connection to the relay, which pipes one to
the other. HTTP handlers talk to main loop or supervisor through shared flags
and a settings file (agent) or through a channel (gateway).

**What is hard.** Tasks interleave on a multi-threaded runtime between short
critical sections: a timeout against a late datagram, a handler's save against
the main loop's save, a Stop against a Start, two viewers of one statistics
window, two updates of one folder, two Hosts that create one settings file. The network loses, delays and
reorders; laptops get new ports and desktops new addresses; processes die at any
time and forget everything but a file. Reconnecting involves timeouts on both
sides at once. Time, discovery and start of an engine take seconds, in which
the state read before them changes. The list `hazards` in `PROJECT.json` gives
each at its line, with the properties that are about it.

## 2. Plan

The order is that of importance: first what an endpoint does, then two of them
together, then the processes around them.

| Module | Models | Built on | State |
|---|---|---|---|
| `PacketStats`, `LossTracking` | the loss estimate and one direction of a tunnel that feeds it | | checked, proved |
| `PeerSession` | abstract: what an endpoint does about its peer | | refined by `TunnelEngine` |
| `TunnelEngine` | the UDP engine, critical section by critical section | implements `PeerSession` | checked, proved |
| `Tunnel` | two endpoints, network, crashes | two instances of `PeerSession` | checked, proved |
| `Rendezvous` | abstract: what the relay does for the clients of a pair code | | refined by `Relay` |
| `Relay` | relay server and its clients | implements `Rendezvous` | checked, proved |
| `GatewaySupervisor` | the gateway process | | checked, proved |
| `AgentSupervisor` | the agent process | | checked, proved |
| `RelayEngine` | the tasks of `relay_engine.rs` at both ends of the relay's pipe | | checked, proved |
| `FlashSafety` | the verdict over a window that several viewers end | extends `LossTracking` | checked, proved |
| `SelfUpdate` | updates of a folder: attempts, clean-ups, kills, an open window | | checked, proved |
| `LanDiscovery` | beacons, queries, pair-code filter, choice and use of an address | | checked, proved |
| `Setup` | the wizard, its worker and the Hosts that come up meanwhile | | checked, proved |
| `Gui` | the settings form of `enet-gui` against its poll of the status | | to do |
| pure modules | CIDR arithmetic, frame header, backoff, wrap-around of 32-bit round-trip times (`engine.rs:653`) | | to do |
| `EngineLocks` | the order in which the engine's tasks take nested locks | | to do |

Every safety property that a run checks, invariant, action property or
refinement, is a theorem (section 6). Still worth stating and proving: a switch
with a requested and an actual state that `GatewaySupervisor` implements, and of
the liveness properties the facts they rest on, each a step property of its own.

## 3. The modules

**PacketStats, LossTracking.** `PacketStats` has one action for each critical
section of the `inner` mutex; `RecordRxSeq` is the loss estimate with its limit
on plausible gaps. `LossTracking` feeds it with one sender: its tasks take
numbers from one counter for all frames, but only Ethernet frames are counted
(`engine.rs:297-305`). `wire` is the network for Ethernet frames; control
frames reach the statistics without a number, so that only how many are under
way matters. Frames may be lost or repeated, the sender may restart its
numbering, the receiver may forget its sequence (change of peer), anyone may
take a snapshot. Ethernet frames do not overtake each other: the code counts an
overtaken frame as lost and there is no sound bound to state for that network.

**FlashSafety** extends `LossTracking` by `api_status`, which takes a snapshot
for each viewer and hands it to `evaluate` (`safety.rs:80-128`). `Judge` is that
call; `rxPackets` is the lifetime count that `evaluate` compares with its 20
samples, `ready` stands for peer and vehicle, `idle` for a window so long that
its packet rate is below 0.5 per second, for which losses do not count. Whether
latencies or CPU load exceed their limits is left open. `lost`, `got` and
`alone` are history: what each viewer's window would be if it were its own.

**TunnelEngine.** The variables are the shared fields (`slot` is `peer_slot`,
`fresh` says whether `last_peer_rx` is younger than the timeout, `conn`,
`laptop`, `link` and `awake` are fields of `GatewayState`) and a program counter
for each of the tasks `udp_to_eth`, `keepalive` and `eth_to_udp`. An action is
one critical section, with the sends that follow it: a datagram goes to the peer
that is looked up for it, and is seen as sent at that instant. Datagrams of any
kind arrive from any address at any time, also unreadable ones. Left out:
display text, counters, the CIDR filter, and the handlers of Goodbye,
SafetyProbe and Ack, which nothing in the repository sends. Given away to the
environment is one thing: arriving Status frames are never awake without a
link, which `StatusHonest` shows of the frames that agents send.

**PeerSession** is what remains if one only asks whom the endpoint sends to and
whether it counts as connected. `TunnelEngine` implements it under a mapping
that reads the tasks' progress off their program counters, and every datagram
the engine sends maps to one sent to the abstract peer.

**Tunnel** joins two instances of `PeerSession` by a network, and adds processes
that die and boot and the agent's main loop as far as it replaces an engine that
is Failed (`enet-agent/src/main.rs:1072-1115`, `1396-1460`). The agent's socket has a new
port each time. `stable` becomes true at some time, or never; from then on
nothing is lost and nobody crashes. Since the module composes the abstract
specification, its results hold for the engine through the refinement.

**Relay** has one action for each critical section or write of `handle_client`
and the events of a connection. `room` is the room of one pair code, `srv` the
progress of each connection's task, `got` the stream handed over by the
`notify` channel, `cli` what the client's end does. A task that waits does not
read from its client (`main.rs:162`): it does not notice that it is gone.
Malformed hellos are left out, and what the pipe carries is not seen.

**Rendezvous** is the relay without room, tasks and hand-offs: clients are
`present`, get a `mate` of the other role while both are alone, have bytes
`flowing` between them, and leave alone or together with their mate. `Relay`
implements it under a mapping that reads the pairs from the streams sent to
tasks (`MatesIn(got)`, a client's mate being the stream its task was sent or the
task that was sent its own) and the flow from the tasks that pipe (`Piped`).

**RelayEngine** joins the engines of both ends by a pipe whose two directions
hold `Capacity` frames each. What matters here are not critical sections but
writes that wait: each of `eth_to_relay`, `relay_to_eth` and `keepalive` locks
the one writer and keeps it until the stream has taken the frame, so that an
action takes the lock and another writes. `rx` and `ka` say where the two loops
are; `fresh` is as in `TunnelEngine`. An end may join late, and write all the
while (the relay holds what its buffers hold); the pipe may close at any time,
which loses what is under way. Left out: vehicle flags, as no frame that is sent
over a relay carries them (`eth_to_relay` and `keepalive` send Ethernet frames and
probes only, so that a gateway is never told of a link), and the handlers of
frames that nobody sends.

**GatewaySupervisor** models the handlers that start, stop, restart and
configure the tunnel as two steps, what they decide from the state they see and,
later, the command they send; the supervisor (`main.rs:550-587`) step by step,
since it sleeps and starts engines in between; the update task with its check,
download and restart; and the process with its settings file. The pair code and
password are one value, `pairing`.

**AgentSupervisor** models the main loop in LAN mode step by step and each
handler of the status page as: load the file, save it, take and stop the engine,
ask for a reconnect. `cfg` is the main loop's copy, `disk` the file, `live...`
and `reconnect` are fields of `LiveStatus`. The Host has a pair code and a
password, and an address that changes. Abstracted: `force_discover`, since in
LAN mode discovery is tried always; the `--peer` argument is one of the initial
addresses. An engine with a wrong password does not time out by itself:
datagrams it cannot read refresh its timeout (`engine.rs:282`).

**SelfUpdate.** `disk` and `old` say of each file of the package what its name
and its `.old` hold: a release, nothing, or a file that was not written to its
end. Each attempt (the one of `main` and its periodic task, and those of users)
walks through the package: remove the `.old`, rename, create, write. Nothing
keeps attempts apart, so their handles (`at`) may meet on one file. `image` says
from which of the two names a process or the window of the GUI runs, as Windows
lets such a file be renamed only. `sweep` and `late` are the two passes of
`cleanup_stale`. Kills may come between any two steps; a failure of the disk or
of the download ends an attempt. Releases are numbers; archives, checksums and
the HTTP of the GitHub API either succeed or fail. The module holds for both
roles: `IsClient` only decides whether the API serves before the first check.

**Setup** models the role Host: the wizard's pages (`step`), the worker thread
step by step with what it may fail at, `enet-setup` as the worker runs it, and
two Hosts, one that the scheduled task starts and one that Setup starts. Of
`gateway.toml` only the pair code is kept; every writer truncates, then writes
(`config.rs:251`). Hosts load, make up a code if there is none, save, and bind
the port; the second gives up after five attempts. A reboot may come at any
time. What the PowerShell scripts do is abstracted to success or failure.

**LanDiscovery.** Addresses are a network and a host number, and every machine
may have networks of its own beside the LAN. A desktop announces what
`list_lan_ipv4s` returns at that time; an announcement under way (`air`) may be
heard after its sender has moved, changed its code or stopped. `Hear` filters
and chooses an address as `pick_reachable_host_ip` does, `EndRound` is the use
`resolve_peer` makes of the result. A desktop may also come up `deaf`, that is
without its beacon, whose task ends for good when its port is taken
(`enet-gateway/src/main.rs:457`). The queries sent from a socket for each
interface are left out: the sockets are dropped before an answer can arrive.

## 4. The runs

| Run | Instance | States | Shows |
|---|---|---|---|
| `loss_accounting` | plausible gap 2, 4 frames sent, 2 in flight, 1 restart, 2 viewers, limit 1/3 | 1,394,328 | `LossIsAccounted`: no more loss is charged than numbers that were not delivered; `SafeMeansFewLosses` |
| `engine` | 2 hosts with 2 ports, agent, gateway, gateway with a given peer | 95,593 | `ConnectionCoherent`, `StatusHonest`, and `ImplementsSession` |
| `tunnel` | 2 ports of the agent | 172,128 | `GatewayMarksPeerLostOrStranded`, `ReconnectsOrStranded` |
| `relay` | 2 connections for each role | 28,177 | `NeverBothWait`, `StreamsHaveOneOwner`, `WaitersCanBeFound`, `PairsUpIfBothRedial`, and `ImplementsRendezvous` |
| `relay_engine` | buffers that hold 1 frame | 196,960 | `WritesEndOrGridlock`, `StopsClaimingOrStuck`, `ClosingIsNoticedOrOvertaken` |
| `gateway` | 2 passwords, 2 handlers, a queue of 2 | 149,084 | `StaleTunnelIsRestarted`, `StopIsFinal`, `RequestsTakeEffect` |
| `gateway_update` (violation) | 2 passwords, 1 handler, a queue of 1 | | `UpdateSparesSession` fails: the session is checked before the download |
| `agent` | 2 addresses, old and new code and password, 1 handler, 2 requests | 347,256 | `StaleEngineIsReplaced`, `ReconnectIsServed`, `FindsHostOrStranded` |
| `agent_password` (violation) | 2 addresses, 2 passwords, 1 request | | `PasswordSticks` fails: the main loop saves an older copy over it |
| `self_update` | the client's package of 2 files, `main` and 1 user, 2 releases, 1 fault | 504,086 | `ExeRecoverable`, `CopyKept`, `RestartsWhole`, `UpdatesOrStranded` |
| `setup` | 5 pair codes, 2 faults | 178,549 | `PairCodesAgree`, `SetupEnds`, `HostComesUp` |
| `discovery` | 2 desktops, 3 addresses on the LAN, 2 layouts of other networks, 2 changes | 62,941 | `FoundReachable`, `HostIsDialled` |

Each property of a passing run has a mutant in `PROJECT.json`: a change of one
definition, like a plausible bug of the code, under which the property fails.
A few properties are stated in the models and proved, and no run repeats them:
`OneTunnel` (`GatewaySupervisor`), `GridlockIsFinal` and `ClaimsHaveReason`
(`RelayEngine`), `StrandedIsFinal` (`Tunnel`) and `OneInstallation` (`Setup`).

**Why these bounds are enough.** Loss: with a gap of 2 there are gaps that are
charged and gaps that are implausible, and a number of the sender may be below,
equal to and above the last one received; a second restart adds no new case.
One loss in three packets is at the limit and two are above it; a third viewer
would be to the first what the second is.
Engine: the code compares whole addresses in one place and host parts in
another, so that two hosts with two ports give every outcome of both
comparisons; the engine has no counters, and the state space is complete.
Tunnel: two ports are a new one and one that is known to the other side;
copies of a datagram under way are not counted, as a second one finds a
receiver in no other situation than a first that is late. Relay engine: a task
only sees whether there is room and whether there is a frame, and with room for
one both change with every write; only the proofs speak of other capacities.
Relay: one connection of the client of each role, and one that the server still holds for a client long
gone; a third would be like the second. Gateway: two handlers and two queued
commands give every order of two requests while the supervisor works on a
third; the queue in the code has no bound, so a handler that waits for room
here is one that has not sent yet. Agent: two requests, one after the other, meet the main loop at every pair
of places; two addresses are the Host's and another. Self-update: the executable
comes first in the package, as the release workflow packs it, so that one more
file is one that can be left behind; two attempts can meet at every pair of
steps; one fault suffices for each way to strand, and with two releases an
attempt can be for another than the newest. Setup: at most five codes are in use
at once (file, summary, three writers hold at most four others), so a fresh one
always exists; two faults are one that breaks something and one while it is
repaired. Discovery: each layout has a private network before and one after the
LAN in the order of addresses, shared with the laptop or not; two changes are a
desktop that goes away and one that takes its place (three were checked once,
393,384 states).

Deadlock is checked in `engine`, `gateway`, `agent`, `discovery` and the violation
runs of `gateway` and `agent`. The other
instances really stop: at a bound on frames sent (loss), or when all is
quiet with clients and processes gone for good (tunnel, relay), in a gridlock or after
the end of the connection (relay engine), with the last release installed or a
folder that cannot be started (self-update), and after a reboot with nothing to
start a Host (setup).

**Fairness.** Weak fairness stands for a runtime that runs every task that can
run, and, on `Elapse`, for time that passes. The instances of strong fairness
are these. `Connect` of both endpoints in `Tunnel`: readable frames with
which an endpoint may connect arrive again and again, as probes recur twice a second and are
answered. `RestartFailedAgent`: the main loop looks at its engine every
second, and an engine that comes back from Failed fails again 20 seconds later
at the earliest, so that it is not missed every time. `Discovered` in
`AgentSupervisor`: each attempt listens for five seconds to beacons sent every
two. `RxTake` and `KaTake` in `RelayEngine`: the lock of tokio's `Mutex` is
given to tasks in the order in which they ask. `PeriodicInstall` in `SelfUpdate`: the check recurs every few hours and is
taken to find, now and then, that nobody is connected. `Answer` and `Hear` in
`LanDiscovery`: of the queries and answers that are sent again and again, not
all are lost; beacons are not relied on, and searching is fair only while no
desktop runs under the address dialled. In `Tunnel`, once `stable`, a timeout passes only on an endpoint that
nobody speaks to (`Talking`, `SilentAt`): with probes every half second and a
timeout of many, a peer that is sent to is heard in time. Nothing makes a
process boot, a user act, the network become stable or a car send. In `Relay`
the agent dials again by its main loop and the gateway does not, so
`PairsUpIfBothRedial` names that fairness as its premise. Its other premise is
that from some time on every step is `Regular`: an act of the server's tasks, a
dial, a join or a connection that fails. Only hang-ups and restarts of the relay
come to an end by it; refusals and lost connections may recur for ever as far as
the premise goes, and that they do not is what the property shows. `Settled` in
`AgentSupervisor` is stated in the same way, by the steps that remain (`Laptop`):
searches that find nothing and engines that run into their timeout are among them.

## 5. Where code, comments and documents disagree

Two runs find a violation of what the repository says.

1. `gateway_update`: the comment at `enet-gateway/src/main.rs:509` promises that an update
   can never interrupt a session; the check precedes download and installation.
2. `agent_password`: the main loop saves its older copy of the settings over a
   password that the status page has set.

More disagreements are named in properties that pass, with the exception
as a disjunct; that they pass shows that the exception is all that is in the way,
and whoever repairs it can drop the disjunct and run the stronger property.

* `GatewayMarksPeerLostOrStranded` and `ReconnectsOrStranded`: the keepalive
  task decides on a timeout, then clears the peer in a later critical section
  (`engine.rs:530-549`). A last datagram in between sets the connection to
  Connected before the peer is cleared; without a peer the check never fires again.
  That such an end stays so once nobody can reach it, until it, or for a gateway
  an agent, is started again, is proved (`StrandedForGood`).
* `StopsClaimingOrStuck` and `ClosingIsNoticedOrOvertaken`: when the connection
  to the relay dies, `keepalive` marks Failed and ends (`relay_engine.rs:352-356`),
  but `relay_to_eth` may have a frame in hand and mark Connected after that.
* `StopsClaimingOrStuck` and `WritesEndOrGridlock`: two ends that both have filled
  the pipe and both want to answer a probe wait for each other
  (`relay_engine.rs:241`), and neither looks at its timeout. That a gridlock
  never ends is proved (`GridlockStays`).
* `SafeMeansFewLosses` (`alone`, `idle`): the window belongs to all viewers.
  Each poll by the GUI takes the losses away from a browser that shows the same
  Host, and the browser is told "safe" over a window in which nothing was
  counted; so does a change of peer, and a silence that brings the rate below
  0.5 packets per second. An empty window has a loss of zero. The "minimum
  samples before trusting metrics" (`safety.rs`) are compared with packets
  of all kinds since the engine started, not with samples of the window.
* `CopyKept` (`forgone`): the pass of `cleanup_stale` half a minute after a start
  (`enet-gateway/src/main.rs:385`, `enet-agent/src/main.rs:1211`), which is
  meant for startup (`updater.rs:288`), and the removal before a rename
  (`updater.rs:267`) take away the `.old` of an update that was interrupted,
  which is then the last whole copy of a file; the executable's is the exception
  (`AlwaysRecoverable`).
* `UpdatesOrStranded` (`Stranded`): the release workflow packs the executable
  first (`.github/workflows/windows-installer.yml:69-70`). If the process dies after it, the new
  version starts, finds no newer release, and the other files stay old or cut.
  A process that has swapped its own executable and then failed runs from the
  `.old`, which it can neither remove nor replace: every retry fails at the
  first file, although `main` prints "Update failed — continuing". A window that
  is open from a `.old` makes an update fail after the executable was swapped.
* `PairCodesAgree` (`mixed`): Setup starts two Hosts after each installation
  (`install.rs:561-602`), which race for the file and the port. Nothing keeps
  the scheduled task from starting a Host while Setup rewrites the file: the
  summary then tells the user a code that the Host does not have. `write_config`
  does not keep the settings of an earlier installation.
* `FoundReachable` (`Misleading`): `pick_reachable_host_ip` compares the first 24
  bits. When both PCs have a private network of the same number, as two
  installations of the same virtual machine do, and it comes before the LAN, the
  laptop dials an address that is its own network's.

Some were met while modelling and are not stated as properties of a run.

* Control frames use sequence numbers of Ethernet frames (`tx_seq`), and the next
  Ethernet frame is charged with the gap, though the comments at
  `engine.rs:297-298` and `relay_engine.rs:198-199` say that they do not count
  as loss. `LossIsAccounted` has to count them among the numbers not delivered.
* In relay mode a laptop that hangs up makes the relay close the gateway's
  connection, whose engine fails; nothing in the gateway dials again.
  `PairsUpIfBothRedial` says so in its premise.
* With `--pair-code` given, the agent looks for that code even after the status
  page has changed it (`enet-agent/src/main.rs:515`), so a Host that moves is
  not found again, contrary to `docs/HOW_TO_USE.md:46`.
* The notes of a release are cut at 400 bytes (`updater.rs:135`), which panics
  when that is inside a character.
* A beacon whose port was taken at the start, or of a Host that was started
  in another network mode, is never started again (`enet-gateway/src/main.rs:451-471`).
* On a LAN the tunnel does not ask for the pair code: a laptop whose search goes
  unanswered dials the address it knows, and is served by whichever Host has it
  now if passwords agree. `HostIsDialled` therefore ends at a Host that runs.
* Discovery sends queries from a socket for each interface, "so Wi‑Fi↔wired
  replies use the right path" (`lan_discovery.rs:276`), and drops each before an
  answer can come.

## 6. The proofs

All proofs are for arbitrary constants that satisfy the named assumptions of
the modules (that "none" values are no addresses, that bounds are natural
numbers, that the agent was given a peer). None uses the values of the bounds.

* **FlashSafetyProofs**, of `LossTracking`: `TypeCorrect`, `LossAccounted`. The bound on the
  charged loss is not inductive: it depends on what is still under way. Each
  frame is marked with how many numbers had been skipped when it was sent.
  `LossInv` says that the frames from the last one received, over the wire, to the
  one to be sent next form a chain in which numbers advance by no more than the
  marks do, unless they go back (a restart), and that the loss charged is at
  most the mark of the last one received. `ChargedLossBounds` is the fact about
  `record_rx`, `UpcomingStep`, `SendStep` and `ReceiveStep` keep the chain.
* **TunnelProofs**, of `TunnelEngine`: `TypeCorrect`, `Coherence`,
  `HonestStatus`, `Refinement`. `EngineInv` joins the invariants and what the
  tasks rely on (`PcCoherent`): a Status being processed is honest, and steps of
  an agent's loop are taken by agents only. `StepRefines` maps each action to
  the action of `PeerSession` it stands for, or to a stutter.
* **TunnelProofs**, of `Tunnel`: `TunnelTypeCorrect`, `StrandedForGood`, for any
  number of ports. `StrandedIsFinal` would be wrong of an end in the midst of a
  timeout, which is about to clear its peer or to mark the connection. `TunnelInv`
  says that an end is in the midst of one only while it has a peer, and that one
  which has not been started has nothing in hand (`AgentSide`, `GatewaySide`); and
  that every datagram runs between an address of the laptop and the desktop's
  (`Between`).
* **GatewayProofs**: `TypeCorrect`, `SingleTunnel`, `StaleRestarted`,
  `FinalStop`. `IInv` adds what each step of the supervisor has settled: the old
  engine is gone from taking a command to publishing, an engine not published
  exists only then, settings that changed after they were read have a restart
  coming, and the command sent last is the last of the queue or, when the queue is
  empty, the one worked on.
* **AgentProofs**: `TypeCorrect`, `StaleReplaced`. The password of an engine is
  settled when the main loop reads the file, long before the engine exists;
  `IInv` says of the main loop's copy what the property says of the engine.

* **FlashSafetyProofs**, of `FlashSafety`: `ImplementsLossTracking`, `SafeVerdicts`, for any number
  of viewers and every limit. Every step of `FlashSafety` is one of
  `LossTracking` or leaves it alone, so that `TypeCorrect` and `LossAccounted`
  carry over. `WindowIsOwn` says that a viewer's own count is the statistics'
  window as long as nobody else has ended it.
* **SelfUpdateProofs**: `TypeCorrect`, `AlwaysRecoverable`, `CopiesKept`,
  `WholeRestart`, for every package, order of its files and number of users.
  `IInv` says that images are whole and not written to (`ImagesWhole`,
  `ImagesUnwritten`) and nothing runs while the process is down; and of an attempt
  that has the files for itself, that its current file is as its last step has left
  it (`FileAsLeft`) and those before it in the package are of its release (`FilesDone`).
* **RelayProofs**, of `Relay`: `TypeCorrect`, `NoPairWaits`, `OneOwner`,
  `NobodyLost`, `KeepsPairsTogether`, for any number of connections. The two ways
  in which a task can be found exclude each other (`RoomInv`): an entry of the room
  has not been sent a stream, and it may outlive its task, which then has ended.
  `GotInv` and `GivenInv` say that streams given away and streams sent to tasks are
  the same, one to one. That makes the mates of the refinement mapping a symmetric
  relation (`MatesFacts`), of which handing over a stream adds one pair and the end
  of a pipe removes one; `MeetingSteps` maps each action to the action of
  `Rendezvous` it stands for, or to a stutter.
* **RelayProofs**, of `RelayEngine`: `EngineTypeCorrect`, `ClaimsAreTrue`,
  `GridlockStays`, for every capacity. The types say that no more is under way
  than the buffers hold, which the lemmas `PutType` and `ReadType` show of writing
  and reading. A claim comes from a frame that is handled while its sender may be
  anywhere; `FrameInv` follows the frame from the sender, who has joined, over the
  wire to `relay_to_eth`. A gridlock needs no invariant beside the types, as every
  task of a gridlocked end waits.
* **SetupProofs**: `TypeCorrect`, `CodesAgree`, `InstallsOnce`, for any number of
  failures and all sets of five codes or more (`FreshType`: a fresh one is always
  there to be made up). `PairCodesAgree` is not inductive: it speaks of the Host
  that has won the port, while the race is decided when Hosts read the file.
  `IInv` says of everybody who has chosen a code and not ended that all have the
  same (`OneCode`) and that the file has it, or none while it is written
  (`FileOfActive`); that nobody has chosen while Setup is about to write a file
  (`Undisturbed`); and that the code of the summary remains that of file and Hosts
  (`ShownInv`) - all of it unless somebody has met a file that was rewritten.
* **LanDiscoveryProofs**: `TypeCorrect`, `FindsReachable`, for any number of
  desktops and every layout of networks. That a least address exists rests on
  the well-foundedness of the natural numbers (`LeastNat`, `LeastIsLeast`);
  `PickReachable` is the fact about `pick_reachable_host_ip`. The invariant says
  that every announcement under way lists an address on the LAN, although its
  sender may have moved, and that what was found is what `Pick` returns.

Only model-checked: every liveness property, as fairness and ENABLED are beyond
the prover. The two runs that find a violation have nothing to prove.

## 7. What is not modelled

* The GUI. It polls the HTTP API and draws, but three hazards of it deserve a
  model: the poll twice a second overwrites a check box that the user has
  changed and not yet posted, and an adapter set back to "automatic"; the
  password field is cleared even if posting it has failed; and the button that
  starts the agent stays disabled if the agent dies before its first status
  (`enet-gui/src/client.rs`).
* The check for an update that a Host makes between saving its pair code and
  binding the port (`enet-gateway/src/main.rs:391-420`) is missing in `Setup`,
  where time may pass at that place anyway. An update that is installed there
  ends the process and starts it again two seconds later; `Setup` has that end as
  `HostDies` and the new start, for the Host of the task, as `TaskStarts`, but not
  the new start of the Host that Setup has started, and not that the update
  rewrites programs while Setup may. `SelfUpdate` models the update itself.
* Of Setup, the role Client, the commands of `enet-setup` that the worker does
  not use, and what scripts, registry and firewall do.
* Simulator, health figures, logs, launchers and packet drivers: input and output.
* The cipher is a library: models only tell frames that can be read from those
  that cannot. The CIDR filter and the codecs are planned (section 2).
* Round-trip times and percentiles: the verdict's use of them is a free choice
  in `FlashSafety`. Byte counters and rates are for display.
* Reordered Ethernet frames: an overtaken frame is charged as a loss
  (`stats.rs:125`), and there is no sound bound to state for such a network.
* Whose vehicle flags a gateway shows after it has switched to another laptop
  (`engine.rs:262`): the models do not tag them by laptop.
* Durations are abstracted to whether a timeout has passed, so that settings with
  a keepalive interval longer than the peer's timeout are not seen.
