-------------------------- MODULE AgentSupervisor --------------------------
(***************************************************************************)
(* The agent process on the laptop, enet-agent/src/main.rs, in LAN mode:   *)
(* its main loop, which reads the settings, finds the Host, starts a       *)
(* tunnel engine and watches it, against the handlers of the status page,  *)
(* which write the settings to the same file and ask for a reconnect.      *)
(* Main loop and handlers share the LiveStatus and the file, and have no   *)
(* lock over more than one access.                                         *)
(*                                                                         *)
(* Around it: the Host, which has a pair code and a password, and changes  *)
(* its address at times.  An engine is seen as the address and the         *)
(* password it was started with.  force_discover is left out: in LAN mode  *)
(* discovery is always tried, and it only decides which of several Hosts   *)
(* of one pair code is taken.                                              *)
(***************************************************************************)
EXTENDS Naturals

CONSTANTS
    Addrs,          \* addresses on the LAN
    Codes,          \* pair codes
    Passwords,
    HostCode,       \* the Host's pair code
    HostPassword,   \* and its password
    ArgCode,        \* the pair code of the command line, or None
    None,
    Handlers,       \* bound: handlers of the status page that run at a time
    MaxRequests     \* bound: requests of the user since the process started

ASSUME HostAssumption == HostCode \in Codes /\ HostPassword \in Passwords
ASSUME ArgAssumption == ArgCode \in Codes \cup {None}
ASSUME NoneAssumption == None \notin Addrs \cup Codes
ASSUME BoundAssumption == MaxRequests \in Nat

Settings == [peer : Addrs \cup {None}, code : Codes, pw : Passwords]

\* How far a handler is, and the file it is about to write.
Requests == [kind : {"settings", "connect", "discover"},
             step : {"save", "stop", "reconnect"},
             file : Settings]
Idle == [kind |-> "none"]

Engines == [peer : Addrs, pw : Passwords, state : {"runs", "stopped", "failed"}]
NoEngine == [state |-> "none"]

VARIABLES
    pc,             \* what the main loop does next
    cfg,            \* its copy of the settings
    addr,           \* the address it dials
    engine,         \* the engine it has started
    published,      \* whether LiveStatus.handle holds that engine
    disk,           \* the configuration file
    livePeer,       \* LiveStatus.configured_peer
    liveCode,       \* LiveStatus.pair_code
    reconnect,      \* LiveStatus.force_reconnect
    requests,       \* the handlers
    asked,          \* how many requests the user has made
    hostAddr,       \* the Host's address
    missed          \* history: whether main has cleared a request unseen

mainVars == <<pc, cfg, addr, engine>>
liveVars == <<livePeer, liveCode, reconnect>>
vars == <<mainVars, published, disk, liveVars, requests, asked, hostAddr, missed>>

TypeOK ==
    /\ pc \in {"begin", "load", "clear", "resolve", "save", "start", "publish", "run",
               "ended", "sleep"}
    /\ cfg \in Settings
    /\ addr \in Addrs \cup {None}
    /\ engine \in Engines \cup {NoEngine}
    /\ published \in BOOLEAN
    /\ disk \in Settings
    /\ livePeer \in Addrs \cup {None}
    /\ liveCode \in Codes
    /\ reconnect \in BOOLEAN
    /\ requests \in [Handlers -> Requests \cup {Idle}]
    /\ asked \in 0..MaxRequests
    /\ hostAddr \in Addrs
    /\ missed \in BOOLEAN

\* The pair code of the command line replaces that of the file.
WithArgs(s) == IF ArgCode = None THEN s ELSE [s EXCEPT !.code = ArgCode]

Init ==
    /\ disk \in {WithArgs(s) : s \in Settings}
    /\ pc = "begin" /\ cfg = disk /\ addr = None
    /\ engine = NoEngine /\ published = FALSE
    /\ livePeer = cfg.peer /\ liveCode = cfg.code /\ reconnect = FALSE
    /\ requests = [h \in Handlers |-> Idle]
    /\ asked = 0
    /\ hostAddr \in Addrs
    /\ missed = FALSE
-----------------------------------------------------------------------------
(***************************************************************************)
(* The main loop.                                                          *)
(***************************************************************************)
ReadLive ==
    /\ pc = "begin"
    /\ cfg' = [cfg EXCEPT !.peer = IF livePeer = None THEN @ ELSE livePeer,
                          !.code = liveCode]
    /\ pc' = "load"
    /\ UNCHANGED <<addr, engine, published, disk, liveVars, requests, asked, hostAddr, missed>>

LoadDisk ==
    /\ pc = "load"
    /\ cfg' = [cfg EXCEPT !.pw = disk.pw]
    /\ pc' = "clear"
    /\ UNCHANGED <<addr, engine, published, disk, liveVars, requests, asked, hostAddr, missed>>

\* A request that comes between the two is lost: its reconnect is cleared and
\* the pair code it has set is overwritten.
ClearReconnect ==
    /\ pc = "clear"
    /\ reconnect' = FALSE
    /\ liveCode' = cfg.code
    /\ missed' = (missed \/ (reconnect /\ disk.pw # cfg.pw))
    /\ pc' = "resolve"
    /\ UNCHANGED <<cfg, addr, engine, published, disk, livePeer, requests, asked, hostAddr>>

\* The Ethernet port cannot be opened.
NoPort ==
    /\ pc = "resolve"
    /\ pc' = "sleep"
    /\ UNCHANGED <<cfg, addr, engine, published, disk, liveVars, requests, asked, hostAddr, missed>>

Dial(a) ==
    /\ addr' = a
    /\ livePeer' = a
    /\ pc' = IF cfg.peer = a THEN "start" ELSE "save"
    /\ UNCHANGED <<cfg, engine, published, disk, liveCode, reconnect, requests, asked, hostAddr, missed>>

CodeToFind == IF ArgCode = None THEN cfg.code ELSE ArgCode

\* Mutant of Discovered: an address that is known is not looked for again.
DiscoveredOnce ==
    /\ pc = "resolve"
    /\ CodeToFind = HostCode
    /\ cfg.peer = None
    /\ Dial(hostAddr)

\* The Host's beacon is heard, if it has the pair code that is looked for.
Discovered ==
    /\ pc = "resolve"
    /\ CodeToFind = HostCode
    /\ Dial(hostAddr)

\* Mutant of FallBack: that there is an address is taken for granted.
FallBackUnchecked ==
    /\ pc = "resolve"
    /\ Dial(cfg.peer)

\* It is not, or it has another; the address known last is tried, if there is one.
FallBack ==
    /\ pc = "resolve"
    /\ cfg.peer # None
    /\ Dial(cfg.peer)

NoHost ==
    /\ pc = "resolve"
    /\ cfg.peer = None
    /\ pc' = "sleep"
    /\ UNCHANGED <<cfg, addr, engine, published, disk, liveVars, requests, asked, hostAddr, missed>>

\* All settings are written to keep the new address; that may fail.
SaveCfg ==
    /\ pc = "save"
    /\ cfg' = [cfg EXCEPT !.peer = addr]
    /\ disk' \in {disk, cfg'}
    /\ pc' = "start"
    /\ UNCHANGED <<addr, engine, published, liveVars, requests, asked, hostAddr, missed>>

StartEngine ==
    /\ pc = "start"
    /\ engine' = [peer |-> addr, pw |-> cfg.pw, state |-> "runs"]
    /\ pc' = "publish"
    /\ UNCHANGED <<cfg, addr, published, disk, liveVars, requests, asked, hostAddr, missed>>

StartFails ==
    /\ pc = "start"
    /\ pc' = "sleep"
    /\ UNCHANGED <<cfg, addr, engine, published, disk, liveVars, requests, asked, hostAddr, missed>>

Publish ==
    /\ pc = "publish"
    /\ published' = TRUE
    /\ pc' = "run"
    /\ UNCHANGED <<cfg, addr, engine, disk, liveVars, requests, asked, hostAddr, missed>>

\* Mutant of RunEnds: only the end of the engine is waited for.
RunEndsWithEngine ==
    /\ pc = "run"
    /\ engine.state # "runs"
    /\ engine' = NoEngine
    /\ published' = FALSE
    /\ pc' = "ended"
    /\ UNCHANGED <<cfg, addr, disk, liveVars, requests, asked, hostAddr, missed>>

RunEnds ==
    /\ pc = "run"
    /\ engine.state # "runs" \/ reconnect
    /\ engine' = NoEngine
    /\ published' = FALSE
    /\ pc' = "ended"
    /\ UNCHANGED <<cfg, addr, disk, liveVars, requests, asked, hostAddr, missed>>

\* A reconnect begins at once; otherwise there is a delay.
Ended ==
    /\ pc = "ended"
    /\ pc' = IF reconnect THEN "begin" ELSE "sleep"
    /\ UNCHANGED <<cfg, addr, engine, published, disk, liveVars, requests, asked, hostAddr, missed>>

WakeUp ==
    /\ pc = "sleep"
    /\ pc' = "begin"
    /\ UNCHANGED <<cfg, addr, engine, published, disk, liveVars, requests, asked, hostAddr, missed>>

Main ==
    \/ ReadLive \/ LoadDisk \/ ClearReconnect
    \/ Discovered \/ FallBack \/ NoHost \/ SaveCfg
    \/ StartEngine \/ Publish \/ RunEnds \/ Ended \/ WakeUp
-----------------------------------------------------------------------------
(***************************************************************************)
(* The handlers.  One loads the file, and works on with its own copy.      *)
(***************************************************************************)
Request(h, kind, file) ==
    /\ requests[h] = Idle
    /\ asked < MaxRequests
    /\ asked' = asked + 1
    /\ requests' = [requests EXCEPT ![h] = [kind |-> kind, step |-> "save", file |-> file]]
    /\ UNCHANGED <<mainVars, published, disk, reconnect, hostAddr, missed>>

SetPassword(h, pw) ==
    /\ Request(h, "settings", [disk EXCEPT !.pw = pw])
    /\ UNCHANGED <<livePeer, liveCode>>

SetCode(h, code) ==
    /\ code # disk.code
    /\ Request(h, "settings", [disk EXCEPT !.code = code])
    /\ liveCode' = code
    /\ UNCHANGED livePeer

\* With the address, a pair code may be sent.
Connect(h, peer, code) ==
    /\ Request(h, "connect", [disk EXCEPT !.peer = peer, !.code = IF code = None THEN @ ELSE code])
    /\ liveCode' = IF code = None THEN liveCode ELSE code
    /\ UNCHANGED livePeer

Discover(h) ==
    /\ Request(h, "discover", [disk EXCEPT !.peer = None])
    /\ livePeer' = None
    /\ UNCHANGED liveCode

Step(h, step) == requests' = [requests EXCEPT ![h].step = step]
Done(h) == requests' = [requests EXCEPT ![h] = Idle]

Save(h) ==
    /\ requests[h] # Idle /\ requests[h].step = "save"
    /\ disk' = requests[h].file
    /\ Step(h, "stop")
    /\ UNCHANGED <<mainVars, published, liveVars, asked, hostAddr, missed>>

\* The user is told so, except by Auto-find, which goes on.
SaveFails(h) ==
    /\ requests[h] # Idle /\ requests[h].step = "save"
    /\ IF requests[h].kind = "discover" THEN Step(h, "stop") ELSE Done(h)
    /\ UNCHANGED <<mainVars, published, disk, liveVars, asked, hostAddr, missed>>

\* Takes the engine out of the LiveStatus and stops it.
TakeAndStop ==
    /\ published' = FALSE
    /\ engine' = IF published THEN [engine EXCEPT !.state = "stopped"] ELSE engine

Stop(h) ==
    /\ requests[h] # Idle /\ requests[h].step = "stop"
    /\ TakeAndStop
    /\ livePeer' = IF requests[h].kind = "connect" THEN requests[h].file.peer ELSE livePeer
    /\ Step(h, "reconnect")
    /\ UNCHANGED <<pc, cfg, addr, disk, liveCode, reconnect, asked, hostAddr, missed>>

\* Mutant of Reconnect: to have stopped the engine is taken to be enough.
ReconnectByStop(h) ==
    /\ requests[h] # Idle /\ requests[h].step = "reconnect"
    /\ Done(h)
    /\ UNCHANGED <<mainVars, published, disk, liveVars, asked, hostAddr, missed>>

Reconnect(h) ==
    /\ requests[h] # Idle /\ requests[h].step = "reconnect"
    /\ reconnect' = TRUE
    /\ Done(h)
    /\ UNCHANGED <<mainVars, published, disk, livePeer, liveCode, asked, hostAddr, missed>>

Handle(h) == Save(h) \/ SaveFails(h) \/ Stop(h) \/ Reconnect(h)
-----------------------------------------------------------------------------
(***************************************************************************)
(* The engine and the world.  An engine that dials an address where the    *)
(* Host is not runs into its timeout.  One with the wrong password need    *)
(* not: what it cannot read refreshes its timeout too (engine.rs:282).     *)
(***************************************************************************)
Connected == /\ engine.state = "runs"
             /\ engine.peer = hostAddr /\ engine.pw = HostPassword

EngineFails ==
    /\ engine.state = "runs"
    /\ engine.peer # hostAddr
    /\ engine' = [engine EXCEPT !.state = "failed"]
    /\ UNCHANGED <<pc, cfg, addr, published, disk, liveVars, requests, asked, hostAddr, missed>>

\* The Host is switched off for a while, or Ctrl-C, which ends the engine
\* but not the loop.
EngineDrops ==
    /\ engine.state = "runs"
    /\ engine.peer = hostAddr
    /\ engine' \in {[engine EXCEPT !.state = s] : s \in {"failed", "stopped"}}
    /\ UNCHANGED <<pc, cfg, addr, published, disk, liveVars, requests, asked, hostAddr, missed>>

\* An update is about to be installed, by the user or the periodic task.
StopForUpdate ==
    /\ published
    /\ TakeAndStop
    /\ UNCHANGED <<pc, cfg, addr, disk, liveVars, requests, asked, hostAddr, missed>>

HostMoves ==
    /\ hostAddr' \in Addrs \ {hostAddr}
    /\ UNCHANGED <<mainVars, published, disk, liveVars, requests, asked, missed>>

\* The process ends, by an update or a crash, and is started again.
Restart ==
    /\ pc' = "begin" /\ addr' = None /\ engine' = NoEngine /\ published' = FALSE
    /\ cfg' = WithArgs(disk)
    /\ disk' \in {disk, cfg'}
    /\ livePeer' = cfg'.peer /\ liveCode' = cfg'.code /\ reconnect' = FALSE
    /\ requests' = [h \in Handlers |-> Idle]
    /\ asked' = 0 /\ missed' = FALSE
    /\ UNCHANGED hostAddr
-----------------------------------------------------------------------------
User(h) ==
    \/ \E pw \in Passwords : SetPassword(h, pw)
    \/ \E code \in Codes : SetCode(h, code)
    \/ \E peer \in Addrs, code \in Codes \cup {None} : Connect(h, peer, code)
    \/ Discover(h)

World ==
    \/ NoPort \/ StartFails
    \/ EngineDrops \/ StopForUpdate \/ HostMoves \/ Restart
    \/ \E h \in Handlers : User(h)

Laptop ==
    \/ Main
    \/ \E h \in Handlers : Handle(h)
    \/ EngineFails

Next == Laptop \/ World

\* The runtime runs tasks that can run; a beacon that is sent every two
\* seconds is heard by some of many attempts, each of five seconds.
Fairness ==
    /\ WF_vars(Main)
    /\ \A h \in Handlers : WF_vars(Handle(h))
    /\ WF_vars(EngineFails)
    /\ SF_vars(Discovered)

Spec == Init /\ [][Next]_vars /\ Fairness
-----------------------------------------------------------------------------
(***************************************************************************)
(* An engine with another password than the file's is about to be          *)
(* replaced: main will see a reconnect, or a handler will still ask for    *)
(* one.  The only exception is a request that was complete between main's  *)
(* reading of the file and its clearing of the flag (main.rs:1320-1329).   *)
(***************************************************************************)
StaleEngineIsReplaced ==
    engine.state = "runs" /\ engine.pw # disk.pw =>
        \/ reconnect
        \/ \E h \in Handlers : requests[h] # Idle /\ requests[h].step # "save"
        \/ missed

(***************************************************************************)
(* A reconnect that is asked for is taken up, wherever the main loop is    *)
(* when it comes: discovering, starting, watching or sleeping (main.rs:    *)
(* 1081, 1329, 1449 and 1467).                                             *)
(***************************************************************************)
ReconnectIsServed == reconnect ~> ~reconnect

\* From some time on only the laptop does anything, whose searches and engines
\* may go on failing, and it has the Host's code and password.
Settled ==
    /\ <>[][Laptop]_vars
    /\ <>[](liveCode = HostCode /\ disk.pw = HostPassword)

(***************************************************************************)
(* The laptop finds the Host, whatever addresses were typed in or learned  *)
(* before, and wherever the Host has moved (main.rs:1300-1461): in the end *)
(* it is connected, unless its engine still has an older password and is   *)
(* never replaced.                                                         *)
(***************************************************************************)
FindsHostOrStranded ==
    Settled => \/ <>[]Connected
               \/ <>[](engine.state = "runs" /\ engine.pw # disk.pw)

(***************************************************************************)
(* main.rs:1319: "Settings page can change password/crypto without         *)
(* restarting the process."  What it has saved stays in the file until it  *)
(* saves something else.                                                   *)
(***************************************************************************)
PasswordSticks == [][disk'.pw # disk.pw => \E h \in Handlers : Save(h)]_vars
=============================================================================
