------------------------- MODULE GatewaySupervisor -------------------------
(***************************************************************************)
(* The gateway process, enet-gateway/src/main.rs: the HTTP handlers that   *)
(* change settings and ask for the tunnel to be started, stopped or        *)
(* restarted, the supervisor task that works off these commands one by one *)
(* from an unbounded channel, the task that installs updates, and the end  *)
(* and the next start of the process.                                      *)
(*                                                                         *)
(* Between any two steps of a handler or task the others may run.  A       *)
(* tunnel engine is seen only as the pairing settings it was started with  *)
(* and whether a laptop has a session with it.  Settings that do not       *)
(* concern pairing, the activity log and the status replies are left out.  *)
(***************************************************************************)
EXTENDS Naturals, Sequences

CONSTANTS
    Pairings,       \* values of the pair code and the password
    None,
    MaxHandlers,    \* bound: handlers about to send a command
    MaxQueue        \* bound: commands in the channel

ASSUME BoundsAssumption == MaxHandlers \in Nat /\ MaxQueue \in Nat

Commands == {"Start", "Stop", "Restart"}
Engines == [pairing : Pairings, session : BOOLEAN]

ASSUME NoneAssumption == None \notin Commands \cup Pairings \cup Engines

VARIABLES
    process,    \* whether the process runs, or is down, or how it ended
    cfg,        \* the pairing settings of AppState.cfg
    disk,       \* those of the configuration file
    sending,    \* for each command, how many handlers are about to send it
    queue,      \* tunnel_rx
    handle,     \* AppState.handle: the engine the process knows of
    supPc,      \* what the supervisor does next
    supCmd,     \* the command it works on
    cfgNow,     \* the settings it has read for the engine it starts
    started,    \* the engine start_tunnel returned, not yet in the handle
    updPc,      \* what the update task does
    installs,   \* whether an update asked for by the user is installed
    last        \* history: the last command sent since the process started

supVars == <<supPc, supCmd, cfgNow, started>>
apiVars == <<cfg, disk, sending>>
updVars == <<updPc, installs>>
vars == <<process, apiVars, queue, handle, supVars, updVars, last>>

TypeOK ==
    /\ process \in {"runs", "down", "autoUpdated"}
    /\ cfg \in Pairings
    /\ disk \in Pairings
    /\ sending \in [Commands -> Nat]
    /\ queue \in Seq(Commands)
    /\ handle \in Engines \cup {None}
    /\ supPc \in {"recv", "take", "sleep", "start", "publish"}
    /\ supCmd \in Commands \cup {None}
    /\ cfgNow \in Pairings \cup {None}
    /\ started \in Engines \cup {None}
    /\ updPc \in {"sleep", "check", "install"}
    /\ installs \in BOOLEAN
    /\ last \in Commands \cup {None}

NewEngine(pairing) == [pairing |-> pairing, session |-> FALSE]

Alive == process = "runs"

\* What a process that has just started, or ended, knows of its tasks.
FreshTasks ==
    /\ sending' = [c \in Commands |-> 0]
    /\ queue' = <<>>
    /\ supPc' = "recv" /\ supCmd' = None /\ cfgNow' = None /\ started' = None
    /\ updPc' = "sleep" /\ installs' = FALSE
    /\ last' = None

Init ==
    /\ process = "down"
    /\ disk \in Pairings
    /\ cfg = disk
    /\ sending = [c \in Commands |-> 0]
    /\ queue = <<>>
    /\ handle = None
    /\ supPc = "recv" /\ supCmd = None /\ cfgNow = None /\ started = None
    /\ updPc = "sleep" /\ installs = FALSE
    /\ last = None
-----------------------------------------------------------------------------
(***************************************************************************)
(* The process.  main() loads the configuration and starts a tunnel before *)
(* it serves requests; if that fails five times it ends again.             *)
(***************************************************************************)
Boot ==
    /\ ~Alive
    /\ process' = "runs"
    /\ cfg' = disk
    /\ handle' = NewEngine(disk)
    /\ FreshTasks
    /\ UNCHANGED disk

Dies(how) ==
    /\ process' = how
    /\ handle' = None
    /\ FreshTasks
    /\ UNCHANGED <<cfg, disk>>

Crash == Alive /\ Dies("down")
-----------------------------------------------------------------------------
(***************************************************************************)
(* The handlers: what one decides, and later the command it sends.         *)
(***************************************************************************)
Decide(cmd) ==
    /\ Alive
    /\ sending["Start"] + sending["Stop"] + sending["Restart"] < MaxHandlers
    /\ sending' = [sending EXCEPT ![cmd] = @ + 1]
    /\ UNCHANGED <<process, queue, handle, supVars, updVars, last>>

\* "Tunnel already running" otherwise (main.rs:964-970)
ApiStart ==
    /\ handle = None
    /\ Decide("Start")
    /\ UNCHANGED <<cfg, disk>>

\* "Tunnel already stopped" otherwise (main.rs:972-978)
ApiStop ==
    /\ handle # None
    /\ Decide("Stop")
    /\ UNCHANGED <<cfg, disk>>

ApiRestart ==
    /\ Decide("Restart")
    /\ UNCHANGED <<cfg, disk>>

\* Mutant of ApiSetSettings: a new password restarts nothing.
ApiSetSettingsQuietly(pairing) ==
    /\ Alive
    /\ cfg' = pairing
    /\ disk' \in {disk, pairing}
    /\ UNCHANGED <<process, sending, queue, handle, supVars, updVars, last>>

\* The settings are written and saved under the lock of cfg, and the file may
\* not be writable; the tunnel is restarted after the lock is released.
ApiSetSettings(pairing) ==
    /\ Decide("Restart")
    /\ cfg' = pairing
    /\ disk' \in {disk, pairing}

\* The handlers that change other settings save these with them.
ApiSaveOthers ==
    /\ Alive
    /\ disk' = cfg
    /\ UNCHANGED <<process, cfg, sending, queue, handle, supVars, updVars, last>>

Send(cmd) ==
    /\ sending[cmd] > 0
    /\ Len(queue) < MaxQueue
    /\ sending' = [sending EXCEPT ![cmd] = @ - 1]
    /\ queue' = Append(queue, cmd)
    /\ last' = cmd
    /\ UNCHANGED <<process, cfg, disk, handle, supVars, updVars>>
-----------------------------------------------------------------------------
(***************************************************************************)
(* The supervisor (main.rs:550-587).                                       *)
(***************************************************************************)
SupRecv ==
    /\ supPc = "recv"
    /\ queue # <<>>
    /\ supCmd' = Head(queue)
    /\ queue' = Tail(queue)
    /\ supPc' = "take"
    /\ UNCHANGED <<process, apiVars, handle, cfgNow, started, updVars, last>>

\* Mutants of SupTake: only a Stop stops the tunnel; a Stop is taken for a
\* Restart; the settings are not read.
SupTakeOnStop ==
    /\ supPc = "take"
    /\ handle' = IF supCmd = "Stop" THEN None ELSE handle
    /\ supPc' = IF supCmd = "Stop" THEN "recv" ELSE "sleep"
    /\ UNCHANGED <<process, apiVars, queue, supCmd, cfgNow, started, updVars, last>>

SupTakeAndRestart ==
    /\ supPc = "take"
    /\ handle' = None
    /\ supPc' = "sleep"
    /\ UNCHANGED <<process, apiVars, queue, supCmd, cfgNow, started, updVars, last>>

SupTakeAndStart ==
    /\ supPc = "take"
    /\ handle' = None
    /\ supPc' = IF supCmd = "Stop" THEN "recv" ELSE "start"
    /\ UNCHANGED <<process, apiVars, queue, supCmd, cfgNow, started, updVars, last>>

\* Whatever the command is, the tunnel that runs is stopped first.
SupTake ==
    /\ supPc = "take"
    /\ handle' = None
    /\ supPc' = IF supCmd = "Stop" THEN "recv" ELSE "sleep"
    /\ UNCHANGED <<process, apiVars, queue, supCmd, cfgNow, started, updVars, last>>

\* Mutant of SupReadCfg: it takes the settings of the file.
SupReadDisk ==
    /\ supPc = "sleep"
    /\ cfgNow' = disk
    /\ supPc' = "start"
    /\ UNCHANGED <<process, apiVars, queue, handle, supCmd, started, updVars, last>>

SupReadCfg ==
    /\ supPc = "sleep"
    /\ cfgNow' = cfg
    /\ supPc' = "start"
    /\ UNCHANGED <<process, apiVars, queue, handle, supCmd, started, updVars, last>>

SupStart ==
    /\ supPc = "start"
    /\ started' = NewEngine(cfgNow)
    /\ supPc' = "publish"
    /\ UNCHANGED <<process, apiVars, queue, handle, supCmd, cfgNow, updVars, last>>

\* The port is still taken, or the relay cannot be joined: nothing retries.
SupStartFails ==
    /\ supPc = "start"
    /\ supPc' = "recv"
    /\ UNCHANGED <<process, apiVars, queue, handle, supCmd, cfgNow, started, updVars, last>>

SupPublish ==
    /\ supPc = "publish"
    /\ handle' = started
    /\ started' = None
    /\ supPc' = "recv"
    /\ UNCHANGED <<process, apiVars, queue, supCmd, cfgNow, updVars, last>>

Supervisor == SupRecv \/ SupTake \/ SupReadCfg \/ SupStart \/ SupStartFails \/ SupPublish
-----------------------------------------------------------------------------
(***************************************************************************)
(* A laptop's session with the engine begins and ends at any time after    *)
(* the engine was started, published or not.                               *)
(***************************************************************************)
SessionChanges ==
    /\ \/ /\ handle # None
          /\ handle' = [handle EXCEPT !.session = ~@]
          /\ UNCHANGED started
       \/ /\ started # None
          /\ started' = [started EXCEPT !.session = ~@]
          /\ UNCHANGED handle
    /\ UNCHANGED <<process, apiVars, queue, supPc, supCmd, cfgNow, updVars, last>>

Session == \E e \in {handle, started} \ {None} : e.session
-----------------------------------------------------------------------------
(***************************************************************************)
(* Updates.  The periodic task finds one (main.rs:513-527) ...             *)
(***************************************************************************)
UpdFound ==
    /\ Alive
    /\ updPc = "sleep"
    /\ updPc' = "check"
    /\ UNCHANGED <<process, apiVars, queue, handle, supVars, installs, last>>

\* ... and installs it if auto_update is on and the engine it knows of, if
\* any, has no session (main.rs:528-536) ...
UpdCheck ==
    /\ updPc = "check"
    /\ updPc' \in {"sleep", IF handle # None /\ handle.session THEN "sleep" ELSE "install"}
    /\ UNCHANGED <<process, apiVars, queue, handle, supVars, installs, last>>

\* ... which takes a while and ends the process, or fails.
UpdInstalled == updPc = "install" /\ Dies("autoUpdated")

UpdFails ==
    /\ updPc = "install"
    /\ updPc' = "sleep"
    /\ UNCHANGED <<process, apiVars, queue, handle, supVars, installs, last>>

\* The user may ask for it at any time (main.rs:918-954).
ApiUpdate ==
    /\ Alive
    /\ installs' = TRUE
    /\ UNCHANGED <<process, apiVars, queue, handle, supVars, updPc, last>>

UserInstalled == installs /\ Dies("down")

UserInstallFails ==
    /\ installs
    /\ installs' = FALSE
    /\ UNCHANGED <<process, apiVars, queue, handle, supVars, updPc, last>>
-----------------------------------------------------------------------------
Requests ==
    \/ ApiStart \/ ApiStop \/ ApiRestart
    \/ \E pairing \in Pairings : ApiSetSettings(pairing)

Ends == Crash \/ UpdInstalled \/ UserInstalled

Next ==
    \/ Boot
    \/ Ends
    \/ Requests
    \/ ApiSaveOthers
    \/ \E cmd \in Commands : Send(cmd)
    \/ Supervisor
    \/ SessionChanges
    \/ UpdFound \/ UpdCheck \/ UpdFails
    \/ ApiUpdate \/ UserInstallFails

\* The runtime runs every handler and task that can run.
Fairness == WF_vars(Supervisor) /\ \A cmd \in Commands : WF_vars(Send(cmd))

Spec == Init /\ [][Next]_vars /\ Fairness
-----------------------------------------------------------------------------
(***************************************************************************)
(* There is never a second engine, which could not bind the tunnel's port: *)
(* the supervisor has stopped the old one when it starts another, whatever *)
(* commands are queued (main.rs:557-571).                                  *)
(***************************************************************************)
OneTunnel == handle = None \/ started = None

\* Somebody is going to restart the tunnel.
RestartComing ==
    \/ sending["Restart"] > 0
    \/ \E i \in 1..Len(queue) : queue[i] = "Restart"
    \/ supPc = "take" /\ supCmd = "Restart"

(***************************************************************************)
(* dashboard.html:410 says of pair code and password: "Changing either     *)
(* restarts the tunnel."  A tunnel that runs with other settings than those*)
(* last saved is about to be restarted, however the handlers and the       *)
(* supervisor interleave (main.rs:997-1084 and 550-587).                  *)
(***************************************************************************)
StaleTunnelIsRestarted ==
    \A e \in {handle, started} \ {None} : e.pairing # cfg => RestartComing

(***************************************************************************)
(* Once the commands are worked off, a tunnel whose last command was Stop  *)
(* is stopped (main.rs:557-564).                                           *)
(***************************************************************************)
StopIsFinal ==
    last = "Stop" /\ queue = <<>> /\ supPc = "recv" => handle = None /\ started = None

(***************************************************************************)
(* What was asked for last is what there is in the end: no tunnel after a  *)
(* Stop, and otherwise one with the settings saved last, unless it could   *)
(* not be started (main.rs:550-587).                                       *)
(***************************************************************************)
RequestsTakeEffect ==
    <>[]Alive /\ <>[][~Requests /\ ~Ends]_vars
        => <>[](handle # None => last # "Stop" /\ handle.pairing = cfg)

(***************************************************************************)
(* main.rs:509-510: an update is "Auto-install[ed] only while no laptop    *)
(* session is active so an update can never interrupt diagnostics/         *)
(* flashing."  It never ends the process while a laptop has a session.     *)
(***************************************************************************)
UpdateSparesSession == [][Alive /\ process' = "autoUpdated" => ~Session]_vars
=============================================================================
