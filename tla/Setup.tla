------------------------------- MODULE Setup -------------------------------
(***************************************************************************)
(* Installation of a Host: the wizard and its worker thread                *)
(* (enet-installer/src/main.rs, download.rs, install.rs), the tool         *)
(* enet-setup that the worker runs, and the Hosts that come up meanwhile,  *)
(* which all read and write gateway.toml (config.rs).                      *)
(*                                                                         *)
(* Setup kills the Hosts it finds, but the scheduled task of an earlier    *)
(* installation may start its Host again at any time; in the end Setup     *)
(* itself starts two: the one of the task, and one of its own.  A Host     *)
(* that finds no pair code in the file makes one up and saves it.  Of the  *)
(* file, only the pair code is modelled, of the programs whether they are  *)
(* complete.  A write first truncates the file.  The check for an update   *)
(* between a Host's save and its bind (main.rs:391-420) is only the time   *)
(* that passes there: an update that it installs is SelfUpdate's subject.  *)
(***************************************************************************)
EXTENDS Naturals, FiniteSets

CONSTANTS
    Codes,      \* pair codes; a fresh one is never one in use
    None,       \* no pair code
    Cut,        \* the content of a file in the middle of a write
    MaxFaults   \* bound: failures, kills, reboots and windows closed

Hosts == {"task", "now"}        \* started by the task, and by Setup
Writers == Hosts \cup {"tool"}  \* enet-setup saves like a Host
WriterSteps == {"off", "load", "save", "fill", "bind", "own"}
WorkerSteps == {"none", "prepare", "stop", "copy", "copying", "write", "fill", "tool",
                "adapter", "autostart", "launch", "shortcut", "summary"}
Options == SUBSET {"service", "launch"}

ASSUME CodesAssumption == IsFiniteSet(Codes) /\ Cardinality(Codes) >= 5
ASSUME NoneAssumption == None \notin Codes /\ Cut \notin Codes /\ None # Cut
ASSUME BoundAssumption == MaxFaults \in Nat

VARIABLES
    step,       \* of the wizard; closed without its window
    started,    \* worker_started
    finished, success,  \* SharedProgress
    options,    \* of the worker: register the boot task, launch now
    worker,     \* where the worker thread is
    shown,      \* the pair code of the summary
    bins,       \* whether the programs in the folder are complete
    registered, \* whether the boot task exists
    file,       \* the pair code in gateway.toml
    st, code,   \* of each process that writes the file
    faults,
    mixed       \* history: since the programs were last replaced, a Host has
                \* not found the pair code that somebody was about to write,
                \* was about when Setup rewrote the file, could not save, or
                \* was killed in the middle of a write

wizardVars == <<step, started, finished, success, options>>
workerVars == <<worker, shown, bins, registered>>
procVars == <<st, code>>
vars == <<wizardVars, workerVars, file, procVars, faults, mixed>>

TypeOK ==
    /\ step \in {"closed", "Welcome", "ChooseRole", "Options", "Working", "Done", "Error"}
    /\ started \in BOOLEAN /\ finished \in BOOLEAN /\ success \in BOOLEAN
    /\ options \in Options /\ worker \in WorkerSteps
    /\ shown \in Codes \cup {None}
    /\ bins \in BOOLEAN /\ registered \in BOOLEAN
    /\ file \in Codes \cup {None, Cut}
    /\ st \in [Writers -> WriterSteps]
    /\ code \in [Writers -> Codes \cup {None}]
    /\ faults \in 0 .. MaxFaults /\ mixed \in BOOLEAN

Alive(p) == st[p] # "off"
Fault == faults < MaxFaults /\ faults' = faults + 1

\* generate_pair_code: any code but those in use will do.
Fresh == CHOOSE c \in Codes : c \notin {file, shown} \cup {code[p] : p \in Writers}

\* A computer that has never had a Host, or one that has.
Init ==
    /\ step = "closed" /\ started = FALSE /\ finished = FALSE /\ success = FALSE
    /\ options = {} /\ worker = "none" /\ shown = None
    /\ st = [p \in Writers |-> "off"] /\ code = [p \in Writers |-> None]
    /\ faults = 0 /\ mixed = FALSE
    /\ \/ file = None /\ bins = FALSE /\ registered = FALSE
       \/ file \in Codes /\ bins = TRUE /\ registered \in BOOLEAN
-----------------------------------------------------------------------------
(***************************************************************************)
(* The wizard.                                                             *)
(***************************************************************************)
Open ==
    /\ step = "closed" /\ ~Alive("tool")
    /\ step' = "Welcome"
    /\ started' = FALSE /\ finished' = FALSE /\ success' = FALSE
    /\ shown' = None
    /\ UNCHANGED <<options, worker, bins, registered, file, procVars, faults, mixed>>

\* Continue, Next and Back.
Turn ==
    /\ \/ step = "Welcome" /\ step' = "ChooseRole"
       \/ step = "ChooseRole" /\ step' \in {"Welcome", "Options"}
       \/ step = "Options" /\ step' = "ChooseRole"
    /\ UNCHANGED <<started, finished, success, options, workerVars, file, procVars, faults, mixed>>

Install ==
    /\ step = "Options" /\ ~started
    /\ started' = TRUE /\ step' = "Working"
    /\ options' \in Options
    /\ worker' = "prepare"
    /\ UNCHANGED <<finished, success, shown, bins, registered, file, procVars, faults, mixed>>

Poll ==
    /\ step = "Working" /\ finished
    /\ step' = IF success THEN "Done" ELSE "Error"
    /\ UNCHANGED <<started, finished, success, options, workerVars, file, procVars, faults, mixed>>

Retry ==
    /\ step = "Error"
    /\ started' = FALSE /\ finished' = FALSE /\ success' = FALSE
    /\ step' = "Options"
    /\ UNCHANGED <<options, workerVars, file, procVars, faults, mixed>>

\* The window may be closed at any time, which ends the worker where it is.
Close ==
    /\ step # "closed"
    /\ step' = "closed"
    /\ worker' = "none"
    /\ IF worker = "none" THEN UNCHANGED faults ELSE Fault
    /\ UNCHANGED <<started, finished, success, options, shown, bins, registered, file, procVars,
                   mixed>>
-----------------------------------------------------------------------------
(***************************************************************************)
(* The worker: prepare_package and run_install, one step after the other.  *)
(***************************************************************************)
Goes(from, to) == worker = from /\ worker' = to

\* The package is built in, beside Setup, or downloaded, and holds the programs.
Prepare ==
    /\ Goes("prepare", "stop")
    /\ UNCHANGED <<wizardVars, shown, bins, registered, file, procVars, faults, mixed>>

\* stop_leftover_processes does what it can.
StopHosts ==
    /\ Goes("stop", "copy")
    /\ \E spared \in SUBSET {h \in Hosts : Alive(h)} :
          /\ IF spared = {} THEN UNCHANGED faults ELSE Fault
          /\ st' = [p \in Writers |-> IF p \in Hosts \ spared THEN "off" ELSE st[p]]
          /\ code' = [p \in Writers |-> IF p \in Hosts \ spared THEN None ELSE code[p]]
    /\ UNCHANGED <<wizardVars, shown, bins, registered, file, mixed>>

\* The program of a Host that runs cannot be replaced (see WorkerFails).
Copy ==
    /\ Goes("copy", "copying") /\ \A h \in Hosts : ~Alive(h)
    /\ bins' = FALSE /\ mixed' = FALSE
    /\ UNCHANGED <<wizardVars, shown, registered, file, procVars, faults>>

Copied ==
    /\ Goes("copying", "write")
    /\ bins' = TRUE
    /\ UNCHANGED <<wizardVars, shown, registered, file, procVars, faults, mixed>>

\* write_config starts from nothing, whatever the file held.
WriteConfig ==
    /\ Goes("write", "fill")
    /\ file' = Cut
    /\ mixed' = (mixed \/ \E h \in Hosts : Alive(h))
    /\ UNCHANGED <<wizardVars, shown, bins, registered, procVars, faults>>

\* enet-setup, when it can be started, chooses a new code; its end is awaited.
FillConfig ==
    /\ Goes("fill", "tool")
    /\ file' = None
    /\ \/ /\ st' = [st EXCEPT !["tool"] = "save"]
          /\ code' = [code EXCEPT !["tool"] = Fresh]
          /\ UNCHANGED faults
       \/ Fault /\ UNCHANGED procVars
    /\ UNCHANGED <<wizardVars, shown, bins, registered, mixed>>

ToolEnded ==
    /\ Goes("tool", "adapter") /\ ~Alive("tool")
    /\ UNCHANGED <<wizardVars, shown, bins, registered, file, procVars, faults, mixed>>

\* Firewall, Npcap, the BMW-ENET adapter; the service of older versions.
SetUpAdapter ==
    /\ Goes("adapter", "autostart")
    /\ UNCHANGED <<wizardVars, shown, bins, registered, file, procVars, faults, mixed>>

Starts(h) ==
    /\ ~Alive(h) /\ bins
    /\ st' = [st EXCEPT ![h] = "load"]
    /\ UNCHANGED code

\* The task of an earlier installation is gone even if the new one is refused.
RegisterTask ==
    /\ Goes("autostart", "launch")
    /\ \/ "service" \notin options /\ UNCHANGED <<registered, procVars, faults>>
       \/ "service" \in options /\ registered' = FALSE /\ Fault /\ UNCHANGED procVars
       \/ /\ "service" \in options /\ registered' = TRUE /\ UNCHANGED faults
          /\ \/ "launch" \in options /\ Starts("task")
             \/ ("launch" \notin options \/ Alive("task")) /\ UNCHANGED procVars
    /\ UNCHANGED <<wizardVars, shown, bins, file, mixed>>

LaunchNow ==
    /\ Goes("launch", "shortcut")
    /\ IF "launch" \in options THEN Starts("now") ELSE UNCHANGED procVars
    /\ UNCHANGED <<wizardVars, shown, bins, registered, file, faults, mixed>>

CreateShortcut ==
    /\ Goes("shortcut", "summary")
    /\ UNCHANGED <<wizardVars, shown, bins, registered, file, procVars, faults, mixed>>

\* The pair code is read from the file as it is two seconds later.
Summary ==
    /\ Goes("summary", "none")
    /\ shown' = IF file \in Codes THEN file ELSE None
    /\ finished' = TRUE /\ success' = TRUE
    /\ UNCHANGED <<step, started, options, bins, registered, file, procVars, faults, mixed>>

\* MUTANT: a worker that fails says nothing.
WorkerFailsUnnoticed ==
    /\ worker \notin {"none", "stop", "copying", "tool", "summary"}
    /\ worker' = "none"
    /\ Fault
    /\ UNCHANGED <<wizardVars, shown, bins, registered, file, procVars, mixed>>

\* No package, no space, a Host in the way, no adapter, no shortcut.
WorkerFails ==
    /\ worker \notin {"none", "stop", "tool", "summary"}
    /\ worker' = "none"
    /\ finished' = TRUE /\ success' = FALSE
    /\ IF worker = "copy" /\ \E h \in Hosts : Alive(h) THEN UNCHANGED faults ELSE Fault
    /\ UNCHANGED <<step, started, options, shown, bins, registered, file, procVars, mixed>>

Worker ==
    \/ Prepare \/ StopHosts \/ Copy \/ Copied \/ WriteConfig \/ FillConfig \/ ToolEnded
    \/ SetUpAdapter \/ RegisterTask \/ LaunchNow \/ CreateShortcut \/ Summary
-----------------------------------------------------------------------------
(***************************************************************************)
(* The Hosts and the tool: main() of enet-gateway up to the tunnel, and    *)
(* save() of either.                                                       *)
(***************************************************************************)

\* At boot, after a failure, or by hand.
TaskStarts ==
    /\ registered /\ Starts("task")
    /\ UNCHANGED <<wizardVars, workerVars, file, faults, mixed>>

\* Somebody else has still to write the code that a Host does not find.
Rewriting(h) == worker = "fill" \/ \E p \in Writers \ {h} : Alive(p)

\* MUTANT: a pair code is made up although there is one.
LoadAfresh(h) ==
    /\ st[h] = "load"
    /\ st' = [st EXCEPT ![h] = "save"]
    /\ code' = [code EXCEPT ![h] = Fresh]
    /\ mixed' = (mixed \/ (file \notin Codes /\ Rewriting(h)))
    /\ UNCHANGED <<wizardVars, workerVars, file, faults>>

\* MUTANT: what is in the file is the pair code, whatever it is.
LoadUnchecked(h) ==
    /\ st[h] = "load"
    /\ st' = [st EXCEPT ![h] = "save"]
    /\ code' = [code EXCEPT ![h] = file]
    /\ mixed' = (mixed \/ (file \notin Codes /\ Rewriting(h)))
    /\ UNCHANGED <<wizardVars, workerVars, file, faults>>

\* Without a file that can be read there are defaults; ensure_pair_code.
Load(h) ==
    /\ st[h] = "load"
    /\ st' = [st EXCEPT ![h] = "save"]
    /\ code' = [code EXCEPT ![h] = IF file \in Codes THEN file ELSE Fresh]
    /\ mixed' = (mixed \/ (file \notin Codes /\ Rewriting(h)))
    /\ UNCHANGED <<wizardVars, workerVars, file, faults>>

Saved(p) ==
    /\ st' = [st EXCEPT ![p] = IF p \in Hosts THEN "bind" ELSE "off"]
    /\ code' = IF p \in Hosts THEN code ELSE [code EXCEPT ![p] = None]

Truncate(p) ==
    /\ st[p] = "save"
    /\ file' = Cut
    /\ st' = [st EXCEPT ![p] = "fill"]
    /\ UNCHANGED <<wizardVars, workerVars, code, faults, mixed>>

FillFile(p) ==
    /\ st[p] = "fill"
    /\ file' = code[p]
    /\ Saved(p)
    /\ UNCHANGED <<wizardVars, workerVars, faults, mixed>>

\* main() ignores the failure, run_install that of the tool.
SaveFails(p) ==
    /\ st[p] = "save" /\ Fault
    /\ Saved(p)
    /\ mixed' = (mixed \/ (p \in Hosts /\ file # code[p]))
    /\ UNCHANGED <<wizardVars, workerVars, file>>

Owned == \E h \in Hosts : st[h] = "own"

\* MUTANT: a Host does not bind while another one tries.
BindAlone(h) ==
    /\ st[h] = "bind" /\ ~Owned /\ \A other \in Hosts \ {h} : st[other] # "bind"
    /\ st' = [st EXCEPT ![h] = "own"]
    /\ UNCHANGED <<wizardVars, workerVars, file, code, faults, mixed>>

Bind(h) ==
    /\ st[h] = "bind" /\ ~Owned
    /\ st' = [st EXCEPT ![h] = "own"]
    /\ UNCHANGED <<wizardVars, workerVars, file, code, faults, mixed>>

Off(h) ==
    /\ st' = [st EXCEPT ![h] = "off"]
    /\ code' = [code EXCEPT ![h] = None]

\* After five attempts.
GiveUp(h) ==
    /\ st[h] = "bind" /\ Owned
    /\ Off(h)
    /\ UNCHANGED <<wizardVars, workerVars, file, faults, mixed>>

HostDies(h) ==
    /\ Alive(h) /\ Fault
    /\ Off(h)
    /\ mixed' = (mixed \/ st[h] = "fill")
    /\ UNCHANGED <<wizardVars, workerVars, file>>

\* A power failure, or the user: a file in the middle of a write stays cut.
Reboot ==
    /\ Fault
    /\ step' = "closed" /\ worker' = "none"
    /\ st' = [p \in Writers |-> "off"] /\ code' = [p \in Writers |-> None]
    /\ mixed' = FALSE
    /\ UNCHANGED <<started, finished, success, options, shown, bins, registered, file>>

Process(h) == Load(h) \/ Bind(h) \/ GiveUp(h)
Save(p) == Truncate(p) \/ FillFile(p)

Next ==
    \/ Open \/ Turn \/ Install \/ Poll \/ Retry \/ Close
    \/ Worker \/ WorkerFails
    \/ TaskStarts
    \/ \E h \in Hosts : Process(h) \/ HostDies(h)
    \/ \E p \in Writers : Save(p) \/ SaveFails(p)
    \/ Reboot

\* Threads and processes run, and the wizard repaints.
Fairness ==
    /\ WF_vars(Poll) /\ WF_vars(Worker \/ WorkerFails)
    /\ \A h \in Hosts : WF_vars(Process(h))
    /\ \A p \in Writers : WF_vars(Save(p))

Spec == Init /\ [][Next]_vars /\ Fairness
-----------------------------------------------------------------------------
\* Two Hosts come up after every installation and others may at any time, yet
\* the one that serves the laptop has the pair code of the file, which is also
\* the one that the summary has told the user - unless a Host has found the file
\* while it was rewritten, or could not save (config.rs:239-252).
PairCodesAgree ==
    ~mixed => \A h \in Hosts : st[h] = "own" =>
                /\ file \in {code[h], Cut}
                /\ step = "Done" /\ shown \in Codes => code[h] = shown

\* One installation at a time, and none is left behind: whatever page the wizard
\* shows, and however often Retry or the window's end has cut an attempt short,
\* a worker runs only while the wizard shows that it does, so that the next one
\* has the folder to itself; and an installation that is said to be done has put
\* every program there (enet-installer main.rs:100-180, 262-275).
OneInstallation ==
    /\ worker # "none" => step = "Working" /\ ~finished
    /\ step = "Done" => success /\ bins

\* An installation ends, one way or the other, and if it is said to be done the
\* programs are there (main.rs:134-180, 262-275).
SetupEnds ==
    step = "Working" ~> step \in {"Error", "closed"} \/ (step = "Done" /\ bins)

\* If nothing fails, one of the two Hosts that race for the port has it in the
\* end (enet-gateway main.rs:422-446), unless Setup is run again at once.
HostComesUp ==
    [](faults = 0) =>
        (step = "Done" /\ "launch" \in options ~> Owned \/ step = "Welcome")
=============================================================================
