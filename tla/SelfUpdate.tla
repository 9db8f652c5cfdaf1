----------------------------- MODULE SelfUpdate -----------------------------
(***************************************************************************)
(* Self-update, enet-core/src/updater.rs, as the processes of both roles   *)
(* use it: a process that finds a newer release downloads its package,     *)
(* swaps the files of its own folder one by one (rename to .old, create,   *)
(* write), asks a helper to start the executable again and exits.          *)
(*                                                                         *)
(* The disk is shared by several attempts of one process, which nothing    *)
(* keeps apart, by cleanup_stale (at every start and half a minute later)  *)
(* and by a window (enet-gui) that may be open from the same folder.  The  *)
(* process may be killed between any two steps, and each step on a file    *)
(* may fail.  Windows lets a running image be renamed, but neither be      *)
(* removed, replaced nor written.  The updater does nothing elsewhere.     *)
(***************************************************************************)
EXTENDS Naturals, Sequences

CONSTANTS
    Files,      \* of the package; config/ and logs/ are never touched
    Exe,        \* the executable of the role
    Gui,        \* that of its window
    ZipOrder,   \* the files in the order of the package
    Requests,   \* attempts that users may have under way at once
    Loop,       \* the attempt of main(), then of its periodic task
    IsClient,   \* the agent serves its API before it looks for updates
    Absent,     \* content of a name without a file
    Cut,        \* content of a file that was not written to its end
    MaxRelease, \* bound: releases after the one installed first
    MaxFaults   \* bound: kills and failures of a download or a disk

Attempts == Requests \cup {Loop}
Releases == 0 .. MaxRelease
Contents == Releases \cup {Absent, Cut}
Steps == {"idle", "fetch", "file", "rename", "create", "fill", "restart"}

ASSUME PackageAssumption ==
    /\ Exe \in Files /\ Gui \in Files /\ Exe # Gui
    /\ ZipOrder \in Seq(Files)
    /\ \A f \in Files : \E i \in 1 .. Len(ZipOrder) : ZipOrder[i] = f
    /\ \A i, j \in 1 .. Len(ZipOrder) : ZipOrder[i] = ZipOrder[j] => i = j
ASSUME BoundsAssumption == MaxRelease \in Nat /\ MaxFaults \in Nat
ASSUME NoneAssumption ==
    /\ Absent \notin Nat /\ Cut \notin Nat /\ Absent # Cut
    /\ Loop \notin Requests /\ IsClient \in BOOLEAN

VARIABLES
    disk,       \* what each file holds
    old,        \* what its .old holds
    image,      \* for Exe and Gui: the slot from which a process runs
    proc,       \* where main() is: down, sweep, check, install, up or exit
    version,    \* of the running process (CARGO_PKG_VERSION)
    sweep,      \* names that the pass of cleanup_stale has still to remove
    late,       \* whether its second pass is still to come
    auto,       \* the setting auto_update, which nobody changes meanwhile
    known,      \* update_available
    latest,     \* the newest release with a package
    pc, rel, n, at,     \* of each attempt: its step, release, file, handle
    faults,
    overlap,    \* history: two attempts of this process have met on the files
    forgone     \* history: files whose last whole copy was removed as a .old,
                \* or on which two attempts have met

diskVars == <<disk, old, forgone>>
procVars == <<proc, version, sweep, late, known>>
tryVars == <<pc, rel, n, at, overlap>>
envVars == <<auto, latest>>
vars == <<diskVars, image, procVars, tryVars, envVars, faults>>

TypeOK ==
    /\ disk \in [Files -> Contents] /\ old \in [Files -> Contents]
    /\ image \in [{Exe, Gui} -> {"none", "disk", "old"}]
    /\ proc \in {"down", "sweep", "check", "install", "up", "exit"}
    /\ version \in Releases \cup {Absent} /\ known \in Releases \cup {Absent}
    /\ sweep \subseteq Files /\ late \in BOOLEAN
    /\ auto \in BOOLEAN /\ latest \in Releases
    /\ pc \in [Attempts -> Steps]
    /\ rel \in [Attempts -> Releases \cup {Absent}]
    /\ n \in [Attempts -> 1 .. Len(ZipOrder)]
    /\ at \in [Attempts -> {"disk", "old", "gone"}]
    /\ faults \in 0 .. MaxFaults
    /\ overlap \in BOOLEAN /\ forgone \subseteq Files

Whole(c) == c \in Releases
InUse(f, slot) == f \in {Exe, Gui} /\ image[f] = slot
Alive == proc \in {"sweep", "check", "install", "up"}
Stale == {f \in Files : old[f] # Absent}

\* What check_latest finds for the running version.
Newer == latest > version

\* Nothing is left of a process that has ended.
Idle ==
    /\ version' = Absent /\ known' = Absent
    /\ sweep' = {} /\ late' = FALSE /\ overlap' = FALSE
    /\ pc' = [a \in Attempts |-> "idle"]
    /\ rel' = [a \in Attempts |-> Absent]
    /\ n' = [a \in Attempts |-> 1]
    /\ at' = [a \in Attempts |-> "disk"]

\* Setup has installed the first release; no process runs yet.
Init ==
    /\ disk = [f \in Files |-> 0] /\ old = [f \in Files |-> Absent]
    /\ image = [f \in {Exe, Gui} |-> "none"]
    /\ proc = "down" /\ version = Absent /\ known = Absent
    /\ sweep = {} /\ late = FALSE
    /\ auto \in BOOLEAN /\ latest = 0
    /\ pc = [a \in Attempts |-> "idle"]
    /\ rel = [a \in Attempts |-> Absent]
    /\ n = [a \in Attempts |-> 1]
    /\ at = [a \in Attempts |-> "disk"]
    /\ faults = 0 /\ overlap = FALSE /\ forgone = {}
-----------------------------------------------------------------------------
(***************************************************************************)
(* The process: it starts, cleans up, looks for an update, and ends.       *)
(***************************************************************************)
Runs ==
    /\ Whole(disk[Exe])
    /\ proc' = "sweep"
    /\ version' = disk[Exe]
    /\ image' = [image EXCEPT ![Exe] = "disk"]
    /\ sweep' = Stale
    /\ late' = TRUE
    /\ UNCHANGED <<known, diskVars, tryVars, envVars, faults>>

\* The scheduled task at boot, or the user.
Start == proc = "down" /\ Runs

\* The helper of restart_self, two seconds after the exit.
HelperStart ==
    /\ proc = "exit"
    /\ \/ Runs
       \/ /\ ~Whole(disk[Exe])
          /\ proc' = "down"
          /\ UNCHANGED <<version, sweep, late, known, diskVars, image, tryVars, envVars, faults>>

Killed ==
    /\ proc # "down" /\ faults < MaxFaults
    /\ proc' = "down" /\ faults' = faults + 1
    /\ \/ image' = [image EXCEPT ![Exe] = "none"]
       \/ image' = [f \in {Exe, Gui} |-> "none"]        \* the power fails
    /\ Idle
    /\ UNCHANGED <<diskVars, envVars>>

Swept ==
    /\ proc = "sweep" /\ sweep = {}
    /\ proc' = "check"
    /\ UNCHANGED <<version, sweep, late, known, diskVars, image, tryVars, envVars, faults>>

LateSweep ==
    /\ proc \in {"check", "install", "up"} /\ late /\ sweep = {}
    /\ late' = FALSE /\ sweep' = Stale
    /\ UNCHANGED <<proc, version, known, diskVars, image, tryVars, envVars, faults>>

\* Handles follow a file that is renamed or removed while it is written.
Follow(f, from, to) ==
    at' = [a \in Attempts |->
              IF pc[a] = "fill" /\ ZipOrder[n[a]] = f /\ at[a] = from THEN to ELSE at[a]]

\* remove_file on a .old, whose failure is ignored.
RemoveOld(f) ==
    \/ InUse(f, "old") /\ UNCHANGED <<old, at, forgone>>
    \/ /\ ~InUse(f, "old")
       /\ old' = [old EXCEPT ![f] = Absent]
       /\ Follow(f, "old", "gone")
       /\ forgone' = IF Whole(old[f]) /\ ~Whole(disk[f]) THEN forgone \cup {f} ELSE forgone

SweepFile(f) ==
    /\ f \in sweep
    /\ sweep' = sweep \ {f}
    /\ RemoveOld(f)
    /\ UNCHANGED <<disk, image, proc, version, late, known, pc, rel, n, overlap, envVars, faults>>
-----------------------------------------------------------------------------
(***************************************************************************)
(* The checks.  One may always find nothing: GitHub may not answer, refuse *)
(* a request, or have no package for the release yet.                      *)
(***************************************************************************)
Begin(a, r) ==
    /\ pc[a] = "idle"
    /\ pc' = [pc EXCEPT ![a] = "fetch"]
    /\ rel' = [rel EXCEPT ![a] = r]
    /\ UNCHANGED <<n, at, overlap>>

StartupInstall ==
    /\ proc = "check" /\ Newer /\ auto
    /\ proc' = "install"
    /\ Begin(Loop, latest)
    /\ UNCHANGED <<version, sweep, late, known, diskVars, image, envVars, faults>>

StartupCheck ==
    /\ proc = "check"
    /\ proc' = "up"
    /\ \/ known' = known                        \* nothing found
       \/ Newer /\ ~auto /\ known' = latest
    /\ UNCHANGED <<version, sweep, late, diskVars, image, tryVars, envVars, faults>>

\* Every six hours; installs if nobody is connected when it looks.
PeriodicInstall ==
    /\ proc = "up" /\ Newer /\ auto
    /\ known' = latest
    /\ Begin(Loop, latest)
    /\ UNCHANGED <<proc, version, sweep, late, diskVars, image, envVars, faults>>

PeriodicCheck ==
    /\ proc = "up" /\ Newer /\ pc[Loop] = "idle"
    /\ auto \/ known = Absent \/ IsClient
    /\ known' = latest
    /\ UNCHANGED <<proc, version, sweep, late, diskVars, image, tryVars, envVars, faults>>

Serves == proc = "up" \/ (IsClient /\ Alive)

ApiCheckUpdate ==
    /\ Serves
    /\ \/ known' = Absent
       \/ Newer /\ known' = latest
    /\ UNCHANGED <<proc, version, sweep, late, diskVars, image, tryVars, envVars, faults>>

\* What an earlier check has found is not looked up again.
ApiUpdate(a) ==
    /\ a \in Requests /\ Serves
    /\ \/ known # Absent /\ Begin(a, known)
       \/ known = Absent /\ Newer /\ Begin(a, latest)
    /\ UNCHANGED <<procVars, diskVars, image, envVars, faults>>
-----------------------------------------------------------------------------
(***************************************************************************)
(* An attempt: apply_update_blocking, download_and_stage, restart_self.    *)
(***************************************************************************)
Goes(a, step) == pc' = [pc EXCEPT ![a] = step]

\* MUTANT: main() waits for the end of an installation that has failed.
EndsUnnoticed(a) ==
    /\ Goes(a, "idle")
    /\ rel' = [rel EXCEPT ![a] = Absent]
    /\ n' = [n EXCEPT ![a] = 1]
    /\ at' = [at EXCEPT ![a] = "disk"]
    /\ UNCHANGED <<proc, version, sweep, late, known, diskVars, overlap, image, envVars>>

\* An error ends the attempt; main() goes on with the version it has.
Ends(a) ==
    /\ Goes(a, "idle")
    /\ rel' = [rel EXCEPT ![a] = Absent]
    /\ n' = [n EXCEPT ![a] = 1]
    /\ at' = [at EXCEPT ![a] = "disk"]
    /\ proc' = IF a = Loop /\ proc = "install" THEN "up" ELSE proc
    /\ UNCHANGED <<version, sweep, late, known, diskVars, overlap, image, envVars>>

\* The download, the disk or the helper fails.
Fails(a) ==
    /\ pc[a] # "idle" /\ faults < MaxFaults
    /\ faults' = faults + 1
    /\ Ends(a)

\* Downloaded, the checksum is right and the package holds the executable.
Fetch(a) ==
    /\ pc[a] = "fetch"
    /\ Goes(a, "file")
    /\ overlap' = (overlap \/ \E b \in Attempts : pc[b] \notin {"idle", "fetch"})
    /\ forgone' = IF overlap' THEN Files ELSE forgone
    /\ UNCHANGED <<disk, old, rel, n, at, procVars, image, envVars, faults>>

TakeFile(a) ==
    LET f == ZipOrder[n[a]] IN
    /\ pc[a] = "file"
    /\ \/ disk[f] # Absent /\ RemoveOld(f) /\ Goes(a, "rename")
       \/ disk[f] = Absent /\ Goes(a, "create") /\ UNCHANGED <<old, at, forgone>>
    /\ UNCHANGED <<disk, rel, n, overlap, procVars, image, envVars, faults>>

CanRename(f) == disk[f] # Absent /\ ~InUse(f, "old")

\* MUTANT: a file that no process runs from is removed, not renamed.
RemoveUnlessRunning(a) ==
    LET f == ZipOrder[n[a]]
        runs == InUse(f, "disk") IN
    /\ pc[a] = "rename" /\ CanRename(f)
    /\ old' = IF runs THEN [old EXCEPT ![f] = disk[f]] ELSE old
    /\ disk' = [disk EXCEPT ![f] = Absent]
    /\ image' = IF runs THEN [image EXCEPT ![f] = "old"] ELSE image
    /\ Goes(a, "create")
    /\ UNCHANGED <<forgone, at, rel, n, overlap, procVars, envVars, faults>>

RenameToOld(a) ==
    LET f == ZipOrder[n[a]] IN
    /\ pc[a] = "rename" /\ CanRename(f)
    /\ old' = [old EXCEPT ![f] = disk[f]]
    /\ disk' = [disk EXCEPT ![f] = Absent]
    /\ image' = IF InUse(f, "disk") THEN [image EXCEPT ![f] = "old"] ELSE image
    /\ forgone' = IF Whole(old[f]) /\ ~Whole(disk[f]) THEN forgone \cup {f} ELSE forgone
    /\ at' = [b \in Attempts |->
                 IF pc[b] # "fill" \/ ZipOrder[n[b]] # f \/ at[b] = "gone" THEN at[b]
                 ELSE IF at[b] = "disk" THEN "old" ELSE "gone"]
    /\ Goes(a, "create")
    /\ UNCHANGED <<rel, n, overlap, procVars, envVars, faults>>

\* fs::write creates or truncates the file, then writes it.
Create(a) ==
    LET f == ZipOrder[n[a]] IN
    /\ pc[a] = "create" /\ ~InUse(f, "disk")
    /\ disk' = [disk EXCEPT ![f] = Cut]
    /\ Goes(a, "fill")
    /\ UNCHANGED <<old, forgone, rel, n, at, overlap, procVars, image, envVars, faults>>

\* Another attempt that writes the same file may leave it mixed up.
Written(a, f, before) ==
    IF before \in {Cut, rel[a]} /\ \A b \in Attempts \ {a} :
            ~(pc[b] = "fill" /\ ZipOrder[n[b]] = f /\ at[b] = at[a])
    THEN {rel[a]} ELSE {rel[a], Cut}

\* MUTANT: a write that fails is ignored.
FillUnchecked(a) ==
    LET f == ZipOrder[n[a]] IN
    /\ pc[a] = "fill"
    /\ disk' = [disk EXCEPT ![f] = rel[a]] \/ UNCHANGED disk
    /\ \/ n[a] < Len(ZipOrder) /\ n' = [n EXCEPT ![a] = @ + 1] /\ Goes(a, "file")
       \/ n[a] = Len(ZipOrder) /\ UNCHANGED n /\ Goes(a, "restart")
    /\ UNCHANGED <<old, at, forgone, rel, overlap, procVars, image, envVars, faults>>

\* MUTANT: the entries of the package are counted from one.
FillOneMore(a) ==
    LET f == ZipOrder[n[a]] IN
    /\ pc[a] = "fill"
    /\ disk' = [disk EXCEPT ![f] = rel[a]]
    /\ \/ n[a] <= Len(ZipOrder) /\ n' = [n EXCEPT ![a] = @ + 1] /\ Goes(a, "file")
       \/ n[a] > Len(ZipOrder) /\ UNCHANGED n /\ Goes(a, "restart")
    /\ UNCHANGED <<old, at, forgone, rel, overlap, procVars, image, envVars, faults>>

Fill(a) ==
    LET f == ZipOrder[n[a]] IN
    /\ pc[a] = "fill"
    /\ \/ /\ at[a] = "disk" /\ UNCHANGED old
          /\ \E c \in Written(a, f, disk[f]) : disk' = [disk EXCEPT ![f] = c]
       \/ /\ at[a] = "old" /\ UNCHANGED disk
          /\ \E c \in Written(a, f, old[f]) : old' = [old EXCEPT ![f] = c]
       \/ at[a] = "gone" /\ UNCHANGED <<disk, old>>
    /\ \/ n[a] < Len(ZipOrder) /\ n' = [n EXCEPT ![a] = @ + 1] /\ Goes(a, "file")
       \/ n[a] = Len(ZipOrder) /\ UNCHANGED n /\ Goes(a, "restart")
    /\ at' = [at EXCEPT ![a] = "disk"]
    /\ UNCHANGED <<forgone, rel, overlap, procVars, image, envVars, faults>>

\* A file that is gone, or in use, ends the attempt.
Refused(a) ==
    LET f == ZipOrder[n[a]] IN
    /\ \/ pc[a] = "rename" /\ ~CanRename(f)
       \/ pc[a] = "create" /\ InUse(f, "disk")
    /\ Ends(a)
    /\ UNCHANGED faults

\* MUTANT: the .old files are removed before the process exits.
RestartAndSweep(a) ==
    /\ pc[a] = "restart"
    /\ proc' = "exit"
    /\ image' = [image EXCEPT ![Exe] = "none"]
    /\ old' = [f \in Files |-> Absent]
    /\ Idle
    /\ UNCHANGED <<disk, forgone, envVars, faults>>

\* The helper is spawned, then the process exits, whatever else it does.
Restart(a) ==
    /\ pc[a] = "restart"
    /\ proc' = "exit"
    /\ image' = [image EXCEPT ![Exe] = "none"]
    /\ Idle
    /\ UNCHANGED <<diskVars, envVars, faults>>

Installs(a) ==
    \/ Fetch(a) \/ TakeFile(a) \/ RenameToOld(a) \/ Create(a) \/ Fill(a)
    \/ Refused(a) \/ Restart(a)
-----------------------------------------------------------------------------
(***************************************************************************)
(* The world around the process.                                           *)
(***************************************************************************)
Publish ==
    /\ latest < MaxRelease
    /\ latest' = latest + 1
    /\ UNCHANGED <<diskVars, image, procVars, tryVars, auto, faults>>

\* No image is started from a file that is still open for writing.
GuiOpens ==
    /\ image[Gui] = "none" /\ Whole(disk[Gui])
    /\ \A a \in Attempts : ~(pc[a] = "fill" /\ ZipOrder[n[a]] = Gui /\ at[a] = "disk")
    /\ image' = [image EXCEPT ![Gui] = "disk"]
    /\ UNCHANGED <<diskVars, procVars, tryVars, envVars, faults>>

GuiCloses ==
    /\ image[Gui] # "none"
    /\ image' = [image EXCEPT ![Gui] = "none"]
    /\ UNCHANGED <<diskVars, procVars, tryVars, envVars, faults>>

Process ==
    \/ Start \/ HelperStart \/ Killed
    \/ Swept \/ LateSweep \/ \E f \in Files : SweepFile(f)
    \/ StartupInstall \/ StartupCheck \/ PeriodicInstall \/ PeriodicCheck
    \/ ApiCheckUpdate \/ \E a \in Requests : ApiUpdate(a)

Next ==
    \/ Process
    \/ \E a \in Attempts : Installs(a) \/ Fails(a)
    \/ Publish \/ GuiOpens \/ GuiCloses

(***************************************************************************)
(* Somebody starts a process that is down, tasks of a process run, and a   *)
(* periodic check finds again and again that nobody is connected.          *)
(***************************************************************************)
Fairness ==
    /\ WF_vars(Start) /\ WF_vars(HelperStart)
    /\ WF_vars(Swept) /\ \A f \in Files : WF_vars(SweepFile(f))
    /\ WF_vars(StartupInstall \/ StartupCheck)
    /\ SF_vars(PeriodicInstall)
    /\ \A a \in Attempts : WF_vars(Installs(a))

Spec == Init /\ [][Next]_vars /\ Fairness
-----------------------------------------------------------------------------
HasCopy(f) == Whole(disk[f]) \/ Whole(old[f])

\* However attempts, clean-ups, windows and kills interleave, a whole copy of
\* the executable stays in the folder, if need be as .old (updater.rs:265-269).
ExeRecoverable == HasCopy(Exe)

\* A kill or a failed write alone never costs the last whole copy of a file:
\* that takes a clean-up or a retry that removes the .old which is still needed
\* (updater.rs:267, 293), or two attempts in the same files.
CopyKept == \A f \in Files \ forgone : HasCopy(f)

\* A process that restarts itself leaves every file whole and of the release
\* it has installed, unless a second attempt was in the files with it.
RestartsWhole ==
    [][\A a \in Attempts :
          Restart(a) /\ ~overlap => \A f \in Files : disk'[f] = rel[a]]_vars

\* An interrupted update has left an executable that cannot be started; or one
\* of the newest release, for which no check finds the other files; or one that
\* the process which has replaced it cannot rename again while it runs itself
\* from the .old (updater.rs:267-269).
Stranded ==
    \/ ~Whole(disk[Exe])
    \/ disk[Exe] = latest /\ \E f \in Files : disk[f] # latest
    \/ Alive /\ InUse(Exe, "old")

\* When releases have stopped and updates are wanted, the folder comes to hold
\* the newest one for good, unless an interrupted update has stranded it.
UpdatesOrStranded ==
    auto /\ <>[](latest = MaxRelease) => <>[](Stranded \/ \A f \in Files : disk[f] = latest)
=============================================================================
