-------------------------- MODULE SelfUpdateProofs --------------------------
(***************************************************************************)
(* Proofs about SelfUpdate, for every package and order of its files, any  *)
(* number of requests and without use of the bounds on releases and        *)
(* faults: its types, that a whole copy of the executable always remains,  *)
(* that a kill alone costs no file its last copy, and that a process which *)
(* restarts leaves a complete release.                                     *)
(*                                                                         *)
(* IInv adds why.  A process runs from a whole file that nobody writes,    *)
(* and nothing else changes the disk while it is down; an attempt that has *)
(* the files for itself finds each file the way its last step has left it. *)
(***************************************************************************)
EXTENDS SelfUpdate, TLAPS

Images == {Exe, Gui}

\* Attempt a has file f open for writing, under its name or as the .old.
Writes(a, f, slot) == pc[a] = "fill" /\ ZipOrder[n[a]] = f /\ at[a] = slot

ImagesWhole ==
    \A f \in Images :
        /\ image[f] = "disk" => Whole(disk[f])
        /\ image[f] = "old" => Whole(old[f])

ImagesUnwritten ==
    \A f \in Images, a \in Attempts : \A slot \in {"disk", "old"} :
        image[f] = slot => ~Writes(a, f, slot)

HandlesOfWriters == \A a \in Attempts : pc[a] # "fill" => at[a] = "disk"

AliveRuns == Alive <=> image[Exe] # "none"

QuietWhenDown ==
    ~Alive => ~overlap /\ sweep = {} /\ \A a \in Attempts : pc[a] = "idle"

\* Attempt a is past its download, among the files.
Swaps(a) == pc[a] \notin {"idle", "fetch"}

OneSwaps == \A a, b \in Attempts : Swaps(a) /\ Swaps(b) => a = b

FirstBefore == \A a \in Attempts : ~Swaps(a) => n[a] = 1

FileAsLeft ==
    \A a \in Attempts :
        /\ pc[a] = "create" => disk[ZipOrder[n[a]]] = Absent
        /\ pc[a] = "fill" => at[a] = "disk" /\ disk[ZipOrder[n[a]]] = Cut

FilesDone ==
    \A a \in Attempts :
        Swaps(a) =>
            /\ \A i \in 1 .. Len(ZipOrder) : i < n[a] => disk[ZipOrder[i]] = rel[a]
            /\ pc[a] = "restart" => \A f \in Files : disk[f] = rel[a]

SoloInv == ~overlap => OneSwaps /\ FileAsLeft /\ FilesDone

OverlapForgoes == overlap => forgone = Files

IInv ==
    /\ TypeOK
    /\ ImagesWhole /\ ImagesUnwritten /\ HandlesOfWriters
    /\ AliveRuns /\ QuietWhenDown
    /\ FirstBefore /\ SoloInv /\ OverlapForgoes
    /\ CopyKept
    /\ HasCopy(Exe)
-----------------------------------------------------------------------------
USE BoundsAssumption

LEMMA OrderFacts ==
    /\ Len(ZipOrder) \in Nat \ {0} /\ 1 \in 1 .. Len(ZipOrder)
    /\ \A i \in 1 .. Len(ZipOrder) : ZipOrder[i] \in Files
<1>1. /\ Len(ZipOrder) \in Nat
      /\ \A i \in 1 .. Len(ZipOrder) : ZipOrder[i] \in Files
  <2>1. ZipOrder \in Seq(Files)
    BY PackageAssumption
  <2> QED
    BY <2>1
<1>2. PICK i \in 1 .. Len(ZipOrder) : ZipOrder[i] = Exe
  <2>1. Exe \in Files /\ \A f \in Files : \E i \in 1 .. Len(ZipOrder) : ZipOrder[i] = f
    BY PackageAssumption
  <2> QED
    BY <2>1
<1>3. Len(ZipOrder) >= 1
  BY <1>1, <1>2
<1> QED
  BY <1>1, <1>3

(***************************************************************************)
(* The types.                                                              *)
(***************************************************************************)
LEMMA TypeInit == Init => TypeOK
<1> SUFFICES ASSUME Init PROVE TypeOK
  OBVIOUS
<1> USE DEF Init
<1>1. 0 \in Releases /\ faults \in 0 .. MaxFaults
  BY DEF Releases
<1>2. disk \in [Files -> Contents] /\ old \in [Files -> Contents]
  BY <1>1 DEF Contents
<1>3. /\ pc \in [Attempts -> Steps] /\ rel \in [Attempts -> Releases \cup {Absent}]
      /\ n \in [Attempts -> 1 .. Len(ZipOrder)]
      /\ at \in [Attempts -> {"disk", "old", "gone"}]
  BY OrderFacts DEF Steps
<1> QED
  BY <1>1, <1>2, <1>3 DEF TypeOK

LEMMA TypeIdle ==
    ASSUME Idle
    PROVE  /\ version' \in Releases \cup {Absent} /\ known' \in Releases \cup {Absent}
           /\ sweep' \subseteq Files /\ late' \in BOOLEAN /\ overlap' \in BOOLEAN
           /\ pc' \in [Attempts -> Steps]
           /\ rel' \in [Attempts -> Releases \cup {Absent}]
           /\ n' \in [Attempts -> 1 .. Len(ZipOrder)]
           /\ at' \in [Attempts -> {"disk", "old", "gone"}]
  BY OrderFacts DEF Idle, Attempts, Steps

LEMMA TypeProcess ==
    ASSUME TypeOK, Process
    PROVE  TypeOK'
<1> USE DEF TypeOK, Contents, Releases, diskVars, procVars, tryVars, envVars, Attempts, Steps
<1>1. ASSUME Runs PROVE TypeOK'
  BY <1>1 DEF Runs, Stale, Whole
<1>2. ASSUME Start PROVE TypeOK'
  BY <1>1, <1>2 DEF Start
<1>3. ASSUME HelperStart PROVE TypeOK'
  BY <1>1, <1>3 DEF HelperStart
<1>4. ASSUME Killed PROVE TypeOK'
  BY <1>4, TypeIdle DEF Killed
<1>5. ASSUME Swept \/ LateSweep PROVE TypeOK'
  BY <1>5 DEF Swept, LateSweep, Stale
<1>6. ASSUME NEW f \in Files, SweepFile(f) PROVE TypeOK'
  BY <1>6 DEF SweepFile, RemoveOld, Follow
<1>7. ASSUME NEW a \in Attempts, NEW r \in Releases, Begin(a, r)
      PROVE  /\ pc' \in [Attempts -> Steps]
             /\ rel' \in [Attempts -> Releases \cup {Absent}]
             /\ UNCHANGED <<n, at, overlap>>
  BY <1>7 DEF Begin
<1>8. ASSUME StartupInstall \/ PeriodicInstall PROVE TypeOK'
  BY <1>7, <1>8 DEF StartupInstall, PeriodicInstall
<1>9. ASSUME StartupCheck \/ PeriodicCheck \/ ApiCheckUpdate PROVE TypeOK'
  BY <1>9 DEF StartupCheck, PeriodicCheck, ApiCheckUpdate
<1>10. ASSUME NEW a \in Requests, ApiUpdate(a) PROVE TypeOK'
  BY <1>7, <1>10 DEF ApiUpdate
<1> QED
  BY <1>2, <1>3, <1>4, <1>5, <1>6, <1>8, <1>9, <1>10 DEF Process

LEMMA TypeEnds ==
    ASSUME TypeOK, NEW a \in Attempts, Ends(a), faults' \in 0 .. MaxFaults
    PROVE  TypeOK'
  BY OrderFacts DEF Ends, Goes, TypeOK, diskVars, envVars, Attempts, Steps

LEMMA TypeInstalls ==
    ASSUME TypeOK, NEW a \in Attempts, Installs(a)
    PROVE  TypeOK'
<1> USE DEF TypeOK, Contents, procVars, envVars, diskVars, Steps, Goes
<1>1. CASE Fetch(a)
  BY <1>1 DEF Fetch
<1>2. CASE TakeFile(a)
  <2> DEFINE f == ZipOrder[n[a]]
  <2>1. f \in Files
    BY OrderFacts
  <2>2. CASE RemoveOld(f) /\ pc' = [pc EXCEPT ![a] = "rename"]
    <3>1. /\ old' \in [Files -> Contents] /\ forgone' \subseteq Files
          /\ at' \in [Attempts -> {"disk", "old", "gone"}]
      BY <2>1, <2>2 DEF RemoveOld, Follow
    <3> QED
      BY <1>2, <2>2, <3>1 DEF TakeFile
  <2>3. CASE UNCHANGED <<old, at, forgone>> /\ pc' = [pc EXCEPT ![a] = "create"]
    BY <1>2, <2>3 DEF TakeFile
  <2> QED
    BY <1>2, <2>2, <2>3 DEF TakeFile
<1>3. CASE RenameToOld(a)
  BY <1>3, OrderFacts DEF RenameToOld, InUse, CanRename
<1>4. CASE Create(a)
  BY <1>4, OrderFacts DEF Create
<1>5. CASE Fill(a)
  <2> DEFINE f == ZipOrder[n[a]]
  <2>1. \A c : Written(a, f, c) \subseteq Contents
    BY DEF Written
  <2>2. disk' \in [Files -> Contents] /\ old' \in [Files -> Contents]
    <3>1. \E c \in Contents :
             \/ disk' = [disk EXCEPT ![f] = c] /\ old' = old
             \/ old' = [old EXCEPT ![f] = c] /\ disk' = disk
             \/ disk' = disk /\ old' = old
      BY <1>5, <2>1 DEF Fill
    <3> HIDE DEF f
    <3> QED
      BY <3>1
  <2>3. \/ n[a] < Len(ZipOrder) /\ n' = [n EXCEPT ![a] = n[a] + 1]
        \/ n' = n
    BY <1>5 DEF Fill
  <2>4. n[a] < Len(ZipOrder) => n[a] + 1 \in 1 .. Len(ZipOrder)
    BY OrderFacts
  <2>5. n' \in [Attempts -> 1 .. Len(ZipOrder)]
    BY <2>3, <2>4
  <2>6. pc' \in [Attempts -> Steps] /\ at' \in [Attempts -> {"disk", "old", "gone"}]
    BY <1>5 DEF Fill
  <2>7. UNCHANGED <<forgone, rel, overlap, procVars, image, envVars, faults>>
    BY <1>5 DEF Fill
  <2> QED
    BY <2>2, <2>5, <2>6, <2>7
<1>6. CASE Refused(a)
  BY <1>6, TypeEnds DEF Refused
<1>7. CASE Restart(a)
  <2>1. image' \in [{Exe, Gui} -> {"none", "disk", "old"}] /\ proc' = "exit"
    BY <1>7 DEF Restart
  <2>2. Idle /\ UNCHANGED <<diskVars, envVars, faults>>
    BY <1>7 DEF Restart
  <2> QED
    BY <2>1, <2>2, TypeIdle
<1> QED
  BY <1>1, <1>2, <1>3, <1>4, <1>5, <1>6, <1>7 DEF Installs

LEMMA TypeStep ==
    ASSUME TypeOK, [Next]_vars
    PROVE  TypeOK'
<1> USE DEF TypeOK, diskVars, procVars, tryVars, envVars
<1>1. ASSUME NEW a \in Attempts, Fails(a) PROVE TypeOK'
  <2>1. faults' \in 0 .. MaxFaults
    BY <1>1, BoundsAssumption DEF Fails
  <2>2. Ends(a)
    BY <1>1, Zenon DEF Fails
  <2> QED
    BY <2>1, <2>2, TypeEnds
<1>2. CASE Publish
  BY <1>2 DEF Publish, Releases
<1>3. CASE GuiOpens \/ GuiCloses
  BY <1>3 DEF GuiOpens, GuiCloses
<1>4. CASE UNCHANGED vars
  BY <1>4 DEF vars
<1> QED
  BY <1>1, <1>2, <1>3, <1>4, TypeProcess, TypeInstalls DEF Next

(***************************************************************************)
(* The types hold of every state, for every package and every bound.       *)
(***************************************************************************)
THEOREM TypeCorrect == Spec => []TypeOK
  BY TypeInit, TypeStep, PTL DEF Spec
-----------------------------------------------------------------------------
(***************************************************************************)
(* The inductive invariant: first the steps that touch no file.            *)
(***************************************************************************)
LEMMA InvInit == Init => IInv
<1> SUFFICES ASSUME Init PROVE IInv
  OBVIOUS
<1>1. 0 \in Releases
  BY DEF Releases
<1> QED
  BY <1>1, TypeInit, PackageAssumption
     DEF Init, IInv, ImagesWhole, Images, ImagesUnwritten, Writes, HandlesOfWriters,
         AliveRuns, Alive, QuietWhenDown, FirstBefore, SoloInv, OneSwaps, FileAsLeft, FilesDone, Swaps,
         OverlapForgoes, CopyKept, HasCopy, Whole

\* The part of the invariant that no step can change without touching it.
core == <<diskVars, image, tryVars>>

LEMMA KeepsCore ==
    ASSUME IInv, TypeOK', UNCHANGED core, Alive' <=> Alive, ~Alive => UNCHANGED sweep
    PROVE  IInv'
  BY DEF core, diskVars, tryVars, IInv, ImagesWhole, ImagesUnwritten, Writes, HandlesOfWriters,
         AliveRuns, QuietWhenDown, FirstBefore, SoloInv, OneSwaps, FileAsLeft, FilesDone, Swaps,
         OverlapForgoes, CopyKept, HasCopy, Whole

LEMMA BeginsAlone ==
    ASSUME IInv, TypeOK', NEW a \in Attempts, NEW r, Begin(a, r),
           UNCHANGED <<diskVars, image>>, Alive, Alive'
    PROVE  IInv'
<1>1. /\ pc \in [Attempts -> Steps] /\ rel \in [Attempts -> Releases \cup {Absent}]
      /\ \A b \in Attempts \ {a} : pc'[b] = pc[b] /\ rel'[b] = rel[b]
      /\ pc[a] = "idle" /\ pc'[a] = "fetch"
      /\ UNCHANGED <<disk, old, forgone, image, n, at, overlap>>
  BY DEF IInv, TypeOK, Begin, diskVars
<1>2. ImagesWhole' /\ ImagesUnwritten' /\ HandlesOfWriters'
  BY <1>1 DEF IInv, ImagesWhole, ImagesUnwritten, Writes, HandlesOfWriters, Whole
<1>3. \A b \in Attempts : (Swaps(b)' <=> Swaps(b)) /\ (Swaps(b) => rel'[b] = rel[b] /\ pc'[b] = pc[b])
  BY <1>1 DEF Swaps
<1>4. SoloInv' /\ FirstBefore'
  BY <1>1, <1>3 DEF IInv, SoloInv, OneSwaps, FileAsLeft, FilesDone, FirstBefore
<1> QED
  BY <1>1, <1>2, <1>4
     DEF IInv, AliveRuns, QuietWhenDown, OverlapForgoes, CopyKept, HasCopy, Whole

LEMMA ProcessStarts ==
    ASSUME IInv, TypeOK', Runs, ~Alive
    PROVE  IInv'
<1>1. /\ image \in [Images -> {"none", "disk", "old"}]
      /\ UNCHANGED <<disk, old, forgone, pc, rel, n, at, overlap>>
      /\ image' = [image EXCEPT ![Exe] = "disk"] /\ Whole(disk[Exe])
      /\ Alive'
  BY DEF IInv, TypeOK, Images, Runs, diskVars, tryVars, Alive
<1>2. image'[Exe] = "disk" /\ image'[Gui] = image[Gui]
  BY <1>1, PackageAssumption DEF Images
<1>3. \A b \in Attempts : pc[b] = "idle"
  BY DEF IInv, QuietWhenDown
<1>4. ImagesWhole' /\ ImagesUnwritten' /\ HandlesOfWriters' /\ AliveRuns'
  BY <1>1, <1>2, <1>3
     DEF IInv, Images, ImagesWhole, ImagesUnwritten, Writes, HandlesOfWriters, Whole, AliveRuns
<1>5. SoloInv' /\ QuietWhenDown' /\ FirstBefore'
  BY <1>1, <1>3 DEF IInv, SoloInv, OneSwaps, FileAsLeft, FilesDone, Swaps, QuietWhenDown, FirstBefore
<1> QED
  BY <1>1, <1>4, <1>5 DEF IInv, OverlapForgoes, CopyKept, HasCopy, Whole

LEMMA ProcessEnds ==
    ASSUME IInv, TypeOK', Idle, UNCHANGED diskVars, ~Alive',
           \/ image' = [image EXCEPT ![Exe] = "none"]
           \/ image' = [f \in {Exe, Gui} |-> "none"]
    PROVE  IInv'
<1>1. /\ image \in [Images -> {"none", "disk", "old"}]
      /\ UNCHANGED <<disk, old, forgone>>
      /\ \A b \in Attempts : pc'[b] = "idle" /\ at'[b] = "disk" /\ n'[b] = 1
      /\ ~overlap' /\ sweep' = {}
  BY DEF IInv, TypeOK, Images, diskVars, Idle
<1>2. image'[Exe] = "none" /\ image'[Gui] \in {"none", image[Gui]}
  BY <1>1, PackageAssumption DEF Images
<1>3. ImagesWhole' /\ ImagesUnwritten' /\ HandlesOfWriters' /\ AliveRuns'
  BY <1>1, <1>2
     DEF IInv, Images, ImagesWhole, ImagesUnwritten, Writes, HandlesOfWriters, Whole, AliveRuns
<1>4. SoloInv' /\ QuietWhenDown' /\ FirstBefore'
  BY <1>1 DEF SoloInv, OneSwaps, FileAsLeft, FilesDone, Swaps, QuietWhenDown, FirstBefore
<1> QED
  BY <1>1, <1>3, <1>4 DEF IInv, OverlapForgoes, CopyKept, HasCopy, Whole

LEMMA WindowOpensOrCloses ==
    ASSUME IInv, TypeOK', GuiOpens \/ GuiCloses
    PROVE  IInv'
<1>1. /\ image \in [Images -> {"none", "disk", "old"}]
      /\ UNCHANGED <<disk, old, forgone, proc, sweep, pc, rel, n, at, overlap>>
  BY DEF IInv, TypeOK, Images, GuiOpens, GuiCloses, diskVars, procVars, tryVars
<1>2. /\ image'[Exe] = image[Exe]
      /\ \/ image'[Gui] = "none"
         \/ /\ image'[Gui] = "disk" /\ Whole(disk[Gui])
            /\ \A a \in Attempts : ~Writes(a, Gui, "disk")
  BY <1>1, PackageAssumption DEF Images, GuiOpens, GuiCloses, Writes
<1>3. ImagesWhole' /\ ImagesUnwritten' /\ HandlesOfWriters' /\ AliveRuns'
  BY <1>1, <1>2
     DEF IInv, Images, ImagesWhole, ImagesUnwritten, Writes, HandlesOfWriters, Whole,
         AliveRuns, Alive
<1>4. SoloInv' /\ QuietWhenDown' /\ FirstBefore'
  BY <1>1
     DEF IInv, SoloInv, OneSwaps, FileAsLeft, FilesDone, Swaps, QuietWhenDown, Alive, FirstBefore
<1> QED
  BY <1>1, <1>3, <1>4 DEF IInv, OverlapForgoes, CopyKept, HasCopy, Whole
-----------------------------------------------------------------------------
(***************************************************************************)
(* The steps of clean-ups and attempts.                                    *)
(***************************************************************************)

\* A process that runs has a whole copy of its executable, wherever that is.
LEMMA RunningHasCopy ==
    ASSUME TypeOK', Alive', AliveRuns', ImagesWhole'
    PROVE  HasCopy(Exe)'
  BY DEF TypeOK, AliveRuns, ImagesWhole, Images, HasCopy

LEMMA AttemptsAlive ==
    ASSUME IInv, NEW a \in Attempts, pc[a] # "idle"
    PROVE  Alive
  BY DEF IInv, QuietWhenDown

\* What RemoveOld may do to the parts of the invariant that see a .old file.
LEMMA RemovesOld ==
    ASSUME IInv, TypeOK', NEW f \in Files, RemoveOld(f), UNCHANGED <<disk, image, n>>,
           \A b \in Attempts : pc'[b] = "fill" <=> pc[b] = "fill"
    PROVE  /\ ImagesWhole' /\ ImagesUnwritten' /\ HandlesOfWriters' /\ CopyKept'
           /\ \A b \in Attempts : at[b] = "disk" => at'[b] = "disk"
           /\ forgone \subseteq forgone' /\ forgone' \subseteq Files
<1>1. \/ UNCHANGED <<old, at, forgone>>
      \/ /\ ~InUse(f, "old")
         /\ old' = [old EXCEPT ![f] = Absent]
         /\ Follow(f, "old", "gone")
         /\ forgone' = IF Whole(old[f]) /\ ~Whole(disk[f]) THEN forgone \cup {f} ELSE forgone
  BY DEF RemoveOld
<1>2. /\ old \in [Files -> Contents] /\ at \in [Attempts -> {"disk", "old", "gone"}]
      /\ forgone' \subseteq Files
  BY DEF IInv, TypeOK
<1>3. /\ forgone \subseteq forgone'
      /\ \A b \in Attempts : at[b] = "disk" => at'[b] = "disk"
      /\ \A b \in Attempts : at'[b] = at[b] \/ (at'[b] = "gone" /\ pc[b] = "fill")
  <2>1. CASE UNCHANGED <<old, at, forgone>>
    BY <2>1
  <2>2. CASE Follow(f, "old", "gone")
    <3>1. \A b \in Attempts :
             at'[b] = at[b] \/ (at'[b] = "gone" /\ pc[b] = "fill" /\ at[b] = "old")
      BY <2>2 DEF Follow
    <3> QED
      BY <1>1, <3>1
  <2> QED
    BY <1>1, <2>1, <2>2
<1>4. ImagesWhole'
  <2>1. ImagesWhole
    BY DEF IInv
  <2> SUFFICES ASSUME NEW g \in Images
               PROVE  (image[g] = "disk" => Whole(disk[g])) /\ (image[g] = "old" => Whole(old'[g]))
    BY DEF ImagesWhole, Whole
  <2>2. g \in Files
    BY PackageAssumption DEF Images
  <2>3. image[g] = "old" => old'[g] = old[g]
    <3>1. CASE UNCHANGED <<old, at, forgone>>
      BY <3>1
    <3>2. CASE ~InUse(f, "old") /\ old' = [old EXCEPT ![f] = Absent]
      BY <1>2, <2>2, <3>2 DEF InUse, Images
    <3> QED
      BY <1>1, <3>1, <3>2
  <2> QED
    BY <2>1, <2>3 DEF ImagesWhole
<1>5. HandlesOfWriters'
  BY <1>3 DEF IInv, HandlesOfWriters
<1>6. ImagesUnwritten'
  <2>1. \A b \in Attempts : \A g, slot :
            slot # "gone" /\ Writes(b, g, slot)' => Writes(b, g, slot)
    BY <1>3 DEF Writes
  <2> QED
    BY <2>1 DEF IInv, ImagesUnwritten
<1>7. CopyKept'
  BY <1>1, <1>2 DEF IInv, CopyKept, HasCopy, Whole
<1> QED
  BY <1>2, <1>3, <1>4, <1>5, <1>6, <1>7

LEMMA SweepsFile ==
    ASSUME IInv, TypeOK', NEW f \in Files, SweepFile(f)
    PROVE  IInv'
<1>1. RemoveOld(f) /\ UNCHANGED <<disk, image, proc, pc, rel, n, overlap>>
  BY DEF SweepFile
<1>6. Alive
  BY DEF SweepFile, IInv, QuietWhenDown
<1>2. /\ ImagesWhole' /\ ImagesUnwritten' /\ HandlesOfWriters' /\ CopyKept'
      /\ \A b \in Attempts : at[b] = "disk" => at'[b] = "disk"
      /\ forgone \subseteq forgone' /\ forgone' \subseteq Files
  BY <1>1, RemovesOld
<1>3. AliveRuns' /\ QuietWhenDown' /\ OverlapForgoes'
  BY <1>1, <1>2, <1>6 DEF IInv, AliveRuns, Alive, QuietWhenDown, OverlapForgoes
<1>4. SoloInv' /\ FirstBefore'
  BY <1>1, <1>2 DEF IInv, SoloInv, OneSwaps, FileAsLeft, FilesDone, Swaps, FirstBefore
<1>5. HasCopy(Exe)'
  BY <1>1, <1>2, <1>3, <1>6, RunningHasCopy DEF Alive
<1> QED
  BY <1>2, <1>3, <1>4, <1>5 DEF IInv

LEMMA EndsAttempt ==
    ASSUME IInv, TypeOK', NEW a \in Attempts, pc[a] # "idle", Ends(a)
    PROVE  IInv'
<1>1. /\ UNCHANGED <<disk, old, forgone, image, overlap, sweep>>
      /\ \A b \in Attempts \ {a} :
            pc'[b] = pc[b] /\ rel'[b] = rel[b] /\ n'[b] = n[b] /\ at'[b] = at[b]
      /\ pc'[a] = "idle" /\ at'[a] = "disk" /\ n'[a] = 1
  BY DEF IInv, TypeOK, Ends, Goes, diskVars
<1>2. Alive /\ Alive'
  BY AttemptsAlive DEF Ends, Alive
<1>3. ImagesWhole' /\ HandlesOfWriters' /\ AliveRuns' /\ QuietWhenDown'
  BY <1>1, <1>2
     DEF IInv, ImagesWhole, Whole, HandlesOfWriters, AliveRuns, QuietWhenDown
<1>4. ImagesUnwritten'
  BY <1>1 DEF IInv, ImagesUnwritten, Writes
<1>5. \A b \in Attempts : Swaps(b)' => b # a /\ Swaps(b)
  BY <1>1 DEF Swaps
<1>6. SoloInv'
  BY <1>1, <1>5 DEF IInv, SoloInv, OneSwaps, FileAsLeft, FilesDone
<1>7. FirstBefore'
  BY <1>1, <1>5 DEF IInv, FirstBefore, Swaps
<1> QED
  BY <1>1, <1>3, <1>4, <1>6, <1>7 DEF IInv, OverlapForgoes, CopyKept, HasCopy, Whole

LEMMA Fetches ==
    ASSUME IInv, TypeOK', NEW a \in Attempts, Fetch(a)
    PROVE  IInv'
<1>1. /\ UNCHANGED <<disk, old, image, proc, sweep, rel, n, at>>
      /\ \A b \in Attempts \ {a} : pc'[b] = pc[b]
      /\ pc[a] = "fetch" /\ pc'[a] = "file"
      /\ overlap' = (overlap \/ \E b \in Attempts : Swaps(b))
      /\ forgone' = IF overlap' THEN Files ELSE forgone
  BY DEF IInv, TypeOK, Fetch, Goes, procVars, Swaps
<1>2. Alive /\ Alive'
  BY <1>1, AttemptsAlive DEF Alive
<1>3. ImagesWhole' /\ HandlesOfWriters' /\ AliveRuns' /\ QuietWhenDown'
  BY <1>1, <1>2
     DEF IInv, ImagesWhole, Whole, HandlesOfWriters, AliveRuns, QuietWhenDown
<1>4. ImagesUnwritten'
  BY <1>1 DEF IInv, ImagesUnwritten, Writes
<1>5. SoloInv'
  <2> SUFFICES ASSUME ~overlap' PROVE OneSwaps' /\ FileAsLeft' /\ FilesDone'
    BY DEF SoloInv
  <2>1. ~overlap /\ \A b \in Attempts : ~Swaps(b)
    BY <1>1
  <2>2. \A b \in Attempts : Swaps(b)' => b = a
    BY <1>1, <2>1 DEF Swaps
  <2>3. n[a] = 1
    BY <1>1 DEF IInv, FirstBefore, Swaps
  <2> QED
    BY <1>1, <2>2, <2>3 DEF OneSwaps, FileAsLeft, FilesDone, Swaps
<1>6. OverlapForgoes' /\ CopyKept' /\ HasCopy(Exe)'
  BY <1>1, PackageAssumption DEF IInv, OverlapForgoes, CopyKept, HasCopy, Whole
<1>7. FirstBefore'
  BY <1>1 DEF IInv, FirstBefore, Swaps
<1> QED
  BY <1>3, <1>4, <1>5, <1>6, <1>7 DEF IInv

LEMMA TakesFile ==
    ASSUME IInv, TypeOK', NEW a \in Attempts, TakeFile(a)
    PROVE  IInv'
<1> DEFINE f == ZipOrder[n[a]]
<1>1. f \in Files
  BY OrderFacts DEF IInv, TypeOK
<1>2. /\ UNCHANGED <<disk, image, proc, sweep, rel, n, overlap>>
      /\ \A b \in Attempts \ {a} : pc'[b] = pc[b]
      /\ pc[a] = "file" /\ pc'[a] \in {"rename", "create"}
      /\ pc'[a] = "create" => disk[f] = Absent
  BY DEF IInv, TypeOK, TakeFile, Goes, procVars
<1>3. Alive /\ Alive'
  BY <1>2, AttemptsAlive DEF Alive
<1>4. \A b \in Attempts : (pc'[b] = "fill" <=> pc[b] = "fill") /\ (Swaps(b)' <=> Swaps(b))
  BY <1>2 DEF Swaps
<1>5. /\ ImagesWhole' /\ ImagesUnwritten' /\ HandlesOfWriters' /\ CopyKept'
      /\ \A b \in Attempts : at[b] = "disk" => at'[b] = "disk"
      /\ forgone \subseteq forgone' /\ forgone' \subseteq Files
  <2>1. CASE RemoveOld(f)
    BY <1>1, <1>2, <1>4, <2>1, RemovesOld
  <2>2. CASE UNCHANGED <<old, at, forgone>>
    BY <1>2, <1>4, <2>2
       DEF IInv, TypeOK, ImagesWhole, Whole, ImagesUnwritten, Writes, HandlesOfWriters, CopyKept, HasCopy
  <2> QED
    BY <2>1, <2>2 DEF TakeFile
<1>6. SoloInv'
  BY <1>2, <1>4, <1>5 DEF IInv, SoloInv, OneSwaps, FileAsLeft, FilesDone
<1>7. AliveRuns' /\ QuietWhenDown' /\ OverlapForgoes' /\ FirstBefore'
  BY <1>2, <1>3, <1>4, <1>5 DEF IInv, AliveRuns, QuietWhenDown, OverlapForgoes, FirstBefore
<1> QED
  BY <1>3, <1>5, <1>6, <1>7, RunningHasCopy DEF IInv

LEMMA NoCopyInCut == ~Whole(Cut) /\ ~Whole(Absent)
  BY NoneAssumption DEF Whole, Releases

\* No file comes twice in the package.
LEMMA EarlierFilesDiffer ==
    ASSUME TypeOK, NEW a \in Attempts, NEW i \in 1 .. Len(ZipOrder), i < n[a]
    PROVE  ZipOrder[i] # ZipOrder[n[a]]
<1>1. n[a] \in 1 .. Len(ZipOrder) /\ i # n[a]
  BY OrderFacts DEF TypeOK
<1> QED
  BY <1>1, PackageAssumption

LEMMA RenamesFile ==
    ASSUME IInv, TypeOK', NEW a \in Attempts, RenameToOld(a)
    PROVE  IInv'
<1> DEFINE f == ZipOrder[n[a]]
<1>1. f \in Files
  BY OrderFacts DEF IInv, TypeOK
<1>2. /\ UNCHANGED <<proc, sweep, rel, n, overlap>>
      /\ \A b \in Attempts \ {a} : pc'[b] = pc[b]
      /\ pc[a] = "rename" /\ pc'[a] = "create"
      /\ \A g \in Files : g # f => disk'[g] = disk[g] /\ old'[g] = old[g]
      /\ disk'[f] = Absent /\ old'[f] = disk[f]
      /\ forgone' = IF Whole(old[f]) /\ ~Whole(disk[f]) THEN forgone \cup {f} ELSE forgone
  BY <1>1 DEF IInv, TypeOK, RenameToOld, Goes, procVars
<1>3. /\ \A g \in Images : g # f => image'[g] = image[g]
      /\ f \in Images => \/ image[f] = "disk" /\ image'[f] = "old"
                         \/ image[f] = "none" /\ image'[f] = "none"
  BY DEF RenameToOld, CanRename, InUse, IInv, TypeOK, Images
<1>4. \A b \in Attempts :
         /\ pc[b] # "fill" => at'[b] = at[b]
         /\ ZipOrder[n[b]] # f => at'[b] = at[b]
         /\ ZipOrder[n[b]] = f /\ at'[b] = "old" => at[b] = "disk" \/ pc[b] # "fill"
         /\ ZipOrder[n[b]] = f /\ at'[b] = "disk" => pc[b] # "fill"
  <2>1. \A b \in Attempts : at'[b] =
            IF pc[b] # "fill" \/ ZipOrder[n[b]] # f \/ at[b] = "gone" THEN at[b]
            ELSE IF at[b] = "disk" THEN "old" ELSE "gone"
    BY DEF RenameToOld
  <2> HIDE DEF f
  <2> QED
    BY <2>1
<1>5. Alive /\ Alive'
  BY <1>2, AttemptsAlive DEF Alive
<1>6. ImagesWhole'
  <2> SUFFICES ASSUME NEW g \in Images
               PROVE  /\ image'[g] = "disk" => Whole(disk'[g])
                      /\ image'[g] = "old" => Whole(old'[g])
    BY DEF ImagesWhole, Whole
  <2>1. g \in Files /\ (image[g] = "disk" => Whole(disk[g])) /\ (image[g] = "old" => Whole(old[g]))
    BY PackageAssumption DEF IInv, ImagesWhole, Images
  <2>2. CASE g # f
    BY <1>2, <1>3, <2>1, <2>2
  <2>3. CASE g = f
    BY <1>2, <1>3, <2>1, <2>3
  <2> QED
    BY <2>2, <2>3
<1>7. ImagesUnwritten'
  <2> SUFFICES ASSUME NEW g \in Images, NEW b \in Attempts, NEW slot \in {"disk", "old"},
                      image'[g] = slot, Writes(b, g, slot)'
               PROVE  FALSE
    BY DEF ImagesUnwritten
  <2>1. b # a /\ pc[b] = "fill" /\ ZipOrder[n[b]] = g
    BY <1>2 DEF Writes
  <2>2. CASE g # f
    BY <1>3, <1>4, <2>1, <2>2 DEF IInv, ImagesUnwritten, Writes
  <2>3. CASE g = f
    BY <1>3, <1>4, <2>1, <2>3 DEF IInv, ImagesUnwritten, Writes
  <2> QED
    BY <2>2, <2>3
<1>8. HandlesOfWriters' /\ FirstBefore'
  BY <1>2, <1>4 DEF IInv, HandlesOfWriters, FirstBefore, Swaps
<1>9. AliveRuns' /\ QuietWhenDown' /\ OverlapForgoes'
  BY <1>1, <1>2, <1>3, <1>5 DEF IInv, TypeOK, AliveRuns, QuietWhenDown, OverlapForgoes, Images
<1>10. CopyKept'
  BY <1>1, <1>2 DEF IInv, CopyKept, HasCopy, Whole
<1>11. SoloInv'
  <2> SUFFICES ASSUME ~overlap' PROVE OneSwaps' /\ FileAsLeft' /\ FilesDone'
    BY DEF SoloInv
  <2>1. OneSwaps /\ FileAsLeft /\ FilesDone
    BY <1>2 DEF IInv, SoloInv
  <2>2. \A b \in Attempts : Swaps(b) => b = a
    BY <1>2, <2>1 DEF OneSwaps, Swaps
  <2>3. \A b \in Attempts : Swaps(b)' => b = a
    BY <1>2, <2>2 DEF Swaps
  <2>4. \A i \in 1 .. Len(ZipOrder) : i < n[a] => disk'[ZipOrder[i]] = disk[ZipOrder[i]]
    BY <1>2, EarlierFilesDiffer, OrderFacts DEF IInv
  <2> QED
    BY <1>2, <2>1, <2>3, <2>4 DEF OneSwaps, FileAsLeft, FilesDone, Swaps
<1> QED
  BY <1>5, <1>6, <1>7, <1>8, <1>9, <1>10, <1>11, RunningHasCopy DEF IInv

LEMMA CreatesFile ==
    ASSUME IInv, TypeOK', NEW a \in Attempts, Create(a)
    PROVE  IInv'
<1> DEFINE f == ZipOrder[n[a]]
<1>1. f \in Files
  BY OrderFacts DEF IInv, TypeOK
<1>2. /\ UNCHANGED <<old, forgone, image, proc, sweep, rel, n, at, overlap>>
      /\ \A b \in Attempts \ {a} : pc'[b] = pc[b]
      /\ pc[a] = "create" /\ pc'[a] = "fill" /\ at[a] = "disk"
      /\ \A g \in Files : g # f => disk'[g] = disk[g]
      /\ disk'[f] = Cut /\ ~InUse(f, "disk")
  BY <1>1 DEF IInv, TypeOK, HandlesOfWriters, Create, Goes, procVars
<1>3. Alive /\ Alive'
  BY <1>2, AttemptsAlive DEF Alive
<1>4. ImagesWhole'
  BY <1>1, <1>2, PackageAssumption DEF IInv, ImagesWhole, Images, Whole, InUse
<1>5. ImagesUnwritten'
  <2> SUFFICES ASSUME NEW g \in Images, NEW b \in Attempts, NEW slot \in {"disk", "old"},
                      image'[g] = slot, Writes(b, g, slot)'
               PROVE  FALSE
    BY DEF ImagesUnwritten
  <2>1. CASE b = a
    BY <1>2, <2>1 DEF Writes, InUse, Images
  <2>2. CASE b # a
    BY <1>2, <2>2 DEF IInv, ImagesUnwritten, Writes
  <2> QED
    BY <2>1, <2>2
<1>6. HandlesOfWriters' /\ FirstBefore' /\ AliveRuns' /\ QuietWhenDown' /\ OverlapForgoes'
  BY <1>2, <1>3
     DEF IInv, HandlesOfWriters, FirstBefore, Swaps, AliveRuns, QuietWhenDown, OverlapForgoes
<1>7. CopyKept'
  <2>1. CASE overlap
    BY <1>2, <2>1 DEF IInv, OverlapForgoes, CopyKept
  <2>2. CASE ~overlap
    <3>1. disk[f] = Absent
      BY <1>2, <2>2 DEF IInv, SoloInv, FileAsLeft
    <3> QED
      BY <1>1, <1>2, <3>1, NoCopyInCut DEF IInv, CopyKept, HasCopy, Whole
  <2> QED
    BY <2>1, <2>2
<1>8. SoloInv'
  <2> SUFFICES ASSUME ~overlap' PROVE OneSwaps' /\ FileAsLeft' /\ FilesDone'
    BY DEF SoloInv
  <2>1. OneSwaps /\ FileAsLeft /\ FilesDone
    BY <1>2 DEF IInv, SoloInv
  <2>2. \A b \in Attempts : Swaps(b) => b = a
    BY <1>2, <2>1 DEF OneSwaps, Swaps
  <2>3. \A b \in Attempts : Swaps(b)' => b = a
    BY <1>2, <2>2 DEF Swaps
  <2>4. \A i \in 1 .. Len(ZipOrder) : i < n[a] => disk'[ZipOrder[i]] = disk[ZipOrder[i]]
    BY <1>2, EarlierFilesDiffer, OrderFacts DEF IInv
  <2> QED
    BY <1>2, <2>1, <2>3, <2>4 DEF OneSwaps, FileAsLeft, FilesDone, Swaps
<1> QED
  BY <1>3, <1>4, <1>5, <1>6, <1>7, <1>8, RunningHasCopy DEF IInv

LEMMA FillsFile ==
    ASSUME IInv, TypeOK', NEW a \in Attempts, Fill(a)
    PROVE  IInv'
<1> DEFINE f == ZipOrder[n[a]]
<1>1. f \in Files /\ n[a] \in 1 .. Len(ZipOrder)
  BY OrderFacts DEF IInv, TypeOK
<1>2. /\ UNCHANGED <<forgone, image, proc, sweep, rel, overlap>>
      /\ \A b \in Attempts \ {a} : pc'[b] = pc[b] /\ n'[b] = n[b] /\ at'[b] = at[b]
      /\ pc[a] = "fill" /\ at'[a] = "disk"
      /\ \/ n[a] < Len(ZipOrder) /\ n'[a] = n[a] + 1 /\ pc'[a] = "file"
         \/ n[a] = Len(ZipOrder) /\ n'[a] = n[a] /\ pc'[a] = "restart"
  BY DEF IInv, TypeOK, Fill, Goes, procVars
<1>3. /\ \A g \in Files : g # f => disk'[g] = disk[g] /\ old'[g] = old[g]
      /\ disk'[f] # disk[f] => at[a] = "disk"
      /\ old'[f] # old[f] => at[a] = "old"
      /\ at[a] = "disk" => disk'[f] \in Written(a, f, disk[f])
  <2>1. /\ disk \in [Files -> Contents] /\ old \in [Files -> Contents]
        /\ \/ /\ at[a] = "disk" /\ UNCHANGED old
              /\ \E c \in Written(a, f, disk[f]) : disk' = [disk EXCEPT ![f] = c]
           \/ /\ at[a] = "old" /\ UNCHANGED disk
              /\ \E c \in Written(a, f, old[f]) : old' = [old EXCEPT ![f] = c]
           \/ at[a] = "gone" /\ UNCHANGED <<disk, old>>
    BY DEF IInv, TypeOK, Fill
  <2> HIDE DEF f
  <2> QED
    BY <1>1, <2>1
<1>4. Alive /\ Alive'
  BY <1>2, AttemptsAlive DEF Alive
<1>5. ImagesWhole'
  <2> SUFFICES ASSUME NEW g \in Images
               PROVE  /\ image'[g] = "disk" => Whole(disk'[g])
                      /\ image'[g] = "old" => Whole(old'[g])
    BY DEF ImagesWhole, Whole
  <2>1. g \in Files /\ (image[g] = "disk" => Whole(disk[g])) /\ (image[g] = "old" => Whole(old[g]))
    BY PackageAssumption DEF IInv, ImagesWhole, Images
  <2>2. g = f => image[g] # at[a] \/ at[a] = "gone"
    BY <1>2 DEF IInv, TypeOK, ImagesUnwritten, Writes
  <2> QED
    BY <1>2, <1>3, <2>1, <2>2
<1>6. ImagesUnwritten' /\ HandlesOfWriters'
  BY <1>2 DEF IInv, ImagesUnwritten, Writes, HandlesOfWriters
<1>7. \A b \in Attempts : Swaps(b)' <=> Swaps(b)
  BY <1>2 DEF Swaps
<1>8. FirstBefore' /\ AliveRuns' /\ QuietWhenDown' /\ OverlapForgoes'
  BY <1>2, <1>4, <1>7
     DEF IInv, FirstBefore, Swaps, AliveRuns, QuietWhenDown, OverlapForgoes
<1>9. ASSUME ~overlap
      PROVE  /\ \A b \in Attempts : Swaps(b) => b = a
             /\ at[a] = "disk" /\ disk[f] = Cut /\ disk'[f] = rel[a]
  <2>1. OneSwaps /\ FileAsLeft
    BY <1>9 DEF IInv, SoloInv
  <2>2. \A b \in Attempts : Swaps(b) => b = a
    BY <1>2, <2>1 DEF OneSwaps, Swaps
  <2>3. \A b \in Attempts \ {a} : pc[b] # "fill"
    BY <2>2 DEF Swaps
  <2>4. at[a] = "disk" /\ disk[f] = Cut
    BY <1>2, <2>1 DEF FileAsLeft
  <2>5. Written(a, f, disk[f]) = {rel[a]}
    BY <2>3, <2>4 DEF Written
  <2> QED
    BY <1>3, <2>2, <2>4, <2>5
<1>10. CopyKept'
  <2>1. CASE overlap
    BY <1>2, <2>1 DEF IInv, OverlapForgoes, CopyKept
  <2>2. CASE ~overlap
    BY <1>1, <1>2, <1>3, <1>9, <2>2, NoCopyInCut DEF IInv, CopyKept, HasCopy, Whole
  <2> QED
    BY <2>1, <2>2
<1>11. SoloInv'
  <2> SUFFICES ASSUME ~overlap' PROVE OneSwaps' /\ FileAsLeft' /\ FilesDone'
    BY DEF SoloInv
  <2>1. FilesDone /\ ~overlap
    BY <1>2 DEF IInv, SoloInv
  <2>2. /\ \A b \in Attempts : Swaps(b)' => b = a
        /\ disk'[f] = rel[a]
    BY <1>7, <1>9, <2>1
  <2>3. \A i \in 1 .. Len(ZipOrder) : i <= n[a] => disk'[ZipOrder[i]] = rel[a]
    <3> SUFFICES ASSUME NEW i \in 1 .. Len(ZipOrder), i <= n[a]
                 PROVE  disk'[ZipOrder[i]] = rel[a]
      OBVIOUS
    <3>1. CASE i = n[a]
      BY <2>2, <3>1
    <3>2. CASE i < n[a]
      <4>1. disk'[ZipOrder[i]] = disk[ZipOrder[i]]
        BY <1>3, <3>2, EarlierFilesDiffer, OrderFacts DEF IInv
      <4>2. disk[ZipOrder[i]] = rel[a]
        BY <1>2, <2>1, <3>2 DEF FilesDone, Swaps
      <4> QED
        BY <4>1, <4>2
    <3> QED
      BY <1>1, <3>1, <3>2, OrderFacts
  <2>4. pc'[a] = "restart" => \A g \in Files : disk'[g] = rel[a]
    <3> SUFFICES ASSUME n[a] = Len(ZipOrder), NEW g \in Files PROVE disk'[g] = rel[a]
      BY <1>2
    <3>1. PICK i \in 1 .. Len(ZipOrder) : ZipOrder[i] = g
      BY PackageAssumption
    <3> QED
      BY <2>3, <3>1, OrderFacts
  <2>5. \A i \in 1 .. Len(ZipOrder) : i < n'[a] => disk'[ZipOrder[i]] = rel'[a]
    BY <1>1, <1>2, <2>3, OrderFacts
  <2>6. OneSwaps' /\ FileAsLeft'
    BY <1>2, <2>2 DEF OneSwaps, FileAsLeft, Swaps
  <2>7. FilesDone'
    BY <1>2, <2>2, <2>4, <2>5 DEF FilesDone
  <2> QED
    BY <2>6, <2>7
<1> QED
  BY <1>4, <1>5, <1>6, <1>8, <1>10, <1>11, RunningHasCopy DEF IInv
-----------------------------------------------------------------------------
LEMMA InvProcess ==
    ASSUME IInv, TypeOK', Process
    PROVE  IInv'
<1>1. CASE Start
  BY <1>1, ProcessStarts DEF Start, Alive
<1>2. CASE HelperStart
  <2>1. CASE Runs
    BY <1>2, <2>1, ProcessStarts DEF HelperStart, Alive
  <2>2. CASE ~Runs
    BY <1>2, <2>2, KeepsCore DEF HelperStart, Alive, core
  <2> QED
    BY <2>1, <2>2
<1>3. CASE Killed
  <2>1. ~Alive' /\ Idle /\ UNCHANGED diskVars
    BY <1>3 DEF Killed, Alive
  <2> QED
    BY <1>3, <2>1, ProcessEnds DEF Killed
<1>4. CASE Swept \/ LateSweep \/ StartupCheck \/ PeriodicCheck \/ ApiCheckUpdate
  <2>1. /\ UNCHANGED core /\ (Alive' <=> Alive) /\ (~Alive => UNCHANGED sweep)
    BY <1>4 DEF Swept, LateSweep, StartupCheck, PeriodicCheck, ApiCheckUpdate, Alive, core, Serves
  <2> QED
    BY <2>1, KeepsCore
<1>5. CASE \E f \in Files : SweepFile(f)
  BY <1>5, SweepsFile
<1>6. CASE StartupInstall \/ PeriodicInstall
  <2>1. Loop \in Attempts /\ Begin(Loop, latest) /\ UNCHANGED <<diskVars, image>> /\ Alive /\ Alive'
    BY <1>6 DEF StartupInstall, PeriodicInstall, Alive, Attempts
  <2> QED
    BY <2>1, BeginsAlone
<1>7. CASE \E a \in Requests : ApiUpdate(a)
  <2>1. PICK a \in Requests : ApiUpdate(a)
    BY <1>7
  <2>2. /\ a \in Attempts /\ (Begin(a, known) \/ Begin(a, latest))
        /\ UNCHANGED <<diskVars, image>> /\ Alive /\ Alive'
    BY <2>1 DEF ApiUpdate, Serves, Alive, Attempts, procVars
  <2> QED
    BY <2>2, BeginsAlone
<1> QED
  BY <1>1, <1>2, <1>3, <1>4, <1>5, <1>6, <1>7 DEF Process

LEMMA InvInstalls ==
    ASSUME IInv, TypeOK', NEW a \in Attempts, Installs(a) \/ Fails(a)
    PROVE  IInv'
<1>1. CASE Refused(a) \/ Fails(a)
  <2>1. pc[a] # "idle" /\ Ends(a)
    BY <1>1 DEF Refused, Fails
  <2> QED
    BY <2>1, EndsAttempt
<1>2. CASE Restart(a)
  <2>1. ~Alive' /\ Idle /\ UNCHANGED diskVars /\ image' = [image EXCEPT ![Exe] = "none"]
    BY <1>2 DEF Restart, Alive
  <2> QED
    BY <2>1, ProcessEnds
<1> QED
  BY <1>1, <1>2, Fetches, TakesFile, RenamesFile, CreatesFile, FillsFile DEF Installs

LEMMA InvStep ==
    ASSUME IInv, [Next]_vars
    PROVE  IInv'
<1>1. TypeOK'
  BY TypeStep DEF IInv
<1>2. CASE Publish \/ UNCHANGED vars
  <2>1. /\ UNCHANGED core /\ (Alive' <=> Alive) /\ UNCHANGED sweep
    BY <1>2 DEF Publish, vars, procVars, Alive, core
  <2> QED
    BY <1>1, <2>1, KeepsCore
<1>3. CASE GuiOpens \/ GuiCloses
  BY <1>1, <1>3, WindowOpensOrCloses
<1> QED
  BY <1>1, <1>2, <1>3, InvProcess, InvInstalls DEF Next

LEMMA Invariant == Spec => []IInv
  BY InvInit, InvStep, PTL DEF Spec

(***************************************************************************)
(* A whole copy of the executable stays in the folder, for every package,  *)
(* any number of concurrent updates and any number of kills.               *)
(***************************************************************************)
THEOREM AlwaysRecoverable == Spec => []ExeRecoverable
<1>1. IInv => ExeRecoverable
  BY DEF IInv, ExeRecoverable
<1> QED
  BY <1>1, Invariant, PTL

(***************************************************************************)
(* Only a removed .old, or a second attempt, costs a file its last whole   *)
(* copy.                                                                   *)
(***************************************************************************)
THEOREM CopiesKept == Spec => []CopyKept
<1>1. IInv => CopyKept
  BY DEF IInv
<1> QED
  BY <1>1, Invariant, PTL

(***************************************************************************)
(* A process that restarts itself leaves all files of its new release,     *)
(* unless two attempts have met.                                           *)
(***************************************************************************)
THEOREM WholeRestart == Spec => RestartsWhole
<1>1. ASSUME IInv, NEW a \in Attempts, Restart(a), ~overlap
      PROVE  \A f \in Files : disk'[f] = rel[a]
  <2>1. pc[a] = "restart" /\ UNCHANGED disk
    BY <1>1 DEF Restart, diskVars
  <2> QED
    BY <1>1, <2>1 DEF IInv, SoloInv, FilesDone, Swaps
<1>2. IInv /\ [Next]_vars =>
        [\A a \in Attempts : Restart(a) /\ ~overlap => \A f \in Files : disk'[f] = rel[a]]_vars
  BY <1>1
<1> QED
  BY <1>2, Invariant, PTL DEF Spec, RestartsWhole
=============================================================================
