--------------------------- MODULE GatewayProofs ---------------------------
(***************************************************************************)
(* Proofs about GatewaySupervisor, for every set of settings and without   *)
(* any use of the bounds on handlers and commands: the types, that there   *)
(* is one tunnel, that no tunnel keeps outdated settings, and that a Stop  *)
(* is final.                                                               *)
(*                                                                         *)
(* None of the last three is inductive.  IInv adds what the supervisor has *)
(* done by each of its steps: the old tunnel is gone until a new one is    *)
(* published, what it is about to start with is settled, and the command   *)
(* sent last is the last of the queue or, once the queue is empty, the one *)
(* it works on.                                                            *)
(***************************************************************************)
EXTENDS GatewaySupervisor, SequenceTheorems, TLAPS

\* The supervisor stops the old tunnel before it sleeps, starts and publishes.
OldIsGone == supPc \in {"sleep", "start", "publish"} => handle = None

\* An engine that is not published yet exists only until it is.
StartedAtPublish == started # None => supPc = "publish"

SettingsRead == supPc = "start" => cfgNow \in Pairings

\* Settings that changed after they were read: a restart is coming.
StaleStartIsRestarted == supPc = "start" /\ cfgNow # cfg => RestartComing

\* The command sent last is worked off last.
LastIsLast ==
    /\ queue # <<>> => queue[Len(queue)] = last
    /\ queue = <<>> /\ supPc # "recv" => supCmd = last

StopEnds == supPc \in {"sleep", "start", "publish"} => supCmd # "Stop"

IInv ==
    /\ TypeOK
    /\ OldIsGone
    /\ StartedAtPublish
    /\ SettingsRead
    /\ StaleTunnelIsRestarted
    /\ StaleStartIsRestarted
    /\ LastIsLast
    /\ StopEnds
    /\ StopIsFinal
-----------------------------------------------------------------------------
\* Parts of the state that only some actions change.
untouched == <<handle, queue, last, supPc, supCmd, cfgNow, started>>

(***************************************************************************)
(* A restart that is coming survives what handlers do: sending a command   *)
(* turns the intention into an entry of the queue.                         *)
(***************************************************************************)
LEMMA SendKeepsRestart ==
    ASSUME TypeOK, RestartComing, NEW cmd \in Commands, Send(cmd)
    PROVE  RestartComing'
<1> USE DEF TypeOK, Send, supVars, updVars
<1>1. CASE cmd = "Restart"
  <2>1. Len(queue') \in 1..Len(queue') /\ queue'[Len(queue')] = "Restart"
    BY <1>1
  <2> QED
    BY <2>1 DEF RestartComing
<1>2. CASE cmd # "Restart" /\ sending["Restart"] > 0
  <2>1. sending'["Restart"] = sending["Restart"]
    BY <1>2 DEF Commands
  <2> QED
    BY <1>2, <2>1 DEF RestartComing
<1>3. CASE \E i \in 1..Len(queue) : queue[i] = "Restart"
  <2>1. PICK i \in 1..Len(queue) : queue[i] = "Restart"
    BY <1>3
  <2>2. i \in 1..Len(queue') /\ queue'[i] = "Restart"
    BY <2>1
  <2> QED
    BY <2>2 DEF RestartComing
<1>4. CASE supPc = "take" /\ supCmd = "Restart"
  BY <1>4 DEF RestartComing
<1> QED
  BY <1>1, <1>2, <1>3, <1>4 DEF RestartComing

(***************************************************************************)
(* ... and the supervisor's receiving it: it is still queued, or it is the *)
(* command the supervisor works on.                                        *)
(***************************************************************************)
LEMMA RecvKeepsRestart ==
    ASSUME TypeOK, RestartComing, SupRecv
    PROVE  RestartComing'
<1> USE DEF TypeOK, SupRecv, apiVars, updVars
<1>1. CASE sending["Restart"] > 0
  BY <1>1 DEF RestartComing
<1>2. CASE \E i \in 1..Len(queue) : queue[i] = "Restart"
  <2>1. PICK i \in 1..Len(queue) : queue[i] = "Restart"
    BY <1>2
  <2>2. CASE i = 1
    <3>1. supPc' = "take" /\ supCmd' = "Restart"
      BY <2>1, <2>2
    <3> QED
      BY <3>1 DEF RestartComing
  <2>3. CASE i # 1
    <3>1. i - 1 \in 1..Len(queue') /\ queue'[i - 1] = "Restart"
      BY <2>1, <2>3
    <3> QED
      BY <3>1 DEF RestartComing
  <2> QED
    BY <2>2, <2>3
<1> QED
  BY <1>1, <1>2 DEF RestartComing

\* A handler's decision leaves a coming restart alone, and may be one.
LEMMA DecideKeepsRestart ==
    ASSUME TypeOK, NEW cmd \in Commands, Decide(cmd)
    PROVE  /\ sending' \in [Commands -> Nat]
           /\ RestartComing => RestartComing'
           /\ cmd = "Restart" => RestartComing'
  BY DEF TypeOK, Decide, Commands, supVars, RestartComing

\* Actions that touch neither engines, queue nor supervisor keep all that is
\* said of these.
LEMMA Untouched ==
    ASSUME IInv, UNCHANGED untouched, TypeOK',
           RestartComing => RestartComing',
           cfg' = cfg \/ RestartComing'
    PROVE  IInv'
  BY DEF IInv, untouched, OldIsGone, StartedAtPublish, SettingsRead,
         StaleTunnelIsRestarted, StaleStartIsRestarted, LastIsLast, StopEnds,
         StopIsFinal
\* Receiving the head of a queue keeps its last element, if there are others.
LEMMA LastOfTail ==
    ASSUME NEW S, NEW s \in Seq(S), s # <<>>
    PROVE  /\ Tail(s) = <<>> => s[Len(s)] = Head(s)
           /\ Tail(s) # <<>> => Tail(s)[Len(Tail(s))] = s[Len(s)]
<1>1. Len(Tail(s)) = Len(s) - 1 /\ Len(s) \in Nat /\ Len(s) # 0
  BY EmptySeq, HeadTailProperties
<1>2. Len(s) = 1 => s[Len(s)] = Head(s)
  OBVIOUS
<1>3. ASSUME Tail(s) = <<>> PROVE Len(s) = 1
  <2>1. Len(<<>>) = 0
    BY EmptySeq
  <2>2. Len(Tail(s)) = 0
    BY <1>3, <2>1, Zenon
  <2>3. ASSUME NEW n \in Nat, n - 1 = 0 PROVE n = 1
    BY <2>3
  <2>4. Len(s) \in Nat /\ Len(s) - 1 = 0
    BY <1>1, <2>2, Zenon
  <2> QED
    BY <2>3, <2>4, Zenon
<1>4. ASSUME Tail(s) # <<>> PROVE Tail(s)[Len(Tail(s))] = s[Len(s)]
  BY <1>1, <1>4
<1> QED
  BY <1>2, <1>3, <1>4, Zenon
-----------------------------------------------------------------------------
LEMMA InitIInv == Init => IInv
<1> SUFFICES ASSUME Init PROVE IInv
  OBVIOUS
<1>1. TypeOK
  <2>1. /\ queue \in Seq(Commands)
        /\ sending \in [Commands -> Nat]
    BY DEF Init
  <2>2. installs \in BOOLEAN
    BY DEF Init
  <2> QED
    BY <2>1, <2>2 DEF Init, TypeOK
<1> QED
  BY <1>1, NoneAssumption DEF Commands, Init, IInv, OldIsGone, StartedAtPublish, SettingsRead, Engines,
     StaleTunnelIsRestarted, StaleStartIsRestarted, LastIsLast, StopEnds, StopIsFinal

\* A process that starts or ends has fresh tasks, and at most the engine it
\* has just started with the settings it has just loaded.
LEMMA FreshIInv ==
    ASSUME TypeOK, FreshTasks, cfg' \in Pairings, disk' \in Pairings,
           process' \in {"runs", "down", "autoUpdated"},
           handle' \in {None, NewEngine(cfg')}
    PROVE  IInv'
<1>1. NewEngine(cfg') \in Engines /\ NewEngine(cfg').pairing = cfg'
  BY DEF NewEngine, Engines
<1>2. TypeOK'
  <2>1. /\ queue' \in Seq(Commands)
        /\ sending' \in [Commands -> Nat]
    BY DEF FreshTasks
  <2>2. installs' \in BOOLEAN
    BY DEF FreshTasks
  <2> QED
    BY <1>1, <2>1, <2>2 DEF TypeOK, FreshTasks
<1>3. StaleTunnelIsRestarted'
  BY <1>1 DEF StaleTunnelIsRestarted, FreshTasks
<1> QED
  BY <1>2, <1>3, NoneAssumption DEF Commands, FreshTasks, IInv, OldIsGone, StartedAtPublish, SettingsRead,
     StaleStartIsRestarted, LastIsLast, StopEnds, StopIsFinal

LEMMA NextIInv == IInv /\ [Next]_vars => IInv'
<1> SUFFICES ASSUME IInv, [Next]_vars PROVE IInv'
  OBVIOUS
<1> USE DEF IInv
<1>1. CASE Boot
  BY <1>1, FreshIInv DEF Boot, TypeOK
<1>2. CASE Ends
  BY <1>2, FreshIInv DEF Ends, Crash, UpdInstalled, UserInstalled, Dies, TypeOK
<1>3. CASE ApiStart \/ ApiStop \/ ApiRestart
  <2>1. PICK cmd \in Commands : Decide(cmd) /\ UNCHANGED <<cfg, disk>>
    BY <1>3 DEF ApiStart, ApiStop, ApiRestart, Commands
  <2>2. TypeOK'
    BY <2>1, DecideKeepsRestart DEF TypeOK, Decide, supVars, updVars
  <2> QED
    BY <2>1, <2>2, DecideKeepsRestart, Untouched DEF Decide, untouched, supVars
<1>4. ASSUME NEW pairing \in Pairings, ApiSetSettings(pairing) PROVE IInv'
  <2>1. Decide("Restart") /\ "Restart" \in Commands
    BY <1>4 DEF ApiSetSettings, Commands
  <2>2. TypeOK'
    BY <1>4, <2>1, DecideKeepsRestart DEF ApiSetSettings, TypeOK, Decide, supVars, updVars
  <2> QED
    BY <2>1, <2>2, DecideKeepsRestart, Untouched DEF Decide, untouched, supVars
<1>5. CASE ApiSaveOthers \/ UpdFound \/ UpdCheck \/ UpdFails \/ ApiUpdate
             \/ UserInstallFails \/ UNCHANGED vars
  <2>1. UNCHANGED <<cfg, sending, untouched>>
    BY <1>5 DEF ApiSaveOthers, UpdFound, UpdCheck, UpdFails, ApiUpdate, UserInstallFails,
       vars, apiVars, supVars, updVars, untouched
  <2>2. process' = process /\ disk' \in Pairings
    BY <1>5 DEF ApiSaveOthers, UpdFound, UpdCheck, UpdFails, ApiUpdate,
       UserInstallFails, vars, apiVars, TypeOK
  <2>3. updPc' \in {"sleep", "check", "install"}
    BY <1>5 DEF ApiSaveOthers, UpdFound, UpdCheck, UpdFails, ApiUpdate,
       UserInstallFails, vars, updVars, TypeOK
  <2>4. installs' \in BOOLEAN
    BY <1>5 DEF ApiSaveOthers, UpdFound, UpdCheck, UpdFails, ApiUpdate,
       UserInstallFails, vars, updVars, TypeOK
  <2>5. TypeOK'
    BY <2>1, <2>2, <2>3, <2>4 DEF untouched, TypeOK
  <2> QED
    BY <2>1, <2>5, Untouched DEF RestartComing, untouched
<1>6. ASSUME NEW cmd \in Commands, Send(cmd) PROVE IInv'
  <2> USE <1>6 DEF Send, supVars, updVars
  <2>1. TypeOK'
    BY DEF TypeOK, Commands
  <2>2. LastIsLast' /\ queue' # <<>>
    BY DEF LastIsLast, TypeOK
  <2>3. StaleTunnelIsRestarted' /\ StaleStartIsRestarted'
    BY SendKeepsRestart DEF StaleTunnelIsRestarted, StaleStartIsRestarted
  <2> QED
    BY <2>1, <2>2, <2>3 DEF OldIsGone, StartedAtPublish, SettingsRead, StopEnds, StopIsFinal
<1>7. CASE SupRecv
  <2> USE <1>7 DEF SupRecv, apiVars, updVars
  <2>1. TypeOK'
    BY DEF TypeOK
  <2>2. LastIsLast'
    <3>1. CASE queue' = <<>>
      <4>1. queue[Len(queue)] = Head(queue)
        BY <3>1, LastOfTail DEF TypeOK
      <4> QED
        BY <3>1, <4>1 DEF LastIsLast
    <3>2. CASE queue' # <<>>
      <4>1. queue'[Len(queue')] = queue[Len(queue)]
        BY <3>2, LastOfTail DEF TypeOK
      <4> QED
        BY <3>2, <4>1 DEF LastIsLast
    <3> QED
      BY <3>1, <3>2
  <2>3. StaleTunnelIsRestarted' /\ StaleStartIsRestarted'
    BY RecvKeepsRestart DEF StaleTunnelIsRestarted, StaleStartIsRestarted
  <2> QED
    BY <2>1, <2>2, <2>3 DEF OldIsGone, StartedAtPublish, SettingsRead, StopEnds, StopIsFinal
<1>8. CASE SupTake
  <2> USE <1>8 DEF SupTake, apiVars, updVars
  <2>1. TypeOK'
    BY DEF TypeOK
  <2>2. handle' = None /\ started' = None
    BY DEF StartedAtPublish
  <2> QED
    BY <2>1, <2>2 DEF OldIsGone, StartedAtPublish, SettingsRead, StaleTunnelIsRestarted,
       StaleStartIsRestarted, LastIsLast, StopEnds, StopIsFinal
<1>9. CASE SupReadCfg
  <2> USE <1>9 DEF SupReadCfg, apiVars, updVars
  <2>1. TypeOK'
    BY DEF TypeOK
  <2>2. handle' = None /\ started' = None
    BY DEF OldIsGone, StartedAtPublish
  <2> QED
    BY <2>1, <2>2 DEF TypeOK, OldIsGone, StartedAtPublish, SettingsRead,
       StaleTunnelIsRestarted, StaleStartIsRestarted, LastIsLast, StopEnds, StopIsFinal
<1>10. CASE SupStart
  <2> USE <1>10 DEF SupStart, apiVars, updVars
  <2>1. started' \in Engines /\ started'.pairing = cfgNow /\ handle' = None
    BY DEF NewEngine, Engines, SettingsRead, OldIsGone
  <2>2. TypeOK'
    BY <2>1 DEF TypeOK
  <2>3. StaleTunnelIsRestarted'
    BY <2>1 DEF StaleTunnelIsRestarted, StaleStartIsRestarted, RestartComing
  <2> QED
    BY <2>1, <2>2, <2>3 DEF OldIsGone, StartedAtPublish, SettingsRead,
       StaleStartIsRestarted, LastIsLast, StopEnds, StopIsFinal
<1>11. CASE SupStartFails
  <2> USE <1>11 DEF SupStartFails, apiVars, updVars
  <2>1. handle' = None /\ started' = None
    BY DEF OldIsGone, StartedAtPublish
  <2>2. TypeOK'
    BY DEF TypeOK
  <2> QED
    BY <2>1, <2>2 DEF OldIsGone, StartedAtPublish, SettingsRead, StaleTunnelIsRestarted,
       StaleStartIsRestarted, LastIsLast, StopEnds, StopIsFinal
<1>12. CASE SupPublish
  <2> USE <1>12 DEF SupPublish, apiVars, updVars
  <2>1. TypeOK'
    BY DEF TypeOK
  <2>2. StaleTunnelIsRestarted'
    BY DEF StaleTunnelIsRestarted, RestartComing
  <2>3. StopIsFinal'
    BY DEF StopIsFinal, LastIsLast, StopEnds
  <2> QED
    BY <2>1, <2>2, <2>3 DEF OldIsGone, StartedAtPublish, SettingsRead,
       StaleStartIsRestarted, LastIsLast, StopEnds
<1>13. CASE SessionChanges
  <2> USE <1>13 DEF SessionChanges, apiVars, updVars
  <2>1. ASSUME NEW e \in Engines
        PROVE  /\ [e EXCEPT !.session = ~@] \in Engines
               /\ [e EXCEPT !.session = ~@].pairing = e.pairing
    BY DEF Engines
  <2>2. TypeOK'
    BY <2>1 DEF TypeOK
  <2>3. RestartComing' <=> RestartComing
    BY DEF RestartComing
  <2>4. /\ handle' = None <=> handle = None
        /\ handle' # None => handle'.pairing = handle.pairing
        /\ started' = None <=> started = None
        /\ started' # None => started'.pairing = started.pairing
    <3>1. CASE handle # None /\ handle' = [handle EXCEPT !.session = ~@] /\ UNCHANGED started
      <4>1. handle \in Engines
        BY <3>1 DEF TypeOK
      <4>2. handle' # None /\ handle'.pairing = handle.pairing
        BY <2>1, <3>1, <4>1, NoneAssumption
      <4> QED
        BY <3>1, <4>2
    <3>2. CASE started # None /\ started' = [started EXCEPT !.session = ~@] /\ UNCHANGED handle
      <4>1. started \in Engines
        BY <3>2 DEF TypeOK
      <4>2. started' # None /\ started'.pairing = started.pairing
        BY <2>1, <3>2, <4>1, NoneAssumption
      <4> QED
        BY <3>2, <4>2
    <3> QED
      BY <3>1, <3>2
  <2>5. StaleTunnelIsRestarted'
    BY <2>3, <2>4 DEF StaleTunnelIsRestarted
  <2> QED
    BY <2>2, <2>3, <2>4, <2>5 DEF OldIsGone, StartedAtPublish, SettingsRead,
       StaleStartIsRestarted, LastIsLast, StopEnds, StopIsFinal
<1> QED
  BY <1>1, <1>2, <1>3, <1>4, <1>5, <1>6, <1>7, <1>8, <1>9, <1>10, <1>11, <1>12, <1>13
  DEF Next, Requests, Supervisor

LEMMA Invariance == Spec => []IInv
  BY InitIInv, NextIInv, PTL DEF Spec
-----------------------------------------------------------------------------
(***************************************************************************)
(* The process keeps its types: the supervisor never starts an engine with *)
(* settings it has not read.                                               *)
(***************************************************************************)
THEOREM TypeCorrect == Spec => []TypeOK
<1>1. IInv => TypeOK
  BY DEF IInv
<1> QED
  BY <1>1, Invariance, PTL

(***************************************************************************)
(* No two engines: the supervisor stops one before it starts another       *)
(* (main.rs:557-571).                                                      *)
(***************************************************************************)
THEOREM SingleTunnel == Spec => []OneTunnel
<1>1. IInv => OneTunnel
  BY DEF IInv, OneTunnel, OldIsGone, StartedAtPublish
<1> QED
  BY <1>1, Invariance, PTL

(***************************************************************************)
(* However settings requests and the supervisor interleave, a tunnel with  *)
(* outdated pairing settings is about to be restarted (main.rs:997-1084).  *)
(***************************************************************************)
THEOREM StaleRestarted == Spec => []StaleTunnelIsRestarted
<1>1. IInv => StaleTunnelIsRestarted
  BY DEF IInv
<1> QED
  BY <1>1, Invariance, PTL

(***************************************************************************)
(* A Stop that was sent last leaves no tunnel (main.rs:557-564).           *)
(***************************************************************************)
THEOREM FinalStop == Spec => []StopIsFinal
<1>1. IInv => StopIsFinal
  BY DEF IInv
<1> QED
  BY <1>1, Invariance, PTL
=============================================================================
