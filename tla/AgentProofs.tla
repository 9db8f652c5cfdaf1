---------------------------- MODULE AgentProofs ----------------------------
(***************************************************************************)
(* Proofs about AgentSupervisor, for every set of addresses, codes,        *)
(* passwords and handlers, whatever the command line says: the types, and  *)
(* that an engine with an outdated password is about to be replaced.       *)
(*                                                                         *)
(* The second is not inductive: it speaks only of engines that run, while  *)
(* the password of an engine is settled when main reads the file.  IInv    *)
(* says of main's copy what the property says of the engine, from the      *)
(* moment it is read on, and that engines have the password of that copy.  *)
(***************************************************************************)
EXTENDS AgentSupervisor, TLAPS

InFlight == \E h \in Handlers : requests[h] # Idle /\ requests[h].step # "save"

\* There is an engine only while main publishes and watches it, and it has the
\* password of main's copy of the settings.
EngineOfCfg ==
    /\ engine # NoEngine <=> pc \in {"publish", "run"}
    /\ engine # NoEngine => engine.pw = cfg.pw
    /\ published => engine # NoEngine

DialsAnAddress == pc \in {"save", "start"} => addr # None

StaleCfgIsReplaced ==
    pc \in {"clear", "resolve", "save", "start", "publish", "run"} /\ cfg.pw # disk.pw =>
        reconnect \/ InFlight \/ missed

IInv == TypeOK /\ EngineOfCfg /\ DialsAnAddress /\ StaleCfgIsReplaced
-----------------------------------------------------------------------------
\* The values that say that there is nothing are none of the others.
LEMMA Nothing ==
    /\ \A r \in Requests : r # Idle
    /\ \A e \in Engines : e # NoEngine
    /\ NoEngine.state = "none"
  BY DEF Requests, Idle, Engines, NoEngine

LEMMA WithArgsType == \A s \in Settings : WithArgs(s) \in Settings
  BY ArgAssumption DEF WithArgs, Settings

\* What a handler does to its request, and to a stale copy of main's.
LEMMA HandlerSteps ==
    ASSUME TypeOK, NEW h \in Handlers, NEW step \in {"stop", "reconnect"},
           requests[h] # Idle, Step(h, step)
    PROVE  requests' \in [Handlers -> Requests \cup {Idle}] /\ InFlight'
<1>1. [requests[h] EXCEPT !.step = step] \in Requests
      /\ [requests[h] EXCEPT !.step = step].step = step
  BY DEF TypeOK, Requests
<1> QED
  BY <1>1, Nothing DEF TypeOK, Step, InFlight

LEMMA HandlerEnds ==
    ASSUME TypeOK, NEW h \in Handlers, requests[h] # Idle, Done(h)
    PROVE  /\ requests' \in [Handlers -> Requests \cup {Idle}]
           /\ requests[h].step = "save" /\ InFlight => InFlight'
  BY DEF TypeOK, Done, InFlight

\* A stopped engine is the same engine.
LEMMA Stopped ==
    ASSUME TypeOK, EngineOfCfg, TakeAndStop
    PROVE  /\ engine' \in Engines \cup {NoEngine} /\ published' = FALSE
           /\ engine' # NoEngine <=> engine # NoEngine
           /\ engine # NoEngine => engine'.pw = engine.pw
<1>1. ASSUME engine \in Engines
      PROVE  /\ [engine EXCEPT !.state = "stopped"] \in Engines
             /\ [engine EXCEPT !.state = "stopped"].pw = engine.pw
  BY <1>1 DEF Engines
<1> QED
  BY <1>1, Nothing DEF TypeOK, EngineOfCfg, TakeAndStop
-----------------------------------------------------------------------------
LEMMA InitIInv == Init => IInv
<1> SUFFICES ASSUME Init PROVE IInv
  OBVIOUS
<1>1. disk \in Settings /\ cfg = disk /\ cfg.peer \in Addrs \cup {None} /\ cfg.code \in Codes
  BY WithArgsType DEF Init, Settings
<1>2. published \in BOOLEAN /\ reconnect \in BOOLEAN /\ missed \in BOOLEAN
  BY DEF Init
<1>3. TypeOK
  BY <1>1, <1>2, BoundAssumption DEF Init, TypeOK
<1> QED
  BY <1>3 DEF Init, IInv, EngineOfCfg, DialsAnAddress, StaleCfgIsReplaced

LEMMA MainIInv == IInv /\ (Main \/ NoPort \/ StartFails) => IInv'
<1> SUFFICES ASSUME IInv, Main \/ NoPort \/ StartFails PROVE IInv'
  OBVIOUS
<1> USE DEF IInv, liveVars
<1>1. CASE ReadLive
  <2>1. cfg' \in Settings /\ engine = NoEngine
    BY <1>1 DEF ReadLive, TypeOK, Settings, EngineOfCfg
  <2> QED
    BY <1>1, <2>1 DEF ReadLive, TypeOK, EngineOfCfg, DialsAnAddress, StaleCfgIsReplaced
<1>2. CASE LoadDisk
  <2>1. cfg' \in Settings /\ cfg'.pw = disk.pw /\ engine = NoEngine
    BY <1>2 DEF LoadDisk, TypeOK, Settings, EngineOfCfg
  <2> QED
    BY <1>2, <2>1 DEF LoadDisk, TypeOK, EngineOfCfg, DialsAnAddress, StaleCfgIsReplaced
<1>3. CASE ClearReconnect
  <2>1. reconnect' \in BOOLEAN /\ missed' \in BOOLEAN /\ liveCode' \in Codes
    BY <1>3 DEF ClearReconnect, TypeOK, Settings
  <2>2. TypeOK'
    BY <1>3, <2>1 DEF ClearReconnect, TypeOK
  <2>3. InFlight => InFlight'
    BY <1>3 DEF ClearReconnect, InFlight
  <2>4. StaleCfgIsReplaced'
    BY <1>3, <2>3 DEF ClearReconnect, StaleCfgIsReplaced
  <2> QED
    BY <1>3, <2>2, <2>4 DEF ClearReconnect, EngineOfCfg, DialsAnAddress
<1>4. CASE Discovered \/ FallBack
  <2>1. PICK a \in Addrs : Dial(a)
    BY <1>4, NoneAssumption DEF Discovered, FallBack, TypeOK, Settings
  <2>2. pc = "resolve" /\ pc' \in {"save", "start"} /\ addr' # None
    BY <1>4, <2>1, NoneAssumption DEF Discovered, FallBack, Dial
  <2>3. TypeOK'
    BY <2>1, <2>2 DEF Dial, TypeOK
  <2>4. InFlight' <=> InFlight
    BY <2>1 DEF Dial, InFlight
  <2> QED
    BY <2>1, <2>2, <2>3, <2>4 DEF Dial, EngineOfCfg, DialsAnAddress, StaleCfgIsReplaced
<1>5. CASE SaveCfg
  <2>1. cfg' \in Settings /\ cfg'.pw = cfg.pw /\ engine = NoEngine
    BY <1>5 DEF SaveCfg, TypeOK, Settings, EngineOfCfg
  <2>2. TypeOK'
    BY <1>5, <2>1 DEF SaveCfg, TypeOK
  <2>3. InFlight' <=> InFlight
    BY <1>5 DEF SaveCfg, InFlight
  <2>4. StaleCfgIsReplaced'
    BY <1>5, <2>1, <2>3 DEF SaveCfg, StaleCfgIsReplaced
  <2> QED
    BY <1>5, <2>1, <2>2, <2>4 DEF SaveCfg, EngineOfCfg, DialsAnAddress
<1>6. CASE StartEngine
  <2>1. engine' \in Engines /\ engine'.pw = cfg.pw
    BY <1>6 DEF StartEngine, Engines, TypeOK, Settings, DialsAnAddress
  <2>2. TypeOK'
    BY <1>6, <2>1 DEF StartEngine, TypeOK
  <2>3. InFlight' <=> InFlight
    BY <1>6 DEF StartEngine, InFlight
  <2> QED
    BY <1>6, <2>1, <2>2, <2>3, Nothing
    DEF StartEngine, EngineOfCfg, DialsAnAddress, StaleCfgIsReplaced
<1>7. CASE Publish
  <2>1. TypeOK'
    BY <1>7 DEF Publish, TypeOK
  <2>2. InFlight' <=> InFlight
    BY <1>7 DEF Publish, InFlight
  <2> QED
    BY <1>7, <2>1, <2>2
    DEF Publish, EngineOfCfg, DialsAnAddress, StaleCfgIsReplaced
<1>8. CASE RunEnds
  <2>1. TypeOK'
    BY <1>8 DEF RunEnds, TypeOK
  <2> QED
    BY <1>8, <2>1 DEF RunEnds, EngineOfCfg, DialsAnAddress, StaleCfgIsReplaced
<1>9. CASE NoHost \/ Ended \/ WakeUp \/ NoPort \/ StartFails
  <2>1. pc' \in {"begin", "sleep"} /\ pc \notin {"publish", "run"}
    BY <1>9 DEF NoHost, Ended, WakeUp, NoPort, StartFails
  <2>2. TypeOK'
    BY <1>9, <2>1 DEF NoHost, Ended, WakeUp, NoPort, StartFails, TypeOK
  <2> QED
    BY <1>9, <2>1, <2>2 DEF NoHost, Ended, WakeUp, NoPort, StartFails, EngineOfCfg,
       DialsAnAddress, StaleCfgIsReplaced
<1> QED
  BY <1>1, <1>2, <1>3, <1>4, <1>5, <1>6, <1>7, <1>8, <1>9 DEF Main

LEMMA HandlerIInv == ASSUME IInv, NEW h \in Handlers, Handle(h) PROVE IInv'
<1> USE DEF IInv, mainVars, liveVars
<1>1. CASE Save(h)
  <2>1. requests' \in [Handlers -> Requests \cup {Idle}] /\ InFlight'
    BY <1>1, HandlerSteps DEF Save
  <2>2. disk' \in Settings
    BY <1>1, Nothing DEF Save, TypeOK, Requests
  <2>3. TypeOK'
    BY <1>1, <2>1, <2>2 DEF Save, TypeOK
  <2> QED
    BY <1>1, <2>1, <2>3 DEF Save, EngineOfCfg, DialsAnAddress, StaleCfgIsReplaced
<1>2. CASE SaveFails(h)
  <2>1. requests' \in [Handlers -> Requests \cup {Idle}] /\ (InFlight => InFlight')
    BY <1>2, HandlerSteps, HandlerEnds DEF SaveFails
  <2>2. TypeOK'
    BY <1>2, <2>1 DEF SaveFails, TypeOK
  <2> QED
    BY <1>2, <2>1, <2>2 DEF SaveFails, EngineOfCfg, DialsAnAddress, StaleCfgIsReplaced
<1>3. CASE Stop(h)
  <2>1. requests' \in [Handlers -> Requests \cup {Idle}] /\ InFlight'
    BY <1>3, HandlerSteps DEF Stop
  <2>2. livePeer' \in Addrs \cup {None}
    BY <1>3 DEF Stop, TypeOK, Requests, Settings, Idle
  <2>3. TypeOK'
    BY <1>3, <2>1, <2>2, Stopped DEF Stop, TypeOK
  <2>4. EngineOfCfg'
    BY <1>3, Stopped DEF Stop, EngineOfCfg
  <2> QED
    BY <1>3, <2>1, <2>3, <2>4 DEF Stop, DialsAnAddress, StaleCfgIsReplaced
<1>4. CASE Reconnect(h)
  <2>1. requests' \in [Handlers -> Requests \cup {Idle}] /\ reconnect' = TRUE
    BY <1>4, HandlerEnds DEF Reconnect
  <2>2. TypeOK'
    BY <1>4, <2>1 DEF Reconnect, TypeOK
  <2> QED
    BY <1>4, <2>1, <2>2 DEF Reconnect, EngineOfCfg, DialsAnAddress, StaleCfgIsReplaced
<1> QED
  BY <1>1, <1>2, <1>3, <1>4 DEF Handle

\* A new request has only loaded the file.
LEMMA UserIInv == ASSUME IInv, NEW h \in Handlers, User(h) PROVE IInv'
<1> USE DEF IInv, mainVars
<1>1. PICK kind \in {"settings", "connect", "discover"}, file \in Settings :
         Request(h, kind, file)
  BY NoneAssumption DEF User, SetPassword, SetCode, Connect, Discover, TypeOK, Settings
<1>2. livePeer' \in Addrs \cup {None} /\ liveCode' \in Codes
  BY DEF User, SetPassword, SetCode, Connect, Discover, TypeOK
<1>3. [kind |-> kind, step |-> "save", file |-> file] \in Requests
  BY <1>1 DEF Requests
<1>4. TypeOK'
  BY <1>1, <1>2, <1>3, BoundAssumption DEF Request, TypeOK
<1>5. InFlight => InFlight'
  BY <1>1 DEF Request, InFlight, TypeOK
<1> QED
  BY <1>1, <1>4, <1>5 DEF Request, EngineOfCfg, DialsAnAddress, StaleCfgIsReplaced

LEMMA WorldIInv ==
    ASSUME IInv,
           EngineFails \/ EngineDrops \/ StopForUpdate \/ HostMoves \/ Restart
    PROVE  IInv'
<1> USE DEF IInv, mainVars, liveVars
<1>1. CASE EngineFails \/ EngineDrops
  <2>1. PICK s \in {"failed", "stopped"} : engine' = [engine EXCEPT !.state = s]
    BY <1>1 DEF EngineFails, EngineDrops
  <2>2. engine \in Engines
    BY <1>1, Nothing DEF EngineFails, EngineDrops, TypeOK
  <2>3. engine' \in Engines /\ engine'.pw = engine.pw
    BY <2>1, <2>2 DEF Engines
  <2>4. TypeOK'
    BY <1>1, <2>3 DEF EngineFails, EngineDrops, TypeOK
  <2>5. InFlight' <=> InFlight
    BY <1>1 DEF EngineFails, EngineDrops, InFlight
  <2> QED
    BY <1>1, <2>2, <2>3, <2>4, <2>5, Nothing DEF EngineFails, EngineDrops, EngineOfCfg,
       DialsAnAddress, StaleCfgIsReplaced
<1>2. CASE StopForUpdate
  <2>1. TypeOK'
    BY <1>2, Stopped DEF StopForUpdate, TypeOK
  <2>2. EngineOfCfg'
    BY <1>2, Stopped DEF StopForUpdate, EngineOfCfg
  <2> QED
    BY <1>2, <2>1, <2>2 DEF StopForUpdate, DialsAnAddress, StaleCfgIsReplaced, InFlight
<1>3. CASE HostMoves
  <2>1. TypeOK'
    BY <1>3 DEF HostMoves, TypeOK
  <2> QED
    BY <1>3, <2>1 DEF HostMoves, EngineOfCfg, DialsAnAddress, StaleCfgIsReplaced, InFlight
<1>4. CASE Restart
  <2>1. cfg' \in Settings /\ disk' \in Settings
    BY <1>4, WithArgsType DEF Restart, TypeOK
  <2>2. livePeer' \in Addrs \cup {None} /\ liveCode' \in Codes
    BY <1>4, <2>1 DEF Restart, Settings
  <2>3. published' \in BOOLEAN /\ reconnect' \in BOOLEAN /\ missed' \in BOOLEAN
    BY <1>4 DEF Restart
  <2>4. TypeOK'
    BY <1>4, <2>1, <2>2, <2>3, BoundAssumption DEF Restart, TypeOK
  <2> QED
    BY <1>4, <2>4 DEF Restart, EngineOfCfg, DialsAnAddress, StaleCfgIsReplaced
<1> QED
  BY <1>1, <1>2, <1>3, <1>4

LEMMA NextIInv == IInv /\ [Next]_vars => IInv'
<1>1. ASSUME IInv, UNCHANGED vars PROVE IInv'
  BY <1>1 DEF vars, mainVars, liveVars, IInv, TypeOK, EngineOfCfg, DialsAnAddress,
     StaleCfgIsReplaced, InFlight
<1> QED
  BY <1>1, MainIInv, HandlerIInv, UserIInv, WorldIInv DEF Next, Laptop, World

LEMMA Invariance == Spec => []IInv
  BY InitIInv, NextIInv, PTL DEF Spec
-----------------------------------------------------------------------------
(***************************************************************************)
(* The agent keeps its types: it never dials without an address.           *)
(***************************************************************************)
THEOREM TypeCorrect == Spec => []TypeOK
<1>1. IInv => TypeOK
  BY DEF IInv
<1> QED
  BY <1>1, Invariance, PTL

(***************************************************************************)
(* However many handlers run, an engine with an outdated password has a    *)
(* reconnect coming, unless main has cleared one it had not seen           *)
(* (main.rs:1320-1329).                                                    *)
(***************************************************************************)
THEOREM StaleReplaced == Spec => []StaleEngineIsReplaced
<1>1. IInv => StaleEngineIsReplaced
  BY Nothing DEF IInv, StaleEngineIsReplaced, EngineOfCfg, StaleCfgIsReplaced, InFlight
<1> QED
  BY <1>1, Invariance, PTL
=============================================================================
