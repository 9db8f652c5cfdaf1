---------------------------- MODULE SetupProofs ----------------------------
(***************************************************************************)
(* Proofs about Setup, for any number of pair codes and failures: its      *)
(* types, that a wizard which says that it is done is, and that the Host   *)
(* which owns the port has the pair code of the file and of the summary.   *)
(*                                                                         *)
(* That the pair codes agree is not inductive: the property speaks of the  *)
(* Host that has won the port, while the race is decided when the Hosts    *)
(* read the file.  IInv says of everybody who has chosen a code, from that *)
(* moment on, that all of them have the same and what the file may hold    *)
(* beside it; and that as long as Setup has not written a file of its own  *)
(* to the end, no Host has chosen yet.                                     *)
(***************************************************************************)
EXTENDS Setup, FiniteSetTheorems, TLAPS

\* A process has read the file or made up a code, and is going to save it.
Active(p) == st[p] \notin {"off", "load"}

\* The wizard and its worker go together; success is not claimed before the end.
WizardInv ==
    /\ step \in {"Welcome", "ChooseRole", "Options"} => ~started /\ ~finished /\ ~success
    /\ worker # "none" => step = "Working" /\ ~finished
    /\ success => finished /\ bins /\ worker = "none"
    /\ worker \notin {"none", "prepare", "stop", "copy", "copying"} => bins
    /\ step \in {"Done", "Error"} => finished
    /\ step = "Done" => success

\* The tool outlives the worker that awaits it only when the window is closed.
ToolInv ==
    /\ st["tool"] \in {"off", "save", "fill"}
    /\ Alive("tool") => worker = "tool" \/ step = "closed"

CodeInv == \A p \in Writers : IF Active(p) THEN code[p] \in Codes ELSE code[p] = None

BaseInv == TypeOK /\ WizardInv /\ ToolInv /\ CodeInv

OneCode == \A p, q \in Writers : Active(p) /\ Active(q) => code[p] = code[q]

\* The file has the code of those who have chosen, or none while they write it.
FileOfActive ==
    \A p \in Writers : Active(p) =>
        /\ file \in {code[p], Cut, None}
        /\ st[p] \in {"bind", "own"} => file # None

\* Setup's own file has no code until the tool has written one, and no Host
\* has one.
Undisturbed ==
    worker = "fill" \/ Alive("tool") => file \notin Codes /\ \A h \in Hosts : ~Active(h)

\* The code of the summary stays that of the file and of every Host.
ShownInv ==
    success /\ step # "closed" /\ shown \in Codes =>
        /\ file = shown \/ (file = Cut /\ \E h \in Hosts : st[h] = "fill")
        /\ \A h \in Hosts : Active(h) => code[h] = shown

CodesInv == ~mixed => OneCode /\ FileOfActive /\ Undisturbed /\ ShownInv

IInv == BaseInv /\ CodesInv
-----------------------------------------------------------------------------
USE NoneAssumption

LEMMA WriterFacts ==
    /\ Writers = {"task", "now", "tool"} /\ Hosts = {"task", "now"}
  BY DEF Writers, Hosts

\* With five pair codes there is one that is not in use: a process that is about
\* to choose one has none itself.
LEMMA FreshType ==
    ASSUME NEW q \in Writers, code[q] = None
    PROVE  Fresh \in Codes
<1>1. PICK a, b : Writers = {q, a, b}
  BY WriterFacts
<1> DEFINE used == {file, shown} \cup {code[p] : p \in Writers}
           four == (({} \cup {file}) \cup {shown}) \cup {code[a]}
<1>2. /\ IsFiniteSet(four \cup {code[b]}) /\ Cardinality(four \cup {code[b]}) \in Nat
      /\ Cardinality(four \cup {code[b]}) <= 4
  <2>1. IsFiniteSet({}) /\ Cardinality({}) = 0
    BY FS_EmptySet
  <2>2. /\ IsFiniteSet({} \cup {file})
        /\ Cardinality({} \cup {file}) = 0 \/ Cardinality({} \cup {file}) = 1
    BY <2>1, FS_AddElement
  <2>3. /\ IsFiniteSet(({} \cup {file}) \cup {shown})
        /\ Cardinality(({} \cup {file}) \cup {shown}) \in 0 .. 2
    BY <2>2, FS_AddElement
  <2>4. IsFiniteSet(four) /\ Cardinality(four) \in 0 .. 3
    BY <2>3, FS_AddElement
  <2>5. /\ IsFiniteSet(four \cup {code[b]})
        /\ Cardinality(four \cup {code[b]}) \in 0 .. 4
    BY <2>4, FS_AddElement
  <2> QED
    BY <2>5
<1>3. ~(Codes \subseteq four \cup {code[b]})
  <2> SUFFICES ASSUME Codes \subseteq four \cup {code[b]} PROVE FALSE
    OBVIOUS
  <2>1. Cardinality(Codes) <= Cardinality(four \cup {code[b]})
    BY <1>2, FS_Subset
  <2>2. Cardinality(Codes) \in Nat
    BY CodesAssumption, FS_CardinalityType
  <2> QED
    BY <1>2, <2>1, <2>2, CodesAssumption
<1>4. PICK c \in Codes : c \notin four \cup {code[b]}
  BY <1>3
<1>5. c \notin used
  BY <1>1, <1>4
<1> QED
  BY <1>5 DEF Fresh
LEMMA FaultType ==
    ASSUME TypeOK, Fault \/ UNCHANGED faults
    PROVE  faults' \in 0 .. MaxFaults
  BY BoundAssumption DEF TypeOK, Fault
-----------------------------------------------------------------------------
LEMMA InitInv == Init => IInv
<1> SUFFICES ASSUME Init PROVE IInv
  OBVIOUS
<1>1. TypeOK
  <2>1. /\ started \in BOOLEAN /\ finished \in BOOLEAN /\ success \in BOOLEAN /\ mixed \in BOOLEAN
        /\ bins \in BOOLEAN /\ registered \in BOOLEAN
    BY DEF Init
  <2>2. faults \in 0 .. MaxFaults
    BY BoundAssumption DEF Init
  <2> QED
    BY <2>1, <2>2 DEF Init, TypeOK, Options, WorkerSteps, WriterSteps
<1>2. \A p \in Writers : ~Active(p)
  BY DEF Init, Active
<1> QED
  BY <1>1, <1>2, WriterFacts
  DEF Init, IInv, BaseInv, WizardInv, ToolInv, CodeInv, CodesInv, OneCode, FileOfActive,
      Undisturbed, ShownInv, Alive

(***************************************************************************)
(* The base: types, wizard, tool and who has a code.                       *)
(***************************************************************************)
LEMMA WizardBase ==
    ASSUME BaseInv, Open \/ Turn \/ Install \/ Poll \/ Retry \/ Close
    PROVE  BaseInv'
<1> USE DEF BaseInv, wizardVars, workerVars, procVars
<1>1. TypeOK'
  <2>1. faults' \in 0 .. MaxFaults
    BY FaultType DEF Open, Turn, Install, Poll, Retry, Close
  <2>2. started' \in BOOLEAN /\ finished' \in BOOLEAN /\ success' \in BOOLEAN
    BY DEF TypeOK, Open, Turn, Install, Poll, Retry, Close
  <2>3. /\ shown' \in Codes \cup {None} /\ file' \in Codes \cup {None, Cut}
        /\ bins' \in BOOLEAN /\ registered' \in BOOLEAN /\ mixed' \in BOOLEAN
        /\ UNCHANGED <<st, code>>
    BY DEF TypeOK, Open, Turn, Install, Poll, Retry, Close
  <2>4. /\ step' \in {"closed", "Welcome", "ChooseRole", "Options", "Working", "Done", "Error"}
        /\ options' \in Options /\ worker' \in WorkerSteps
    BY DEF TypeOK, Open, Turn, Install, Poll, Retry, Close, WorkerSteps
  <2> QED
    BY <2>1, <2>2, <2>3, <2>4 DEF TypeOK
<1>2. WizardInv'
  BY DEF WizardInv, Open, Turn, Install, Poll, Retry, Close
<1>3. ToolInv'
  BY DEF WizardInv, ToolInv, Alive, Open, Turn, Install, Poll, Retry, Close
<1>4. CodeInv'
  BY DEF CodeInv, Active, Open, Turn, Install, Poll, Retry, Close
<1> QED
  BY <1>1, <1>2, <1>3, <1>4

LEMMA WorkerBase ==
    ASSUME BaseInv, Worker \/ WorkerFails
    PROVE  BaseInv'
<1> USE DEF BaseInv, wizardVars, workerVars, procVars
<1>1. CASE Prepare \/ Copy \/ Copied \/ WriteConfig \/ ToolEnded \/ SetUpAdapter \/ CreateShortcut
           \/ Summary \/ WorkerFails
  <2> USE DEF Prepare, Copy, Copied, WriteConfig, ToolEnded, SetUpAdapter, CreateShortcut,
              Summary, WorkerFails, Goes
  <2>1. TypeOK'
    <3>1. faults' \in 0 .. MaxFaults
      BY <1>1, FaultType
    <3>2. mixed' \in BOOLEAN /\ bins' \in BOOLEAN /\ finished' \in BOOLEAN /\ success' \in BOOLEAN
      BY <1>1 DEF TypeOK
    <3> QED
      BY <1>1, <3>1, <3>2 DEF TypeOK, WorkerSteps
  <2>2. WizardInv'
    BY <1>1 DEF WizardInv
  <2>3. ToolInv'
    BY <1>1 DEF WizardInv, ToolInv, Alive
  <2>4. CodeInv'
    BY <1>1 DEF CodeInv, Active
  <2> QED
    BY <2>1, <2>2, <2>3, <2>4
<1>2. CASE StopHosts
  <2> USE <1>2 DEF StopHosts, Goes
  <2>1. PICK spared \in SUBSET {h \in Hosts : Alive(h)} :
            /\ IF spared = {} THEN UNCHANGED faults ELSE Fault
            /\ st' = [p \in Writers |-> IF p \in Hosts \ spared THEN "off" ELSE st[p]]
            /\ code' = [p \in Writers |-> IF p \in Hosts \ spared THEN None ELSE code[p]]
    OBVIOUS
  <2>2. TypeOK'
    <3>1. faults' \in 0 .. MaxFaults
      BY <2>1, FaultType
    <3> QED
      BY <2>1, <3>1 DEF TypeOK, WorkerSteps, WriterSteps
  <2>3. WizardInv'
    BY DEF WizardInv
  <2>4. ToolInv'
    BY <2>1, WriterFacts DEF WizardInv, ToolInv, Alive
  <2>5. CodeInv'
    BY <2>1 DEF CodeInv, Active, TypeOK
  <2> QED
    BY <2>2, <2>3, <2>4, <2>5
<1>3. CASE FillConfig
  <2> USE <1>3 DEF FillConfig, Goes
  <2>1. st["tool"] = "off" /\ code["tool"] = None
    BY WriterFacts DEF WizardInv, ToolInv, CodeInv, Alive, Active
  <2>2. Fresh \in Codes
    BY <2>1, FreshType, WriterFacts
  <2>3. TypeOK'
    <3>1. faults' \in 0 .. MaxFaults
      BY FaultType
    <3> QED
      BY <2>2, <3>1, WriterFacts DEF TypeOK, WorkerSteps, WriterSteps
  <2>4. WizardInv'
    BY DEF WizardInv
  <2>5. ToolInv'
    BY <2>1, WriterFacts DEF ToolInv, Alive, TypeOK
  <2>6. CodeInv'
    BY <2>1, <2>2, WriterFacts DEF CodeInv, Active, TypeOK
  <2> QED
    BY <2>3, <2>4, <2>5, <2>6
<1>4. CASE RegisterTask \/ LaunchNow
  <2> USE <1>4 DEF RegisterTask, LaunchNow, Goes
  <2>1. UNCHANGED procVars \/ \E h \in Hosts : Starts(h)
    BY WriterFacts
  <2>2. TypeOK'
    <3>1. st' \in [Writers -> WriterSteps] /\ code' = code
      BY <2>1 DEF Starts, TypeOK, WriterSteps
    <3>2. faults' \in 0 .. MaxFaults
      BY FaultType
    <3>3. registered' \in BOOLEAN
      BY DEF TypeOK
    <3> QED
      BY <3>1, <3>2, <3>3 DEF TypeOK, WorkerSteps
  <2>3. WizardInv'
    BY DEF WizardInv
  <2>4. ToolInv'
    BY <2>1, WriterFacts DEF WizardInv, ToolInv, Alive, Starts, TypeOK
  <2>5. CodeInv'
    BY <2>1, WriterFacts DEF CodeInv, Active, Alive, Starts, TypeOK
  <2> QED
    BY <2>2, <2>3, <2>4, <2>5
<1> QED
  BY <1>1, <1>2, <1>3, <1>4 DEF Worker

LEMMA ProcessBase ==
    ASSUME BaseInv,
           \/ TaskStarts
           \/ \E h \in Hosts : Process(h) \/ HostDies(h)
           \/ \E p \in Writers : Save(p) \/ SaveFails(p)
           \/ Reboot
    PROVE  BaseInv'
<1> USE DEF BaseInv, wizardVars, workerVars, procVars
<1>1. CASE TaskStarts
  <2> USE <1>1 DEF TaskStarts, Starts
  <2>1. TypeOK' /\ WizardInv'
    BY DEF TypeOK, WizardInv, WriterSteps
  <2>2. ToolInv' /\ CodeInv'
    BY WriterFacts DEF ToolInv, CodeInv, Active, Alive, TypeOK
  <2> QED
    BY <2>1, <2>2
<1>2. ASSUME NEW h \in Hosts, Load(h) PROVE BaseInv'
  <2> USE <1>2 DEF Load
  <2>1. h \in Writers /\ h # "tool" /\ code[h] = None
    BY WriterFacts DEF CodeInv, Active
  <2>2. (IF file \in Codes THEN file ELSE Fresh) \in Codes
    BY <2>1, FreshType
  <2>3. TypeOK' /\ WizardInv'
    BY <2>1, <2>2 DEF TypeOK, WizardInv, WriterSteps
  <2>4. ToolInv' /\ CodeInv'
    BY <2>1, <2>2, WriterFacts DEF ToolInv, CodeInv, Active, Alive, TypeOK
  <2> QED
    BY <2>3, <2>4
<1>3. ASSUME NEW h \in Hosts, Bind(h) \/ GiveUp(h) \/ HostDies(h) PROVE BaseInv'
  <2> USE <1>3 DEF Bind, GiveUp, HostDies, Off
  <2>1. h \in Writers /\ h # "tool"
    BY WriterFacts
  <2>2. TypeOK' /\ WizardInv'
    <3>1. faults' \in 0 .. MaxFaults
      BY FaultType
    <3>2. mixed' \in BOOLEAN
      BY DEF TypeOK
    <3> QED
      BY <2>1, <3>1, <3>2 DEF TypeOK, WizardInv, WriterSteps
  <2>3. ToolInv'
    BY <2>1, WriterFacts DEF ToolInv, Alive, TypeOK
  <2>4. CodeInv'
    BY <2>1 DEF CodeInv, Active, TypeOK
  <2> QED
    BY <2>2, <2>3, <2>4
<1>4. ASSUME NEW p \in Writers, Truncate(p) \/ FillFile(p) \/ SaveFails(p) PROVE BaseInv'
  <2> USE <1>4 DEF Truncate, FillFile, SaveFails, Saved
  <2>1. TypeOK'
    <3>1. faults' \in 0 .. MaxFaults
      BY FaultType
    <3>2. mixed' \in BOOLEAN
      BY DEF TypeOK
    <3> QED
      BY <3>1, <3>2 DEF TypeOK, WriterSteps
  <2>2. WizardInv'
    BY DEF WizardInv
  <2>3. ToolInv'
    BY WriterFacts DEF ToolInv, Alive, TypeOK
  <2>4. CodeInv'
    BY WriterFacts DEF CodeInv, Active, TypeOK
  <2> QED
    BY <2>1, <2>2, <2>3, <2>4
<1>5. CASE Reboot
  <2> USE <1>5 DEF Reboot
  <2>1. TypeOK' /\ WizardInv'
    <3>1. faults' \in 0 .. MaxFaults
      BY FaultType
    <3> QED
      BY <3>1 DEF TypeOK, WizardInv, WriterSteps, WorkerSteps
  <2>2. ToolInv' /\ CodeInv'
    BY WriterFacts DEF ToolInv, CodeInv, Active, Alive
  <2> QED
    BY <2>1, <2>2
<1> QED
  BY <1>1, <1>2, <1>3, <1>4, <1>5 DEF Process, Save

(***************************************************************************)
(* Who has chosen which code, as long as nobody has interfered.            *)
(***************************************************************************)

\* A step that leaves the file, the processes and the summary alone, and does
\* not bring the worker to where it writes the file.
LEMMA QuietCodes ==
    ASSUME IInv, UNCHANGED <<file, st, code, shown, mixed>>,
           worker' = "fill" => worker = "fill",
           success' /\ step' # "closed" => success /\ step # "closed"
    PROVE  CodesInv'
  BY DEF IInv, BaseInv, TypeOK, CodesInv, OneCode, FileOfActive, Undisturbed, ShownInv, Active, Alive

LEMMA WizardCodes ==
    ASSUME IInv, Open \/ Turn \/ Install \/ Poll \/ Retry \/ Close
    PROVE  CodesInv'
<1> USE DEF wizardVars, workerVars, procVars
<1>1. CASE Open
  BY <1>1, NoneAssumption
  DEF Open, IInv, BaseInv, TypeOK, CodesInv, OneCode, FileOfActive, Undisturbed, ShownInv, Active, Alive
<1>2. CASE Turn \/ Install \/ Poll \/ Retry \/ Close
  <2>1. UNCHANGED <<file, st, code, shown, mixed>>
    BY <1>2 DEF Turn, Install, Poll, Retry, Close
  <2>2. /\ worker' = "fill" => worker = "fill"
        /\ success' /\ step' # "closed" => success /\ step # "closed"
    BY <1>2 DEF Turn, Install, Poll, Retry, Close
  <2> QED
    BY <2>1, <2>2, QuietCodes
<1> QED
  BY <1>1, <1>2

LEMMA WorkerCodes ==
    ASSUME IInv, Worker \/ WorkerFails
    PROVE  CodesInv'
<1> USE DEF IInv, BaseInv, wizardVars, workerVars, procVars, Goes
<1>1. CASE Prepare \/ Copied \/ ToolEnded \/ SetUpAdapter \/ CreateShortcut \/ WorkerFails
  <2> USE <1>1 DEF Prepare, Copied, ToolEnded, SetUpAdapter, CreateShortcut, WorkerFails
  <2>1. UNCHANGED <<file, st, code, shown, mixed, step>> /\ worker' # "fill"
    OBVIOUS
  <2>2. success' => success
    BY DEF TypeOK
  <2> QED
    BY <2>1, <2>2, QuietCodes
\* Nobody runs whose program is replaced, nor a tool.
<1>2. CASE Copy
  <2>1. \A p \in Writers : ~Active(p)'
    BY <1>2, WriterFacts DEF Copy, WizardInv, ToolInv, Alive, Active
  <2> QED
    BY <1>2, <2>1, WriterFacts
    DEF Copy, WizardInv, ToolInv, CodesInv, OneCode, FileOfActive, Undisturbed, ShownInv, Alive, Active
<1>3. CASE StopHosts
  <2> USE <1>3 DEF StopHosts
  <2>1. PICK spared \in SUBSET {h \in Hosts : Alive(h)} :
            /\ st' = [p \in Writers |-> IF p \in Hosts \ spared THEN "off" ELSE st[p]]
            /\ code' = [p \in Writers |-> IF p \in Hosts \ spared THEN None ELSE code[p]]
    OBVIOUS
  <2>2. \A p \in Writers : Active(p)' => Active(p) /\ st'[p] = st[p] /\ code'[p] = code[p]
    BY <2>1 DEF Active
  <2>3. ~success /\ worker = "stop" /\ st["tool"] = "off"
    BY DEF WizardInv, ToolInv, Alive
  <2> QED
    BY <2>2, <2>3, WriterFacts
    DEF CodesInv, OneCode, FileOfActive, Undisturbed, ShownInv, Alive, Active
\* If no Host is about, nobody has a code that the file no longer has.
<1>4. CASE WriteConfig
  <2>1. mixed' \/ \A p \in Writers : st[p] = "off"
    BY <1>4, WriterFacts DEF WriteConfig, WizardInv, ToolInv, Alive
  <2> QED
    BY <1>4, <2>1, WriterFacts
    DEF WriteConfig, WizardInv, CodesInv, OneCode, FileOfActive, Undisturbed, ShownInv, Alive, Active
\* The tool alone has a code.
<1>5. CASE FillConfig
  <2>1. CASE mixed
    BY <1>5, <2>1 DEF FillConfig, CodesInv
  <2>2. CASE ~mixed
    <3>1. \A h \in Hosts : ~Active(h) /\ st'[h] = st[h]
      BY <1>5, <2>2, WriterFacts DEF FillConfig, CodesInv, Undisturbed, TypeOK
    <3>2. \A p \in Writers : Active(p)' => p = "tool" /\ st'[p] = "save"
      BY <1>5, <3>1, WriterFacts DEF FillConfig, Active, WizardInv, ToolInv, Alive, TypeOK
    <3> QED
      BY <1>5, <3>1, <3>2, WriterFacts
      DEF FillConfig, WizardInv, CodesInv, OneCode, FileOfActive, Undisturbed, ShownInv, Active
  <2> QED
    BY <2>1, <2>2 DEF TypeOK
<1>6. CASE RegisterTask \/ LaunchNow
  <2> USE <1>6 DEF RegisterTask, LaunchNow
  <2>1. UNCHANGED procVars \/ \E h \in Hosts : Starts(h)
    BY WriterFacts
  <2>2. \A p \in Writers : /\ Active(p)' <=> Active(p)
                           /\ Active(p) => st'[p] = st[p]
                           /\ code'[p] = code[p]
    BY <2>1, WriterFacts DEF Starts, Active, Alive, TypeOK
  <2>3. st'["tool"] = st["tool"] /\ UNCHANGED <<file, mixed, shown>> /\ ~success' /\ worker' # "fill"
    BY <2>1, WriterFacts DEF Starts, TypeOK, WizardInv
  <2> QED
    BY <2>2, <2>3, WriterFacts
    DEF CodesInv, OneCode, FileOfActive, Undisturbed, ShownInv, Alive
\* What the summary tells is what the file has.
<1>7. CASE Summary
  <2>1. st["tool"] = "off" /\ worker' = "none"
    BY <1>7 DEF Summary, ToolInv, WizardInv, Alive
  <2> QED
    BY <1>7, <2>1, WriterFacts
    DEF Summary, CodesInv, OneCode, FileOfActive, Undisturbed, ShownInv, Alive, Active
<1> QED
  BY <1>1, <1>2, <1>3, <1>4, <1>5, <1>6, <1>7 DEF Worker

LEMMA ProcessCodes ==
    ASSUME IInv,
           \/ TaskStarts
           \/ \E h \in Hosts : Process(h) \/ HostDies(h)
           \/ \E p \in Writers : Save(p) \/ SaveFails(p)
           \/ Reboot
    PROVE  CodesInv'
<1> USE DEF IInv, BaseInv, wizardVars, workerVars, procVars
<1>1. CASE TaskStarts
  <2>1. /\ \A p \in Writers : /\ Active(p)' <=> Active(p)
                              /\ Active(p) => st'[p] = st[p]
        /\ st'["tool"] = st["tool"]
    BY <1>1, WriterFacts DEF TaskStarts, Starts, Active, Alive, TypeOK
  <2> QED
    BY <1>1, <2>1, WriterFacts
    DEF TaskStarts, Starts, CodesInv, OneCode, FileOfActive, Undisturbed, ShownInv, Alive
\* A Host that finds a code has the code of everybody; one that does not is alone.
<1>2. ASSUME NEW h \in Hosts, Load(h), ~mixed' PROVE CodesInv'
  <2> USE <1>2 DEF Load
  <2>1. h \in Writers /\ h # "tool" /\ code[h] = None /\ ~mixed
    BY WriterFacts DEF CodeInv, Active, TypeOK
  <2>2. /\ st'[h] = "save" /\ code'[h] \in Codes
        /\ \A p \in Writers \ {h} : st'[p] = st[p] /\ code'[p] = code[p]
    BY <2>1, FreshType DEF TypeOK
  <2>3. CASE file \in Codes
    <3>1. code'[h] = file /\ ~Alive("tool") /\ worker # "fill"
      BY <2>1, <2>3 DEF TypeOK, CodesInv, Undisturbed
    <3>2. \A p \in Writers : Active(p) => code[p] = file
      BY <2>1, <2>3 DEF CodesInv, FileOfActive
    <3> QED
      BY <2>1, <2>2, <2>3, <3>1, <3>2, WriterFacts
      DEF CodesInv, OneCode, FileOfActive, Undisturbed, ShownInv, Alive, Active
  <2>4. CASE file \notin Codes
    <3>1. worker # "fill" /\ \A p \in Writers \ {h} : st[p] = "off"
      BY <2>4 DEF Rewriting, Alive
    <3>2. file \in {None, Cut}
      BY <2>4 DEF TypeOK
    <3> QED
      BY <2>1, <2>2, <2>4, <3>1, <3>2, WriterFacts
      DEF CodesInv, OneCode, FileOfActive, Undisturbed, ShownInv, Alive, Active
  <2> QED
    BY <2>3, <2>4
<1>3. ASSUME NEW h \in Hosts, Bind(h) \/ GiveUp(h) \/ HostDies(h), ~mixed' PROVE CodesInv'
  <2> USE <1>3 DEF Bind, GiveUp, HostDies, Off
  <2>1. h \in Writers /\ h # "tool" /\ ~mixed /\ st[h] # "fill"
    <3>1. Bind(h) \/ GiveUp(h) => ~mixed /\ st[h] = "bind"
      OBVIOUS
    <3>2. HostDies(h) => ~mixed /\ st[h] # "fill"
      OBVIOUS
    <3> QED
      BY <3>1, <3>2, WriterFacts
  <2>2. /\ UNCHANGED <<file, worker, success, step, shown>>
        /\ \A p \in Writers \ {h} : st'[p] = st[p] /\ code'[p] = code[p]
        /\ Active(h)' => st[h] = "bind" /\ st'[h] = "own" /\ code'[h] = code[h]
    <3>1. CASE Bind(h)
      BY <2>1, <3>1 DEF TypeOK, Active
    <3>2. CASE GiveUp(h)
      BY <2>1, <3>2 DEF TypeOK, Active
    <3>3. CASE HostDies(h)
      BY <2>1, <3>3 DEF TypeOK, Active
    <3> QED
      BY <3>1, <3>2, <3>3
  <2>3. \A p \in Writers : Active(p)' => Active(p) /\ code'[p] = code[p]
    BY <2>1, <2>2 DEF Active
  <2>4. OneCode' /\ FileOfActive'
    BY <2>1, <2>2, <2>3 DEF CodesInv, OneCode, FileOfActive
  <2>5. Undisturbed' /\ ShownInv'
    BY <2>1, <2>2, <2>3, WriterFacts DEF CodesInv, Undisturbed, ShownInv, Alive
  <2> QED
    BY <2>4, <2>5 DEF CodesInv
<1>4. ASSUME NEW p \in Writers, Truncate(p) \/ FillFile(p) \/ SaveFails(p), ~mixed' PROVE CodesInv'
  <2> USE <1>4 DEF Truncate, FillFile, SaveFails, Saved
  <2>1. ~mixed /\ Active(p) /\ code[p] \in Codes
    BY DEF TypeOK, Active, CodeInv
  <2>2. /\ UNCHANGED <<worker, success, step, shown>>
        /\ \A q \in Writers \ {p} : st'[q] = st[q] /\ code'[q] = code[q]
        /\ Active(p)' => code'[p] = code[p]
        /\ p \in Hosts => st'[p] \in {"fill", "bind"}
        /\ file' \in {file, Cut, code[p]}
    BY DEF TypeOK, Active
  <2>3. \A q \in Writers : Active(q)' => Active(q) /\ code'[q] = code[q]
    BY <2>1, <2>2 DEF Active
  <2>4. OneCode'
    BY <2>1, <2>3 DEF CodesInv, OneCode
  <2>5. FileOfActive'
    <3>1. \A q \in Writers : Active(q) => code[q] = code[p]
      BY <2>1 DEF CodesInv, OneCode
    <3>2. ASSUME NEW q \in Writers, Active(q)', st'[q] \in {"bind", "own"} PROVE file' # None
      <4>1. CASE q = p
        <5>1. file' = code[p]
          BY <3>2, <4>1 DEF TypeOK
        <5> QED
          BY <2>1, <5>1
      <4>2. CASE q # p
        <5>1. st[q] \in {"bind", "own"} /\ Active(q)
          BY <2>2, <3>2, <4>2 DEF Active
        <5>2. file # None
          BY <2>1, <5>1 DEF CodesInv, FileOfActive
        <5> QED
          BY <2>1, <2>2, <5>2
      <4> QED
        BY <4>1, <4>2
    <3>3. \A q \in Writers : Active(q) => file \in {code[q], Cut, None}
      BY <2>1 DEF CodesInv, FileOfActive
    <3>4. ASSUME NEW q \in Writers, Active(q)' PROVE file' \in {code'[q], Cut, None}
      <4>1. Active(q) /\ code'[q] = code[q] /\ code[q] = code[p]
        BY <2>3, <3>1, <3>4
      <4> QED
        BY <2>2, <3>3, <4>1
    <3> QED
      BY <3>2, <3>4 DEF FileOfActive
  <2>6. Undisturbed'
    <3>1. CASE p = "tool"
      <4>1. worker # "fill" /\ \A h \in Hosts : ~Active(h) /\ st'[h] = st[h]
        BY <2>1, <2>2, <3>1, WriterFacts
        DEF WizardInv, ToolInv, CodesInv, Undisturbed, Alive, Active
      <4>2. st'["tool"] = "off" \/ file' = Cut
        BY <3>1, WriterFacts DEF TypeOK
      <4> QED
        BY <2>2, <4>1, <4>2 DEF Undisturbed, Alive, Active
    <3>2. CASE p \in Hosts
      <4>1. worker # "fill" /\ ~Alive("tool")
        BY <2>1, <3>2 DEF CodesInv, Undisturbed
      <4> QED
        BY <2>2, <3>2, <4>1, WriterFacts DEF Undisturbed, Alive
    <3> QED
      BY <3>1, <3>2, WriterFacts
  <2>7. ShownInv'
    <3> SUFFICES ASSUME success, step # "closed", shown \in Codes
                 PROVE  /\ file' = shown \/ (file' = Cut /\ \E h \in Hosts : st'[h] = "fill")
                        /\ \A h \in Hosts : Active(h)' => code'[h] = shown
      BY <2>2 DEF ShownInv
    <3>1. p \in Hosts
      BY <2>1, WriterFacts DEF WizardInv, ToolInv, Alive, Active
    <3>2. code[p] = shown /\ \A h \in Hosts : Active(h)' => code'[h] = shown
      BY <2>1, <2>3, <3>1, WriterFacts DEF CodesInv, ShownInv
    <3>3. CASE Truncate(p)
      BY <3>1, <3>2, <3>3 DEF TypeOK
    <3>4. CASE FillFile(p)
      BY <3>2, <3>4
    <3>5. CASE SaveFails(p)
      BY <2>1, <3>1, <3>2, <3>5
    <3> QED
      BY <3>2, <3>3, <3>4, <3>5
  <2> QED
    BY <2>4, <2>5, <2>6, <2>7 DEF CodesInv
<1>5. CASE Reboot
  <2>1. \A p \in Writers : ~Active(p)'
    BY <1>5 DEF Reboot, Active
  <2> QED
    BY <1>5, <2>1, WriterFacts
    DEF Reboot, CodesInv, OneCode, FileOfActive, Undisturbed, ShownInv, Alive
<1> QED
  BY <1>1, <1>2, <1>3, <1>4, <1>5 DEF Process, Save, CodesInv

LEMMA Inductive == IInv /\ [Next]_vars => IInv'
<1>1. ASSUME IInv, UNCHANGED vars PROVE IInv'
  <2>1. BaseInv'
    BY <1>1 DEF vars, wizardVars, workerVars, procVars, IInv, BaseInv, TypeOK, WizardInv, ToolInv,
       CodeInv, Alive, Active
  <2> QED
    BY <1>1, <2>1, QuietCodes DEF vars, wizardVars, workerVars, procVars, IInv
<1>2. ASSUME IInv, Next PROVE IInv'
  BY <1>2, WizardBase, WorkerBase, ProcessBase, WizardCodes, WorkerCodes, ProcessCodes
  DEF Next, IInv
<1> QED
  BY <1>1, <1>2

LEMMA Invariance == Spec => []IInv
  BY InitInv, Inductive, PTL DEF Spec
-----------------------------------------------------------------------------
(***************************************************************************)
(* Wizard, worker and processes keep their types: a pair code is always    *)
(* there when one is made up.                                              *)
(***************************************************************************)
THEOREM TypeCorrect == Spec => []TypeOK
<1>1. IInv => TypeOK
  BY DEF IInv, BaseInv
<1> QED
  BY <1>1, Invariance, PTL

(***************************************************************************)
(* The Host that has the port has the pair code of the file and of the     *)
(* summary, unless one of the things has happened that `mixed' names, for  *)
(* any number of failures (enet-installer/src/install.rs:561-602,          *)
(* enet-core/src/config.rs:239-252).                                       *)
(***************************************************************************)
THEOREM CodesAgree == Spec => []PairCodesAgree
<1>1. IInv => PairCodesAgree
  <2> SUFFICES ASSUME IInv, ~mixed, NEW h \in Hosts, st[h] = "own"
               PROVE  /\ file \in {code[h], Cut}
                      /\ step = "Done" /\ shown \in Codes => code[h] = shown
    BY DEF PairCodesAgree
  <2>1. h \in Writers /\ Active(h)
    BY WriterFacts DEF Active
  <2>2. file \in {code[h], Cut}
    BY <2>1 DEF IInv, CodesInv, FileOfActive
  <2>3. step = "Done" /\ shown \in Codes => code[h] = shown
    BY <2>1 DEF IInv, BaseInv, CodesInv, WizardInv, ShownInv
  <2> QED
    BY <2>2, <2>3
<1> QED
  BY <1>1, Invariance, PTL

(***************************************************************************)
(* There is never a second worker beside the one the wizard shows, and     *)
(* what is said to be installed is, after any number of attempts           *)
(* (enet-installer/src/main.rs:100-180, 262-275).                          *)
(***************************************************************************)
THEOREM InstallsOnce == Spec => []OneInstallation
<1>1. IInv => OneInstallation
  BY DEF IInv, BaseInv, WizardInv, OneInstallation
<1> QED
  BY <1>1, Invariance, PTL
=============================================================================
