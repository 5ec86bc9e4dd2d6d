--------------------------- MODULE HotReloadProofs ---------------------------
(***************************************************************************)
(* Proofs about HotReload, for any number of plugins, reporters and        *)
(* configurations and any number of writes of the file.                    *)
(***************************************************************************)
EXTENDS HotReload, TLAPS

-----------------------------------------------------------------------------
(* Type correctness, one lemma per group of goroutines. *)

LEMMA ConfigFields ==
  \A c \in Config : /\ c.harv \in Harvest /\ c.rep \in Reporter \union {NoReporter}
                    /\ c.client \in Client /\ c.admin \in Admin
  BY DEF Config

LEMMA LoopTyped ==
  \A rep : /\ LoopFor(rep) \in [pc : {"try", "made", "off"}, made : Instance \union {Nil}]
           /\ LoopFor(rep).pc = (IF rep = NoReporter THEN "off" ELSE "try")
           /\ LoopFor(rep).made = Nil
  BY DEF LoopFor

ReporterState == [open : BOOLEAN, rep : Reporter \union {NoReporter}, client : Client]

LEMMA Closed ==
  ASSUME NEW f \in [Instance -> ReporterState], NEW i \in Instance
  PROVE  /\ [f EXCEPT ![i].open = FALSE] \in [Instance -> ReporterState]
         /\ ~ [f EXCEPT ![i].open = FALSE][i].open
         /\ \A j \in Instance \ {i} : [f EXCEPT ![i].open = FALSE][j] = f[j]
  BY DEF ReporterState

LEMMA TypePlugin ==
  ASSUME TypeOK, NEW p \in Plugin, PluginStep(p)
  PROVE  TypeOK'
<1>1. /\ plug' \in [Plugin -> [pc : {"wait", "post", "off"}, harv : Harvest,
                               rep : Instance \union {Nil}]]
      /\ UNCHANGED <<fileVars, workerVars, cancelled, stopped, unitVars>>
  BY DEF PluginStep, Harvested, Posted, PluginEnds, PluginFails, TypeOK
<1>2. QED
  BY <1>1 DEF TypeOK, fileVars, workerVars, unitVars

LEMMA TypeLoop ==
  ASSUME TypeOK, LoopStep
  PROVE  TypeOK'
<1>1. CASE NewReporter
  BY <1>1, ConfigFields DEF NewReporter, TypeOK, fileVars, workerVars
<1>2. CASE LoopEnds
  BY <1>2 DEF LoopEnds, TypeOK, fileVars, workerVars
<1>3. CASE Publish
  <2>1. inst' \in [Instance -> ReporterState]
    BY <1>3, Closed DEF Publish, TypeOK, ReporterState
  <2>2. live' \in Instance \union {Nil} /\ loop' = [pc |-> "off", made |-> Nil]
    BY <1>3 DEF Publish, TypeOK
  <2>3. QED
    BY <1>3, <2>1, <2>2 DEF Publish, TypeOK, fileVars, workerVars, ReporterState
<1>4. QED
  BY <1>1, <1>2, <1>3 DEF LoopStep

LEMMA TypeWorker ==
  ASSUME TypeOK, WorkerStep
  PROVE  TypeOK'
<1>1. CASE TakeReload
  BY <1>1 DEF TakeReload, TypeOK, unitVars
<1>2. CASE ReloadOnce
  <2>1. mem' \in Config /\ next' \in Config
    BY <1>2 DEF ReloadOnce, TypeOK
  <2>2. stopped' \in BOOLEAN /\ worker' \in {"idle", "stop"}
    BY <1>2 DEF ReloadOnce, TypeOK
  <2>3. UNCHANGED <<fileVars, rebuild, cancelled, plug, unitVars>>
    BY <1>2 DEF ReloadOnce
  <2>4. QED
    BY <2>1, <2>2, <2>3 DEF TypeOK, fileVars, unitVars
<1>3. CASE StopRuntime
  BY <1>3 DEF StopRuntime, TypeOK, fileVars
<1>4. CASE Abandon
  BY <1>4 DEF Abandon, TypeOK, fileVars, unitVars
<1>5. CASE ApplyReload
  BY <1>5 DEF ApplyReload, TypeOK, fileVars, unitVars
<1>6. CASE ReplaceReporter
  <2>1. inst' \in [Instance -> ReporterState]
    BY <1>6, Closed DEF ReplaceReporter, TypeOK, unitVars, ReporterState
  <2>2. /\ live' \in Instance \union {Nil} /\ quiet' \in BOOLEAN
        /\ unitCfg' \in Reporter \union {NoReporter}
    BY <1>6, ConfigFields DEF ReplaceReporter, TypeOK, unitVars
  <2>3. /\ loop' \in [pc : {"try", "made", "off"}, made : Instance \union {Nil}]
        /\ loop'.pc = "made" => loop'.made \in Instance
    BY <1>6, LoopTyped DEF ReplaceReporter, TypeOK, unitVars
  <2>4. QED
    BY <1>6, <2>1, <2>2, <2>3 DEF ReplaceReporter, TypeOK, fileVars, ReporterState
<1>7. CASE StartRuntime
  BY <1>7, ConfigFields DEF StartRuntime, TypeOK, fileVars, unitVars, StartedPlugins
<1>8. QED
  BY <1>1, <1>2, <1>3, <1>4, <1>5, <1>6, <1>7 DEF WorkerStep

LEMMA TypeStep == TypeOK /\ [Next]_vars => TypeOK'
<1> SUFFICES ASSUME TypeOK, [Next]_vars PROVE TypeOK'
  OBVIOUS
<1>1. CASE WriteFile
  BY <1>1, ReloadAssumption DEF WriteFile, TypeOK, workerVars, unitVars
<1>2. CASE RequestReload
  BY <1>2 DEF RequestReload, TypeOK, workerVars, unitVars
<1>3. CASE Close
  BY <1>3 DEF Close, TypeOK, fileVars, workerVars, unitVars
<1>4. CASE UNCHANGED vars
  BY <1>4 DEF vars, fileVars, workerVars, unitVars, TypeOK
<1>5. QED
  BY <1>1, <1>2, <1>3, <1>4, TypePlugin, TypeLoop, TypeWorker DEF Next

LEMMA TypeInit == Init => TypeOK
<1> SUFFICES ASSUME Init PROVE TypeOK
  OBVIOUS
<1>1. mem \in Config /\ mem.rep \in Reporter \union {NoReporter}
  BY ConfigFields DEF Init
<1>2. plug \in [Plugin -> [pc : {"wait", "post", "off"}, harv : Harvest,
                           rep : Instance \union {Nil}]]
  BY ConfigFields DEF Init, StartedPlugins
<1>3. inst \in [Instance -> [open : BOOLEAN, rep : Reporter \union {NoReporter},
                             client : Client]]
  BY ConfigFields DEF Init
<1>4. /\ loop \in [pc : {"try", "made", "off"}, made : Instance \union {Nil}]
      /\ loop.pc # "made"
  BY LoopTyped DEF Init
<1>5. /\ file \in Config \union {Broken} /\ next \in Config
      /\ live \in Instance \union {Nil} /\ unitCfg \in Reporter \union {NoReporter}
      /\ worker \in {"idle", "parse", "stop", "quiesce", "reporter", "start"}
  BY <1>1, Zenon DEF Init
<1>6. /\ writes = 0 /\ 0 \in 0 .. MaxWrites
      /\ pending \in BOOLEAN /\ rebuild \in BOOLEAN
      /\ cancelled \in BOOLEAN /\ stopped \in BOOLEAN /\ quiet \in BOOLEAN
  <2>1. 0 \in 0 .. MaxWrites
    BY ReloadAssumption
  <2>2. QED
    BY <2>1, Zenon DEF Init
<1>7. QED
  BY <1>1, <1>2, <1>3, <1>4, <1>5, <1>6 DEF TypeOK

(* The file, the applied and the parsed configuration, the plugins and the *)
(* reporters are well typed; a loop that has made a reporter knows it.     *)
THEOREM TypeCorrect == Spec => []TypeOK
  BY TypeInit, TypeStep, PTL DEF Spec

-----------------------------------------------------------------------------
(* The inductive invariant. *)

(* The reporter in use was made from the section that the unit holds; the  *)
(* unit holds the applied one, unless the worker is about to replace it.   *)
Replacing == worker = "reporter" /\ rebuild

Made(i) == inst[i] = [open |-> TRUE, rep |-> unitCfg, client |-> mem.client]

UnitInv ==
  /\ loop.pc # "made" => loop.made = Nil
  /\ loop.pc # "off" => live = Nil /\ worker # "reporter" /\ unitCfg # NoReporter
  /\ loop.pc = "made" => Made(loop.made)
  /\ ~ Replacing => unitCfg = mem.rep
  /\ live # Nil => inst[live].open /\ inst[live].rep = unitCfg /\ unitCfg # NoReporter
  /\ live # Nil /\ ~ Replacing => Made(live)
  /\ \A i \in Instance : inst[i].open => i \in {live, loop.made}

(* A generation of plugins has the applied harvester section, and what it  *)
(* posts goes through the reporter in use; it is over before the worker    *)
(* touches either.                                                         *)
GenerationInv ==
  /\ worker \notin {"stop", "quiesce"} => next = mem
  /\ worker \in {"quiesce", "reporter", "start"} => \A p \in Plugin : plug[p].pc = "off"
  /\ \A p \in Plugin : plug[p].pc # "off" => plug[p].harv = mem.harv
  /\ \A p \in Plugin : plug[p].pc = "post" => plug[p].rep = live /\ live # Nil

(* A reporter that is not there yet is being made, by a loop that nobody   *)
(* has told to stop; a reload that cuts the loop short starts it again.    *)
MakingInv ==
  worker \in {"idle", "parse", "stop", "start"} /\ ~ cancelled /\ mem.rep # NoReporter =>
    live # Nil \/ (loop.pc # "off" /\ ~ quiet)

IInv == TypeOK /\ UnitInv /\ GenerationInv /\ MakingInv

LEMMA IInvInit == Init => IInv
<1> SUFFICES ASSUME Init PROVE IInv
  OBVIOUS
<1>1. TypeOK
  BY TypeInit
<1>2. /\ next = mem /\ unitCfg = mem.rep /\ live = Nil /\ worker = "idle"
      /\ loop = LoopFor(mem.rep) /\ ~ quiet /\ plug = StartedPlugins(mem)
  BY Zenon DEF Init
<1>3. \A i \in Instance : ~ inst[i].open
  BY DEF Init
<1>4. UnitInv
  BY <1>2, <1>3, LoopTyped DEF UnitInv, Replacing, Made
<1>5. GenerationInv
  BY <1>2 DEF GenerationInv, StartedPlugins
<1>6. MakingInv
  BY <1>2, LoopTyped DEF MakingInv
<1>7. QED
  BY <1>1, <1>4, <1>5, <1>6 DEF IInv

LEMMA PluginKeeps ==
  ASSUME IInv, NEW p \in Plugin, PluginStep(p)
  PROVE  UnitInv' /\ GenerationInv' /\ MakingInv'
<1>1. UNCHANGED <<fileVars, workerVars, cancelled, stopped, unitVars>>
  BY DEF PluginStep, Harvested, Posted, PluginEnds, PluginFails
<1>2. UnitInv' /\ MakingInv'
  BY <1>1 DEF IInv, UnitInv, Replacing, Made, MakingInv, workerVars, unitVars
<1>3. GenerationInv'
  <2>1. \A q \in Plugin \ {p} : plug'[q] = plug[q]
    BY DEF PluginStep, Harvested, Posted, PluginEnds, PluginFails, IInv, TypeOK
  <2>2. /\ plug'[p].harv = plug[p].harv
        /\ plug[p].pc = "off" => plug'[p].pc = "off"
        /\ plug'[p].pc = "post" => plug'[p].rep = live /\ live # Nil
    BY DEF PluginStep, Harvested, Posted, PluginEnds, PluginFails, IInv, TypeOK
  <2>3. QED
    BY <1>1, <2>1, <2>2 DEF IInv, GenerationInv, workerVars, unitVars
<1>4. QED
  BY <1>2, <1>3

LEMMA LoopKeeps ==
  ASSUME IInv, LoopStep
  PROVE  UnitInv' /\ GenerationInv' /\ MakingInv'
<1> USE ReloadAssumption
<1>0. TypeOK /\ UnitInv /\ GenerationInv /\ MakingInv
  BY DEF IInv
<1>1. CASE NewReporter
  <2>1. PICK i \in Instance :
          /\ ~ inst[i].open /\ i # live
          /\ inst' = [inst EXCEPT ![i] = [open |-> TRUE, rep |-> unitCfg, client |-> mem.client]]
          /\ loop' = [pc |-> "made", made |-> i]
    BY <1>1 DEF NewReporter, InUse
  <2>2. /\ UNCHANGED <<fileVars, workerVars, cancelled, stopped, plug, live, unitCfg, quiet>>
        /\ loop.pc = "try"
    BY <1>1 DEF NewReporter
  <2>3. /\ inst'[i] = [open |-> TRUE, rep |-> unitCfg, client |-> mem.client]
        /\ \A j \in Instance \ {i} : inst'[j] = inst[j]
    BY <2>1, <1>0 DEF TypeOK
  <2>4. live = Nil /\ live' = Nil
    BY <2>2, <1>0 DEF UnitInv
  <2>5. UnitInv'
    BY <1>0, <2>1, <2>2, <2>3, <2>4 DEF UnitInv, Replacing, Made, workerVars
  <2>6. GenerationInv' /\ MakingInv'
    BY <1>0, <2>1, <2>2 DEF GenerationInv, MakingInv, workerVars
  <2>7. QED
    BY <2>5, <2>6
<1>2. CASE LoopEnds
  <2>1. /\ UNCHANGED <<fileVars, workerVars, cancelled, stopped, plug, live, unitCfg, quiet, inst>>
        /\ loop.pc = "try" /\ LoopDone
        /\ loop'.pc = "off" /\ loop'.made = loop.made
    BY <1>2, <1>0 DEF LoopEnds, TypeOK
  <2>2. UnitInv' /\ GenerationInv'
    BY <1>0, <2>1 DEF UnitInv, GenerationInv, Replacing, Made, workerVars
  <2>3. MakingInv'
    BY <1>0, <2>1 DEF MakingInv, LoopDone, workerVars
  <2>4. QED
    BY <2>2, <2>3
<1>3. CASE Publish
  <2>1. /\ UNCHANGED <<fileVars, workerVars, cancelled, stopped, plug, unitCfg, quiet>>
        /\ loop.pc = "made" /\ loop'.pc = "off" /\ loop'.made = Nil
        /\ live = Nil /\ worker # "reporter" /\ loop.made \in Instance
    BY <1>3, <1>0 DEF Publish, UnitInv, TypeOK
  <2>2. CASE LoopDone
    <3>1. /\ live' = live /\ ~ inst'[loop.made].open
          /\ \A j \in Instance \ {loop.made} : inst'[j] = inst[j]
      BY <1>3, <2>1, <2>2, <1>0, Closed DEF Publish, TypeOK, ReporterState
    <3>2. UnitInv' /\ GenerationInv'
      BY <1>0, <2>1, <3>1 DEF UnitInv, GenerationInv, Replacing, Made, workerVars
    <3>3. MakingInv'
      BY <1>0, <2>1, <2>2, <3>1 DEF MakingInv, LoopDone, workerVars
    <3>4. QED
      BY <3>2, <3>3
  <2>3. CASE ~ LoopDone
    <3>1. live' = loop.made /\ inst' = inst /\ live' # Nil
      BY <1>3, <2>1, <2>3 DEF Publish
    <3>2. UnitInv'
      BY <1>0, <2>1, <3>1 DEF UnitInv, Replacing, Made, workerVars
    <3>3. GenerationInv' /\ MakingInv'
      BY <1>0, <2>1, <3>1 DEF GenerationInv, MakingInv, workerVars
    <3>4. QED
      BY <3>2, <3>3
  <2>4. QED
    BY <2>2, <2>3
<1>4. QED
  BY <1>1, <1>2, <1>3 DEF LoopStep

LEMMA WorkerKeeps ==
  ASSUME IInv, WorkerStep
  PROVE  UnitInv' /\ GenerationInv' /\ MakingInv'
<1>0. TypeOK /\ UnitInv /\ GenerationInv /\ MakingInv
  BY DEF IInv
<1>1. CASE TakeReload
  BY <1>0, <1>1
     DEF TakeReload, UnitInv, GenerationInv, MakingInv, Replacing, Made, unitVars
<1>2. CASE ReloadOnce
  <2>1. /\ UNCHANGED <<fileVars, rebuild, cancelled, plug, unitVars>>
        /\ worker = "parse" /\ next = mem
    BY <1>0, <1>2 DEF ReloadOnce, GenerationInv
  <2>2. CASE worker' = "idle" /\ UNCHANGED <<mem, next, stopped>>
    BY <1>0, <2>1, <2>2
       DEF UnitInv, GenerationInv, MakingInv, Replacing, Made, unitVars
  <2>3. CASE /\ file # Broken /\ OnlyAdminChanged(file)
             /\ worker' = "idle" /\ mem' = file /\ next' = file
    <3>1. mem'.harv = mem.harv /\ mem'.rep = mem.rep /\ mem'.client = mem.client
      <4>1. file \in Config /\ mem \in Config
        BY <1>0, <2>3 DEF TypeOK
      <4>2. mem = [file EXCEPT !.admin = mem.admin]
        BY <2>3 DEF OnlyAdminChanged
      <4>3. QED
        BY <4>1, <4>2, <2>3 DEF Config
    <3>2. QED
      BY <1>0, <2>1, <2>3, <3>1
         DEF UnitInv, GenerationInv, MakingInv, Replacing, Made, unitVars
  <2>4. CASE worker' = "stop" /\ mem' = mem
    BY <1>0, <2>1, <2>4
       DEF UnitInv, GenerationInv, MakingInv, Replacing, Made, unitVars
  <2>5. QED
    BY <1>2, <2>2, <2>3, <2>4 DEF ReloadOnce
<1>3. CASE StopRuntime
  BY <1>0, <1>3
     DEF StopRuntime, UnitInv, GenerationInv, MakingInv, Replacing, Made
<1>4. CASE Abandon
  BY <1>0, <1>4
     DEF Abandon, UnitInv, GenerationInv, MakingInv, Replacing, Made, unitVars
<1>5. CASE ApplyReload
  BY <1>0, <1>5
     DEF ApplyReload, UnitInv, GenerationInv, MakingInv, Replacing, Made, unitVars
<1>6. CASE ReplaceReporter
  <2>1. /\ worker = "reporter" /\ worker' = "start" /\ next = mem /\ loop.pc = "off"
        /\ loop.made = Nil
        /\ UNCHANGED <<mem, next, cancelled, plug>>
    BY <1>0, <1>6 DEF ReplaceReporter, UnitInv, GenerationInv
  <2>2. CASE rebuild \/ live = Nil
    <3>1. /\ live' = Nil /\ unitCfg' = mem.rep /\ loop' = LoopFor(mem.rep) /\ ~ quiet'
          /\ \A i \in Instance : ~ inst'[i].open
      <4>1. /\ live' = Nil /\ unitCfg' = mem.rep /\ loop' = LoopFor(mem.rep) /\ ~ quiet'
            /\ inst' = IF live = Nil THEN inst ELSE [inst EXCEPT ![live].open = FALSE]
        BY <1>6, <2>1, <2>2 DEF ReplaceReporter
      <4>2. \A i \in Instance : inst[i].open => i = live
        BY <1>0, <2>1, ReloadAssumption DEF UnitInv
      <4>3. QED
        BY <1>0, <4>1, <4>2, Closed, ReloadAssumption DEF TypeOK, ReporterState
    <3>2. UnitInv'
      BY <2>1, <3>1, LoopTyped DEF UnitInv, Replacing, Made
    <3>3. GenerationInv' /\ MakingInv'
      BY <1>0, <2>1, <3>1, LoopTyped DEF GenerationInv, MakingInv
    <3>4. QED
      BY <3>2, <3>3
  <2>3. CASE ~ rebuild /\ live # Nil
    <3>1. UNCHANGED unitVars
      BY <1>6, <2>3 DEF ReplaceReporter
    <3>2. QED
      BY <1>0, <2>1, <2>3, <3>1
         DEF UnitInv, GenerationInv, MakingInv, Replacing, Made, unitVars
  <2>4. QED
    BY <2>2, <2>3
<1>7. CASE StartRuntime
  BY <1>0, <1>7
     DEF StartRuntime, UnitInv, GenerationInv, MakingInv, Replacing, Made, unitVars,
         StartedPlugins
<1>8. QED
  BY <1>1, <1>2, <1>3, <1>4, <1>5, <1>6, <1>7 DEF WorkerStep

LEMMA IInvStep == IInv /\ [Next]_vars => IInv'
<1> SUFFICES ASSUME IInv, [Next]_vars PROVE IInv'
  OBVIOUS
<1>t. TypeOK'
  BY TypeStep DEF IInv
<1>1. CASE WriteFile \/ RequestReload \/ Close \/ UNCHANGED vars
  <2>1. UNCHANGED <<mem, worker, next, rebuild, plug, unitVars>> /\ (cancelled => cancelled')
    BY <1>1 DEF WriteFile, RequestReload, Close, vars, workerVars
  <2>2. QED
    BY <1>t, <2>1
       DEF IInv, UnitInv, GenerationInv, MakingInv, Replacing, Made, unitVars
<1>2. QED
  BY <1>t, <1>1, PluginKeeps, LoopKeeps, WorkerKeeps DEF Next, IInv

LEMMA IInvAlways == Spec => []IInv
  BY IInvInit, IInvStep, PTL DEF Spec

(* No plugin posts what it harvested under another configuration, or       *)
(* through a reporter that is closed or was made from other sections,      *)
(* however reloads, posts, failed attempts and a shutdown interleave.      *)
THEOREM PostsCurrent == Spec => []PostsAreCurrent
<1>1. IInv => PostsAreCurrent
  BY DEF IInv, TypeOK, UnitInv, GenerationInv, PostsAreCurrent, Replacing, Made
<1>2. QED
  BY <1>1, IInvAlways, PTL

(* No sequence of reloads loses the reporter or leaks one: between reloads *)
(* a configured one is there or being made, and no other stays open.       *)
THEOREM ReporterStays == Spec => []ReporterKept
<1>1. IInv => ReporterKept
  <2> SUFFICES ASSUME IInv, worker \in {"idle", "parse"}, ~ cancelled PROVE ReporterKept
    BY DEF ReporterKept
  <2>1. ~ Replacing /\ unitCfg = mem.rep
    BY DEF IInv, UnitInv, Replacing
  <2>2. mem.rep # NoReporter <=> live # Nil \/ loop.pc # "off"
    BY <2>1 DEF IInv, UnitInv, MakingInv
  <2>3. ASSUME NEW i \in Instance, inst[i].open
        PROVE  i \in {live, loop.made} /\ Made(i)
    BY <2>1, <2>3, ReloadAssumption DEF IInv, UnitInv, TypeOK
  <2>4. QED
    BY <2>1, <2>2, <2>3 DEF ReporterKept, Made
<1>2. QED
  BY <1>1, IInvAlways, PTL
=============================================================================
