--------------------------- MODULE ConfigSyncProofs ---------------------------
(***************************************************************************)
(* Proofs about ConfigSync, for any number of gen-config commands, any     *)
(* parameters and ports, and any number of edits, failures and crashes.    *)
(***************************************************************************)
EXTENDS ConfigSync, TLAPS

(* Whoever is between taking the lock and its release has it. *)
LockHeld ==
  \A w \in Writer : pc[w] \in {"check", "write", "rename"} => lock = w

(* What the flags of a gen-config command leave open it has from the file   *)
(* that it compares with the one under the lock.                            *)
Inherited ==
  \A g \in Gen :
    LET j == job[g] IN
    pc[g] \in {"fetch", "lock", "check"} /\ j.base \in Resolved =>
      /\ "params" \in j.asks \/ j.params = j.base.params
      /\ "clear" \in j.asks \/ j.clear = j.base.clear

(* Only a probe that runs owes anybody a reload. *)
UnseenByRunning == unseen # {} => up

(* The sync loop is a goroutine of the probe. *)
SyncerRuns == pc[Syncer] # "idle" => up

TypeInv == TypeOK /\ SyncerRuns

IInv ==
  /\ TypeInv
  /\ LockHeld /\ TempIsMine
  /\ Inherited /\ NoEditReverted /\ SameSourceUnlessHealing
  /\ UnseenByRunning /\ ReloadPromised

-----------------------------------------------------------------------------
(* Types. *)

LEMMA Renderings ==
  ASSUME NEW c \in Config, NEW j \in JobType
  PROVE  Render(c, j) \in Config /\ RenderNew(j) \in Config
BY DEF Render, RenderNew, Config, Harvester, JobType

LEMMA LockedRendering ==
  ASSUME NEW c, NEW j \in JobType
  PROVE  RenderLocked(c, j) \in Config
<1>1. CASE Readable(c)
  <2> DEFINE d == [c EXCEPT !.params = j.params, !.clear = j.clear]
  <2>1. d \in Config
    BY <1>1 DEF Readable, Config, JobType
  <2> QED
    BY <1>1, <2>1, Renderings DEF RenderLocked
<1>2. CASE ~ Readable(c)
  <2>1. RenderNew(j) \in Config
    BY DEF RenderNew, Config, Harvester, JobType
  <2> QED
    BY <1>2, <2>1 DEF RenderLocked
<1> QED
  BY <1>1, <1>2

LEMMA BaselineTyped ==
  ASSUME NEW c \in Config \union {Missing, Broken}
  PROVE  /\ Baseline(c) \in Resolved \union {Missing, Broken}
         /\ Readable(c) <=> Baseline(c) \in Resolved
         /\ ~ Readable(c) <=> Baseline(c) \in {Missing, Broken}
         /\ Readable(c) => Baseline(c).params = c.params /\ Baseline(c).clear = c.clear
BY ConfigAssumption DEF Baseline, Readable, Config, Resolved

LEMMA NoJobTyped == NoJob \in JobType
BY ConfigAssumption DEF NoJob, JobType

(* Step and data of every writer. *)
WriterTypes ==
  /\ pc \in [Writer -> Step]
  /\ job \in [Writer -> JobType]
  /\ \A w \in Writer : pc[w] \in {"write", "rename"} => job[w].out \in Config

LEMMA GotoTypes ==
  ASSUME TypeOK, NEW w \in Writer, NEW step \in Step, NEW j \in JobType,
         Goto(w, step, j), step \in {"write", "rename"} => j.out \in Config
  PROVE  WriterTypes'
BY DEF TypeOK, Goto, WriterTypes

LEMMA EndTypes ==
  ASSUME TypeOK, NEW w \in Writer, End(w)
  PROVE  WriterTypes'
<1>1. "idle" \in Step
  BY DEF Step
<1> QED
  BY <1>1, NoJobTyped, GotoTypes DEF End

LEMMA InitTypes == Init => TypeOK
<1> SUFFICES ASSUME Init PROVE TypeOK
  OBVIOUS
<1>1. WriterTypes
  BY NoJobTyped DEF Init, WriterTypes, Step
<1>2. data \in 1 .. MaxVersion /\ ops \in 0 .. MaxOps
  BY ConfigAssumption DEF Init
<1> QED
  BY <1>1, <1>2 DEF Init, TypeOK, WriterTypes

LEMMA WriterStepTypes ==
  ASSUME TypeOK, NEW w \in Writer, WriterStep(w) PROVE TypeOK'
<1>1. CASE Fetch(w)
  <2> DEFINE j == [job[w] EXCEPT !.ver = data]
  <2>1. j \in JobType /\ "lock" \in Step
    BY DEF TypeOK, JobType, Step
  <2>2. WriterTypes'
    BY <1>1, <2>1, GotoTypes DEF Fetch
  <2> QED
    BY <1>1, <2>2 DEF Fetch, TypeOK, WriterTypes, fileVars, probeVars
<1>2. CASE AcquireFileLock(w)
  BY <1>2 DEF AcquireFileLock, TypeOK, Step, fileVars, probeVars
<1>3. CASE GiveUp(w)
  <2>1. WriterTypes'
    BY <1>3, EndTypes DEF GiveUp
  <2> QED
    BY <1>3, <2>1, ConfigAssumption
       DEF GiveUp, Disturb, TypeOK, WriterTypes, probeVars
<1>4. CASE SameContent(w)
  <2>1. job[w] \in JobType /\ "request" \in Step
    BY DEF TypeOK, Step
  <2>2. WriterTypes'
    BY <1>4, <2>1, GotoTypes, EndTypes DEF SameContent
  <2> QED
    BY <1>4, <2>2 DEF SameContent, TypeOK, WriterTypes, probeVars
<1>5. CASE WriteTempFile(w)
  BY <1>5 DEF WriteTempFile, TypeOK, Step, probeVars
<1>6. CASE Rename(w)
  <2>1. job[w] \in JobType /\ "request" \in Step /\ job[w].out \in Config
    BY <1>6 DEF Rename, TypeOK, Step
  <2>2. WriterTypes'
    BY <1>6, <2>1, GotoTypes, EndTypes DEF Rename
  <2> QED
    BY <1>6, <2>1, <2>2 DEF Rename, TypeOK, WriterTypes, probeVars
<1>7. CASE WriteFails(w)
  <2>1. WriterTypes'
    BY <1>7, EndTypes DEF WriteFails
  <2> QED
    BY <1>7, <2>1, ConfigAssumption
       DEF WriteFails, Disturb, TypeOK, WriterTypes, probeVars
<1> QED
  BY <1>1, <1>2, <1>3, <1>4, <1>5, <1>6, <1>7 DEF WriterStep

LEMMA SyncerStepTypes ==
  ASSUME TypeInv, SyncerStep PROVE TypeOK'
<1>t. TypeOK /\ SyncerRuns
  BY DEF TypeInv
<1>w. Syncer \in Writer
  BY DEF Writer
<1>1. CASE SyncOnce
  <2> DEFINE j == [NoJob EXCEPT !.params = mem.params, !.reload = TRUE]
  <2>1. j \in JobType /\ "fetch" \in Step
    BY <1>t, <1>1, NoJobTyped DEF SyncOnce, TypeOK, Config, JobType, Step
  <2>2. WriterTypes'
    BY <1>t, <1>1, <2>1, <1>w, GotoTypes DEF SyncOnce
  <2> QED
    BY <1>t, <1>1, <2>2 DEF SyncOnce, TypeOK, WriterTypes, fileVars, probeVars
<1>2. CASE ParamsDiffer
  <2>1. WriterTypes'
    BY <1>t, <1>2, <1>w, EndTypes DEF ParamsDiffer
  <2> QED
    BY <1>t, <1>2, <2>1 DEF ParamsDiffer, TypeOK, WriterTypes
<1>3. CASE Reconcile
  <2> DEFINE out == Render(file, job[Syncer])
             j == [job[Syncer] EXCEPT !.base = Baseline(file), !.out = out]
  <2>1. job[Syncer] \in JobType /\ file \in Config
    BY <1>t, <1>3, <1>w DEF TypeOK, Reconcile, Readable
  <2>2. out \in Config
    BY <2>1, Renderings
  <2>3. Baseline(file) \in Resolved \union {Missing, Broken}
    BY <2>1, BaselineTyped
  <2> HIDE DEF out
  <2>4. j \in JobType /\ j.out \in Config /\ "write" \in Step
    BY <2>1, <2>2, <2>3 DEF JobType, Step
  <2>5. WriterTypes' /\ (lock' = lock \/ lock' = None)
    <3>1. CASE End(Syncer) /\ lock' = None
      BY <1>t, <3>1, <1>w, EndTypes
    <3>2. CASE Goto(Syncer, "write", j) /\ UNCHANGED lock
      BY <1>t, <3>2, <2>4, <1>w, GotoTypes
    <3> QED
      BY <1>3, <3>1, <3>2 DEF Reconcile, out
  <2>6. UNCHANGED <<file, temps, probeVars, data, unseen, ops>>
    BY <1>3 DEF Reconcile
  <2> QED
    BY <1>t, <2>5, <2>6 DEF TypeOK, WriterTypes, probeVars
<1>4. CASE SelfHeal
  <2> DEFINE out == Render(mem, job[Syncer])
             j == [job[Syncer] EXCEPT !.base = Baseline(file), !.out = out]
  <2>1. job[Syncer] \in JobType /\ file \in Config \union {Missing, Broken}
    BY <1>t, <1>w DEF TypeOK
  <2>2. mem \in Config
    BY <1>4, <1>t DEF TypeOK, SelfHeal, SyncerRuns
  <2>3. out \in Config
    BY <2>1, <2>2, Renderings
  <2>4. Baseline(file) \in Resolved \union {Missing, Broken}
    BY <2>1, BaselineTyped
  <2> HIDE DEF out
  <2>5. j \in JobType /\ j.out \in Config /\ "write" \in Step
    BY <2>1, <2>3, <2>4 DEF JobType, Step
  <2>6. WriterTypes'
    BY <1>t, <1>4, <2>5, <1>w, GotoTypes DEF SelfHeal, out
  <2> QED
    BY <1>t, <1>4, <2>6 DEF SelfHeal, TypeOK, WriterTypes, fileVars, probeVars
<1>5. CASE RequestReload
  <2>1. WriterTypes'
    BY <1>t, <1>5, <1>w, EndTypes DEF RequestReload
  <2> QED
    BY <1>t, <1>5, <2>1 DEF RequestReload, TypeOK, WriterTypes, fileVars
<1> QED
  BY <1>1, <1>2, <1>3, <1>4, <1>5 DEF SyncerStep

LEMMA GenStepTypes ==
  ASSUME TypeOK, NEW g \in Gen, GenStep(g) PROVE TypeOK'
<1>w. g \in Writer
  BY DEF Writer
<1>1. CASE ReadGenConfigFile(g)
  <2>1. PICK asks \in SUBSET {"params", "clear"}, p \in Params, c \in Ports, reload \in BOOLEAN :
          Goto(g, "fetch",
            [NoJob EXCEPT
               !.asks   = asks,
               !.params = IF "params" \in asks THEN p
                          ELSE IF Readable(file) THEN file.params ELSE Detected,
               !.clear  = IF "clear" \in asks THEN c
                          ELSE IF Readable(file) THEN file.clear ELSE NoPorts,
               !.base   = Baseline(file),
               !.reload = reload])
    BY <1>1 DEF ReadGenConfigFile
  <2> DEFINE params == IF "params" \in asks THEN p
                       ELSE IF Readable(file) THEN file.params ELSE Detected
             clear  == IF "clear" \in asks THEN c
                       ELSE IF Readable(file) THEN file.clear ELSE NoPorts
             j == [NoJob EXCEPT !.asks = asks, !.params = params, !.clear = clear,
                                !.base = Baseline(file), !.reload = reload]
  <2>2. params \in Params /\ clear \in Ports
    BY ConfigAssumption DEF Readable, Config
  <2>3. Baseline(file) \in Resolved \union {Missing, Broken}
    BY BaselineTyped DEF TypeOK
  <2>4. Goto(g, "fetch", j)
    BY <2>1
  <2> HIDE DEF params, clear
  <2>5. j \in JobType /\ "fetch" \in Step
    BY <2>2, <2>3, NoJobTyped DEF JobType, Step
  <2> HIDE DEF j
  <2>6. WriterTypes'
    BY <2>4, <2>5, <1>w, GotoTypes
  <2> QED
    BY <1>1, <2>6, ConfigAssumption
       DEF ReadGenConfigFile, Disturb, TypeOK, WriterTypes, fileVars, probeVars
<1>2. CASE BaselineChanged(g)
  <2>1. WriterTypes'
    BY <1>2, <1>w, EndTypes DEF BaselineChanged
  <2> QED
    BY <1>2, <2>1 DEF BaselineChanged, TypeOK, WriterTypes, probeVars
<1>3. CASE CommitGenConfigFile(g)
  <2> DEFINE out == RenderLocked(file, job[g])
             j == [job[g] EXCEPT !.out = out]
  <2>1. job[g] \in JobType
    BY <1>w DEF TypeOK
  <2>2. out \in Config
    BY <2>1, LockedRendering
  <2> HIDE DEF out
  <2>3. j \in JobType /\ j.out \in Config /\ "write" \in Step
    BY <2>1, <2>2 DEF JobType, Step
  <2>4. WriterTypes'
    BY <1>3, <2>3, <1>w, GotoTypes DEF CommitGenConfigFile, out
  <2> QED
    BY <1>3, <2>4 DEF CommitGenConfigFile, TypeOK, WriterTypes, fileVars, probeVars
<1>4. CASE ReloadIfRunning(g)
  <2>1. WriterTypes'
    BY <1>4, <1>w, EndTypes DEF ReloadIfRunning
  <2> QED
    BY <1>4, <2>1 DEF ReloadIfRunning, TypeOK, WriterTypes, fileVars
<1>5. CASE Kill(g)
  <2>1. WriterTypes'
    BY <1>5, <1>w, EndTypes DEF Kill, Dies
  <2> QED
    BY <1>5, <2>1, ConfigAssumption
       DEF Kill, Dies, Disturb, TypeOK, WriterTypes, probeVars
<1> QED
  BY <1>1, <1>2, <1>3, <1>4, <1>5 DEF GenStep

LEMMA EditTypes ==
  ASSUME TypeOK, NEW c \in HandEdits PROVE c \in Config \union {Missing, Broken}
<1>1. CASE Readable(file)
  <2>1. file \in Config
    BY <1>1 DEF Readable
  <2>2. \A p \in Params : [file EXCEPT !.params = p] \in Config
    BY <2>1 DEF Config
  <2>3. [file EXCEPT !.sync = ~ file.sync] \in Config
    BY <2>1 DEF Config
  <2>4. \A q \in Ports : [file EXCEPT !.clear = q] \in Config
    BY <2>1 DEF Config
  <2>5. [file EXCEPT !.harv.ver = 0] \in Config
    BY <2>1, ConfigAssumption DEF Config, Harvester
  <2> QED
    BY <1>1, <2>2, <2>3, <2>4, <2>5 DEF HandEdits
<1>2. CASE ~ Readable(file)
  BY <1>2 DEF HandEdits, TypeOK
<1> QED
  BY <1>1, <1>2

LEMMA NextTypes == TypeInv /\ [Next]_vars => TypeOK'
<1> SUFFICES ASSUME TypeInv, [Next]_vars PROVE TypeOK'
  OBVIOUS
<1>t. TypeOK
  BY DEF TypeInv
<1>1. ASSUME NEW w \in Writer, WriterStep(w) PROVE TypeOK'
  BY <1>t, <1>1, WriterStepTypes
<1>2. CASE SyncerStep
  BY <1>2, SyncerStepTypes
<1>3. ASSUME NEW g \in Gen, GenStep(g) PROVE TypeOK'
  BY <1>t, <1>3, GenStepTypes
<1>4. CASE ProbeStep
  <2>1. CASE ForwardSignal
    BY <1>t, <2>1 DEF ForwardSignal, TypeOK, fileVars
  <2>2. CASE TakeReload
    BY <1>t, <2>2 DEF TakeReload, TypeOK, fileVars
  <2>3. CASE ReloadOnce
    BY <1>t, <2>3 DEF ReloadOnce, TypeOK, Readable, fileVars
  <2>4. CASE ApplyReload
    BY <1>t, <2>4 DEF ApplyReload, TypeOK, fileVars
  <2>5. CASE Start
    BY <1>t, <2>5 DEF Start, TypeOK, Readable, fileVars
  <2>6. CASE Crash
    <3>1. Syncer \in Writer /\ End(Syncer)
      BY <2>6 DEF Crash, Dies, Writer
    <3>2. WriterTypes'
      BY <1>t, <3>1, EndTypes
    <3>3. lock' \in Writer \union {None} /\ UNCHANGED <<file, temps, data>>
      BY <2>6, <1>t DEF Crash, Dies, TypeOK
    <3>4. ops' \in 0 .. MaxOps
      BY <2>6, <1>t, ConfigAssumption DEF Crash, Disturb, TypeOK
    <3> QED
      BY <2>6, <3>2, <3>3, <3>4, <1>t DEF Crash, TypeOK, WriterTypes
  <2> QED
    BY <1>4, <2>1, <2>2, <2>3, <2>4, <2>5, <2>6 DEF ProbeStep
<1>5. CASE EditFile
  <2>1. file' \in Config \union {Missing, Broken}
    BY <1>t, <1>5, EditTypes DEF EditFile
  <2>2. \A w \in Writer : [job[w] EXCEPT !.raced = TRUE] \in JobType
    BY <1>t DEF TypeOK, JobType
  <2>3. WriterTypes'
    BY <1>t, <1>5, <2>2 DEF EditFile, WriterTypes, TypeOK, JobType
  <2> QED
    BY <1>t, <1>5, <2>1, <2>3, ConfigAssumption
       DEF EditFile, Disturb, TypeOK, WriterTypes, probeVars
<1>6. CASE SignalReload
  BY <1>t, <1>6, ConfigAssumption DEF SignalReload, Disturb, TypeOK, fileVars
<1>7. CASE ChangeMetadata
  BY <1>t, <1>7, ConfigAssumption DEF ChangeMetadata, TypeOK, fileVars, probeVars
<1>8. CASE UNCHANGED vars
  BY <1>t, <1>8 DEF vars, TypeOK, fileVars, probeVars
<1> QED
  BY <1>1, <1>2, <1>3, <1>4, <1>5, <1>6, <1>7, <1>8 DEF Next

LEMMA NextSyncerRuns == TypeInv /\ [Next]_vars => SyncerRuns'
<1> SUFFICES ASSUME TypeInv, [Next]_vars PROVE SyncerRuns'
  OBVIOUS
<1>t. TypeOK /\ SyncerRuns /\ Syncer \in Writer
  BY DEF TypeInv, Writer
<1>1. ASSUME NEW w \in Writer, WriterStep(w) PROVE SyncerRuns'
  BY <1>1, <1>t
     DEF WriterStep, Fetch, AcquireFileLock, GiveUp, SameContent, WriteTempFile,
         Rename, WriteFails, Goto, End, SyncerRuns, TypeOK, probeVars
<1>2. CASE SyncerStep
  BY <1>2, <1>t
     DEF SyncerStep, SyncOnce, ParamsDiffer, Reconcile, SelfHeal, RequestReload,
         SyncerRuns, probeVars
<1>3. ASSUME NEW g \in Gen, GenStep(g) PROVE SyncerRuns'
  <2>1. g # Syncer
    BY ConfigAssumption
  <2> QED
    BY <1>3, <2>1, <1>t
       DEF GenStep, ReadGenConfigFile, BaselineChanged, CommitGenConfigFile,
           ReloadIfRunning, Kill, Dies, Goto, End, SyncerRuns, TypeOK, probeVars
<1>4. CASE ProbeStep
  BY <1>4, <1>t
     DEF ProbeStep, ForwardSignal, TakeReload, ReloadOnce, ApplyReload, Start, Crash,
         Dies, End, Goto, SyncerRuns, TypeOK
<1>5. CASE EditFile \/ SignalReload \/ ChangeMetadata \/ UNCHANGED vars
  BY <1>5, <1>t DEF EditFile, SignalReload, ChangeMetadata, SyncerRuns, vars, probeVars
<1> QED
  BY <1>1, <1>2, <1>3, <1>4, <1>5 DEF Next

LEMMA TypeInvAlways == Spec => []TypeInv
<1>1. Init => TypeInv
  BY InitTypes DEF Init, TypeInv, SyncerRuns, Writer
<1>2. TypeInv /\ [Next]_vars => TypeInv'
  BY NextTypes, NextSyncerRuns DEF TypeInv
<1> QED
  BY <1>1, <1>2, PTL DEF Spec

(* The file, the lock, the writers and the probe stay in their types, and a *)
(* writer that is about to write has a complete rendering.                  *)
THEOREM TypeCorrect == Spec => []TypeOK
<1>1. TypeInv => TypeOK
  BY DEF TypeInv
<1> QED
  BY <1>1, TypeInvAlways, PTL

-----------------------------------------------------------------------------
(* The lock and the temporary files. *)

(* What a writer's own step leaves of the others. *)
LEMMA GotoEffect ==
  ASSUME TypeOK, NEW w \in Writer, NEW step, NEW j, Goto(w, step, j)
  PROVE  /\ pc'[w] = step /\ job'[w] = j
         /\ \A v \in Writer \ {w} : pc'[v] = pc[v] /\ job'[v] = job[v]
BY DEF TypeOK, Goto

LEMMA EndEffect ==
  ASSUME TypeOK, NEW w \in Writer, End(w)
  PROVE  /\ pc'[w] = "idle" /\ job'[w] = NoJob
         /\ \A v \in Writer \ {w} : pc'[v] = pc[v] /\ job'[v] = job[v]
BY DEF TypeOK, Goto, End

(* Between taking the lock and its release nobody else is. *)
LEMMA OneAtATime ==
  ASSUME LockHeld, NEW v \in Writer, NEW w \in Writer,
         pc[v] \in {"check", "write", "rename"}, pc[w] \in {"check", "write", "rename"}
  PROVE  v = w
BY DEF LockHeld

LEMMA NextLocked ==
  TypeInv /\ LockHeld /\ TempIsMine /\ [Next]_vars => (LockHeld /\ TempIsMine)'
<1> SUFFICES ASSUME TypeInv, LockHeld, TempIsMine, [Next]_vars
             PROVE  LockHeld' /\ TempIsMine'
  OBVIOUS
<1>t. TypeOK /\ Syncer \in Writer /\ Gen \subseteq Writer /\ None \notin Writer
  BY ConfigAssumption DEF TypeInv, Writer
(* A writer that lets go of the lock was the only one that could have it. *)
<1>r. ASSUME NEW w \in Writer, End(w), lock' = None,
             pc[w] \in {"check", "write", "rename"} \/ lock = None
      PROVE  LockHeld'
  BY <1>r, <1>t, EndEffect DEF LockHeld
<1>d. ASSUME NEW w \in Writer, End(w), lock' = IF lock = w THEN None ELSE lock
      PROVE  LockHeld'
  BY <1>d, <1>t, EndEffect DEF LockHeld
<1>e. ASSUME NEW w \in Writer, End(w), UNCHANGED temps PROVE TempIsMine'
  BY <1>e, <1>t, EndEffect DEF TempIsMine
<1>1. ASSUME NEW w \in Writer, Fetch(w) PROVE LockHeld' /\ TempIsMine'
  BY <1>1, <1>t, GotoEffect DEF Fetch, LockHeld, TempIsMine, fileVars
<1>2. ASSUME NEW w \in Writer, AcquireFileLock(w) PROVE LockHeld' /\ TempIsMine'
  BY <1>2, <1>t DEF AcquireFileLock, LockHeld, TempIsMine, TypeOK
<1>3. ASSUME NEW w \in Writer, GiveUp(w) PROVE LockHeld' /\ TempIsMine'
  BY <1>3, <1>d, <1>e DEF GiveUp
<1>4. ASSUME NEW w \in Writer, SameContent(w) PROVE LockHeld' /\ TempIsMine'
  <2>1. /\ pc'[w] \in {"idle", "request"}
        /\ \A v \in Writer \ {w} : pc'[v] = pc[v] /\ pc[v] \notin {"check", "write", "rename"}
    BY <1>4, <1>t, EndEffect, GotoEffect, OneAtATime DEF SameContent
  <2> QED
    BY <2>1 DEF LockHeld, TempIsMine
<1>5. ASSUME NEW w \in Writer, WriteTempFile(w) PROVE LockHeld' /\ TempIsMine'
  <2>1. /\ pc'[w] = "rename" /\ w \in temps' /\ lock' = lock /\ pc[w] = "write"
        /\ \A v \in Writer \ {w} : pc'[v] = pc[v] /\ pc[v] \notin {"check", "write", "rename"}
    BY <1>5, <1>t, OneAtATime DEF WriteTempFile, TypeOK
  <2> QED
    BY <2>1 DEF LockHeld, TempIsMine
<1>6. ASSUME NEW w \in Writer, Rename(w) PROVE LockHeld' /\ TempIsMine'
  <2>1. /\ pc'[w] \in {"idle", "request"}
        /\ \A v \in Writer \ {w} : pc'[v] = pc[v] /\ pc[v] \notin {"check", "write", "rename"}
    BY <1>6, <1>t, EndEffect, GotoEffect, OneAtATime DEF Rename
  <2> QED
    BY <2>1 DEF LockHeld, TempIsMine
<1>7. ASSUME NEW w \in Writer, WriteFails(w) PROVE LockHeld' /\ TempIsMine'
  <2>1. /\ pc'[w] = "idle"
        /\ \A v \in Writer \ {w} : pc'[v] = pc[v] /\ pc[v] \notin {"check", "write", "rename"}
    BY <1>7, <1>t, EndEffect, OneAtATime DEF WriteFails
  <2> QED
    BY <2>1 DEF LockHeld, TempIsMine
<1>8. CASE SyncOnce
  BY <1>8, <1>t, GotoEffect DEF SyncOnce, LockHeld, TempIsMine, fileVars
<1>9. CASE ParamsDiffer
  BY <1>9, <1>t, <1>r, <1>e DEF ParamsDiffer
<1>10. CASE Reconcile
  <2>1. CASE End(Syncer) /\ lock' = None
    BY <1>10, <2>1, <1>t, <1>r, <1>e DEF Reconcile
  <2>2. ASSUME NEW j, Goto(Syncer, "write", j), UNCHANGED lock
        PROVE  LockHeld' /\ TempIsMine'
    BY <1>10, <2>2, <1>t, GotoEffect DEF Reconcile, LockHeld, TempIsMine
  <2> QED
    BY <1>10, <2>1, <2>2 DEF Reconcile
<1>11. CASE SelfHeal
  BY <1>11, <1>t, GotoEffect DEF SelfHeal, LockHeld, TempIsMine, fileVars
<1>12. CASE RequestReload
  BY <1>12, <1>t, EndEffect DEF RequestReload, LockHeld, TempIsMine, fileVars
<1>13. ASSUME NEW g \in Gen, ReadGenConfigFile(g) PROVE LockHeld' /\ TempIsMine'
  <2>1. PICK j : Goto(g, "fetch", j)
    BY <1>13 DEF ReadGenConfigFile
  <2> QED
    BY <1>13, <2>1, <1>t, GotoEffect DEF ReadGenConfigFile, LockHeld, TempIsMine, fileVars
<1>14. ASSUME NEW g \in Gen, BaselineChanged(g) PROVE LockHeld' /\ TempIsMine'
  BY <1>14, <1>t, <1>r, <1>e DEF BaselineChanged
<1>15. ASSUME NEW g \in Gen, CommitGenConfigFile(g) PROVE LockHeld' /\ TempIsMine'
  BY <1>15, <1>t, GotoEffect DEF CommitGenConfigFile, LockHeld, TempIsMine, fileVars
<1>16. ASSUME NEW g \in Gen, ReloadIfRunning(g) PROVE LockHeld' /\ TempIsMine'
  BY <1>16, <1>t, EndEffect DEF ReloadIfRunning, LockHeld, TempIsMine, fileVars
<1>17. ASSUME NEW g \in Gen, Kill(g) PROVE LockHeld' /\ TempIsMine'
  BY <1>17, <1>t, <1>d, <1>e DEF Kill, Dies
<1>18. CASE Crash
  BY <1>18, <1>t, <1>d, <1>e DEF Crash, Dies
<1>19. ASSUME UNCHANGED <<pc, temps, lock>> PROVE LockHeld' /\ TempIsMine'
  BY <1>19 DEF LockHeld, TempIsMine
<1>20. CASE EditFile \/ SignalReload \/ ChangeMetadata \/ UNCHANGED vars
  BY <1>20, <1>19 DEF EditFile, SignalReload, ChangeMetadata, vars, fileVars
<1>21. CASE ForwardSignal \/ TakeReload \/ ReloadOnce \/ ApplyReload \/ Start
  BY <1>21, <1>19 DEF ForwardSignal, TakeReload, ReloadOnce, ApplyReload, Start, fileVars
<1> QED
  BY <1>1, <1>2, <1>3, <1>4, <1>5, <1>6, <1>7, <1>8, <1>9, <1>10, <1>11, <1>12, <1>13,
     <1>14, <1>15, <1>16, <1>17, <1>18, <1>20, <1>21
     DEF Next, WriterStep, SyncerStep, GenStep, ProbeStep

(* A step leaves a writer as it is, ends its write, or is one of these; only  *)
(* a rename and an edit change the file.                                     *)
OwnStep(v) ==
  \/ pc'[v] = pc[v] /\ job'[v] = job[v] /\ ~ EditFile
  \/ EditFile
  \/ pc'[v] \in {"idle", "request"}
  \/ Fetch(v) \/ AcquireFileLock(v) \/ WriteTempFile(v)
  \/ v = Syncer /\ (SyncOnce \/ Reconcile \/ SelfHeal)
  \/ v \in Gen /\ (ReadGenConfigFile(v) \/ CommitGenConfigFile(v))

LEMMA EveryStep ==
  ASSUME TypeOK, [Next]_vars, NEW v \in Writer
  PROVE  OwnStep(v) /\ (file' = file \/ EditFile \/ \E w \in Writer : Rename(w))
<1>t. Syncer \in Writer /\ Gen \subseteq Writer /\ Syncer \notin Gen
  BY ConfigAssumption DEF Writer
<1>o. ASSUME NEW w \in Writer, NEW step, NEW j, Goto(w, step, j), w # v
      PROVE  pc'[v] = pc[v] /\ job'[v] = job[v]
  BY <1>o, GotoEffect
<1>e. ASSUME NEW w \in Writer, End(w)
      PROVE  pc'[v] = "idle" \/ (pc'[v] = pc[v] /\ job'[v] = job[v])
  BY <1>e, EndEffect
<1>1. ASSUME NEW w \in Writer, WriterStep(w)
      PROVE  OwnStep(v) /\ (file' = file \/ EditFile \/ \E u \in Writer : Rename(u))
  <2>1. CASE Fetch(w)
    BY <2>1, <1>o DEF Fetch, OwnStep, fileVars
  <2>2. CASE AcquireFileLock(w)
    BY <2>2 DEF AcquireFileLock, OwnStep, TypeOK
  <2>3. CASE GiveUp(w)
    BY <2>3, <1>e DEF GiveUp, OwnStep
  <2>4. CASE SameContent(w)
    BY <2>4, <1>o, <1>e, GotoEffect DEF SameContent, OwnStep
  <2>5. CASE WriteTempFile(w)
    BY <2>5 DEF WriteTempFile, OwnStep, TypeOK
  <2>6. CASE Rename(w)
    BY <2>6, <1>o, <1>e, GotoEffect DEF Rename, OwnStep
  <2>7. CASE WriteFails(w)
    BY <2>7, <1>e DEF WriteFails, OwnStep
  <2> QED
    BY <1>1, <2>1, <2>2, <2>3, <2>4, <2>5, <2>6, <2>7 DEF WriterStep
<1>2. CASE SyncerStep
  <2>1. CASE SyncOnce
    BY <2>1, <1>t, <1>o DEF SyncOnce, OwnStep, fileVars
  <2>2. CASE ParamsDiffer
    BY <2>2, <1>t, <1>e DEF ParamsDiffer, OwnStep
  <2>3. CASE Reconcile
    <3>1. CASE End(Syncer)
      BY <2>3, <3>1, <1>t, <1>e DEF Reconcile, OwnStep
    <3>2. ASSUME NEW j, Goto(Syncer, "write", j)
          PROVE  OwnStep(v) /\ file' = file
      BY <2>3, <3>2, <1>t, <1>o DEF Reconcile, OwnStep
    <3> QED
      BY <2>3, <3>1, <3>2 DEF Reconcile
  <2>4. CASE SelfHeal
    BY <2>4, <1>t, <1>o DEF SelfHeal, OwnStep, fileVars
  <2>5. CASE RequestReload
    BY <2>5, <1>t, <1>e DEF RequestReload, OwnStep, fileVars
  <2> QED
    BY <1>2, <2>1, <2>2, <2>3, <2>4, <2>5 DEF SyncerStep
<1>3. ASSUME NEW g \in Gen, GenStep(g) PROVE OwnStep(v) /\ file' = file
  <2>1. CASE ReadGenConfigFile(g)
    <3>1. PICK j : Goto(g, "fetch", j)
      BY <2>1 DEF ReadGenConfigFile
    <3>2. file' = file
      BY <2>1 DEF ReadGenConfigFile, fileVars
    <3>3. g # v => pc'[v] = pc[v] /\ job'[v] = job[v]
      BY <3>1, <1>t, <1>o
    <3> QED
      BY <2>1, <3>2, <3>3 DEF OwnStep
  <2>2. CASE BaselineChanged(g)
    BY <2>2, <1>t, <1>e DEF BaselineChanged, OwnStep
  <2>3. CASE CommitGenConfigFile(g)
    BY <2>3, <1>t, <1>o DEF CommitGenConfigFile, OwnStep, fileVars
  <2>4. CASE ReloadIfRunning(g)
    BY <2>4, <1>t, <1>e DEF ReloadIfRunning, OwnStep, fileVars
  <2>5. CASE Kill(g)
    BY <2>5, <1>t, <1>e DEF Kill, Dies, OwnStep
  <2> QED
    BY <1>3, <2>1, <2>2, <2>3, <2>4, <2>5 DEF GenStep
<1>4. CASE Crash
  BY <1>4, <1>t, <1>e DEF Crash, Dies, OwnStep
<1>5. ASSUME UNCHANGED <<file, pc, job>> PROVE OwnStep(v) /\ file' = file
  BY <1>5 DEF OwnStep
<1>6. CASE SignalReload \/ ChangeMetadata \/ UNCHANGED vars
  BY <1>6, <1>5 DEF SignalReload, ChangeMetadata, vars, fileVars
<1>7. CASE ForwardSignal \/ TakeReload \/ ReloadOnce \/ ApplyReload \/ Start
  BY <1>7, <1>5 DEF ForwardSignal, TakeReload, ReloadOnce, ApplyReload, Start, fileVars
<1>8. CASE EditFile
  BY <1>8 DEF OwnStep
<1> QED
  BY <1>1, <1>2, <1>3, <1>4, <1>6, <1>7, <1>8 DEF Next, ProbeStep

(* The writers that rename and that edit are the only ones whose steps matter *)
(* to a writer that is about to write; a rename is its own or there is none.  *)
LEMMA FileKept ==
  ASSUME TypeInv, LockHeld, [Next]_vars, NEW v \in Writer,
         pc[v] \in {"check", "write", "rename"}, pc'[v] \notin {"idle", "request"}
  PROVE  file' = file \/ EditFile
<1>1. ASSUME NEW w \in Writer, Rename(w) PROVE FALSE
  <2>1. v = w
    BY <1>1, OneAtATime DEF Rename
  <2>2. pc'[w] \in {"idle", "request"}
    BY <1>1, GotoEffect, EndEffect DEF Rename, TypeInv
  <2> QED
    BY <2>1, <2>2
<1> QED
  BY <1>1, EveryStep DEF TypeInv

-----------------------------------------------------------------------------
(* What is written. *)

LEMMA NextInherited == TypeInv /\ Inherited /\ [Next]_vars => Inherited'
<1> SUFFICES ASSUME TypeInv, Inherited, [Next]_vars, NEW g \in Gen,
                    pc'[g] \in {"fetch", "lock", "check"}, job'[g].base \in Resolved
             PROVE  LET j == job'[g] IN
                    /\ "params" \in j.asks \/ j.params = j.base.params
                    /\ "clear" \in j.asks \/ j.clear = j.base.clear
  BY DEF Inherited
<1>t. TypeOK /\ g \in Writer /\ g # Syncer /\ job[g] \in JobType
  BY ConfigAssumption DEF TypeInv, Writer, TypeOK
<1>k. ASSUME pc[g] \in {"fetch", "lock", "check"}, job[g].base \in Resolved
      PROVE  /\ "params" \in job[g].asks \/ job[g].params = job[g].base.params
             /\ "clear" \in job[g].asks \/ job[g].clear = job[g].base.clear
  BY <1>k DEF Inherited
<1>1. CASE pc'[g] = pc[g] /\ job'[g] = job[g]
  BY <1>1, <1>k
<1>2. CASE EditFile
  <2>1. pc' = pc /\ job'[g] = job[g]
    BY <1>2, <1>t DEF EditFile
  <2> QED
    BY <2>1, <1>k
<1>3. CASE Fetch(g)
  <2>1. pc[g] = "fetch" /\ job'[g] = [job[g] EXCEPT !.ver = data]
    BY <1>3, <1>t, GotoEffect DEF Fetch
  <2> QED
    BY <2>1, <1>k, <1>t DEF JobType
<1>4. CASE AcquireFileLock(g)
  BY <1>4, <1>k, <1>t DEF AcquireFileLock
<1>5. CASE WriteTempFile(g)
  BY <1>5, <1>t DEF WriteTempFile, TypeOK
<1>6. CASE ReadGenConfigFile(g)
  <2>1. PICK asks \in SUBSET {"params", "clear"}, p \in Params, c \in Ports, reload \in BOOLEAN :
          Goto(g, "fetch",
            [NoJob EXCEPT
               !.asks   = asks,
               !.params = IF "params" \in asks THEN p
                          ELSE IF Readable(file) THEN file.params ELSE Detected,
               !.clear  = IF "clear" \in asks THEN c
                          ELSE IF Readable(file) THEN file.clear ELSE NoPorts,
               !.base   = Baseline(file),
               !.reload = reload])
    BY <1>6 DEF ReadGenConfigFile
  <2>2. /\ job'[g].asks = asks /\ job'[g].base = Baseline(file)
        /\ job'[g].params = IF "params" \in asks THEN p
                            ELSE IF Readable(file) THEN file.params ELSE Detected
        /\ job'[g].clear = IF "clear" \in asks THEN c
                           ELSE IF Readable(file) THEN file.clear ELSE NoPorts
    BY <2>1, <1>t DEF Goto, NoJob, TypeOK
  <2>3. Readable(file) /\ Baseline(file).params = file.params /\ Baseline(file).clear = file.clear
    BY <2>2, <1>t, BaselineTyped DEF TypeOK
  <2> QED
    BY <2>2, <2>3
<1>7. CASE CommitGenConfigFile(g)
  BY <1>7, <1>t, GotoEffect DEF CommitGenConfigFile
<1> QED
  BY <1>1, <1>2, <1>3, <1>4, <1>5, <1>6, <1>7, <1>t, EveryStep DEF OwnStep

(* What the sync loop and gen-config are to write, at the moment they decide. *)
LEMMA ReconcileEffect ==
  ASSUME TypeInv, Reconcile, pc'[Syncer] = "write"
  PROVE  LET j == job'[Syncer] IN
         /\ file' = file /\ Readable(file)
         /\ j.out.sync = file.sync /\ j.out.params = file.params /\ j.out.clear = file.clear
         /\ j.out.harv.src = j.out.params
<1>t. TypeOK /\ Syncer \in Writer
  BY DEF TypeInv, Writer
<1>1. /\ file' = file /\ Readable(file) /\ file.params = job[Syncer].params
      /\ job'[Syncer] = [job[Syncer] EXCEPT !.base = Baseline(file),
                                          !.out = Render(file, job[Syncer])]
  BY <1>t, GotoEffect, EndEffect DEF Reconcile
<1>2. job[Syncer] \in JobType /\ file \in Config
  BY <1>1, <1>t DEF TypeOK, Readable
<1> QED
  BY <1>1, <1>2 DEF Render, JobType, Config, Harvester

LEMMA CommitEffect ==
  ASSUME TypeInv, Inherited, NEW g \in Gen, CommitGenConfigFile(g)
  PROVE  LET j == job'[g] IN
         /\ file' = file
         /\ Readable(file) =>
              /\ j.out.sync = file.sync
              /\ "params" \in j.asks \/ j.out.params = file.params
              /\ "clear" \in j.asks \/ j.out.clear = file.clear
         /\ j.out.harv.src = j.out.params
<1>t. TypeOK /\ g \in Writer /\ job[g] \in JobType
  BY DEF TypeInv, Writer, TypeOK
<1>1. /\ file' = file /\ Baseline(file) = job[g].base /\ pc[g] = "check"
      /\ job'[g] = [job[g] EXCEPT !.out = RenderLocked(file, job[g])]
  BY <1>t, GotoEffect DEF CommitGenConfigFile, fileVars
<1>2. job'[g].out = RenderLocked(file, job[g]) /\ job'[g].asks = job[g].asks
  BY <1>1, <1>t DEF JobType
<1>3. CASE Readable(file)
  <2>1. /\ job[g].base \in Resolved
        /\ job[g].base.params = file.params /\ job[g].base.clear = file.clear
    BY <1>1, <1>3, <1>t, BaselineTyped DEF TypeOK
  <2>2. /\ "params" \in job[g].asks \/ job[g].params = file.params
        /\ "clear" \in job[g].asks \/ job[g].clear = file.clear
    BY <2>1, <1>1 DEF Inherited
  <2>3. LET out == RenderLocked(file, job[g]) IN
        /\ out.sync = file.sync /\ out.params = job[g].params /\ out.clear = job[g].clear
        /\ out.harv.src = job[g].params
    BY <1>3, <1>t DEF RenderLocked, Render, Readable, Config, Harvester, JobType
  <2> QED
    BY <1>1, <1>2, <2>2, <2>3
<1>4. CASE ~ Readable(file)
  <2>1. RenderLocked(file, job[g]).harv.src = RenderLocked(file, job[g]).params
    BY <1>4 DEF RenderLocked, RenderNew
  <2> QED
    BY <1>1, <1>2, <1>4, <2>1
<1> QED
  BY <1>3, <1>4

LEMMA HealEffect ==
  ASSUME TypeInv, SelfHeal
  PROVE  file' = file /\ ~ Readable(file) /\ job'[Syncer].base \in {Missing, Broken}
<1>t. TypeOK /\ Syncer \in Writer /\ job[Syncer] \in JobType
  BY DEF TypeInv, Writer, TypeOK
<1>1. /\ file' = file /\ ~ Readable(file)
      /\ job'[Syncer] = [job[Syncer] EXCEPT !.base = Baseline(file),
                                          !.out = Render(mem, job[Syncer])]
  BY <1>t, GotoEffect DEF SelfHeal, fileVars
<1>2. job'[Syncer].base = Baseline(file)
  BY <1>1, <1>t DEF JobType
<1> QED
  BY <1>1, <1>2, <1>t, BaselineTyped DEF TypeOK

(* An edit only marks the writers it races with. *)
LEMMA EditEffect ==
  ASSUME TypeOK, EditFile, NEW v \in Writer, pc[v] \in {"write", "rename"}
  PROVE  /\ pc' = pc /\ job'[v].raced
         /\ job'[v].out = job[v].out /\ job'[v].base = job[v].base
<1>1. pc' = pc /\ job'[v] = [job[v] EXCEPT !.raced = TRUE] /\ job[v] \in JobType
  BY DEF EditFile, TypeOK
<1> QED
  BY <1>1 DEF JobType

LEMMA NextKept ==
  TypeInv /\ LockHeld /\ Inherited /\ NoEditReverted /\ [Next]_vars => NoEditReverted'
<1> DEFINE Kept(v, c) ==
      LET out == job[v].out IN
      /\ out.sync = c.sync
      /\ out.params = c.params \/ "params" \in job[v].asks
      /\ out.clear = c.clear \/ "clear" \in job[v].asks
<1> SUFFICES ASSUME TypeInv, LockHeld, Inherited, NoEditReverted, [Next]_vars,
                    NEW v \in Writer, pc'[v] \in {"write", "rename"},
                    ~ job'[v].raced, Readable(file)'
             PROVE  Kept(v, file)'
  BY DEF NoEditReverted
<1>t. TypeOK /\ Syncer \notin Gen
  BY ConfigAssumption DEF TypeInv
<1>r. ASSUME file' = file PROVE Readable(file)
  BY <1>r DEF Readable
<1>k. ASSUME pc[v] \in {"write", "rename"}, job'[v] = job[v], file' = file
      PROVE  Kept(v, file)'
  <2>1. Kept(v, file)
    BY <1>k, <1>r DEF NoEditReverted
  <2> QED
    BY <1>k, <2>1
<1>1. CASE pc'[v] = pc[v] /\ job'[v] = job[v] /\ ~ EditFile
  <2>1. file' = file
    BY <1>1, FileKept
  <2> QED
    BY <1>1, <2>1, <1>k
<1>2. CASE EditFile
  <2>1. pc' = pc
    BY <1>2 DEF EditFile
  <2> QED
    BY <1>2, <2>1, <1>t, EditEffect
<1>3. CASE Fetch(v) \/ AcquireFileLock(v) \/ (v = Syncer /\ SyncOnce)
  BY <1>3, <1>t, GotoEffect DEF Fetch, AcquireFileLock, SyncOnce, TypeOK
<1>4. CASE WriteTempFile(v)
  BY <1>4, <1>k DEF WriteTempFile
<1>5. CASE v = Syncer /\ Reconcile
  <2>1. pc'[Syncer] = "write"
    BY <1>5, <1>t, GotoEffect, EndEffect DEF Reconcile
  <2> QED
    BY <1>5, <2>1, ReconcileEffect
<1>6. CASE v = Syncer /\ SelfHeal
  BY <1>6, <1>r, HealEffect
<1>7. CASE v \in Gen /\ CommitGenConfigFile(v)
  BY <1>7, <1>r, CommitEffect
<1>8. CASE v \in Gen /\ ReadGenConfigFile(v)
  <2>1. PICK j : Goto(v, "fetch", j)
    BY <1>8 DEF ReadGenConfigFile
  <2> QED
    BY <2>1, <1>t, GotoEffect
<1> QED
  BY <1>1, <1>2, <1>3, <1>4, <1>5, <1>6, <1>7, <1>8, <1>t, EveryStep DEF OwnStep

LEMMA NextSameSource ==
  TypeInv /\ Inherited /\ SameSourceUnlessHealing /\ [Next]_vars => SameSourceUnlessHealing'
<1> SUFFICES ASSUME TypeInv, Inherited, SameSourceUnlessHealing, [Next]_vars,
                    NEW v \in Writer, pc'[v] \in {"write", "rename"},
                    v = Syncer => job'[v].base \notin {Missing, Broken}
             PROVE  job'[v].out.params = job'[v].out.harv.src
  BY DEF SameSourceUnlessHealing
<1>t. TypeOK /\ Syncer \in Writer /\ Syncer \notin Gen
  BY ConfigAssumption DEF TypeInv, Writer
<1>k. ASSUME pc[v] \in {"write", "rename"},
             job'[v].out = job[v].out, job'[v].base = job[v].base
      PROVE  job'[v].out.params = job'[v].out.harv.src
  BY <1>k DEF SameSourceUnlessHealing
<1>1. CASE pc'[v] = pc[v] /\ job'[v] = job[v]
  BY <1>1, <1>k
<1>2. CASE EditFile
  <2>1. pc' = pc
    BY <1>2 DEF EditFile
  <2> QED
    BY <1>2, <2>1, <1>k, <1>t, EditEffect
<1>3. CASE Fetch(v) \/ AcquireFileLock(v) \/ (v = Syncer /\ SyncOnce)
  BY <1>3, <1>t, GotoEffect DEF Fetch, AcquireFileLock, SyncOnce, TypeOK
<1>4. CASE WriteTempFile(v)
  BY <1>4, <1>k DEF WriteTempFile
<1>5. CASE v = Syncer /\ Reconcile
  <2>1. pc'[Syncer] = "write"
    BY <1>5, <1>t, GotoEffect, EndEffect DEF Reconcile
  <2> QED
    BY <1>5, <2>1, ReconcileEffect
<1>6. CASE v = Syncer /\ SelfHeal
  BY <1>6, HealEffect
<1>7. CASE v \in Gen /\ CommitGenConfigFile(v)
  BY <1>7, CommitEffect
<1>8. CASE v \in Gen /\ ReadGenConfigFile(v)
  <2>1. PICK j : Goto(v, "fetch", j)
    BY <1>8 DEF ReadGenConfigFile
  <2> QED
    BY <2>1, <1>t, GotoEffect
<1> QED
  BY <1>1, <1>2, <1>3, <1>4, <1>5, <1>6, <1>7, <1>8, <1>t, EveryStep DEF OwnStep

-----------------------------------------------------------------------------
(* Reloads. *)

LEMMA NextPromised ==
  TypeInv /\ UnseenByRunning /\ ReloadPromised /\ [Next]_vars
    => (UnseenByRunning /\ ReloadPromised)'
<1> SUFFICES ASSUME TypeInv, UnseenByRunning, ReloadPromised, [Next]_vars
             PROVE  UnseenByRunning' /\ ReloadPromised'
  OBVIOUS
<1>t. TypeOK /\ Syncer \in Writer /\ Gen \subseteq Writer
  BY DEF TypeInv, Writer
<1>k. ASSUME UNCHANGED <<up, hup, pending, worker, unseen>>,
             NEW w \in Writer, pc[w] # "request", \A v \in Writer \ {w} : pc'[v] = pc[v]
      PROVE  UnseenByRunning' /\ ReloadPromised'
  BY <1>k, <1>t DEF UnseenByRunning, ReloadPromised, TypeOK
<1>g. ASSUME UNCHANGED <<probeVars, unseen>>, NEW w \in Writer, pc[w] # "request",
             NEW step, NEW j, Goto(w, step, j)
      PROVE  UnseenByRunning' /\ ReloadPromised'
  BY <1>g, <1>t, <1>k, GotoEffect DEF probeVars
<1>e. ASSUME UNCHANGED <<probeVars, unseen>>, NEW w \in Writer, pc[w] # "request", End(w)
      PROVE  UnseenByRunning' /\ ReloadPromised'
  BY <1>e, <1>t, <1>k, EndEffect DEF probeVars
<1>1. ASSUME NEW w \in Writer, WriterStep(w) PROVE UnseenByRunning' /\ ReloadPromised'
  <2>1. CASE Fetch(w)
    BY <2>1, <1>g DEF Fetch
  <2>2. CASE AcquireFileLock(w)
    <3>1. pc[w] # "request" /\ \A v \in Writer \ {w} : pc'[v] = pc[v]
      BY <2>2, <1>t DEF AcquireFileLock, TypeOK
    <3> QED
      BY <2>2, <3>1, <1>k DEF AcquireFileLock, probeVars
  <2>3. CASE GiveUp(w)
    BY <2>3, <1>e DEF GiveUp
  <2>4. CASE SameContent(w)
    BY <2>4, <1>g, <1>e DEF SameContent
  <2>5. CASE WriteTempFile(w)
    <3>1. pc[w] # "request" /\ \A v \in Writer \ {w} : pc'[v] = pc[v]
      BY <2>5, <1>t DEF WriteTempFile, TypeOK
    <3> QED
      BY <2>5, <3>1, <1>k DEF WriteTempFile, probeVars
  <2>6. CASE Rename(w)
    <3>1. CASE job[w].reload
      <4>1. pc'[w] = "request" /\ \A v \in Writer \ {w} : pc'[v] = pc[v]
        BY <2>6, <3>1, GotoEffect, <1>t DEF Rename
      <4>2. unseen' = (IF up THEN unseen \union {w} ELSE unseen) /\ UNCHANGED probeVars
        BY <2>6, <3>1 DEF Rename
      <4> QED
        BY <4>1, <4>2, <1>t DEF UnseenByRunning, ReloadPromised, TypeOK, probeVars
    <3>2. CASE ~ job[w].reload
      BY <2>6, <3>2, <1>e DEF Rename
    <3> QED
      BY <3>1, <3>2
  <2>7. CASE WriteFails(w)
    BY <2>7, <1>e DEF WriteFails
  <2> QED
    BY <1>1, <2>1, <2>2, <2>3, <2>4, <2>5, <2>6, <2>7 DEF WriterStep
<1>2. CASE SyncerStep
  <2>1. CASE SyncOnce
    BY <2>1, <1>t, <1>g DEF SyncOnce
  <2>2. CASE ParamsDiffer
    BY <2>2 DEF ParamsDiffer, UnseenByRunning, ReloadPromised
  <2>3. CASE Reconcile
    <3>1. CASE End(Syncer)
      BY <2>3, <3>1, <1>t, <1>e DEF Reconcile
    <3>2. ASSUME NEW j, Goto(Syncer, "write", j)
          PROVE  UnseenByRunning' /\ ReloadPromised'
      BY <2>3, <3>2, <1>t, <1>g DEF Reconcile
    <3> QED
      BY <2>3, <3>1, <3>2 DEF Reconcile
  <2>4. CASE SelfHeal
    BY <2>4, <1>t, <1>g DEF SelfHeal
  <2>5. CASE RequestReload
    BY <2>5 DEF RequestReload, UnseenByRunning, ReloadPromised
  <2> QED
    BY <1>2, <2>1, <2>2, <2>3, <2>4, <2>5 DEF SyncerStep
<1>3. ASSUME NEW g \in Gen, GenStep(g) PROVE UnseenByRunning' /\ ReloadPromised'
  <2>1. CASE ReadGenConfigFile(g)
    <3>1. PICK j : Goto(g, "fetch", j)
      BY <2>1 DEF ReadGenConfigFile
    <3> QED
      BY <2>1, <3>1, <1>t, <1>g DEF ReadGenConfigFile
  <2>2. CASE BaselineChanged(g)
    BY <2>2, <1>t, <1>e DEF BaselineChanged
  <2>3. CASE CommitGenConfigFile(g)
    BY <2>3, <1>t, <1>g DEF CommitGenConfigFile
(* Somebody is unseen only while the probe runs: then the signal is sent. *)
  <2>4. CASE ReloadIfRunning(g)
    BY <2>4 DEF ReloadIfRunning, UnseenByRunning, ReloadPromised
  <2>5. CASE Kill(g)
    <3>1. CASE pc[g] # "request"
      BY <2>5, <3>1, <1>t, <1>e DEF Kill, Dies
    <3>2. CASE pc[g] = "request"
      <4>1. \A v \in Writer \ {g} : pc'[v] = pc[v]
        BY <2>5, <1>t, EndEffect DEF Kill, Dies
      <4>2. unseen' = unseen \ {g} /\ UNCHANGED probeVars
        BY <2>5, <3>2 DEF Kill
      <4> QED
        BY <4>1, <4>2, <1>t DEF UnseenByRunning, ReloadPromised, TypeOK, probeVars
    <3> QED
      BY <3>1, <3>2
  <2> QED
    BY <1>3, <2>1, <2>2, <2>3, <2>4, <2>5 DEF GenStep
<1>4. CASE ProbeStep
  <2>1. CASE ForwardSignal
    BY <2>1 DEF ForwardSignal, UnseenByRunning, ReloadPromised
  <2>2. CASE TakeReload
    BY <2>2 DEF TakeReload, UnseenByRunning, ReloadPromised
  <2>3. CASE ReloadOnce
    BY <2>3 DEF ReloadOnce, UnseenByRunning, ReloadPromised
  <2>4. CASE ApplyReload
    BY <2>4 DEF ApplyReload, UnseenByRunning, ReloadPromised
  <2>5. CASE Start
    BY <2>5 DEF Start, UnseenByRunning, ReloadPromised
  <2>6. CASE Crash
    BY <2>6 DEF Crash, UnseenByRunning, ReloadPromised
  <2> QED
    BY <1>4, <2>1, <2>2, <2>3, <2>4, <2>5, <2>6 DEF ProbeStep
<1>5. CASE EditFile \/ ChangeMetadata \/ UNCHANGED vars
  <2>1. UNCHANGED <<probeVars, pc, unseen>>
    BY <1>5 DEF EditFile, ChangeMetadata, vars
  <2> QED
    BY <2>1 DEF probeVars, UnseenByRunning, ReloadPromised
<1>6. CASE SignalReload
  BY <1>6 DEF SignalReload, UnseenByRunning, ReloadPromised
<1> QED
  BY <1>1, <1>2, <1>3, <1>4, <1>5, <1>6 DEF Next

-----------------------------------------------------------------------------
(* The invariant and what follows from it. *)

LEMMA InitInv == Init => IInv
<1> SUFFICES ASSUME Init PROVE IInv
  OBVIOUS
<1>1. \A w \in Writer : pc[w] = "idle"
  BY DEF Init
<1>2. TypeInv
  BY InitTypes, <1>1 DEF TypeInv, SyncerRuns, Writer
<1>3. LockHeld /\ TempIsMine /\ NoEditReverted /\ SameSourceUnlessHealing
  BY <1>1 DEF LockHeld, TempIsMine, NoEditReverted, SameSourceUnlessHealing
<1>4. Inherited
  BY <1>1 DEF Inherited, Writer
<1>5. UnseenByRunning /\ ReloadPromised
  BY DEF Init, UnseenByRunning, ReloadPromised
<1> QED
  BY <1>2, <1>3, <1>4, <1>5 DEF IInv

LEMMA NextInv == IInv /\ [Next]_vars => IInv'
<1> SUFFICES ASSUME IInv, [Next]_vars PROVE IInv'
  OBVIOUS
<1>1. TypeInv'
  BY NextTypes, NextSyncerRuns DEF IInv, TypeInv
<1>2. LockHeld' /\ TempIsMine'
  BY NextLocked DEF IInv
<1>3. Inherited' /\ NoEditReverted' /\ SameSourceUnlessHealing'
  BY NextInherited, NextKept, NextSameSource DEF IInv
<1>4. UnseenByRunning' /\ ReloadPromised'
  BY NextPromised DEF IInv
<1> QED
  BY <1>1, <1>2, <1>3, <1>4 DEF IInv

LEMMA InvAlways == Spec => []IInv
<1> QED
  BY InitInv, NextInv, PTL DEF Spec

(* filelock.go:207-212: however the writers, their deaths and their failures *)
(* interleave, the cleaning under the lock takes no temporary file from a     *)
(* writer that is about to rename it.                                         *)
THEOREM TempFilesAreKept == Spec => []TempIsMine
<1>1. IInv => TempIsMine
  BY DEF IInv
<1> QED
  BY <1>1, InvAlways, PTL

(* adminsync.go:148-150, genconfig.go:199-206: no writer is ever about to     *)
(* overwrite a local field that somebody else set since it began, but for an  *)
(* edit that bypasses the lock while it is held.                              *)
THEOREM EditsAreKept == Spec => []NoEditReverted
<1>1. IInv => NoEditReverted
  BY DEF IInv
<1> QED
  BY <1>1, InvAlways, PTL

(* gen-config-design.md:40: what is written was fetched with the pull         *)
(* parameters written beside it, unless the sync loop heals the file.         *)
THEOREM SourcesAgree == Spec => []SameSourceUnlessHealing
<1>1. IInv => SameSourceUnlessHealing
  BY DEF IInv
<1> QED
  BY <1>1, InvAlways, PTL

(* adminsync.go:236-237: dropping a request on the full slot loses no reload. *)
THEOREM ReloadsArePromised == Spec => []ReloadPromised
<1>1. IInv => ReloadPromised
  BY DEF IInv
<1> QED
  BY <1>1, InvAlways, PTL
=============================================================================
