----------------------------- MODULE ConfigSync -----------------------------
(***************************************************************************)
(* The configuration file of a probe and everyone who writes it: the       *)
(* periodic sync of the running probe (adminsync.go), gen-config commands   *)
(* (cmds/genconfig.go) and operators.  The first two take the file lock    *)
(* (pkg/process/filelock.go) around read, render and rename, and fetch     *)
(* from admin outside of it; an operator takes no lock.  The reload worker *)
(* (reload.go) brings the file into the memory of the probe.               *)
(*                                                                         *)
(* The sections admin owns (reporter and harvester) are one value, the     *)
(* parameters they were fetched with, the version of admin's metadata, and *)
(* the ports that were cut from them.  What the probe owns is the admin    *)
(* block (its pull parameters, and whether periodic sync is on) and        *)
(* clearPorts; the other local fields are treated as clearPorts is.        *)
(***************************************************************************)
EXTENDS Naturals

CONSTANTS
  Params,       \* pull parameters: admin endpoints, cloud id and local ip
  Detected,     \* the ones gen-config falls back to without flag and file
  Ports,        \* values of clearPorts
  NoPorts,      \* the empty one
  Gen,          \* gen-config commands that may run at a time
  Syncer,       \* the sync loop of the probe
  MaxVersion,   \* bound of the versions of admin's metadata
  MaxOps,       \* bound of the edits, commands, failures, kills and crashes
  Missing,      \* no file
  Broken,       \* a file that does not parse
  None          \* nobody holds the lock

Writer == Gen \union {Syncer}

\* Version 0 is a section written by hand.
Harvester == [src : Params, ver : 0 .. MaxVersion, cut : Ports]
Config    == [params : Params, sync : BOOLEAN, clear : Ports, harv : Harvester]

\* What gen-config resolves its parameters against.
Resolved  == [params : Params, clear : Ports]

ASSUME ConfigAssumption ==
  /\ Detected \in Params /\ NoPorts \in Ports
  /\ Syncer \notin Gen /\ None \notin Writer
  /\ {Missing, Broken} \intersect (Config \union Resolved) = {} /\ Missing # Broken
  /\ MaxVersion \in Nat \ {0} /\ MaxOps \in Nat

VARIABLES
  file,      \* the file
  temps,     \* the writers whose temporary file is beside it
  lock,      \* the holder of the lock file
  data,      \* the version of admin's metadata
  up,        \* the probe runs
  mem,       \* config.Cfg and its snapshot
  hup,       \* a reload signal that the probe has not taken yet
  pending,   \* the one slot of reloadC
  worker,    \* the reload worker
  next,      \* the configuration it has parsed
  pc, job,   \* step and data of each writer
  unseen,    \* history: writers whose last write asks for a reload and was not parsed
  ops        \* disturbances so far

fileVars  == <<file, temps, lock>>
probeVars == <<up, mem, hup, pending, worker, next>>
vars      == <<fileVars, probeVars, data, pc, job, unseen, ops>>

-----------------------------------------------------------------------------
\* config.Parse succeeds.
Readable(c) == c \in Config

\* A mistake: only whether the file is there is compared.
BaselineExists(c) ==
  IF Readable(c) THEN [params |-> Detected, clear |-> NoPorts] ELSE c

\* genConfigBaseline: what of the file gen-config resolved its parameters against.
Baseline(c) == IF Readable(c) THEN [params |-> c.params, clear |-> c.clear] ELSE c

\* configsync.Render: the sections of admin as fetched, the ports cut, the local fields kept.
Render(local, j) ==
  [local EXCEPT !.harv = [src |-> j.params, ver |-> j.ver, cut |-> local.clear]]

\* A file that did not exist or parse has nothing to keep: sync is off in it.
RenderNew(j) ==
  [params |-> j.params, sync |-> FALSE, clear |-> j.clear,
   harv |-> [src |-> j.params, ver |-> j.ver, cut |-> j.clear]]

\* applyResolvedLocal and renderLockedProbeYAML.
RenderLocked(c, j) ==
  IF Readable(c) THEN Render([c EXCEPT !.params = j.params, !.clear = j.clear], j)
                 ELSE RenderNew(j)

\* configEquivalent: the sections periodic sync owns.
Equivalent(a, b) == a.harv = b.harv

\* The data of a writer at rest.
NoJob == [params |-> Detected, clear |-> NoPorts, asks |-> {}, base |-> Missing,
          ver |-> 0, out |-> Missing, reload |-> FALSE, raced |-> FALSE]

Init ==
  /\ file \in {Missing} \union
       {c \in Config : /\ c.params = Detected /\ c.clear = NoPorts
                       /\ c.harv = [src |-> Detected, ver |-> 1, cut |-> NoPorts]}
  /\ temps = {} /\ lock = None /\ data = 1
  /\ up = FALSE /\ mem = Missing /\ hup = FALSE /\ pending = FALSE
  /\ worker = "idle" /\ next = Missing
  /\ pc = [w \in Writer |-> "idle"] /\ job = [w \in Writer |-> NoJob]
  /\ unseen = {} /\ ops = 0

-----------------------------------------------------------------------------
(* Both writers *)

\* One more of the disturbances that MaxOps bounds.
Disturb == ops < MaxOps /\ ops' = ops + 1

Goto(w, step, j) == pc' = [pc EXCEPT ![w] = step] /\ job' = [job EXCEPT ![w] = j]
End(w) == Goto(w, "idle", NoJob)

\* configsync.Fetch: admin answers for the parameters of the request.
Fetch(w) ==
  /\ pc[w] = "fetch"
  /\ Goto(w, "lock", [job[w] EXCEPT !.ver = data])
  /\ UNCHANGED <<fileVars, probeVars, data, unseen, ops>>

\* A mistake: the lock is taken on the file itself, which every rename replaces.
AcquireFileLock(w) ==
  /\ pc[w] = "lock" /\ lock = None
  /\ lock' = w
  /\ pc' = [pc EXCEPT ![w] = "check"]
  /\ UNCHANGED <<file, temps, probeVars, data, job, unseen, ops>>

\* Admin fails or has no data, the lock times out, or the rendering does not parse.
GiveUp(w) ==
  /\ pc[w] \in {"fetch", "lock", "check"} /\ Disturb
  /\ End(w)
  /\ lock' = IF lock = w THEN None ELSE lock
  /\ UNCHANGED <<file, temps, probeVars, data, unseen>>

\* The file already holds these bytes: nothing is written, and sync sees no change.
SameContent(w) ==
  /\ pc[w] = "write" /\ file = job[w].out
  /\ temps' = {} /\ lock' = None
  /\ IF w # Syncer /\ job[w].reload THEN Goto(w, "request", job[w]) ELSE End(w)
  /\ UNCHANGED <<file, probeVars, data, unseen, ops>>

\* Temporary files are taken for leftovers and removed, then one's own is written.
WriteTempFile(w) ==
  /\ pc[w] = "write" /\ file # job[w].out
  /\ temps' = {w}
  /\ pc' = [pc EXCEPT ![w] = "rename"]
  /\ UNCHANGED <<file, lock, probeVars, data, job, unseen, ops>>

\* The temporary file replaces the file; the lock is released on return.
Rename(w) ==
  /\ pc[w] = "rename" /\ w \in temps
  /\ file' = job[w].out
  /\ temps' = temps \ {w} /\ lock' = None
  /\ IF job[w].reload
       THEN Goto(w, "request", job[w]) /\ unseen' = IF up THEN unseen \union {w} ELSE unseen
       ELSE End(w) /\ UNCHANGED unseen
  /\ UNCHANGED <<probeVars, data, ops>>

\* Writing or renaming fails: one's own temporary file is removed.
WriteFails(w) ==
  /\ pc[w] \in {"write", "rename"} /\ Disturb
  /\ temps' = IF pc[w] = "write" THEN {} ELSE temps \ {w}
  /\ lock' = None
  /\ End(w)
  /\ UNCHANGED <<file, probeVars, data, unseen>>

-----------------------------------------------------------------------------
(* The sync loop *)

\* A round starts with the applied pull parameters.
SyncOnce ==
  /\ up /\ pc[Syncer] = "idle" /\ mem.sync
  /\ Goto(Syncer, "fetch", [NoJob EXCEPT !.params = mem.params, !.reload = TRUE])
  /\ UNCHANGED <<fileVars, probeVars, data, unseen, ops>>

\* A mistake: the round is dropped and nobody is told of the new parameters.
ParamsDifferSilently ==
  /\ pc[Syncer] = "check" /\ Readable(file) /\ file.params # job[Syncer].params
  /\ lock' = None /\ End(Syncer)
  /\ UNCHANGED <<file, temps, probeVars, data, unseen, ops>>

\* Under the lock: the file now asks admin for something else than this round did.
ParamsDiffer ==
  /\ pc[Syncer] = "check" /\ Readable(file) /\ file.params # job[Syncer].params
  /\ pending' = TRUE
  /\ lock' = None /\ End(Syncer)
  /\ UNCHANGED <<file, temps, up, mem, hup, worker, next, data, unseen, ops>>

\* A mistake: the parameters of the round are not compared with those of the file.
ReconcileUnchecked ==
  /\ pc[Syncer] = "check" /\ Readable(file)
  /\ Goto(Syncer, "write", [job[Syncer] EXCEPT !.base = Baseline(file),
                                             !.out = Render(file, job[Syncer])])
  /\ UNCHANGED <<fileVars, probeVars, data, unseen, ops>>

\* reconcileConfigFile on a file that parses: local fields come from the file.
Reconcile ==
  /\ pc[Syncer] = "check" /\ Readable(file) /\ file.params = job[Syncer].params
  /\ LET out == Render(file, job[Syncer])
     IN  IF Equivalent(file, out)
           THEN lock' = None /\ End(Syncer)
           ELSE /\ Goto(Syncer, "write",
                        [job[Syncer] EXCEPT !.base = Baseline(file), !.out = out])
                /\ UNCHANGED lock
  /\ UNCHANGED <<file, temps, probeVars, data, unseen, ops>>

\* On one that does not: they come from memory, and the file is rewritten.
SelfHeal ==
  /\ pc[Syncer] = "check" /\ ~ Readable(file)
  /\ Goto(Syncer, "write",
          [job[Syncer] EXCEPT !.base = Baseline(file), !.out = Render(mem, job[Syncer])])
  /\ UNCHANGED <<fileVars, probeVars, data, unseen, ops>>

\* requestReload: a full slot means that a reload is still to come.
RequestReload ==
  /\ pc[Syncer] = "request"
  /\ pending' = TRUE
  /\ End(Syncer)
  /\ UNCHANGED <<fileVars, up, mem, hup, worker, next, data, unseen, ops>>

-----------------------------------------------------------------------------
(* gen-config *)

\* Stage 1: read the file without the lock and resolve what the flags leave open.
ReadGenConfigFile(g) ==
  /\ pc[g] = "idle" /\ Disturb
  /\ \E asks \in SUBSET {"params", "clear"}, p \in Params, c \in Ports, reload \in BOOLEAN :
       Goto(g, "fetch",
         [NoJob EXCEPT
            !.asks   = asks,
            !.params = IF "params" \in asks THEN p
                       ELSE IF Readable(file) THEN file.params ELSE Detected,
            !.clear  = IF "clear" \in asks THEN c
                       ELSE IF Readable(file) THEN file.clear ELSE NoPorts,
            !.base   = Baseline(file),
            !.reload = reload])
  /\ UNCHANGED <<fileVars, probeVars, data, unseen>>

\* Stage 3: the file no longer says what stage 1 resolved against.
BaselineChanged(g) ==
  /\ pc[g] = "check" /\ Baseline(file) # job[g].base
  /\ lock' = None /\ End(g)
  /\ UNCHANGED <<file, temps, probeVars, data, unseen, ops>>

CommitGenConfigFile(g) ==
  /\ pc[g] = "check" /\ Baseline(file) = job[g].base
  /\ Goto(g, "write", [job[g] EXCEPT !.out = RenderLocked(file, job[g])])
  /\ UNCHANGED <<fileVars, probeVars, data, unseen, ops>>

\* ReloadIfRunning: a signal, or an error when the probe does not run.
ReloadIfRunning(g) ==
  /\ pc[g] = "request"
  /\ hup' = (hup \/ up)
  /\ End(g)
  /\ UNCHANGED <<fileVars, up, mem, pending, worker, next, data, unseen, ops>>

-----------------------------------------------------------------------------
(* The running probe *)

\* The signal goroutine hands the reload to the worker's slot.
ForwardSignal ==
  /\ up /\ hup
  /\ hup' = FALSE /\ pending' = TRUE
  /\ UNCHANGED <<fileVars, up, mem, worker, next, data, pc, job, unseen, ops>>

TakeReload ==
  /\ up /\ worker = "idle" /\ pending
  /\ pending' = FALSE /\ worker' = "parse"
  /\ UNCHANGED <<fileVars, up, mem, hup, next, data, pc, job, unseen, ops>>

\* A mistake: the slot is emptied when the reload is done.
ApplyReloadDrains ==
  /\ up /\ worker = "apply"
  /\ mem' = next /\ pending' = FALSE
  /\ worker' = "idle" /\ next' = Missing
  /\ UNCHANGED <<fileVars, up, hup, data, pc, job, unseen, ops>>

\* reloadOnce: a file that does not parse or says nothing new is skipped.
ReloadOnce ==
  /\ up /\ worker = "parse"
  /\ unseen' = {}
  /\ IF Readable(file) /\ file # mem
       THEN worker' = "apply" /\ next' = file
       ELSE worker' = "idle" /\ UNCHANGED next
  /\ UNCHANGED <<fileVars, up, mem, hup, pending, data, pc, job, ops>>

ApplyReload ==
  /\ up /\ worker = "apply"
  /\ mem' = next
  /\ worker' = "idle" /\ next' = Missing
  /\ UNCHANGED <<fileVars, up, hup, pending, data, pc, job, unseen, ops>>

\* Run: the probe does not start on a file it cannot load.
Start ==
  /\ ~ up /\ Readable(file)
  /\ up' = TRUE /\ mem' = file
  /\ UNCHANGED <<fileVars, hup, pending, worker, next, data, pc, job, unseen, ops>>

-----------------------------------------------------------------------------
(* The environment *)

\* What an operator makes of the file: one field changed, the harvester written by
\* hand, a file that no longer parses, or the running configuration restored.
HandEdits ==
  IF Readable(file)
    THEN {[file EXCEPT !.params = p] : p \in Params}
           \union {[file EXCEPT !.sync = ~ file.sync]}
           \union {[file EXCEPT !.clear = c] : c \in Ports}
           \union {[file EXCEPT !.harv.ver = 0], Broken}
    ELSE IF up THEN {mem} ELSE {}

\* Operators and scripts/render_configs.py write the file without its lock.
EditFile ==
  /\ Disturb
  /\ \E c \in HandEdits \ {file} : file' = c
  /\ job' = [w \in Writer |-> IF pc[w] \in {"write", "rename"}
                                THEN [job[w] EXCEPT !.raced = TRUE] ELSE job[w]]
  /\ UNCHANGED <<temps, lock, probeVars, data, pc, unseen>>

\* dbha-probe reload
SignalReload ==
  /\ up /\ Disturb
  /\ hup' = TRUE
  /\ UNCHANGED <<fileVars, up, mem, pending, worker, next, data, pc, job, unseen>>

ChangeMetadata ==
  /\ data < MaxVersion
  /\ data' = data + 1
  /\ UNCHANGED <<fileVars, probeVars, pc, job, unseen, ops>>

\* The kernel releases the lock of a process that dies; its temporary file stays.
Dies(w) ==
  /\ End(w)
  /\ lock' = IF lock = w THEN None ELSE lock
  /\ UNCHANGED <<file, temps, data>>

Kill(g) ==
  /\ pc[g] # "idle" /\ Disturb
  /\ Dies(g)
  /\ unseen' = IF pc[g] = "request" THEN unseen \ {g} ELSE unseen
  /\ UNCHANGED probeVars

Crash ==
  /\ up /\ Disturb
  /\ Dies(Syncer)
  /\ up' = FALSE /\ mem' = Missing /\ hup' = FALSE /\ pending' = FALSE
  /\ worker' = "idle" /\ next' = Missing
  /\ unseen' = {}

-----------------------------------------------------------------------------
WriterStep(w) ==
  \/ Fetch(w) \/ AcquireFileLock(w) \/ GiveUp(w)
  \/ SameContent(w) \/ WriteTempFile(w) \/ Rename(w) \/ WriteFails(w)

SyncerStep == SyncOnce \/ ParamsDiffer \/ Reconcile \/ SelfHeal \/ RequestReload

GenStep(g) ==
  \/ ReadGenConfigFile(g) \/ BaselineChanged(g) \/ CommitGenConfigFile(g)
  \/ ReloadIfRunning(g) \/ Kill(g)

ProbeStep == ForwardSignal \/ TakeReload \/ ReloadOnce \/ ApplyReload \/ Start \/ Crash

Next ==
  \/ \E w \in Writer : WriterStep(w)
  \/ SyncerStep
  \/ \E g \in Gen : GenStep(g)
  \/ ProbeStep
  \/ EditFile \/ SignalReload \/ ChangeMetadata

\* The goroutines of the probe go on, a command ends; failures are disturbances, and
\* there are not infinitely many.
Fairness ==
  /\ WF_vars(ForwardSignal) /\ WF_vars(TakeReload \/ ReloadOnce \/ ApplyReload)
  /\ WF_vars(WriterStep(Syncer) \/ SyncerStep)
  /\ \A g \in Gen : WF_vars(WriterStep(g) \/ BaselineChanged(g)
                              \/ CommitGenConfigFile(g) \/ ReloadIfRunning(g))

Spec == Init /\ [][Next]_vars /\ Fairness

-----------------------------------------------------------------------------
Step == {"idle", "fetch", "lock", "check", "write", "rename", "request"}

JobType ==
  [params : Params, clear : Ports, asks : SUBSET {"params", "clear"},
   base : Resolved \union {Missing, Broken},
   ver : 0 .. MaxVersion, out : Config \union {Missing},
   reload : BOOLEAN, raced : BOOLEAN]

\* Types, and what the steps of a writer say of the lock and of the file it is about
\* to write: a rendering is always complete.
TypeOK ==
  /\ file \in Config \union {Missing, Broken}
  /\ temps \subseteq Writer /\ lock \in Writer \union {None}
  /\ data \in 1 .. MaxVersion
  /\ up \in BOOLEAN /\ mem \in Config \union {Missing} /\ (up => mem \in Config)
  /\ hup \in BOOLEAN /\ pending \in BOOLEAN
  /\ worker \in {"idle", "parse", "apply"} /\ next \in Config \union {Missing}
  /\ (worker = "apply" => next \in Config)
  /\ pc \in [Writer -> Step]
  /\ job \in [Writer -> JobType]
  /\ \A w \in Writer : pc[w] \in {"write", "rename"} => job[w].out \in Config
  /\ unseen \subseteq Writer /\ ops \in 0 .. MaxOps

\* filelock.go:207-212: cleaning up under the lock removes leftovers only, so a writer
\* that is about to rename finds its temporary file.
TempIsMine == \A w \in Writer : pc[w] = "rename" => w \in temps

\* adminsync.go:148-150, genconfig.go:199-206: what a writer is about to write keeps the
\* local fields the file has at that moment, whoever set them since the writer began,
\* but for those its own flags name.  Edits that bypass the lock while it is held are
\* the known gap of gen-config-design.md:270.
NoEditReverted ==
  \A w \in Writer :
    LET out == job[w].out IN
    pc[w] \in {"write", "rename"} /\ ~ job[w].raced /\ Readable(file) =>
      /\ out.sync = file.sync
      /\ out.params = file.params \/ "params" \in job[w].asks
      /\ out.clear = file.clear \/ "clear" \in job[w].asks

\* gen-config-design.md:40, config-sync.md:91: the sections a writer fetched and the
\* admin block it writes beside them have the same pull parameters.  The sync loop that
\* rewrites a file that does not parse is excepted: it takes the admin block of the
\* configuration applied by then, which may be another than the one it fetched with.
SameSourceUnlessHealing ==
  \A w \in Writer :
    pc[w] \in {"write", "rename"} /\ (w = Syncer => job[w].base \notin {Missing, Broken})
      => job[w].out.params = job[w].out.harv.src

\* adminsync.go:236-237: dropping a request when the slot is full is safe.  Whoever wrote
\* the file and asked for a reload, a signal or the worker is still to see it.
ReloadPromised ==
  \A w \in unseen : hup \/ pending \/ worker = "parse" \/ pc[w] = "request"

\* The file holds what admin says for the parameters in it.
Settled ==
  /\ Readable(file)
  /\ file.harv = [src |-> file.params, ver |-> data, cut |-> file.clear]

\* adminsync.go:221-222: repeated syncs settle.  Once nobody disturbs them any more, the
\* file of a running probe with periodic sync converges to what admin says, and stays so.
SyncSettles == <>[](up /\ mem.sync => Settled)
=============================================================================
