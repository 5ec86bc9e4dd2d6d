------------------------------ MODULE HotReload ------------------------------
(***************************************************************************)
(* The hot reload of a running probe (reload.go, probe.go).  The worker    *)
(* stops the plugins of one harvester generation, quiesces the goroutine   *)
(* that creates the reporter, applies the new configuration, replaces the  *)
(* reporter when it must, and starts the next generation.  Plugins post to *)
(* the reporter all the while, and the probe may be told to shut down.     *)
(***************************************************************************)
EXTENDS Naturals

CONSTANTS
  Harvest,    \* harvester sections, with the service id
  Reporter,   \* reporter sections
  NoReporter, \* a file without one
  Client,     \* client sections
  Admin,      \* admin blocks
  Broken,     \* a file that does not parse
  Plugin,     \* the harvester plugins
  Instance,   \* the reporters that exist at a time
  Nil,        \* no reporter
  MaxWrites   \* bound of the changes of the file

ASSUME ReloadAssumption ==
  /\ NoReporter \notin Reporter /\ Nil \notin Instance
  /\ MaxWrites \in Nat

Config == [harv : Harvest, rep : Reporter \union {NoReporter}, client : Client, admin : Admin]

VARIABLES
  file,       \* the configuration file
  writes,     \* its changes so far
  pending,    \* the one slot of reloadC
  mem,        \* config.Cfg and its snapshot
  worker,     \* the step of the reload worker
  next,       \* what it has parsed
  rebuild,    \* whether it replaces the reporter
  cancelled,  \* p.parent is done
  stopped,    \* the context of the generation is cancelled
  plug,       \* the goroutine of each plugin: step, harvester section, reporter in hand
  live,       \* reporterUnit.reporter
  unitCfg,    \* reporterUnit.cfg
  loop,       \* createLoop: its step and the reporter it has made
  quiet,      \* the context of createLoop is cancelled
  inst        \* each reporter: whether it is open and what it was made from

fileVars   == <<file, writes, pending>>
workerVars == <<mem, worker, next, rebuild>>
unitVars   == <<live, unitCfg, loop, quiet, inst>>
vars       == <<fileVars, workerVars, cancelled, stopped, plug, unitVars>>

GenerationDone == stopped \/ cancelled
LoopDone       == quiet \/ cancelled

\* startRuntime: the factories read the applied configuration.
StartedPlugins(c) == [p \in Plugin |-> [pc |-> "wait", harv |-> c.harv, rep |-> Nil]]

\* reporterUnit.start: no section, no goroutine.
LoopFor(rep) == [pc |-> IF rep = NoReporter THEN "off" ELSE "try", made |-> Nil]

\* Probe.Run
Init ==
  /\ file \in Config /\ writes = 0 /\ pending = FALSE
  /\ mem = file /\ worker = "idle" /\ next = mem /\ rebuild = FALSE
  /\ cancelled = FALSE /\ stopped = FALSE
  /\ plug = StartedPlugins(mem)
  /\ live = Nil /\ unitCfg = mem.rep /\ loop = LoopFor(mem.rep) /\ quiet = FALSE
  /\ inst = [i \in Instance |-> [open |-> FALSE, rep |-> NoReporter, client |-> mem.client]]

-----------------------------------------------------------------------------
(* Plugins *)

\* runPlugin: an event arrives and finds a reporter; without one it is dropped.
Harvested(p) ==
  /\ plug[p].pc = "wait" /\ live # Nil
  /\ plug' = [plug EXCEPT ![p].pc = "post", ![p].rep = live]
  /\ UNCHANGED <<fileVars, workerVars, cancelled, stopped, unitVars>>

\* Post returns, with an error or without.
Posted(p) ==
  /\ plug[p].pc = "post"
  /\ plug' = [plug EXCEPT ![p].pc = "wait", ![p].rep = Nil]
  /\ UNCHANGED <<fileVars, workerVars, cancelled, stopped, unitVars>>

\* The plugin ends with its generation.
PluginEnds(p) ==
  /\ plug[p].pc = "wait" /\ GenerationDone
  /\ plug' = [plug EXCEPT ![p].pc = "off"]
  /\ UNCHANGED <<fileVars, workerVars, cancelled, stopped, unitVars>>

\* Its Harvest fails, or closes the channel of its events.
PluginFails(p) ==
  /\ plug[p].pc = "wait"
  /\ plug' = [plug EXCEPT ![p].pc = "off"]
  /\ UNCHANGED <<fileVars, workerVars, cancelled, stopped, unitVars>>

-----------------------------------------------------------------------------
(* createLoop *)

InUse(i) == i = live \/ i = loop.made \/ \E p \in Plugin : plug[p].rep = i

\* NewReporter: the section is the copy the loop was given, the client section is the applied one.
NewReporter ==
  /\ loop.pc = "try"
  /\ \E i \in Instance :
       /\ ~ inst[i].open /\ ~ InUse(i)
       /\ inst' = [inst EXCEPT ![i] = [open |-> TRUE, rep |-> unitCfg, client |-> mem.client]]
       /\ loop' = [pc |-> "made", made |-> i]
  /\ UNCHANGED <<fileVars, workerVars, cancelled, stopped, plug, live, unitCfg, quiet>>

\* A mistake: the wait for the next attempt does not look at the context.
LoopGoesOn ==
  /\ loop.pc = "try" /\ LoopDone /\ cancelled
  /\ loop' = [loop EXCEPT !.pc = "off"]
  /\ UNCHANGED <<fileVars, workerVars, cancelled, stopped, plug, live, unitCfg, quiet, inst>>

\* Checked before every attempt and while it waits for the next one.
LoopEnds ==
  /\ loop.pc = "try" /\ LoopDone
  /\ loop' = [loop EXCEPT !.pc = "off"]
  /\ UNCHANGED <<fileVars, workerVars, cancelled, stopped, plug, live, unitCfg, quiet, inst>>

\* Under the mutex: a loop that was cancelled meanwhile closes what it has made.
Publish ==
  /\ loop.pc = "made"
  /\ loop' = [pc |-> "off", made |-> Nil]
  /\ IF LoopDone
       THEN inst' = [inst EXCEPT ![loop.made].open = FALSE] /\ UNCHANGED live
       ELSE live' = loop.made /\ UNCHANGED inst
  /\ UNCHANGED <<fileVars, workerVars, cancelled, stopped, plug, unitCfg, quiet>>

-----------------------------------------------------------------------------
(* The reload worker *)

TakeReload ==
  /\ worker = "idle" /\ pending
  /\ pending' = FALSE /\ worker' = "parse"
  /\ UNCHANGED <<file, writes, mem, next, rebuild, cancelled, stopped, plug, unitVars>>

OnlyAdminChanged(c) == c # mem /\ [c EXCEPT !.admin = mem.admin] = mem

\* A mistake: a file that does not parse is applied as one that does.
\* reloadOnce: nothing to do, only the admin block to install, or a new generation.
ReloadOnce ==
  /\ worker = "parse"
  /\ \/ /\ file = Broken \/ file = mem
        /\ worker' = "idle"
        /\ UNCHANGED <<mem, next, stopped>>
     \/ /\ file # Broken /\ OnlyAdminChanged(file)
        /\ worker' = "idle" /\ mem' = file /\ next' = file
        /\ UNCHANGED stopped
     \/ /\ file # Broken /\ file # mem /\ ~ OnlyAdminChanged(file)
        /\ worker' = "stop" /\ next' = file /\ stopped' = TRUE
        /\ UNCHANGED mem
  /\ UNCHANGED <<fileVars, rebuild, cancelled, plug, unitVars>>

\* A mistake: the plugins are cancelled but not waited for.
StopWithoutWait ==
  /\ worker = "stop"
  /\ worker' = "quiesce" /\ quiet' = TRUE
  /\ UNCHANGED <<fileVars, mem, next, rebuild, cancelled, stopped, plug,
                 live, unitCfg, loop, inst>>

\* harvestRuntime.stop waits for the plugins; then reporterUnit.quiesce cancels the loop.
StopRuntime ==
  /\ worker = "stop"
  /\ \A p \in Plugin : plug[p].pc = "off"
  /\ worker' = "quiesce" /\ quiet' = TRUE
  /\ UNCHANGED <<fileVars, mem, next, rebuild, cancelled, stopped, plug,
                 live, unitCfg, loop, inst>>

\* The rest of quiesce waits for the loop.  A probe that shuts down goes no further.
Abandon ==
  /\ worker = "quiesce" /\ loop.pc = "off" /\ cancelled
  /\ worker' = "idle" /\ next' = mem
  /\ UNCHANGED <<fileVars, mem, rebuild, cancelled, stopped, plug, unitVars>>

ApplyReload ==
  /\ worker = "quiesce" /\ loop.pc = "off" /\ ~ cancelled
  /\ rebuild' = (unitCfg # next.rep \/ mem.client # next.client)
  /\ mem' = next
  /\ worker' = "reporter"
  /\ UNCHANGED <<fileVars, next, cancelled, stopped, plug, unitVars>>

\* A mistake: a reporter that was not made before the reload is not asked for again.
\* applyAfterReload: the old reporter is closed and a new loop started, or, if the loop
\* that should have made it was cut short, only that.
ReplaceReporter ==
  /\ worker = "reporter"
  /\ worker' = "start"
  /\ IF rebuild \/ live = Nil
       THEN /\ live' = Nil
            /\ inst' = IF live = Nil THEN inst ELSE [inst EXCEPT ![live].open = FALSE]
            /\ unitCfg' = next.rep /\ loop' = LoopFor(next.rep) /\ quiet' = FALSE
       ELSE UNCHANGED unitVars
  /\ rebuild' = FALSE
  /\ UNCHANGED <<fileVars, mem, next, cancelled, stopped, plug>>

StartRuntime ==
  /\ worker = "start"
  /\ worker' = "idle"
  /\ stopped' = FALSE /\ plug' = StartedPlugins(mem)
  /\ UNCHANGED <<fileVars, mem, next, rebuild, cancelled, unitVars>>

-----------------------------------------------------------------------------
(* The environment *)

WriteFile ==
  /\ writes < MaxWrites /\ writes' = writes + 1
  /\ file' \in (Config \union {Broken}) \ {file}
  /\ UNCHANGED <<pending, workerVars, cancelled, stopped, plug, unitVars>>

\* A signal, or the sync loop.
RequestReload ==
  /\ ~ pending /\ pending' = TRUE
  /\ UNCHANGED <<file, writes, workerVars, cancelled, stopped, plug, unitVars>>

\* Close: the process ends soon after, at any point of what the goroutines still do.
Close ==
  /\ ~ cancelled /\ cancelled' = TRUE
  /\ UNCHANGED <<fileVars, workerVars, stopped, plug, unitVars>>

-----------------------------------------------------------------------------
PluginStep(p) == Harvested(p) \/ Posted(p) \/ PluginEnds(p) \/ PluginFails(p)

LoopStep == NewReporter \/ LoopEnds \/ Publish

WorkerStep ==
  \/ TakeReload \/ ReloadOnce \/ StopRuntime \/ Abandon
  \/ ApplyReload \/ ReplaceReporter \/ StartRuntime

Next ==
  \/ \E p \in Plugin : PluginStep(p)
  \/ LoopStep \/ WorkerStep
  \/ WriteFile \/ RequestReload \/ Close

\* Goroutines go on; a post ends when its context does.  A reporter need not be made.
Fairness ==
  /\ WF_vars(WorkerStep) /\ WF_vars(LoopEnds) /\ WF_vars(Publish)
  /\ \A p \in Plugin : WF_vars(Posted(p)) /\ SF_vars(PluginEnds(p))

Spec == Init /\ [][Next]_vars /\ Fairness

-----------------------------------------------------------------------------
TypeOK ==
  /\ file \in Config \union {Broken} /\ writes \in 0 .. MaxWrites /\ pending \in BOOLEAN
  /\ mem \in Config /\ next \in Config /\ rebuild \in BOOLEAN
  /\ worker \in {"idle", "parse", "stop", "quiesce", "reporter", "start"}
  /\ cancelled \in BOOLEAN /\ stopped \in BOOLEAN /\ quiet \in BOOLEAN
  /\ plug \in [Plugin -> [pc : {"wait", "post", "off"}, harv : Harvest,
                          rep : Instance \union {Nil}]]
  /\ live \in Instance \union {Nil} /\ unitCfg \in Reporter \union {NoReporter}
  /\ loop \in [pc : {"try", "made", "off"}, made : Instance \union {Nil}]
  /\ (loop.pc = "made" => loop.made \in Instance)
  /\ inst \in [Instance -> [open : BOOLEAN, rep : Reporter \union {NoReporter},
                            client : Client]]

\* reload.go:89-107: a plugin posts what it harvested under the applied configuration,
\* through an open reporter made from the applied configuration.
PostsAreCurrent ==
  \A p \in Plugin : plug[p].pc = "post" =>
    /\ plug[p].harv = mem.harv
    /\ inst[plug[p].rep] = [open |-> TRUE, rep |-> mem.rep, client |-> mem.client]

\* probe.go:287-291: between reloads a configured reporter is there or is being made from
\* the applied configuration, though a reload may have cut its making short, and no other
\* reporter stays open.
ReporterKept ==
  worker \in {"idle", "parse"} /\ ~ cancelled =>
    /\ mem.rep # NoReporter <=> live # Nil \/ loop.pc # "off"
    /\ \A i \in Instance : inst[i].open =>
         /\ i \in {live, loop.made}
         /\ inst[i] = [open |-> TRUE, rep |-> mem.rep, client |-> mem.client]

\* adminsync.go:236-237: a requested reload reads the file, however often plugins post
\* and whether or not a reporter can be made, unless the probe shuts down.
ReloadTaken == pending ~> (worker = "parse" \/ cancelled)
=============================================================================
