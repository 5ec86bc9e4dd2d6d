---------------------------- MODULE ProcessGuard ----------------------------
(***************************************************************************)
(* The processes of one service on one host, on Unix: workers, the guards  *)
(* that restart them, the pid file, and the commands that start, stop and  *)
(* restart them or, from cron, ensure that they run.  Everybody looks at   *)
(* the pid file or the process list first and acts later, and any process  *)
(* may be killed in between.                                               *)
(***************************************************************************)
EXTENDS Integers, FiniteSets, ProcessGuardConstants

VARIABLES
  proc,     \* the processes
  pidFile,  \* whose number the pid file holds
  lock,     \* who holds the file lock of ensure
  cmd,      \* the commands that run
  manual,   \* commands given by operators so far
  kills     \* deaths and failed launches so far

world == <<proc, pidFile, lock>>
vars == <<world, cmd, manual, kills>>

Dead == [kind |-> "dead", at |-> "", child |-> Nobody, guarded |-> FALSE, term |-> FALSE]
Idle == [name |-> "none", at |-> "", seen |-> Nobody, workers |-> {}, guard |-> FALSE]

Alive(p) == p # Nobody /\ proc[p].kind # "dead"
Guards   == {p \in Proc : proc[p].kind = "guard"}
Workers  == {p \in Proc : proc[p].kind = "worker"}

TypeOK ==
  /\ proc \in [Proc -> [ kind : {"dead", "guard", "worker"},
                         at : {"", "check", "save", "pending", "wait", "drain", "delay", "run"},
                         child : Proc \cup {Nobody}, guarded : BOOLEAN, term : BOOLEAN ]]
  /\ pidFile \in Proc \cup {Nobody} /\ lock \in Cmd \cup {Nobody}
  /\ cmd \in [Cmd -> [ name : {"none", "start", "daemon-start", "stop", "restart", "ensure"},
                       at : {"", "check", "list", "signal", "wait", "exit", "kill", "fork"},
                       seen : Proc \cup {Nobody}, workers : SUBSET (Proc \cup Cmd),
                       guard : BOOLEAN ]]
  /\ manual \in 0..MaxManual /\ kills \in 0..MaxKills

Init ==
  /\ proc = [p \in Proc |-> Dead]
  /\ pidFile = Nobody /\ lock = Nobody
  /\ cmd = [c \in Cmd |-> Idle]
  /\ manual = 0 /\ kills = 0

(* A number may be given again while a command still goes by it, but not   *)
(* while the guard has not waited for the child that bore it.  That the    *)
(* very process that replaces a dead one gets the number left in the pid   *)
(* file is left out.                                                       *)
Free(p) ==
  /\ proc[p].kind = "dead" /\ pidFile # p
  /\ \A g \in Guards : proc[g].child # p

-----------------------------------------------------------------------------
(* The guard (RunWithGuard).                                               *)

Step(p, at) == proc' = [proc EXCEPT ![p].at = at]

(* The forked guard looks at the pid file once more.                       *)
GuardChecks(g) ==
  /\ proc[g].kind = "guard" /\ proc[g].at = "check"
  /\ IF Alive(pidFile) THEN proc' = [proc EXCEPT ![g] = Dead] ELSE Step(g, "save")
  /\ UNCHANGED <<pidFile, lock, cmd, manual, kills>>

SavePid(p) ==
  /\ proc[p].at = "save"
  /\ pidFile' = p
  /\ Step(p, IF proc[p].kind = "guard" THEN "pending" ELSE "run")
  /\ UNCHANGED <<lock, cmd, manual, kills>>

(* No new worker for a guard that has been asked to stop.                  *)
StartWorker(g) ==
  /\ proc[g].kind = "guard" /\ proc[g].at = "pending"
  /\ \/ /\ ~proc[g].term
        /\ \E w \in {p \in Proc : Free(p)} :
             proc' = [proc EXCEPT ![w] = [Dead EXCEPT !.kind = "worker", !.at = "run", !.guarded = TRUE],
                                  ![g].child = w, ![g].at = "wait"]
        /\ UNCHANGED pidFile
     \/ /\ proc[g].term
        /\ proc' = [proc EXCEPT ![g] = Dead]
        /\ pidFile' = Nobody
  /\ UNCHANGED <<lock, cmd, manual, kills>>

(* StartDaemon fails: the guard returns the error, and removes the pid     *)
(* file, whoever it names.                                                 *)
SpawnFails(g) ==
  /\ proc[g].kind = "guard" /\ proc[g].at = "pending" /\ ~proc[g].term
  /\ kills < MaxKills
  /\ proc' = [proc EXCEPT ![g] = Dead]
  /\ pidFile' = Nobody
  /\ kills' = kills + 1
  /\ UNCHANGED <<lock, cmd, manual>>

(* guardWaitForChild: the worker is gone, whatever it returned.            *)
ChildExits(g) ==
  /\ proc[g].kind = "guard" /\ proc[g].at = "wait" /\ ~Alive(proc[g].child)
  /\ proc' = [proc EXCEPT ![g].at = "delay", ![g].child = Nobody]
  /\ UNCHANGED <<pidFile, lock, cmd, manual, kills>>

RestartDelay(g) ==
  /\ proc[g].kind = "guard" /\ proc[g].at = "delay"
  /\ Step(g, "pending")
  /\ UNCHANGED <<pidFile, lock, cmd, manual, kills>>

(* guardStopChild hands the signal on.                                     *)
StopChild(g) ==
  /\ proc[g].kind = "guard" /\ proc[g].at = "wait" /\ proc[g].term
  /\ proc' = [proc EXCEPT ![g].at = "drain", ![proc[g].child].term = TRUE]
  /\ UNCHANGED <<pidFile, lock, cmd, manual, kills>>

(* drainChildWait and ensureChildDead wait, then kill; the guard removes   *)
(* the pid file, whoever it names, and exits.                              *)
EnsureChildDead(g) ==
  /\ proc[g].kind = "guard" /\ proc[g].at = "drain"
  /\ proc' = [p \in Proc |-> IF p \in {g, proc[g].child} THEN Dead ELSE proc[p]]
  /\ pidFile' = Nobody
  /\ UNCHANGED <<lock, cmd, manual, kills>>

(* A worker that is asked to stop; one that started alone removes the pid  *)
(* file (setupGracefulShutdown).                                           *)
WorkerStops(w) ==
  /\ proc[w].kind = "worker" /\ proc[w].at = "run" /\ proc[w].term
  /\ proc' = [proc EXCEPT ![w] = Dead]
  /\ pidFile' = IF proc[w].guarded THEN pidFile ELSE Nobody
  /\ UNCHANGED <<lock, cmd, manual, kills>>

Killed(p) ==
  /\ Alive(p) /\ kills < MaxKills
  /\ proc' = [proc EXCEPT ![p] = Dead]
  /\ kills' = kills + 1
  /\ UNCHANGED <<pidFile, lock, cmd, manual>>

-----------------------------------------------------------------------------
(* The commands.                                                           *)

Goto(c, at) == cmd' = [cmd EXCEPT ![c].at = at]
Ends(c)     == cmd' = [cmd EXCEPT ![c] = Idle] /\ lock' = (IF lock = c THEN Nobody ELSE lock)

(* WasRunningWithDaemonStart: restart starts again in the mode it found.   *)
Give(c, name) ==
  /\ cmd[c] = Idle /\ manual < MaxManual
  /\ cmd' = [cmd EXCEPT ![c] = [Idle EXCEPT
                !.name = name,
                !.at = IF name \in {"stop", "restart"} THEN "signal" ELSE "check",
                !.guard = name = "daemon-start" \/ (name = "restart" /\ pidFile \in Guards)]]
  /\ manual' = manual + 1
  /\ UNCHANGED <<world, kills>>

(* TryFileLock: a second ensure skips.                                     *)
EnsureUnlocked(c) ==
  /\ cmd[c] = Idle
  /\ cmd' = [cmd EXCEPT ![c] = [Idle EXCEPT !.name = "ensure", !.at = "list", !.guard = TRUE]]
  /\ UNCHANGED <<world, manual, kills>>

Ensure(c) ==
  /\ cmd[c] = Idle /\ lock = Nobody
  /\ lock' = c
  /\ cmd' = [cmd EXCEPT ![c] = [Idle EXCEPT !.name = "ensure", !.at = "list", !.guard = TRUE]]
  /\ UNCHANGED <<proc, pidFile, manual, kills>>

(* ClassifyProbeCmdline goes by the command line: a launcher that was      *)
(* called with daemon-start counts as a guard, every other command but     *)
(* ensure as a worker.  Mistake: only the worker that the pid file names.   *)
Named(N) == {c \in Cmd : cmd[c].name \in N}
ListedGuards  == Guards \cup Named({"daemon-start"})
ListedByPidFile == {pidFile} \cap Workers
ListedWorkers == Workers \cup Named({"start", "stop", "restart"})

EnsureLists(c) ==
  /\ cmd[c].at = "list"
  /\ \/ ListedGuards # {} /\ Ends(c)
     \/ /\ ListedGuards = {}
        /\ cmd' = [cmd EXCEPT ![c].at = IF ListedWorkers = {} THEN "check" ELSE "signal",
                              ![c].workers = ListedWorkers]
        /\ UNCHANGED lock
  /\ UNCHANGED <<proc, pidFile, manual, kills>>

(* StopWithPidFile: SIGTERM to the process the file names, when it lives.  *)
(* A guard heeds it once it has saved its pid, a worker too.               *)
SignalStop(c) ==
  /\ cmd[c].at = "signal"
  /\ IF Alive(pidFile)
     THEN /\ proc' = [proc EXCEPT ![pidFile].term = TRUE]
          /\ cmd' = [cmd EXCEPT ![c].at = "wait", ![c].seen = pidFile]
          /\ UNCHANGED lock
     ELSE /\ \/ cmd[c].name = "stop" /\ Ends(c)
             \/ cmd[c].name = "restart" /\ Goto(c, "exit") /\ UNCHANGED lock
             \/ cmd[c].name = "ensure" /\ Goto(c, "kill") /\ UNCHANGED lock
          /\ UNCHANGED proc
  /\ UNCHANGED <<pidFile, manual, kills>>

After(c) == CASE cmd[c].name = "stop" -> "" [] cmd[c].name = "restart" -> "exit" [] OTHER -> "kill"

StopSucceeds(c) ==
  /\ cmd[c].at = "wait" /\ ~Alive(cmd[c].seen)
  /\ IF cmd[c].name = "stop" THEN Ends(c)
     ELSE cmd' = [cmd EXCEPT ![c].at = After(c), ![c].seen = Nobody] /\ UNCHANGED lock
  /\ UNCHANGED <<proc, pidFile, manual, kills>>

(* The timeout: an error, or with --force, which ensure sets, SIGKILL and  *)
(* the pid file removed, whoever it names by now.                          *)
StopTimesOut(c, force) ==
  /\ cmd[c].at = "wait" /\ Alive(cmd[c].seen)
  /\ cmd[c].name = "ensure" => force
  /\ IF force
     THEN /\ proc' = [proc EXCEPT ![cmd[c].seen] = Dead]
          /\ pidFile' = Nobody
            /\ IF cmd[c].name = "stop" THEN Ends(c)
             ELSE cmd' = [cmd EXCEPT ![c].at = After(c), ![c].seen = Nobody] /\ UNCHANGED lock
     ELSE Ends(c) /\ UNCHANGED <<proc, pidFile>>
  /\ UNCHANGED <<manual, kills>>

(* restart: waitForProcessExit reads the file again.                       *)
WaitForProcessExit(c) ==
  /\ cmd[c].at = "exit"
  /\ \/ ~Alive(pidFile) /\ Goto(c, "check") /\ UNCHANGED lock
     \/ Alive(pidFile) /\ Ends(c)
  /\ UNCHANGED <<proc, pidFile, manual, kills>>

(* ensure: what was listed and lives is killed, another command included.  *)
StopProbeWorkers(c) ==
  /\ cmd[c].at = "kill"
  /\ proc' = [p \in Proc |-> IF p \in cmd[c].workers THEN Dead ELSE proc[p]]
  /\ cmd' = [d \in Cmd |-> IF d = c THEN [cmd[c] EXCEPT !.at = "check", !.workers = {}]
                           ELSE IF d \in cmd[c].workers THEN Idle ELSE cmd[d]]
  /\ UNCHANGED <<pidFile, lock, manual, kills>>

(* skipStartIfAlreadyRunning.                                              *)
CheckRunning(c) ==
  /\ cmd[c].at = "check"
  /\ IF Alive(pidFile) THEN Ends(c) ELSE Goto(c, "fork") /\ UNCHANGED lock
  /\ UNCHANGED <<proc, pidFile, manual, kills>>

(* StartDaemon: a worker alone, or a guard; the command does not wait.     *)
StartDaemon(c) ==
  /\ cmd[c].at = "fork"
  /\ \E p \in {q \in Proc : Free(q)} :
       proc' = [proc EXCEPT ![p] = IF cmd[c].guard
                                   THEN [Dead EXCEPT !.kind = "guard", !.at = "check"]
                                   ELSE [Dead EXCEPT !.kind = "worker", !.at = "save"]]
  /\ Ends(c)
  /\ UNCHANGED <<pidFile, manual, kills>>

-----------------------------------------------------------------------------
GuardStep(g) ==
  \/ GuardChecks(g) \/ SavePid(g) \/ StartWorker(g) \/ ChildExits(g)
  \/ RestartDelay(g) \/ StopChild(g) \/ EnsureChildDead(g) \/ WorkerStops(g)

CommandStep(c) ==
  \/ EnsureLists(c) \/ SignalStop(c) \/ StopSucceeds(c) \/ StopTimesOut(c, TRUE)
  \/ StopTimesOut(c, FALSE) \/ WaitForProcessExit(c) \/ StopProbeWorkers(c)
  \/ CheckRunning(c) \/ StartDaemon(c)

Next ==
  \/ \E p \in Proc : GuardStep(p) \/ SpawnFails(p) \/ Killed(p)
  \/ \E c \in Cmd : \/ Ensure(c) \/ CommandStep(c)
                    \/ \E n \in {"start", "daemon-start", "stop", "restart"} : Give(c, n)

(* Processes and commands run, and cron calls ensure again and again.      *)
Fairness ==
  /\ \A p \in Proc : WF_vars(GuardStep(p))
  /\ \A c \in Cmd : WF_vars(CommandStep(c))
  /\ WF_vars(\E c \in Cmd : Ensure(c))

Spec == Init /\ [][Next]_vars /\ Fairness

-----------------------------------------------------------------------------
(* While only cron acts there is one guard at most, whoever is killed      *)
(* between looking and launching (ensure.go:57-96).                        *)
CronKeepsOneGuard == manual = 0 => Cardinality(Guards) <= 1

(* However the processes died, cron restores the shape of daemon-start:    *)
(* one guard and no worker but its own, orphans of a killed guard included *)
(* (ensure.go:51).                                                         *)
Restored == \E g \in Proc : Guards = {g} /\ Workers = {proc[g].child}
CronRestores == <>[](manual = 0 => Restored)
=============================================================================
