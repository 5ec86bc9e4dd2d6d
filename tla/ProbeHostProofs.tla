--------------------------- MODULE ProbeHostProofs ---------------------------
(***************************************************************************)
(* Proofs about the four systems of MCProbeHost: the guard of a service    *)
(* (ProcessGuard), the write heartbeat (Heartbeat), the configuration that *)
(* is rendered for a probe (ProbeYAML), and the way of its reports         *)
(* (Reports), for any processes, commands, receivers, groups and metadata. *)
(***************************************************************************)
EXTENDS MCProbeHost, FiniteSetTheorems, TLAPS

-----------------------------------------------------------------------------
(* ProcessGuard.                                                           *)

(* The entries of the tables.                                              *)
ProcessAt == {"", "check", "save", "pending", "wait", "drain", "delay", "run"}
Process == [ kind : {"dead", "guard", "worker"}, at : ProcessAt,
             child : Proc \cup {Nobody}, guarded : BOOLEAN, term : BOOLEAN ]
CommandAt == {"", "check", "list", "signal", "wait", "exit", "kill", "fork"}
Command ==
  [ name : {"none", "start", "daemon-start", "stop", "restart", "ensure"},
    at : CommandAt, seen : Proc \cup {Nobody},
    workers : SUBSET (Proc \cup Cmd), guard : BOOLEAN ]

GuardType ==
  /\ pg_proc \in [Proc -> Process] /\ pg_cmd \in [Cmd -> Command]
  /\ pg_pidFile \in Proc \cup {Nobody} /\ pg_lock \in Cmd \cup {Nobody}
  /\ pg_manual \in 0..MaxManual /\ pg_kills \in 0..MaxKills

(* Between looking and forking.                                            *)
Acting == {"signal", "wait", "kill", "check", "fork"}

(* While only cron acts, a command that runs is an ensure and has the file *)
(* lock; from the moment it has listed no guard there is none, and at any  *)
(* time there is one at most.                                              *)
CronHasLock(c) ==
  pg_cmd[c] # Guard!Idle => pg_lock = c /\ pg_cmd[c].name = "ensure"
ActsAlone(c) == pg_cmd[c].at \in Acting => Guard!Guards = {}

OnlyCron ==
  pg_manual = 0 =>
    /\ \A c \in Cmd : CronHasLock(c) /\ ActsAlone(c)
    /\ \A p, q \in Guard!Guards : p = q

(* Only restart waits for the exit of what it has stopped.                 *)
ExitOfRestart ==
  \A c \in Cmd : pg_cmd[c].at = "exit" => pg_cmd[c].name = "restart"

GuardInv == GuardType /\ ExitOfRestart /\ OnlyCron

LEMMA AtMostOne ==
  ASSUME NEW S, \A x, y \in S : x = y
  PROVE  Cardinality(S) <= 1
<1>1. CASE S = {}
  BY <1>1, FS_EmptySet
<1>2. CASE S # {}
  <2>1. PICK x : x \in S
    BY <1>2
  <2>2. S = {x}
    BY <2>1
  <2> QED
    BY <2>2, FS_Singleton
<1> QED
  BY <1>1, <1>2

(* An entry that is written as another kind of process, or as none.        *)
LEMMA DeadProcess == Guard!Dead \in Process /\ Guard!Dead.kind = "dead"
BY DEF Process, ProcessAt, Guard!Dead

LEMMA ProcessMoves ==
  ASSUME NEW x \in Process
  PROVE  /\ \A at \in ProcessAt : /\ [x EXCEPT !.at = at] \in Process
                                 /\ [x EXCEPT !.at = at].kind = x.kind
         /\ \A w \in Proc \cup {Nobody} : /\ [x EXCEPT !.child = w] \in Process
                                         /\ [x EXCEPT !.child = w].kind = x.kind
         /\ [x EXCEPT !.term = TRUE] \in Process
         /\ [x EXCEPT !.term = TRUE].kind = x.kind
BY DEF Process

LEMMA IdleCommand == Guard!Idle \in Command /\ Guard!Idle.at = ""
BY DEF Command, CommandAt, Guard!Idle

LEMMA CommandMoves ==
  ASSUME NEW x \in Command
  PROVE  /\ \A at \in CommandAt :
              /\ [x EXCEPT !.at = at] \in Command
              /\ [x EXCEPT !.at = at].at = at
              /\ [x EXCEPT !.at = at].name = x.name
         /\ \A p \in Proc \cup {Nobody} :
              /\ [x EXCEPT !.seen = p] \in Command
              /\ [x EXCEPT !.seen = p].at = x.at
              /\ [x EXCEPT !.seen = p].name = x.name
         /\ \A W \in SUBSET (Proc \cup Cmd) :
              /\ [x EXCEPT !.workers = W] \in Command
              /\ [x EXCEPT !.workers = W].at = x.at
              /\ [x EXCEPT !.workers = W].name = x.name
BY DEF Command

(* What a step may do to the processes without making a guard: leave the   *)
(* kind of each or make it something else than a guard.                    *)
MakesNoGuard ==
  /\ pg_proc' \in [Proc -> Process]
  /\ \A p \in Proc : \/ pg_proc'[p].kind = pg_proc[p].kind
                    \/ pg_proc'[p].kind # "guard"

LEMMA NoNewGuard ==
  ASSUME MakesNoGuard
  PROVE  Guard!Guards' \subseteq Guard!Guards
BY DEF MakesNoGuard, Guard!Guards

LEMMA OneChanges ==
  ASSUME GuardType, NEW p, NEW x \in Process,
         pg_proc' = [pg_proc EXCEPT ![p] = x],
         p \in Proc => x.kind = pg_proc[p].kind \/ x.kind # "guard"
  PROVE  MakesNoGuard
BY DEF GuardType, MakesNoGuard

LEMMA NothingChanges ==
  ASSUME GuardType, pg_proc' = pg_proc
  PROVE  MakesNoGuard
BY DEF GuardType, MakesNoGuard

(* A step of a process makes no guard: a worker it starts is none.         *)
LEMMA ProcessSteps ==
  ASSUME GuardType, NEW p \in Proc,
         Guard!GuardStep(p) \/ Guard!SpawnFails(p) \/ Guard!Killed(p)
  PROVE  /\ GuardType' /\ MakesNoGuard
         /\ UNCHANGED <<pg_lock, pg_cmd, pg_manual>>
<1> DEFINE Rest == /\ pg_pidFile' \in Proc \cup {Nobody}
                   /\ pg_kills' \in 0..MaxKills
                   /\ UNCHANGED <<pg_lock, pg_cmd, pg_manual>>
<1>a. ASSUME NEW at \in ProcessAt, Guard!Step(p, at)
      PROVE  MakesNoGuard
  <2>1. pg_proc' = [pg_proc EXCEPT ![p] = [pg_proc[p] EXCEPT !.at = at]]
    BY <1>a DEF Guard!Step, GuardType
  <2> QED
    BY <2>1, ProcessMoves, OneChanges DEF GuardType
<1>b. ASSUME pg_proc' = [pg_proc EXCEPT ![p] = Guard!Dead]
      PROVE  MakesNoGuard
  BY <1>b, DeadProcess, OneChanges
<1>1. CASE Guard!GuardChecks(p)
  <2>1. MakesNoGuard
    BY <1>1, <1>a, <1>b DEF Guard!GuardChecks, ProcessAt
  <2> QED
    BY <1>1, <2>1 DEF Guard!GuardChecks, GuardType, MakesNoGuard
<1>2. CASE Guard!SavePid(p)
  <2>1. MakesNoGuard
    BY <1>2, <1>a DEF Guard!SavePid, ProcessAt
  <2> QED
    BY <1>2, <2>1 DEF Guard!SavePid, GuardType, MakesNoGuard
<1>3. CASE Guard!StartWorker(p)
  <2>1. ASSUME NEW w \in Proc,
               pg_proc' = [pg_proc EXCEPT
                 ![w] = [Guard!Dead EXCEPT !.kind = "worker", !.at = "run", !.guarded = TRUE],
                 ![p].child = w, ![p].at = "wait"],
               pg_proc[w].kind = "dead", pg_proc[p].kind = "guard"
        PROVE  MakesNoGuard
    <3> DEFINE worker == [Guard!Dead EXCEPT !.kind = "worker", !.at = "run", !.guarded = TRUE]
               parent == [pg_proc[p] EXCEPT !.child = w]
               guard == [parent EXCEPT !.at = "wait"]
    <3>1. worker \in Process /\ worker.kind = "worker"
      BY DEF Process, ProcessAt, Guard!Dead
    <3>2. guard \in Process /\ guard.kind = "guard"
      <4>1. parent \in Process /\ parent.kind = "guard"
        BY <2>1, ProcessMoves DEF GuardType, ProcessAt
      <4> HIDE DEF parent
      <4> QED
        BY <4>1, ProcessMoves DEF ProcessAt
    <3>3. w # p
      BY <2>1
    <3>4. pg_proc' = [[pg_proc EXCEPT ![w] = worker] EXCEPT ![p] = guard]
      BY <2>1, <3>3 DEF GuardType
    <3> HIDE DEF worker, guard
    <3>5. /\ pg_proc' \in [Proc -> Process]
          /\ pg_proc'[w] = worker /\ pg_proc'[p] = guard
          /\ \A q \in Proc : q # w /\ q # p => pg_proc'[q] = pg_proc[q]
      <4>1. pg_proc \in [Proc -> Process] /\ w \in Proc /\ p \in Proc
        BY <2>1 DEF GuardType
      <4> QED
        BY <3>1, <3>2, <3>3, <3>4, <4>1
    <3> QED
      BY <2>1, <3>1, <3>2, <3>5 DEF MakesNoGuard
  <2>2. MakesNoGuard
    BY <1>3, <2>1, <1>b DEF Guard!StartWorker, Guard!Free
  <2> QED
    BY <1>3, <2>2 DEF Guard!StartWorker, GuardType, MakesNoGuard
<1>4. CASE Guard!ChildExits(p)
  <2> DEFINE delayed == [pg_proc[p] EXCEPT !.at = "delay"]
             alone == [delayed EXCEPT !.child = Nobody]
  <2>1. delayed \in Process /\ delayed.kind = pg_proc[p].kind
    BY ProcessMoves DEF GuardType, ProcessAt
  <2>2. pg_proc' = [pg_proc EXCEPT ![p] = alone]
    BY <1>4 DEF Guard!ChildExits, GuardType
  <2> HIDE DEF delayed
  <2>3. alone \in Process /\ alone.kind = pg_proc[p].kind
    BY <2>1, ProcessMoves DEF ProcessAt
  <2> HIDE DEF alone
  <2>4. MakesNoGuard
    BY <2>2, <2>3, OneChanges
  <2> QED
    BY <1>4, <2>4 DEF Guard!ChildExits, GuardType, MakesNoGuard
<1>5. CASE Guard!RestartDelay(p)
  <2>1. MakesNoGuard
    BY <1>5, <1>a DEF Guard!RestartDelay, ProcessAt
  <2> QED
    BY <1>5, <2>1 DEF Guard!RestartDelay, GuardType, MakesNoGuard
<1>6. CASE Guard!StopChild(p)
  <2> DEFINE draining == [pg_proc EXCEPT ![p] = [pg_proc[p] EXCEPT !.at = "drain"]]
             child == pg_proc[p].child
  <2>1. /\ draining \in [Proc -> Process]
        /\ \A q \in Proc : draining[q].kind = pg_proc[q].kind
    BY ProcessMoves DEF GuardType, ProcessAt
  <2>2. pg_proc' = [draining EXCEPT ![child] = [draining[child] EXCEPT !.term = TRUE]]
    BY <1>6 DEF Guard!StopChild, GuardType
  <2> HIDE DEF draining, child
  <2>3. child \in Proc => /\ [draining[child] EXCEPT !.term = TRUE] \in Process
                         /\ [draining[child] EXCEPT !.term = TRUE].kind = pg_proc[child].kind
    BY <2>1, ProcessMoves DEF ProcessAt
  <2>4. MakesNoGuard
    BY <2>1, <2>2, <2>3 DEF MakesNoGuard
  <2> QED
    BY <1>6, <2>4 DEF Guard!StopChild, GuardType, MakesNoGuard
<1>7. CASE Guard!EnsureChildDead(p)
  <2>1. MakesNoGuard
    BY <1>7, DeadProcess DEF Guard!EnsureChildDead, GuardType, MakesNoGuard
  <2> QED
    BY <1>7, <2>1 DEF Guard!EnsureChildDead, GuardType, MakesNoGuard
<1>8. CASE Guard!WorkerStops(p)
  <2>1. MakesNoGuard
    BY <1>8, <1>b DEF Guard!WorkerStops
  <2> QED
    BY <1>8, <2>1 DEF Guard!WorkerStops, GuardType, MakesNoGuard
<1>9. CASE Guard!Killed(p)
  <2>1. MakesNoGuard
    BY <1>9, <1>b DEF Guard!Killed
  <2>2. pg_kills' \in 0..MaxKills
    BY <1>9, ProcessAssumption DEF Guard!Killed, GuardType
  <2> QED
    BY <1>9, <2>1, <2>2 DEF Guard!Killed, GuardType, MakesNoGuard
<1>10. CASE Guard!SpawnFails(p)
  <2>1. MakesNoGuard
    BY <1>10, <1>b DEF Guard!SpawnFails
  <2>2. pg_kills' \in 0..MaxKills
    BY <1>10, ProcessAssumption DEF Guard!SpawnFails, GuardType
  <2> QED
    BY <1>10, <2>1, <2>2 DEF Guard!SpawnFails, GuardType, MakesNoGuard
<1> QED
  BY <1>1, <1>2, <1>3, <1>4, <1>5, <1>6, <1>7, <1>8, <1>9, <1>10 DEF Guard!GuardStep

(* The command that has the lock goes on with it or gives it back; it acts *)
(* only if it already did or has listed no guard; what it does to the      *)
(* processes makes no guard.                                               *)
CommandRuns(c) ==
  \/ Guard!EnsureLists(c) \/ Guard!SignalStop(c) \/ Guard!StopSucceeds(c)
  \/ Guard!StopTimesOut(c, TRUE) \/ Guard!StopTimesOut(c, FALSE)
  \/ Guard!WaitForProcessExit(c) \/ Guard!StopProbeWorkers(c)
  \/ Guard!CheckRunning(c)

(* How a command comes out of a step: it ends and gives the lock back, or  *)
(* goes on under its name and keeps it.                                    *)
Comes(c) ==
  \/ Guard!Ends(c)
  \/ \E x \in Command :
       /\ \/ pg_cmd' = [pg_cmd EXCEPT ![c] = x]
          \/ pg_cmd' = [d \in Cmd |-> IF d = c THEN x
                                      ELSE IF d \in pg_cmd[c].workers THEN Guard!Idle
                                      ELSE pg_cmd[d]]
       /\ pg_lock' = pg_lock
       /\ x.name = pg_cmd[c].name
       /\ x.at = "exit" => x.name = "restart"
       /\ x.name = "ensure" /\ x.at \in Acting =>
            pg_cmd[c].at \in Acting \/ Guard!Guards = {}

LEMMA GoesOn ==
  ASSUME GuardType, NEW c \in Cmd, NEW at \in CommandAt,
         pg_lock' = pg_lock,
         at = "exit" => pg_cmd[c].name = "restart",
         pg_cmd[c].name = "ensure" /\ at \in Acting =>
           pg_cmd[c].at \in Acting \/ Guard!Guards = {},
         \/ Guard!Goto(c, at)
         \/ \E p \in Proc \cup {Nobody} :
              pg_cmd' = [pg_cmd EXCEPT ![c].at = at, ![c].seen = p]
         \/ \E W \in SUBSET (Proc \cup Cmd) :
              pg_cmd' = [pg_cmd EXCEPT ![c].at = at, ![c].workers = W]
  PROVE  Comes(c)
<1> DEFINE x == [pg_cmd[c] EXCEPT !.at = at]
<1>1. x \in Command /\ x.at = at /\ x.name = pg_cmd[c].name
  BY CommandMoves DEF GuardType
<1>2. \/ pg_cmd' = [pg_cmd EXCEPT ![c] = x]
      \/ \E p \in Proc \cup {Nobody} :
           pg_cmd' = [pg_cmd EXCEPT ![c] = [x EXCEPT !.seen = p]]
      \/ \E W \in SUBSET (Proc \cup Cmd) :
           pg_cmd' = [pg_cmd EXCEPT ![c] = [x EXCEPT !.workers = W]]
  BY DEF GuardType, Guard!Goto
<1> HIDE DEF x
<1>3. PICK y \in Command : /\ pg_cmd' = [pg_cmd EXCEPT ![c] = y]
                           /\ y.at = at /\ y.name = pg_cmd[c].name
  <2>1. CASE pg_cmd' = [pg_cmd EXCEPT ![c] = x]
    BY <1>1, <2>1
  <2>2. ASSUME NEW p \in Proc \cup {Nobody},
               pg_cmd' = [pg_cmd EXCEPT ![c] = [x EXCEPT !.seen = p]]
        PROVE  \E y \in Command : /\ pg_cmd' = [pg_cmd EXCEPT ![c] = y]
                                  /\ y.at = at /\ y.name = pg_cmd[c].name
    <3> DEFINE y == [x EXCEPT !.seen = p]
    <3>1. y \in Command /\ y.at = at /\ y.name = pg_cmd[c].name
      BY <1>1, CommandMoves
    <3> QED
      BY <2>2, <3>1
  <2>3. ASSUME NEW W \in SUBSET (Proc \cup Cmd),
               pg_cmd' = [pg_cmd EXCEPT ![c] = [x EXCEPT !.workers = W]]
        PROVE  \E y \in Command : /\ pg_cmd' = [pg_cmd EXCEPT ![c] = y]
                                  /\ y.at = at /\ y.name = pg_cmd[c].name
    <3> DEFINE y == [x EXCEPT !.workers = W]
    <3>1. y \in Command /\ y.at = at /\ y.name = pg_cmd[c].name
      BY <1>1, CommandMoves
    <3> QED
      BY <2>3, <3>1
  <2> QED
    BY <1>2, <2>1, <2>2, <2>3
<1> QED
  BY <1>3 DEF Comes

LEMMA CommandSteps ==
  ASSUME GuardType, ExitOfRestart, NEW c \in Cmd, CommandRuns(c)
  PROVE  /\ GuardType' /\ MakesNoGuard /\ pg_manual' = pg_manual
         /\ pg_cmd[c] # Guard!Idle /\ Comes(c)
<1>a. pg_cmd[c] # Guard!Idle
  <2>1. pg_cmd[c].at # ""
    BY DEF CommandRuns, Guard!EnsureLists, Guard!SignalStop, Guard!StopSucceeds,
           Guard!StopTimesOut, Guard!WaitForProcessExit, Guard!StopProbeWorkers,
           Guard!CheckRunning
  <2> QED
    BY <2>1, IdleCommand
<1>b. /\ pg_pidFile' \in Proc \cup {Nobody} /\ pg_manual' = pg_manual
      /\ pg_kills' = pg_kills
  BY DEF CommandRuns, Guard!EnsureLists, Guard!SignalStop, Guard!StopSucceeds,
         Guard!StopTimesOut, Guard!WaitForProcessExit, Guard!StopProbeWorkers,
         Guard!CheckRunning, GuardType
<1>c. ASSUME Comes(c)
      PROVE  pg_cmd' \in [Cmd -> Command] /\ pg_lock' \in Cmd \cup {Nobody}
  BY <1>c, IdleCommand DEF Comes, Guard!Ends, GuardType
<1>d. ASSUME MakesNoGuard, Comes(c)
      PROVE  GuardType'
  BY <1>b, <1>c, <1>d DEF GuardType, MakesNoGuard
<1>1. CASE Guard!EnsureLists(c)
  <2>1. MakesNoGuard
    BY <1>1, NothingChanges DEF Guard!EnsureLists
  <2>2. Guard!ListedWorkers \in SUBSET (Proc \cup Cmd)
    BY DEF Guard!ListedWorkers, Guard!Workers, Guard!Named
  <2>3. Guard!ListedGuards = {} => Guard!Guards = {}
    BY DEF Guard!ListedGuards
  <2>4. Comes(c)
    <3>1. CASE Guard!Ends(c)
      BY <3>1 DEF Comes
    <3>2. CASE ~Guard!Ends(c)
      <4> DEFINE at == IF Guard!ListedWorkers = {} THEN "check" ELSE "signal"
      <4>1. /\ pg_cmd' = [pg_cmd EXCEPT ![c].at = at, ![c].workers = Guard!ListedWorkers]
            /\ pg_lock' = pg_lock /\ Guard!ListedGuards = {}
        BY <1>1, <3>2 DEF Guard!EnsureLists
      <4>2. at \in CommandAt /\ at # "exit"
        BY DEF CommandAt
      <4> HIDE DEF at
      <4>3. Guard!Guards = {}
        BY <2>3, <4>1
      <4>4. \E W \in SUBSET (Proc \cup Cmd) :
              pg_cmd' = [pg_cmd EXCEPT ![c].at = at, ![c].workers = W]
        BY <2>2, <4>1
      <4> QED
        BY <4>1, <4>2, <4>3, <4>4, GoesOn
    <3> QED
      BY <3>1, <3>2
  <2> QED
    BY <1>a, <1>b, <1>d, <2>1, <2>4
<1>2. CASE Guard!SignalStop(c)
  <2>1. MakesNoGuard
    <3>1. CASE Guard!Alive(pg_pidFile)
      <4>1. pg_pidFile \in Proc
        BY <3>1 DEF Guard!Alive, GuardType
      <4>2. pg_proc' = [pg_proc EXCEPT ![pg_pidFile] =
                          [pg_proc[pg_pidFile] EXCEPT !.term = TRUE]]
        BY <1>2, <3>1, <4>1 DEF Guard!SignalStop, GuardType
      <4> QED
        BY <4>1, <4>2, ProcessMoves, OneChanges DEF GuardType, ProcessAt
    <3>2. CASE ~Guard!Alive(pg_pidFile)
      BY <1>2, <3>2, NothingChanges DEF Guard!SignalStop
    <3> QED
      BY <3>1, <3>2
  <2>2. Comes(c)
    BY <1>2, GoesOn
    DEF Guard!SignalStop, Comes, CommandAt, Acting, GuardType
  <2> QED
    BY <1>a, <1>b, <1>d, <2>1, <2>2
<1>3. CASE Guard!StopSucceeds(c)
  <2>1. MakesNoGuard
    BY <1>3, NothingChanges DEF Guard!StopSucceeds
  <2>2. Comes(c)
    BY <1>3, GoesOn
    DEF Guard!StopSucceeds, Guard!After, Comes, CommandAt, Acting, GuardType
  <2> QED
    BY <1>a, <1>b, <1>d, <2>1, <2>2
<1>4. ASSUME NEW force \in BOOLEAN, Guard!StopTimesOut(c, force)
      PROVE  MakesNoGuard /\ Comes(c)
  <2>1. MakesNoGuard
    BY <1>4, DeadProcess, OneChanges, NothingChanges DEF Guard!StopTimesOut
  <2>2. Comes(c)
    BY <1>4, GoesOn
    DEF Guard!StopTimesOut, Guard!After, Comes, CommandAt, Acting, GuardType
  <2> QED
    BY <2>1, <2>2
<1>5. CASE Guard!WaitForProcessExit(c)
  <2>1. MakesNoGuard
    BY <1>5, NothingChanges DEF Guard!WaitForProcessExit
  <2>2. Comes(c)
    BY <1>5, GoesOn
    DEF Guard!WaitForProcessExit, Comes, CommandAt, Acting, GuardType, ExitOfRestart
  <2> QED
    BY <1>a, <1>b, <1>d, <2>1, <2>2
<1>6. CASE Guard!CheckRunning(c)
  <2>1. MakesNoGuard
    BY <1>6, NothingChanges DEF Guard!CheckRunning
  <2>2. Comes(c)
    BY <1>6, GoesOn DEF Guard!CheckRunning, Comes, CommandAt, Acting, GuardType
  <2> QED
    BY <1>a, <1>b, <1>d, <2>1, <2>2
<1>7. CASE Guard!StopProbeWorkers(c)
  <2>1. MakesNoGuard
    BY <1>7, DeadProcess DEF Guard!StopProbeWorkers, GuardType, MakesNoGuard
  <2> DEFINE x == [pg_cmd[c] EXCEPT !.at = "check"]
             y == [x EXCEPT !.workers = {}]
  <2>2. x \in Command /\ x.at = "check" /\ x.name = pg_cmd[c].name
    <3>1. "check" \in CommandAt /\ pg_cmd[c] \in Command
      BY DEF GuardType, CommandAt
    <3> QED
      BY <3>1, CommandMoves
  <2>3. pg_cmd' = [d \in Cmd |-> IF d = c THEN y
                                ELSE IF d \in pg_cmd[c].workers THEN Guard!Idle
                                ELSE pg_cmd[d]]
    BY <1>7 DEF Guard!StopProbeWorkers, GuardType
  <2> HIDE DEF x
  <2>4. y \in Command /\ y.at = "check" /\ y.name = pg_cmd[c].name
    BY <2>2, CommandMoves
  <2> HIDE DEF y
  <2>5. Comes(c)
    BY <1>7, <2>3, <2>4 DEF Guard!StopProbeWorkers, Comes, Acting
  <2> QED
    BY <1>a, <1>b, <1>d, <2>1, <2>5
<1> QED
  BY <1>a, <1>b, <1>d, <1>1, <1>2, <1>3, <1>4, <1>5, <1>6, <1>7 DEF CommandRuns

(* What becomes of the invariant when a command goes on.                   *)
LEMMA CommandKeeps ==
  ASSUME GuardInv, NEW c \in Cmd, CommandRuns(c)
  PROVE  GuardInv'
<1> USE DEF GuardInv
<1>1. /\ GuardType' /\ MakesNoGuard /\ pg_manual' = pg_manual
      /\ pg_cmd[c] # Guard!Idle /\ Comes(c)
  BY CommandSteps
<1>2. \A d \in Cmd \ {c} : pg_cmd'[d] \in {pg_cmd[d], Guard!Idle}
  BY <1>1 DEF Comes, Guard!Ends, GuardType
<1>3. \/ pg_cmd'[c] = Guard!Idle
      \/ /\ pg_cmd'[c].name = pg_cmd[c].name /\ pg_lock' = pg_lock
         /\ pg_cmd'[c].at = "exit" => pg_cmd[c].name = "restart"
         /\ pg_cmd[c].name = "ensure" /\ pg_cmd'[c].at \in Acting =>
              pg_cmd[c].at \in Acting \/ Guard!Guards = {}
  BY <1>1 DEF Comes, Guard!Ends, GuardType
<1>4. ExitOfRestart'
  BY <1>2, <1>3, IdleCommand DEF ExitOfRestart
<1>5. ASSUME pg_manual = 0 PROVE OnlyCron'
  <2>1. /\ pg_lock = c /\ pg_cmd[c].name = "ensure"
        /\ \A d \in Cmd \ {c} : pg_cmd[d] = Guard!Idle
    BY <1>1, <1>5 DEF OnlyCron, CronHasLock
  <2>2. \A d \in Cmd \ {c} : pg_cmd'[d] = Guard!Idle
    BY <1>2, <2>1
  <2>3. Guard!Guards' \subseteq Guard!Guards
    BY <1>1, NoNewGuard
  <2>4. \A d \in Cmd : CronHasLock(d)'
    BY <1>3, <2>1, <2>2 DEF CronHasLock
  <2>5. \A d \in Cmd : ActsAlone(d)'
    <3>1. pg_cmd[c].at \in Acting => Guard!Guards = {}
      BY <1>5 DEF OnlyCron, ActsAlone
    <3>2. Guard!Idle.at \notin Acting
      BY IdleCommand DEF Acting
    <3> QED
      BY <1>3, <2>1, <2>2, <2>3, <3>1, <3>2 DEF ActsAlone
  <2> QED
    BY <1>5, <2>3, <2>4, <2>5 DEF OnlyCron
<1> QED
  BY <1>1, <1>4, <1>5 DEF OnlyCron

(* The one fork: there was no guard before it, nobody else is about to     *)
(* fork, and the command ends with it.                                     *)
LEMMA ForkKeeps ==
  ASSUME GuardInv, NEW c \in Cmd, Guard!StartDaemon(c)
  PROVE  GuardInv'
<1> USE DEF GuardInv
<1>1. pg_cmd[c].at = "fork" /\ Guard!Ends(c) /\ UNCHANGED <<pg_pidFile, pg_manual, pg_kills>>
  BY DEF Guard!StartDaemon
<1>2. PICK p \in Proc, x \in Process : pg_proc' = [pg_proc EXCEPT ![p] = x]
  <2> DEFINE guard == [Guard!Dead EXCEPT !.kind = "guard", !.at = "check"]
             worker == [Guard!Dead EXCEPT !.kind = "worker", !.at = "save"]
  <2>1. guard \in Process /\ worker \in Process
    BY DEF Process, ProcessAt, Guard!Dead
  <2>2. \E p \in Proc :
          pg_proc' = [pg_proc EXCEPT ![p] = IF pg_cmd[c].guard THEN guard ELSE worker]
    BY DEF Guard!StartDaemon
  <2> HIDE DEF guard, worker
  <2> QED
    BY <2>1, <2>2
<1>3. GuardType'
  BY <1>1, <1>2, IdleCommand DEF GuardType, Guard!Ends
<1>4. ExitOfRestart'
  BY <1>1, IdleCommand DEF GuardType, Guard!Ends, ExitOfRestart
<1>5. ASSUME pg_manual = 0 PROVE OnlyCron'
  <2>1. Guard!Guards = {}
    BY <1>1, <1>5 DEF OnlyCron, ActsAlone, Acting
  <2>2. pg_lock = c /\ \A d \in Cmd \ {c} : pg_cmd[d] = Guard!Idle
    <3>1. pg_cmd[c] # Guard!Idle
      BY <1>1, IdleCommand
    <3> QED
      BY <1>5, <3>1 DEF OnlyCron, CronHasLock
  <2>3. \A d \in Cmd : pg_cmd'[d] = Guard!Idle
    BY <1>1, <2>2 DEF Guard!Ends, GuardType
  <2>4. \A q \in Guard!Guards' : q = p
    BY <1>2, <2>1 DEF Guard!Guards, GuardType
  <2>5. Guard!Idle.at \notin Acting
    BY IdleCommand DEF Acting
  <2> QED
    BY <2>3, <2>4, <2>5 DEF OnlyCron, CronHasLock, ActsAlone
<1> QED
  BY <1>1, <1>3, <1>4, <1>5 DEF OnlyCron

LEMMA EnsureKeeps ==
  ASSUME GuardInv, NEW c \in Cmd, Guard!Ensure(c)
  PROVE  GuardInv'
<1> USE DEF GuardInv
<1> DEFINE x == [Guard!Idle EXCEPT !.name = "ensure", !.at = "list", !.guard = TRUE]
<1>1. x \in Command /\ x.name = "ensure" /\ x.at = "list"
  BY DEF Command, CommandAt, Guard!Idle
<1>2. /\ pg_cmd[c] = Guard!Idle /\ pg_lock = Nobody /\ pg_lock' = c
      /\ pg_cmd' = [pg_cmd EXCEPT ![c] = x]
      /\ UNCHANGED <<pg_proc, pg_pidFile, pg_manual, pg_kills>>
  BY DEF Guard!Ensure
<1> HIDE DEF x
<1>3. GuardType'
  BY <1>1, <1>2 DEF GuardType
<1>4. ExitOfRestart'
  BY <1>1, <1>2 DEF GuardType, ExitOfRestart
<1>5. ASSUME pg_manual = 0 PROVE OnlyCron'
  <2>1. \A d \in Cmd : pg_cmd[d] = Guard!Idle
    BY <1>2, <1>5, ProcessAssumption DEF OnlyCron, CronHasLock
  <2>2. /\ \A d \in Cmd \ {c} : pg_cmd'[d] = Guard!Idle
        /\ pg_cmd'[c] = x
    BY <1>2, <2>1 DEF GuardType
  <2>3. Guard!Guards' = Guard!Guards
    BY <1>2 DEF Guard!Guards
  <2>4. Guard!Idle.at \notin Acting /\ x.at \notin Acting
    BY <1>1, IdleCommand DEF Acting
  <2>5. \A d \in Cmd : CronHasLock(d)' /\ ActsAlone(d)'
    BY <1>1, <1>2, <2>2, <2>4 DEF CronHasLock, ActsAlone
  <2> QED
    BY <1>5, <2>3, <2>5 DEF OnlyCron
<1> QED
  BY <1>2, <1>3, <1>4, <1>5 DEF OnlyCron

(* From the first command of an operator on nothing is claimed.            *)
LEMMA GiveKeeps ==
  ASSUME GuardInv, NEW c \in Cmd,
         NEW n \in {"start", "daemon-start", "stop", "restart"}, Guard!Give(c, n)
  PROVE  GuardInv'
<1> USE DEF GuardInv
<1> DEFINE x == [Guard!Idle EXCEPT
                   !.name = n,
                   !.at = IF n \in {"stop", "restart"} THEN "signal" ELSE "check",
                   !.guard = n = "daemon-start" \/ (n = "restart" /\ pg_pidFile \in Guard!Guards)]
<1>1. x \in Command /\ x.at # "exit"
  BY DEF Command, CommandAt, Guard!Idle
<1>2. /\ pg_cmd' = [pg_cmd EXCEPT ![c] = x]
      /\ pg_manual < MaxManual /\ pg_manual' = pg_manual + 1
      /\ UNCHANGED <<pg_proc, pg_pidFile, pg_lock, pg_kills>>
  BY DEF Guard!Give, Guard!world
<1> HIDE DEF x
<1>3. GuardType'
  BY <1>1, <1>2, ProcessAssumption DEF GuardType
<1>4. ExitOfRestart'
  BY <1>1, <1>2 DEF GuardType, ExitOfRestart
<1>5. pg_manual' # 0
  BY <1>2 DEF GuardType
<1> QED
  BY <1>3, <1>4, <1>5 DEF OnlyCron

LEMMA GuardStart == MCInit => GuardInv
<1> SUFFICES ASSUME MCInit PROVE GuardInv
  OBVIOUS
<1>1. /\ pg_proc = [p \in Proc |-> Guard!Dead] /\ pg_pidFile = Nobody
      /\ pg_lock = Nobody /\ pg_cmd = [c \in Cmd |-> Guard!Idle]
      /\ pg_manual = 0 /\ pg_kills = 0
  BY DEF MCInit, Guard!Init
<1>2. GuardType
  <2>1. 0 \in 0..MaxManual /\ 0 \in 0..MaxKills
    BY ProcessAssumption
  <2> QED
    BY <1>1, <2>1, DeadProcess, IdleCommand DEF GuardType
<1>3. ExitOfRestart
  BY <1>1, IdleCommand DEF ExitOfRestart
<1>4. Guard!Guards = {}
  BY <1>1, DeadProcess DEF Guard!Guards
<1>5. OnlyCron
  BY <1>1, <1>4 DEF OnlyCron, CronHasLock, ActsAlone
<1> QED
  BY <1>2, <1>3, <1>5 DEF GuardInv

LEMMA GuardAlways == MCSpec => []GuardInv
<1>1. GuardInv /\ [MCNext]_allVars => GuardInv'
  <2> SUFFICES ASSUME GuardInv, [MCNext]_allVars PROVE GuardInv'
    OBVIOUS
  <2>1. ASSUME NEW p \in Proc,
               Guard!GuardStep(p) \/ Guard!SpawnFails(p) \/ Guard!Killed(p)
        PROVE  GuardInv'
    BY <2>1, ProcessSteps, NoNewGuard
    DEF GuardInv, ExitOfRestart, OnlyCron, CronHasLock, ActsAlone
  <2>2. ASSUME NEW c \in Cmd, Guard!CommandStep(c) PROVE GuardInv'
    BY <2>2, CommandKeeps, ForkKeeps DEF Guard!CommandStep, CommandRuns
  <2>3. CASE Guard!Next
    BY <2>1, <2>2, <2>3, EnsureKeeps, GiveKeeps DEF Guard!Next
  <2>4. CASE UNCHANGED guardVars
    BY <2>4
    DEF guardVars, GuardInv, GuardType, ExitOfRestart, OnlyCron, CronHasLock,
        ActsAlone, Guard!Guards
  <2> QED
    BY <2>3, <2>4 DEF MCNext, allVars
<1> QED
  BY GuardStart, <1>1, PTL DEF MCSpec

(* The process table, the pid file and the commands are what their types   *)
(* say, whoever is started, stopped or killed (pkg/process).               *)
THEOREM GuardTypeCorrect == MCSpec => []Guard!TypeOK
<1>1. GuardInv => Guard!TypeOK
  BY DEF GuardInv, GuardType, Process, ProcessAt, Command, CommandAt, Guard!TypeOK
<1> QED
  BY <1>1, GuardAlways, PTL

(* While only cron acts there is one guard at most, whoever is killed      *)
(* between looking and launching (ensure.go:57-96).                        *)
THEOREM OneGuard == MCSpec => []CronKeepsOneGuard
<1>1. GuardInv => CronKeepsOneGuard
  <2>1. ASSUME GuardInv, pg_manual = 0 PROVE Cardinality(Guard!Guards) <= 1
    <3>1. \A p, q \in Guard!Guards : p = q
      BY <2>1 DEF GuardInv, OnlyCron
    <3> HIDE DEF Guard!Guards
    <3> QED
      BY <3>1, AtMostOne
  <2> QED
    BY <2>1
    DEF CronKeepsOneGuard, Guard!CronKeepsOneGuard, Guard!Cardinality, Cardinality
<1> QED
  BY <1>1, GuardAlways, PTL

-----------------------------------------------------------------------------
(* Heartbeat.                                                              *)

Session == [log : BOOLEAN, forward : BOOLEAN]
Database ==
  [ session : Session, schema : {"none", "db", "table"},
    row : {"none", "old", "now"}, sent : SUBSET {"ddl", "row"} ]
Round ==
  [ ok : BOOLEAN, delay : {"fallback", "old", "now"}, event : {"none", "open", "write"} ]

BeatType ==
  /\ hb_kind \in Kinds /\ hb_db \in Database
  /\ hb_pc \in Beat!Statements \cup {"idle", "decide", "report"}
  /\ hb_attempt \in 0..MaxAttempts /\ hb_cut \in BOOLEAN /\ hb_status \in Round

(* From SET sql_log_bin to REPLACE the session does not log, unless the    *)
(* server has closed it in this attempt.                                   *)
LogIsOff ==
  hb_pc \in {"serverId", "replace"} => hb_cut \/ ~hb_db.session.log

BeatInv == BeatType /\ LogIsOff

(* Whether a step lets the row out of the instance.                        *)
RowLeaves == "row" \in hb_db'.sent /\ "row" \notin hb_db.sent

LEMMA FreshSession ==
  /\ Beat!NewSession \in Session
  /\ \A x \in Database : /\ [x EXCEPT !.session = Beat!NewSession] \in Database
                         /\ [x EXCEPT !.session = Beat!NewSession].sent = x.sent
<1>1. Beat!NewSession \in Session
  BY DEF Beat!NewSession, Session
<1> QED
  BY <1>1 DEF Database

(* Only a REPLACE in a session that logs lets the row out; SET turns the   *)
(* log of the session off.                                                 *)
LEMMA Effects ==
  ASSUME hb_db \in Database, NEW s \in Beat!Statements
  PROVE  /\ Beat!Effect(s) \in Database
         /\ "row" \in Beat!Effect(s).sent /\ "row" \notin hb_db.sent =>
              s = "replace" /\ hb_db.session.log
         /\ s = "logAsAsked" => ~Beat!Effect(s).session.log
         /\ s = "serverId" => Beat!Effect(s) = hb_db
<1> DEFINE E == Beat!Effect(s)
<1>1. CASE s \in {"lookup", "serverId", "delay"}
  BY <1>1 DEF Beat!Effect
<1>2. CASE s = "forward"
  <2>1. E = [hb_db EXCEPT !.session = [hb_db.session EXCEPT !.forward = FALSE]]
    BY <1>2 DEF Beat!Effect, Database
  <2> QED
    BY <1>2, <2>1 DEF Database, Session
<1>3. CASE s \in {"logOff", "logAsAsked"}
  <2> DEFINE quiet == [hb_db.session EXCEPT !.log = FALSE]
  <2>1. E = [hb_db EXCEPT !.session = quiet]
    BY <1>3 DEF Beat!Effect, Database
  <2>2. quiet \in Session /\ quiet.log = FALSE
    BY DEF Database, Session
  <2> HIDE DEF quiet
  <2>3. E \in Database /\ E.sent = hb_db.sent /\ E.session.log = FALSE
    BY <2>1, <2>2 DEF Database
  <2> QED
    BY <1>3, <2>3
<1>4. CASE s = "createDb"
  BY <1>4 DEF Beat!Effect, Beat!Sent, Database
<1>5. CASE s = "createTable"
  BY <1>5 DEF Beat!Effect, Beat!Sent, Database
<1>6. CASE s = "replace"
  BY <1>6 DEF Beat!Effect, Beat!Sent, Database
<1> QED
  BY <1>1, <1>2, <1>3, <1>4, <1>5, <1>6 DEF Beat!Statements

(* What a statement leaves behind, done or not.                            *)
LEMMA Outcomes ==
  ASSUME hb_db \in Database, NEW s \in Beat!Statements,
         Beat!Done(s) \/ Beat!Refused(s) \/ Beat!Late(s)
  PROVE  /\ hb_db' \in Database
         /\ RowLeaves => s = "replace" /\ hb_db.session.log
<1>1. CASE Beat!Done(s)
  BY <1>1, Effects DEF Beat!Done, RowLeaves
<1>2. CASE Beat!Refused(s)
  BY <1>2 DEF Beat!Refused, RowLeaves
<1>3. CASE Beat!Late(s)
  <2>1. PICK d \in {hb_db, Beat!Effect(s)} :
          hb_db' \in {d, [d EXCEPT !.session = Beat!NewSession]}
    BY <1>3 DEF Beat!Late
  <2>2. /\ d \in Database
        /\ "row" \in d.sent /\ "row" \notin hb_db.sent => s = "replace" /\ hb_db.session.log
    BY Effects
  <2>3. hb_db' \in Database /\ hb_db'.sent = d.sent
    BY <2>1, <2>2, FreshSession
  <2> QED
    BY <2>2, <2>3 DEF RowLeaves
<1> QED
  BY <1>1, <1>2, <1>3

LEMMA BeatStep ==
  ASSUME BeatInv, Beat!Next
  PROVE  BeatInv' /\ (RowLeaves => hb_cut)
<1> USE DEF BeatInv, BeatType, LogIsOff, RowLeaves
<1>1. CASE Beat!ServerCloses
  BY <1>1, FreshSession DEF Beat!ServerCloses
<1>2. CASE Beat!Open
  <2> DEFINE x == [hb_db EXCEPT !.session = Beat!NewSession]
  <2>1. x \in Database
    BY FreshSession
  <2>2. hb_db' = [x EXCEPT !.sent = {}, !.row = IF @ = "now" THEN "old" ELSE @]
    BY <1>2 DEF Beat!Open
  <2> HIDE DEF x
  <2>3. hb_db' \in Database /\ hb_db'.sent = {}
    BY <2>1, <2>2 DEF Database
  <2>4. hb_status' \in Round /\ hb_attempt' \in 0..MaxAttempts
    BY <1>2, HeartbeatAssumption DEF Beat!Open, Beat!Silent, Round
  <2> QED
    BY <1>2, <2>3, <2>4 DEF Beat!Open, Beat!Statements
<1>3. CASE Beat!OpenFails
  <2>1. hb_status' \in Round
    BY <1>3 DEF Beat!OpenFails, Beat!Silent, Round
  <2> QED
    BY <1>3, <2>1 DEF Beat!OpenFails
<1>4. CASE Beat!DisableSpiderSessionForwarding
  <2>1. hb_db' = hb_db \/ Beat!Done("forward") \/ Beat!Refused("forward") \/ Beat!Late("forward")
    BY <1>4 DEF Beat!DisableSpiderSessionForwarding, Beat!Fails
  <2>2. hb_db' \in Database /\ ~RowLeaves
    BY <2>1, Outcomes DEF Beat!Statements
  <2> QED
    BY <1>4, <2>2 DEF Beat!DisableSpiderSessionForwarding, Beat!Fails, Beat!Statements
<1>5. CASE Beat!SetLogBinOff
  <2>1. Beat!Done("logOff") \/ Beat!Refused("logOff") \/ Beat!Late("logOff")
    BY <1>5 DEF Beat!SetLogBinOff, Beat!Fails
  <2>2. hb_db' \in Database /\ ~RowLeaves
    BY <2>1, Outcomes DEF Beat!Statements
  <2> QED
    BY <1>5, <2>2 DEF Beat!SetLogBinOff, Beat!Fails, Beat!Statements
<1>6. CASE Beat!LookUpTable
  <2>1. Beat!Done("lookup") \/ Beat!Refused("lookup") \/ Beat!Late("lookup")
    BY <1>6 DEF Beat!LookUpTable, Beat!Fails
  <2>2. hb_db' \in Database /\ ~RowLeaves
    BY <2>1, Outcomes DEF Beat!Statements
  <2> QED
    BY <1>6, <2>2 DEF Beat!LookUpTable, Beat!Fails, Beat!Statements
<1>7. CASE Beat!ConfirmHeartbeatTable
  <2>1. PICK s \in {"createDb", "createTable"} :
          Beat!Done(s) \/ Beat!Refused(s) \/ Beat!Late(s)
    BY <1>7 DEF Beat!ConfirmHeartbeatTable, Beat!Fails
  <2>2. hb_db' \in Database /\ ~RowLeaves
    BY <2>1, Outcomes DEF Beat!Statements
  <2> QED
    BY <1>7, <2>2 DEF Beat!ConfirmHeartbeatTable, Beat!Fails, Beat!Statements
<1>8. CASE Beat!SetLogBinAsAsked
  <2>1. \/ Beat!Done("logAsAsked") /\ hb_pc' = "serverId"
        \/ (Beat!Refused("logAsAsked") \/ Beat!Late("logAsAsked")) /\ hb_pc' = "decide"
    BY <1>8 DEF Beat!SetLogBinAsAsked, Beat!Fails
  <2>2. hb_db' \in Database /\ ~RowLeaves
    BY <2>1, Outcomes DEF Beat!Statements
  <2>3. Beat!Done("logAsAsked") => ~hb_db'.session.log
    BY Effects DEF Beat!Done, Beat!Statements
  <2> QED
    BY <1>8, <2>1, <2>2, <2>3 DEF Beat!SetLogBinAsAsked, Beat!Statements
<1>9. CASE Beat!ReadServerId
  <2>1. \/ Beat!Done("serverId") /\ hb_pc' = "replace"
        \/ (Beat!Refused("serverId") \/ Beat!Late("serverId")) /\ hb_pc' = "decide"
    BY <1>9 DEF Beat!ReadServerId, Beat!Fails
  <2>2. hb_db' \in Database /\ ~RowLeaves
    BY <2>1, Outcomes DEF Beat!Statements
  <2>3. Beat!Done("serverId") => hb_db' = hb_db
    BY Effects DEF Beat!Done, Beat!Statements
  <2> QED
    BY <1>9, <2>1, <2>2, <2>3 DEF Beat!ReadServerId, Beat!Statements
<1>10. CASE Beat!ReplaceRow
  <2>1. Beat!Done("replace") \/ Beat!Refused("replace") \/ Beat!Late("replace")
    BY <1>10 DEF Beat!ReplaceRow, Beat!Fails
  <2>2. hb_db' \in Database /\ (RowLeaves => hb_db.session.log)
    BY <2>1, Outcomes DEF Beat!Statements
  <2>3. hb_status' \in Round
    BY <1>10 DEF Beat!ReplaceRow, Round
  <2>4. hb_cut \/ ~hb_db.session.log
    BY <1>10 DEF Beat!ReplaceRow
  <2> QED
    BY <1>10, <2>2, <2>3, <2>4 DEF Beat!ReplaceRow, Beat!Fails, Beat!Statements
<1>11. CASE Beat!AfterFailure
  <2>1. hb_attempt' \in 0..MaxAttempts
    BY <1>11, HeartbeatAssumption DEF Beat!AfterFailure
  <2> QED
    BY <1>11, <2>1 DEF Beat!AfterFailure, Beat!Statements
<1>12. CASE Beat!ReadDbhaHeartbeatDelay
  <2>1. Beat!Done("delay") \/ Beat!Refused("delay") \/ Beat!Late("delay")
    BY <1>12 DEF Beat!ReadDbhaHeartbeatDelay, Beat!Fails
  <2>2. hb_db' \in Database /\ ~RowLeaves
    BY <2>1, Outcomes DEF Beat!Statements
  <2>3. hb_status' \in Round
    BY <1>12 DEF Beat!ReadDbhaHeartbeatDelay, Round, Database
  <2> QED
    BY <1>12, <2>2, <2>3 DEF Beat!ReadDbhaHeartbeatDelay, Beat!Fails
<1>13. CASE Beat!EmitDbStatus
  <2>1. hb_status' \in Round
    BY <1>13 DEF Beat!EmitDbStatus, Round
  <2> QED
    BY <1>13, <2>1 DEF Beat!EmitDbStatus
<1> QED
  BY <1>1, <1>2, <1>3, <1>4, <1>5, <1>6, <1>7, <1>8, <1>9, <1>10, <1>11, <1>12, <1>13
  DEF Beat!Next

LEMMA BeatStart == MCInit => BeatInv
<1> SUFFICES ASSUME MCInit PROVE BeatInv
  OBVIOUS
<1>1. Beat!Init
  BY DEF MCInit
<1>2. hb_db \in Database
  BY <1>1, FreshSession DEF Beat!Init, Database
<1>3. hb_status \in Round
  BY <1>1 DEF Beat!Init, Beat!Silent, Round
<1>4. hb_kind \in Kinds /\ hb_pc = "idle" /\ hb_attempt = 0 /\ hb_cut = FALSE
  BY <1>1 DEF Beat!Init
<1>5. 0 \in 0..MaxAttempts
  BY HeartbeatAssumption
<1> QED
  BY <1>2, <1>3, <1>4, <1>5 DEF BeatInv, BeatType, LogIsOff

LEMMA BeatAlways == MCSpec => []BeatInv
<1>1. BeatInv /\ [MCNext]_allVars => BeatInv'
  <2>1. BeatInv /\ UNCHANGED heartbeatVars => BeatInv'
    BY DEF heartbeatVars, BeatInv, BeatType, LogIsOff
  <2> QED
    BY <2>1, BeatStep DEF MCNext, allVars
<1> QED
  BY BeatStart, <1>1, PTL DEF MCSpec

(* The session, the schema and the row are what their types say, however   *)
(* often a connection is replaced silently between two statements.         *)
THEOREM BeatTypeCorrect == MCSpec => []Beat!TypeOK
<1>1. BeatInv => Beat!TypeOK
  BY DEF BeatInv, BeatType, Database, Session, Round, Beat!TypeOK
<1>2. QED
  BY <1>1, BeatAlways, PTL

(* The heartbeat row never reaches a replica, whichever statements of      *)
(* whichever attempts were late, unless the server itself closes the       *)
(* session between SET sql_log_bin and REPLACE (collector.go:427-489).     *)
THEOREM RowsStay == MCSpec => RowsStayLocal
<1>1. BeatInv /\ [MCNext]_allVars => [RowLeaves => hb_cut]_(Beat!vars)
  <2> SUFFICES ASSUME BeatInv, [MCNext]_allVars, ~UNCHANGED Beat!vars
               PROVE  RowLeaves => hb_cut
    OBVIOUS
  <2>1. Beat!Next
    BY DEF MCNext, allVars, heartbeatVars, Beat!vars
  <2> QED
    BY <2>1, BeatStep
<1> QED
  BY <1>1, BeatAlways, PTL DEF MCSpec, RowsStayLocal, Beat!RowsStayLocal, RowLeaves

-----------------------------------------------------------------------------
(* ProbeYAML.  The lemmas hold for any metadata M and any cleared ports C. *)

EndpointOf(k, P, A) == [key |-> k, ports |-> P, adminPorts |-> A]

(* The metadata less the cleared ports.                                    *)
Hide(p, C) == IF p \in C THEN 0 ELSE p
Less(M, C) ==
  {[key |-> m.key, port |-> Hide(m.port, C), adminPort |-> Hide(m.adminPort, C)] : m \in M}

LEMMA PortsLess ==
  ASSUME NEW M, NEW C, NEW k
  PROVE  /\ Yaml!Ports(Less(M, C), k) = Yaml!Ports(M, k) \ C
         /\ Yaml!AdminPorts(Less(M, C), k) = Yaml!AdminPorts(M, k) \ C
<1> DEFINE Seen(m) ==
      [key |-> m.key, port |-> Hide(m.port, C), adminPort |-> Hide(m.adminPort, C)]
<1>1. \A n : n \in Less(M, C) <=> \E m \in M : n = Seen(m)
  BY DEF Less
<1>2. \A m : Seen(m).key = m.key /\ Seen(m).port = Hide(m.port, C)
             /\ Seen(m).adminPort = Hide(m.adminPort, C)
  OBVIOUS
<1> HIDE DEF Seen
<1>3. ASSUME NEW p
      PROVE  p \in Yaml!Ports(Less(M, C), k) <=> p \in Yaml!Ports(M, k) \ C
  BY <1>1, <1>2 DEF Yaml!Ports, Hide
<1>4. ASSUME NEW p
      PROVE  p \in Yaml!AdminPorts(Less(M, C), k) <=> p \in Yaml!AdminPorts(M, k) \ C
  BY <1>1, <1>2 DEF Yaml!AdminPorts, Hide
<1> QED
  BY <1>3, <1>4

LEMMA EndpointFields ==
  ASSUME NEW k, NEW P, NEW A
  PROVE  /\ EndpointOf(k, P, A).key = k
         /\ EndpointOf(k, P, A).ports = P
         /\ EndpointOf(k, P, A).adminPorts = A
BY DEF EndpointOf

(* What filterEndpoints leaves of an endpoint.                             *)
Cut(f, C) == [f EXCEPT !.ports = @ \ C, !.adminPorts = @ \ C]

LEMMA CutEndpoint ==
  ASSUME NEW k, NEW P, NEW A, NEW C
  PROVE  Cut(EndpointOf(k, P, A), C) = EndpointOf(k, P \ C, A \ C)
<1> DEFINE f == EndpointOf(k, P, A)
           r == [f EXCEPT !.ports = f.ports \ C, !.adminPorts = f.adminPorts \ C]
<1>1. f \in [key : {k}, ports : {P}, adminPorts : {A}] /\ f.ports = P /\ f.adminPorts = A
  BY DEF EndpointOf
<1>2. Cut(f, C) = r
  BY DEF Cut
<1> HIDE DEF f
<1>3. r \in [key : {k}, ports : {P \ C}, adminPorts : {A \ C}]
  BY <1>1
<1> HIDE DEF r
<1>4. r = EndpointOf(k, P \ C, A \ C)
  BY <1>3 DEF EndpointOf
<1> QED
  BY <1>2, <1>4 DEF f

(* An endpoint of E with its ports less C, when it has any left.           *)
Leaves(x, f, C) ==
  /\ x = EndpointOf(f.key, f.ports \ C, f.adminPorts \ C)
  /\ (f.ports \ C) \cup (f.adminPorts \ C) # {}

LEMMA LeavesOf ==
  ASSUME NEW k, NEW P, NEW A, NEW C, NEW x
  PROVE  Leaves(x, EndpointOf(k, P, A), C) <=>
           x = EndpointOf(k, P \ C, A \ C) /\ (P \ C) \cup (A \ C) # {}
<1> DEFINE f == EndpointOf(k, P, A)
<1>1. f.key = k /\ f.ports = P /\ f.adminPorts = A
  BY EndpointFields
<1> HIDE DEF f
<1>2. Leaves(x, f, C) <=>
        x = EndpointOf(k, P \ C, A \ C) /\ (P \ C) \cup (A \ C) # {}
  BY <1>1 DEF Leaves
<1> QED
  BY <1>2 DEF f

Endpoints(E) == \A f \in E : \E k, P, A : f = EndpointOf(k, P, A)

LEMMA Filtered ==
  ASSUME NEW E, Endpoints(E), NEW C, NEW x
  PROVE  x \in Yaml!Filter(E, C) <=> \E f \in E : Leaves(x, f, C)
<1>1. ASSUME NEW f \in E
      PROVE  (x = Cut(f, C) /\ x.ports \cup x.adminPorts # {}) <=> Leaves(x, f, C)
  <2>1. PICK k, P, A : f = EndpointOf(k, P, A)
    BY DEF Endpoints
  <2>2. Cut(f, C) = EndpointOf(k, P \ C, A \ C)
    BY <2>1, CutEndpoint
  <2>3. x = Cut(f, C) => x.ports = P \ C /\ x.adminPorts = A \ C
    BY <2>2, EndpointFields
  <2> QED
    BY <2>1, <2>2, <2>3, LeavesOf
<1>2. Yaml!Filter(E, C) = {e \in {Cut(f, C) : f \in E} : e.ports \cup e.adminPorts # {}}
  BY DEF Yaml!Filter, Cut
<1> QED
  BY <1>1, <1>2

(* The three kinds of endpoints, with and without the cleared ports.       *)
LEMMA PlainLess ==
  ASSUME NEW M, NEW C, NEW family
  PROVE  /\ Endpoints(Yaml!Plain(M, family))
         /\ Yaml!Filter(Yaml!Plain(M, family), C) = Yaml!Plain(Less(M, C), family)
<1> DEFINE P(N, k) == Yaml!Ports(N, k)
           A(N, k) == Yaml!AdminPorts(N, k)
           L == Less(M, C)
<1>1. \A N, x : x \in Yaml!Plain(N, family) <=>
                 \E k \in Yaml!PlainKeys(N, family) : x = EndpointOf(k, P(N, k), A(N, k))
  BY DEF Yaml!Plain, EndpointOf
<1>2. Endpoints(Yaml!Plain(M, family))
  BY <1>1 DEF Endpoints
<1>3. \A k : P(L, k) = P(M, k) \ C /\ A(L, k) = A(M, k) \ C
  BY PortsLess
<1>4. \A k : k \in Yaml!PlainKeys(L, family) <=>
              /\ k \in Yaml!PlainKeys(M, family)
              /\ (P(M, k) \ C) \cup (A(M, k) \ C) # {}
  BY <1>3 DEF Yaml!PlainKeys
<1> HIDE DEF P, A, L
<1>5. ASSUME NEW x
      PROVE  x \in Yaml!Filter(Yaml!Plain(M, family), C) <=> x \in Yaml!Plain(L, family)
  <2>1. x \in Yaml!Filter(Yaml!Plain(M, family), C) <=>
          \E f \in Yaml!Plain(M, family) : Leaves(x, f, C)
    BY <1>2, Filtered
  <2>2. @ <=> \E k \in Yaml!PlainKeys(M, family) :
                 Leaves(x, EndpointOf(k, P(M, k), A(M, k)), C)
    BY <1>1
  <2>3. @ <=> \E k \in Yaml!PlainKeys(M, family) :
                 /\ x = EndpointOf(k, P(L, k), A(L, k))
                 /\ (P(M, k) \ C) \cup (A(M, k) \ C) # {}
    BY <1>3, LeavesOf
  <2>4. @ <=> x \in Yaml!Plain(L, family)
    BY <1>1, <1>4
  <2> QED
    BY <2>1, <2>2, <2>3, <2>4
<1> QED
  BY <1>2, <1>5 DEF L

ProxyData(M) ==
  {EndpointOf(k, Yaml!Ports(M, k), {}) :
     k \in {x \in Yaml!ProxyKeys(M) : Yaml!Ports(M, x) # {}}}

(* A proxy that keeps a data port keeps its endpoint here, whether or not  *)
(* it keeps an admin port: that is for dropOrphanMysqlProxyData.           *)
LEMMA ProxyDataLess ==
  ASSUME NEW M, NEW C, NEW x
  PROVE  /\ Endpoints(ProxyData(M))
         /\ x \in Yaml!Filter(ProxyData(M), C) <=>
              \E k \in Yaml!ProxyKeys(M) :
                 /\ x = EndpointOf(k, Yaml!Ports(Less(M, C), k), {})
                 /\ Yaml!Ports(Less(M, C), k) # {}
<1> DEFINE P(N, k) == Yaml!Ports(N, k)
           L == Less(M, C)
<1>1. \A y : y \in ProxyData(M) <=>
        \E k \in Yaml!ProxyKeys(M) : y = EndpointOf(k, P(M, k), {}) /\ P(M, k) # {}
  BY DEF ProxyData
<1>2. Endpoints(ProxyData(M))
  BY <1>1 DEF Endpoints
<1>3. \A k : P(L, k) = P(M, k) \ C
  BY PortsLess
<1> HIDE DEF P, L
<1>4. x \in Yaml!Filter(ProxyData(M), C) <=>
        \E f \in ProxyData(M) : Leaves(x, f, C)
  BY <1>2, Filtered
<1>5. @ <=> \E k \in Yaml!ProxyKeys(M) :
              P(M, k) # {} /\ Leaves(x, EndpointOf(k, P(M, k), {}), C)
  BY <1>1
<1>6. \A k : /\ P(M, k) # {} /\ Leaves(x, EndpointOf(k, P(M, k), {}), C)
            <=> x = EndpointOf(k, P(L, k), {}) /\ P(L, k) # {}
  <2> TAKE k
  <2>1. {} \ C = {} /\ (P(M, k) \ C) \cup {} = P(M, k) \ C
    OBVIOUS
  <2> QED
    BY <1>3, <2>1, LeavesOf
<1>7. x \in Yaml!Filter(ProxyData(M), C) <=>
        \E k \in Yaml!ProxyKeys(M) : x = EndpointOf(k, P(L, k), {}) /\ P(L, k) # {}
  BY <1>4, <1>5, <1>6
<1> QED
  BY <1>2, <1>7 DEF P, L

LEMMA ProxyAdminLess ==
  ASSUME NEW M, NEW C
  PROVE  /\ Endpoints(Yaml!ProxyAdminEndpoints(M))
         /\ Yaml!Filter(Yaml!ProxyAdminEndpoints(M), C)
              = Yaml!ProxyAdminEndpoints(Less(M, C))
<1> DEFINE A(N, k) == Yaml!AdminPorts(N, k)
           L == Less(M, C)
<1>1. \A N, x : x \in Yaml!ProxyAdminEndpoints(N) <=>
                 \E k \in Yaml!ProxyKeys(N) : x = EndpointOf(k, {}, A(N, k))
  BY DEF Yaml!ProxyAdminEndpoints, EndpointOf
<1>2. Endpoints(Yaml!ProxyAdminEndpoints(M))
  BY <1>1 DEF Endpoints
<1>3. \A k : A(L, k) = A(M, k) \ C
  BY PortsLess
<1>4. \A k : k \in Yaml!ProxyKeys(L) <=> k \in Yaml!ProxyKeys(M) /\ A(M, k) \ C # {}
  BY <1>3 DEF Yaml!ProxyKeys
<1> HIDE DEF A, L
<1>5. ASSUME NEW x
      PROVE  x \in Yaml!Filter(Yaml!ProxyAdminEndpoints(M), C)
               <=> x \in Yaml!ProxyAdminEndpoints(L)
  <2>1. x \in Yaml!Filter(Yaml!ProxyAdminEndpoints(M), C) <=>
          \E f \in Yaml!ProxyAdminEndpoints(M) : Leaves(x, f, C)
    BY <1>2, Filtered
  <2>2. @ <=> \E k \in Yaml!ProxyKeys(M) : Leaves(x, EndpointOf(k, {}, A(M, k)), C)
    BY <1>1
  <2>3. \A k : Leaves(x, EndpointOf(k, {}, A(M, k)), C)
              <=> x = EndpointOf(k, {}, A(L, k)) /\ A(M, k) \ C # {}
    <3> TAKE k
    <3>1. {} \ C = {} /\ {} \cup (A(M, k) \ C) = A(M, k) \ C
      OBVIOUS
    <3> QED
      BY <1>3, <3>1, LeavesOf
  <2>4. (\E k \in Yaml!ProxyKeys(M) : Leaves(x, EndpointOf(k, {}, A(M, k)), C))
          <=> x \in Yaml!ProxyAdminEndpoints(L)
    BY <1>1, <1>4, <2>3
  <2> QED
    BY <2>1, <2>2, <2>4
<1> QED
  BY <1>2, <1>5 DEF L

LEMMA ProxyKeysLess ==
  ASSUME NEW M, NEW C
  PROVE  Yaml!ProxyKeys(Less(M, C)) \subseteq Yaml!ProxyKeys(M)
BY PortsLess DEF Yaml!ProxyKeys

LEMMA FilterParts ==
  ASSUME NEW E, NEW F, NEW C
  PROVE  /\ Yaml!Filter(E \cup F, C) = Yaml!Filter(E, C) \cup Yaml!Filter(F, C)
         /\ Yaml!Filter({}, C) = {}
BY DEF Yaml!Filter

(* What is known of the endpoints of each kind.                            *)
LEMMA ByKind ==
  ASSUME NEW M, NEW e
  PROVE  /\ e \in Yaml!Plain(M, "mysql") => ~Yaml!isMysqlProxyEndpoint(e.key)
         /\ e \in ProxyData(M) => e.adminPorts = {} /\ e.key \in Yaml!ProxyKeys(M)
         /\ e \in Yaml!ProxyAdminEndpoints(M) =>
              /\ e.key \in Yaml!ProxyKeys(M) /\ e.adminPorts # {}
              /\ Yaml!isMysqlProxyEndpoint(e.key)
<1>1. ASSUME e \in Yaml!Plain(M, "mysql") PROVE ~Yaml!isMysqlProxyEndpoint(e.key)
  <2>1. PICK k \in Yaml!PlainKeys(M, "mysql") :
          e = EndpointOf(k, Yaml!Ports(M, k), Yaml!AdminPorts(M, k))
    BY <1>1 DEF Yaml!Plain, EndpointOf
  <2>2. e.key = k
    BY <2>1, EndpointFields
  <2> QED
    BY <2>2 DEF Yaml!PlainKeys
<1>2. ASSUME e \in ProxyData(M)
      PROVE  e.adminPorts = {} /\ e.key \in Yaml!ProxyKeys(M)
  <2>1. PICK k \in Yaml!ProxyKeys(M) : e = EndpointOf(k, Yaml!Ports(M, k), {})
    BY <1>2 DEF ProxyData
  <2> QED
    BY <2>1, EndpointFields
<1>3. ASSUME e \in Yaml!ProxyAdminEndpoints(M)
      PROVE  /\ e.key \in Yaml!ProxyKeys(M) /\ e.adminPorts # {}
             /\ Yaml!isMysqlProxyEndpoint(e.key)
  <2>1. PICK k \in Yaml!ProxyKeys(M) : e = EndpointOf(k, {}, Yaml!AdminPorts(M, k))
    BY <1>3 DEF Yaml!ProxyAdminEndpoints, EndpointOf
  <2>2. e.key = k /\ e.adminPorts = Yaml!AdminPorts(M, k)
    BY <2>1, EndpointFields
  <2> QED
    BY <2>2 DEF Yaml!ProxyKeys
<1> QED
  BY <1>1, <1>2, <1>3

(* The owners of admin ports are the proxies that have one, in whichever   *)
(* block their endpoints are.                                              *)
LEMMA OwnersAre ==
  ASSUME NEW M, NEW E, Yaml!ProxyAdminEndpoints(M) \subseteq E,
         \A e \in E : \/ e \in Yaml!ProxyAdminEndpoints(M)
                     \/ ~Yaml!isMysqlProxyEndpoint(e.key)
                     \/ e.adminPorts = {}
  PROVE  Yaml!OwnersIn(E) = Yaml!ProxyKeys(M)
<1>1. Yaml!OwnersIn(E) \subseteq Yaml!ProxyKeys(M)
  BY ByKind DEF Yaml!OwnersIn
<1>2. ASSUME NEW k \in Yaml!ProxyKeys(M) PROVE k \in Yaml!OwnersIn(E)
  <2> DEFINE e == EndpointOf(k, {}, Yaml!AdminPorts(M, k))
  <2>1. e \in Yaml!ProxyAdminEndpoints(M)
    BY DEF Yaml!ProxyAdminEndpoints, EndpointOf
  <2>2. e.key = k
    BY EndpointFields
  <2> HIDE DEF e
  <2>3. e \in E /\ e.adminPorts # {} /\ Yaml!isMysqlProxyEndpoint(e.key)
    BY <2>1, ByKind
  <2> QED
    BY <2>2, <2>3 DEF Yaml!OwnersIn
<1> QED
  BY <1>1, <1>2

(* What dropOrphanMysqlProxyData keeps, of the plain endpoints, of data    *)
(* ports, and of the admin ports when they are in the same block.          *)
Kept(E, M, L) ==
  {e \in E : Yaml!isMysqlProxyEndpoint(e.key) /\ e.key \in Yaml!ProxyKeys(M) =>
               e.key \in Yaml!ProxyKeys(L)}

LEMMA FilterMysql ==
  ASSUME NEW M, NEW C, NEW T
  PROVE  Yaml!Filter(Yaml!MysqlEndpoints(M) \cup
                     (IF T THEN Yaml!ProxyAdminEndpoints(M) ELSE {}), C)
           = (Yaml!Plain(Less(M, C), "mysql") \cup Yaml!Filter(ProxyData(M), C))
               \cup (IF T THEN Yaml!ProxyAdminEndpoints(Less(M, C)) ELSE {})
<1> DEFINE L == Less(M, C)
           Data == Yaml!Filter(ProxyData(M), C)
           Admins(N) == IF T THEN Yaml!ProxyAdminEndpoints(N) ELSE {}
<1>1. \A N : Yaml!MysqlEndpoints(N) = Yaml!Plain(N, "mysql") \cup ProxyData(N)
  BY DEF Yaml!MysqlEndpoints, ProxyData, EndpointOf
<1>2. Yaml!Filter(Admins(M), C) = Admins(L)
  BY ProxyAdminLess, FilterParts
<1>3. Yaml!Filter(Yaml!MysqlEndpoints(M) \cup Admins(M), C)
        = (Yaml!Plain(L, "mysql") \cup Data) \cup Admins(L)
  <2>1. Yaml!Filter(Yaml!MysqlEndpoints(M) \cup Admins(M), C)
          = Yaml!Filter(Yaml!MysqlEndpoints(M), C) \cup Admins(L)
    BY <1>2, FilterParts
  <2>2. Yaml!Filter(Yaml!MysqlEndpoints(M), C)
          = Yaml!Filter(Yaml!Plain(M, "mysql"), C) \cup Data
    BY <1>1, FilterParts
  <2>3. Yaml!Filter(Yaml!Plain(M, "mysql"), C) = Yaml!Plain(L, "mysql")
    BY PlainLess
  <2> QED
    BY <2>1, <2>2, <2>3
<1> QED
  BY <1>3

LEMMA KeptMysql ==
  ASSUME NEW M, NEW C, NEW T
  PROVE  Kept(Yaml!Filter(Yaml!MysqlEndpoints(M) \cup
                          (IF T THEN Yaml!ProxyAdminEndpoints(M) ELSE {}), C),
              M, Less(M, C))
           = Yaml!MysqlEndpoints(Less(M, C)) \cup
               (IF T THEN Yaml!ProxyAdminEndpoints(Less(M, C)) ELSE {})
<1> DEFINE L == Less(M, C)
           Data == Yaml!Filter(ProxyData(M), C)
           Admins(N) == IF T THEN Yaml!ProxyAdminEndpoints(N) ELSE {}
<1>1. \A N : Yaml!MysqlEndpoints(N) = Yaml!Plain(N, "mysql") \cup ProxyData(N)
  BY DEF Yaml!MysqlEndpoints, ProxyData, EndpointOf
<1>2. Yaml!Filter(Yaml!MysqlEndpoints(M) \cup Admins(M), C)
        = (Yaml!Plain(L, "mysql") \cup Data) \cup Admins(L)
  BY FilterMysql
<1>3. Kept(Yaml!Plain(L, "mysql"), M, L) = Yaml!Plain(L, "mysql")
  BY ByKind DEF Kept
<1>4. Kept(Admins(L), M, L) = Admins(L)
  BY ByKind DEF Kept
<1>5. Kept(Data, M, L) = ProxyData(L)
  <2>1. ASSUME NEW e \in Kept(Data, M, L) PROVE e \in ProxyData(L)
    <3>1. PICK k \in Yaml!ProxyKeys(M) :
            e = EndpointOf(k, Yaml!Ports(L, k), {}) /\ Yaml!Ports(L, k) # {}
      BY <2>1, ProxyDataLess DEF Kept
    <3>2. e.key = k
      BY <3>1, EndpointFields
    <3>3. k \in Yaml!ProxyKeys(L)
      BY <2>1, <3>2 DEF Kept, Yaml!ProxyKeys
    <3> QED
      BY <3>1, <3>3 DEF ProxyData
  <2>2. ASSUME NEW e \in ProxyData(L) PROVE e \in Kept(Data, M, L)
    <3>1. PICK k \in Yaml!ProxyKeys(L) :
            e = EndpointOf(k, Yaml!Ports(L, k), {}) /\ Yaml!Ports(L, k) # {}
      BY <2>2 DEF ProxyData
    <3>2. k \in Yaml!ProxyKeys(M)
      BY ProxyKeysLess
    <3>3. e \in Data
      BY <3>1, <3>2, ProxyDataLess
    <3>4. e.key = k
      BY <3>1, EndpointFields
    <3> QED
      BY <3>3, <3>4 DEF Kept
  <2> QED
    BY <2>1, <2>2
<1>6. \A E, F : Kept(E \cup F, M, L) = Kept(E, M, L) \cup Kept(F, M, L)
  BY DEF Kept
<1> HIDE DEF L, Data, Admins
<1>7. Kept(Yaml!Filter(Yaml!MysqlEndpoints(M) \cup Admins(M), C), M, L)
        = Yaml!MysqlEndpoints(L) \cup Admins(L)
  <2> DEFINE plain == Yaml!Plain(L, "mysql")
  <2>1. Kept((plain \cup Data) \cup Admins(L), M, L)
          = Kept(plain \cup Data, M, L) \cup Admins(L)
    BY <1>4, <1>6
  <2>2. Kept(plain \cup Data, M, L) = plain \cup ProxyData(L)
    BY <1>3, <1>5, <1>6
  <2>3. Yaml!MysqlEndpoints(L) = plain \cup ProxyData(L)
    BY <1>1
  <2> HIDE DEF plain
  <2> QED
    BY <1>2, <2>1, <2>2, <2>3 DEF plain
<1> QED
  BY <1>7 DEF L, Admins

(* The blocks with and without the cleared ports.                          *)
LEMMA RecordOf ==
  ASSUME NEW x, NEW y, NEW z, NEW v,
         NEW h, h = [mysql |-> x, mysqlProxyAdmin |-> y, redis |-> z]
  PROVE  /\ h.mysql = x /\ h.mysqlProxyAdmin = y /\ h.redis = z
         /\ [h EXCEPT !.mysql = v] = [mysql |-> v, mysqlProxyAdmin |-> y, redis |-> z]
<1>1. h \in [mysql : {x}, mysqlProxyAdmin : {y}, redis : {z}]
  OBVIOUS
<1> DEFINE r == [h EXCEPT !.mysql = v]
<1>2. r \in [mysql : {v}, mysqlProxyAdmin : {y}, redis : {z}]
  BY <1>1
<1> HIDE DEF r
<1>3. r = [mysql |-> v, mysqlProxyAdmin |-> y, redis |-> z]
  BY <1>2
<1> QED
  BY <1>3 DEF r

LEMMA FilterBlocks ==
  ASSUME NEW x, NEW y, NEW z, NEW C,
         NEW h, h = [mysql |-> x, mysqlProxyAdmin |-> y, redis |-> z]
  PROVE  [b \in DOMAIN h |-> Yaml!Filter(h[b], C)]
           = [mysql |-> Yaml!Filter(x, C), mysqlProxyAdmin |-> Yaml!Filter(y, C),
              redis |-> Yaml!Filter(z, C)]
OBVIOUS

(* Rendering and then dropping the ports is rendering without them,        *)
(* whatever accounts admin has.                                            *)
LEMMA DropIsLess ==
  ASSUME NEW M, NEW C, NEW accounts
  PROVE  Yaml!dropClearedPorts(Yaml!Blocks(M, accounts), C)
           = Yaml!Blocks(Less(M, C), accounts)
<1> DEFINE L == Less(M, C)
           fallback == "proxyAdmin" \notin accounts
           My(N) == IF "mysql" \notin accounts THEN {}
                    ELSE Yaml!MysqlEndpoints(N) \cup
                           (IF fallback THEN Yaml!ProxyAdminEndpoints(N) ELSE {})
           Pa(N) == IF fallback THEN {} ELSE Yaml!ProxyAdminEndpoints(N)
           Re(N) == IF "redis" \notin accounts THEN {} ELSE Yaml!RedisEndpoints(N)
           h == Yaml!Blocks(M, accounts)
           g == [b \in DOMAIN h |-> Yaml!Filter(h[b], C)]
           before == Yaml!mysqlProxyAdminOwners(h)
           after == Yaml!mysqlProxyAdminOwners(g)
           kept == {e \in g.mysql : Yaml!isMysqlProxyEndpoint(e.key) /\ e.key \in before
                                       => e.key \in after}
<1>1. \A N : Yaml!Blocks(N, accounts)
              = [mysql |-> My(N), mysqlProxyAdmin |-> Pa(N), redis |-> Re(N)]
  BY DEF Yaml!Blocks
<1>2. Yaml!dropClearedPorts(h, C) = [g EXCEPT !.mysql = kept]
  BY DEF Yaml!dropClearedPorts, Yaml!dropOrphanMysqlProxyData
<1>3. h = [mysql |-> My(M), mysqlProxyAdmin |-> Pa(M), redis |-> Re(M)]
  BY <1>1
<1> HIDE DEF h
<1>4. g = [mysql |-> Yaml!Filter(My(M), C), mysqlProxyAdmin |-> Yaml!Filter(Pa(M), C),
           redis |-> Yaml!Filter(Re(M), C)]
  BY <1>3, FilterBlocks
<1>5. Yaml!Filter(Pa(M), C) = Pa(L)
  BY ProxyAdminLess, FilterParts
<1>6. Yaml!Filter(Re(M), C) = Re(L)
  BY PlainLess, FilterParts DEF Yaml!RedisEndpoints
<1> HIDE DEF g
<1>7. kept = My(L)
  <2>1. CASE "mysql" \notin accounts
    <3>1. My(M) = {} /\ My(L) = {}
      BY <2>1
    <3> HIDE DEF My
    <3>2. g.mysql = Yaml!Filter({}, C)
      BY <1>4, <3>1, RecordOf
    <3>3. g.mysql = {}
      BY <3>2, FilterParts
    <3> QED
      BY <3>1, <3>3
  <2>2. CASE "mysql" \in accounts
    <3> DEFINE Admins(N) == IF fallback THEN Yaml!ProxyAdminEndpoints(N) ELSE {}
               Data == Yaml!Filter(ProxyData(M), C)
    <3>1. \A N : My(N) = Yaml!MysqlEndpoints(N) \cup Admins(N)
      BY <2>2
    <3>2. \A N : Yaml!MysqlEndpoints(N) = Yaml!Plain(N, "mysql") \cup ProxyData(N)
      BY DEF Yaml!MysqlEndpoints, ProxyData, EndpointOf
    <3>3. \A N : Pa(N) \cup Admins(N) = Yaml!ProxyAdminEndpoints(N)
      OBVIOUS
    <3>4. Yaml!Filter(My(M), C) = (Yaml!Plain(L, "mysql") \cup Data) \cup Admins(L)
      <4>1. My(M) = Yaml!MysqlEndpoints(M) \cup
                      (IF fallback THEN Yaml!ProxyAdminEndpoints(M) ELSE {})
        BY <3>1
      <4> HIDE DEF My, fallback
      <4> QED
        BY <4>1, FilterMysql
    <3>5. Kept(Yaml!Filter(My(M), C), M, L) = My(L)
      <4>1. \A N : My(N) = Yaml!MysqlEndpoints(N) \cup
                      (IF fallback THEN Yaml!ProxyAdminEndpoints(N) ELSE {})
        BY <3>1
      <4> HIDE DEF My, fallback
      <4> QED
        BY <4>1, KeptMysql
    <3> HIDE DEF My, Pa, Re, Admins, L
    <3>6. /\ h.mysql = My(M) /\ h.mysqlProxyAdmin = Pa(M)
          /\ g.mysql = Yaml!Filter(My(M), C) /\ g.mysqlProxyAdmin = Pa(L)
      BY <1>3, <1>4, <1>5, RecordOf
    <3>7. before = Yaml!ProxyKeys(M)
      <4> DEFINE E == Pa(M) \cup My(M)
      <4>1. Yaml!ProxyAdminEndpoints(M) \subseteq E
        BY <3>1, <3>3
      <4>2. ASSUME NEW e \in E
            PROVE  \/ e \in Yaml!ProxyAdminEndpoints(M)
                   \/ ~Yaml!isMysqlProxyEndpoint(e.key)
                   \/ e.adminPorts = {}
        BY <3>1, <3>2, <3>3, ByKind
      <4>3. before = Yaml!OwnersIn(E)
        BY <3>6 DEF Yaml!mysqlProxyAdminOwners
      <4> HIDE DEF E
      <4> QED
        BY <4>1, <4>2, <4>3, OwnersAre
    <3>8. after = Yaml!ProxyKeys(L)
      <4> DEFINE E == Pa(L) \cup Yaml!Filter(My(M), C)
      <4>1. Yaml!ProxyAdminEndpoints(L) \subseteq E
        BY <3>3, <3>4
      <4>2. \A e \in Data : e.adminPorts = {}
        BY ProxyDataLess, EndpointFields
      <4>3. ASSUME NEW e \in E
            PROVE  \/ e \in Yaml!ProxyAdminEndpoints(L)
                   \/ ~Yaml!isMysqlProxyEndpoint(e.key)
                   \/ e.adminPorts = {}
        <5> HIDE DEF Data
        <5> QED
          BY <3>3, <3>4, <4>2, ByKind
      <4>4. after = Yaml!OwnersIn(E)
        BY <3>6 DEF Yaml!mysqlProxyAdminOwners
      <4> HIDE DEF E
      <4> QED
        BY <4>1, <4>3, <4>4, OwnersAre
    <3>9. kept = Kept(g.mysql, M, L)
      BY <3>7, <3>8 DEF Kept
    <3> QED
      BY <3>5, <3>6, <3>9
  <2> QED
    BY <2>1, <2>2
<1> HIDE DEF My, Pa, Re, L, kept
<1>8. [g EXCEPT !.mysql = kept] = [mysql |-> My(L), mysqlProxyAdmin |-> Pa(L), redis |-> Re(L)]
  BY <1>4, <1>5, <1>6, <1>7, RecordOf
<1> QED
  BY <1>1, <1>2, <1>8 DEF h, L

(* A cleared port is as if it were not there: filtering what was rendered  *)
(* gives what rendering the filtered metadata gives, so that a proxy is    *)
(* never watched through its data ports alone (config/genconfig.go:313-316,*)
(* 346-348), whatever metadata and credentials admin returns.              *)
THEOREM ClearedIsAbsent == MCSpec => ClearedAsIfAbsent
<1>1. ASSUME MCNext, py_answer # Yaml!Waiting, py_answer' = Yaml!Waiting
      PROVE  py_harvester' = Yaml!Blocks(Yaml!Without, py_answer.accounts)
  <2>1. Yaml!Render
    BY <1>1
    DEF MCNext, renderVars, Yaml!Next, Yaml!Fetch, Yaml!EditClearPorts
  <2>2. Yaml!Without = Less(py_answer.items, py_clear)
    BY DEF Yaml!Without, Yaml!Visible, Less, Hide
  <2> QED
    BY <2>1, <2>2, DropIsLess DEF Yaml!Render
<1>2. [MCNext]_allVars =>
        [py_answer # Yaml!Waiting /\ py_answer' = Yaml!Waiting =>
           py_harvester' = Yaml!Blocks(Yaml!Without, py_answer.accounts)]_(Yaml!vars)
  BY <1>1 DEF allVars, renderVars, Yaml!vars
<1> QED
  BY <1>2, PTL DEF MCSpec, ClearedAsIfAbsent, Yaml!ClearedAsIfAbsent

-----------------------------------------------------------------------------
(* Reports.                                                                *)

LoopAt == {"unborn", "waiting", "sending", "ended"}
ConsumerAt == {"unborn", "taking", "posting", "ended"}
Loop == [at : LoopAt, rep : SUBSET Report]
Consumer == [at : ConsumerAt, rep : SUBSET Posted]
ReceiverAt == {"up", "stopping", "draining", "gone"}
Server == [ at : ReceiverAt, queue : Seq(Posted), sink : BOOLEAN, conn : 0..MaxFaults ]

ReportsType ==
  /\ clock \in 0..MaxReports /\ gen \in Gens /\ live \in BOOLEAN
  /\ faults \in 0..MaxFaults
  /\ loop \in [Gens -> [Group -> Loop]]
  /\ data \in [Gens -> Seq(Report)]
  /\ consumer \in [Gens -> Consumer]
  /\ flight \in SUBSET Posted
  /\ receiver \in [Receiver -> Server]
  /\ row \in [Group -> SUBSET Posted]

Limits ==
  /\ \A k \in Gens : Len(data[k]) <= DataCap
  /\ \A r \in Receiver : Len(receiver[r].queue) <= QueueCap
  /\ \A r \in Receiver : receiver[r].conn <= faults

(* What has left the client: in flight, in the queue of a receiver, stored. *)
Queued(r, f) == \E i \in DOMAIN receiver[r].queue : f = receiver[r].queue[i]
Sent ==
  {f \in Posted : f \in flight \/ (\E r \in Receiver : Queued(r, f)) \/ f \in row[f.group]}

(* The reports of one loop, and those of them that took the same way.      *)
SameLoop(e, f) == e.gen = f.gen /\ e.group = f.group
SameWay(e, f) == SameLoop(e, f) /\ e.via = f.via

(* A loop sends in the order of its rounds: what it has in hand is newer   *)
(* than what is in the channel, which is in order and newer than what has  *)
(* been posted.                                                            *)
HandInv(k, g) ==
  \A rep \in loop[k][g].rep :
    /\ rep.gen = k /\ rep.group = g /\ rep.n <= clock
    /\ \A i \in DOMAIN data[k] : data[k][i].group = g => data[k][i].n < rep.n
    /\ \A f \in Sent : SameLoop(f, rep) => f.n < rep.n

ChannelInv(k) ==
  \A i \in DOMAIN data[k] :
    /\ data[k][i].gen = k /\ data[k][i].n <= clock
    /\ \A j \in DOMAIN data[k] :
         i < j /\ data[k][i].group = data[k][j].group => data[k][i].n < data[k][j].n
    /\ \A f \in Sent : SameLoop(f, data[k][i]) => f.n < data[k][i].n

SentInv == \A f \in Sent : f.n <= clock /\ f.gen <= gen

(* runPlugin posts one report at a time, its own.                          *)
ConsumerInv(k) ==
  /\ \A f \in consumer[k].rep : f.gen = k
  /\ \A e, f \in consumer[k].rep : e = f
  /\ consumer[k].at # "posting" => consumer[k].rep = {}
  /\ k > gen => consumer[k].at = "unborn"

(* A connection that is gone stays gone.                                   *)
Stale(via) == via.conn < receiver[via.to].conn

(* A handler whose call nobody waits for is of a generation that is over   *)
(* or of a connection that is gone, so that no other with the same way     *)
(* will be posted before it has ended.                                     *)
FlightInv ==
  \A f \in flight :
    /\ f \in consumer[f.gen].rep \/ Cancelled(f.gen) \/ Stale(f.via)
    /\ f.via.conn <= receiver[f.via.to].conn
    /\ receiver[f.via.to].at # "up" => Stale(f.via)
    /\ \A e \in flight : e.gen = f.gen /\ e.via = f.via => e = f

(* A queue is in order, older than what is in flight on the same way, and  *)
(* newer than the row.                                                     *)
QueueInv(r) ==
  \A i \in DOMAIN receiver[r].queue :
    /\ receiver[r].queue[i].via.to = r
    /\ \A j \in DOMAIN receiver[r].queue :
         i < j /\ SameWay(receiver[r].queue[i], receiver[r].queue[j])
           => receiver[r].queue[i].n < receiver[r].queue[j].n
    /\ \A f \in flight :
         SameWay(receiver[r].queue[i], f) => receiver[r].queue[i].n < f.n

RowInv(g) ==
  \A e \in row[g] :
    /\ e.group = g
    /\ \A f \in row[g] : e = f
    /\ \A f \in flight : SameWay(e, f) => e.n < f.n
    /\ \A r \in Receiver, f \in Posted : Queued(r, f) /\ SameWay(e, f) => e.n < f.n

ReportsInv ==
  /\ ReportsType /\ Limits
  /\ \A k \in Gens, g \in Group : HandInv(k, g)
  /\ \A k \in Gens : ChannelInv(k) /\ ConsumerInv(k)
  /\ SentInv /\ FlightInv
  /\ \A r \in Receiver : QueueInv(r)
  /\ \A g \in Group : RowInv(g)

(* Sequences.                                                              *)
LEMMA TailOf ==
  ASSUME NEW S, NEW s \in Seq(S), s # <<>>
  PROVE  /\ Tail(s) \in Seq(S) /\ Head(s) \in S /\ Head(s) = s[1] /\ 1 \in DOMAIN s
         /\ Len(Tail(s)) <= Len(s)
         /\ \A i \in DOMAIN Tail(s) : i \in Nat /\ i + 1 \in DOMAIN s /\ Tail(s)[i] = s[i + 1]
OBVIOUS

LEMMA AppendOf ==
  ASSUME NEW S, NEW s \in Seq(S), NEW x \in S
  PROVE  /\ Append(s, x) \in Seq(S) /\ Len(Append(s, x)) = Len(s) + 1
         /\ \A i \in DOMAIN s : i \in Nat /\ i <= Len(s)
         /\ \A i \in DOMAIN Append(s, x) :
              \/ i \in DOMAIN s /\ Append(s, x)[i] = s[i]
              \/ i = Len(s) + 1 /\ Append(s, x)[i] = x
OBVIOUS

LEMMA DomainOf ==
  ASSUME NEW S, NEW s \in Seq(S)
  PROVE  /\ Len(s) \in Nat
         /\ \A i \in DOMAIN s : i \in Nat /\ s[i] \in S
OBVIOUS

(* Entries that are written anew.                                          *)
LEMMA Entries ==
  /\ \A at \in LoopAt : No(at) \in Loop
  /\ \A at \in LoopAt, rep \in Report : With(at, rep) \in Loop
  /\ \A at \in ConsumerAt : No(at) \in Consumer
  /\ \A at \in ConsumerAt, f \in Posted : With(at, f) \in Consumer
  /\ \A at : No(at).at = at /\ No(at).rep = {}
  /\ \A at, f : With(at, f).at = at /\ With(at, f).rep = {f}
BY DEF No, With, Loop, Consumer

LEMMA Fields ==
  /\ \A f \in Posted : /\ f.n \in 1..MaxReports /\ f.gen \in Gens /\ f.group \in Group
                       /\ f.via.to \in Receiver /\ f.via.conn \in 0..MaxFaults
  /\ \A f \in Report : f.n \in 1..MaxReports /\ f.gen \in Gens /\ f.group \in Group
  /\ \A x \in Server : /\ x.at \in ReceiverAt /\ x.queue \in Seq(Posted)
                       /\ x.conn \in 0..MaxFaults
  /\ \A x \in Loop : x.at \in LoopAt /\ x.rep \subseteq Report
  /\ \A x \in Consumer : x.at \in ConsumerAt /\ x.rep \subseteq Posted
BY DEF Posted, Report, Via, Server, Loop, Consumer

LEMMA Bounds ==
  /\ MaxReports \in Nat /\ MaxGens \in Nat /\ 1 \in Gens /\ MaxFaults \in Nat
  /\ DataCap \in Nat /\ QueueCap \in Nat
  /\ Gens \subseteq Nat
BY ReportsAssumption DEF Gens

(* What leaves the channel keeps its number, and gets a way.               *)
PostedAs(rep, r) ==
  [n |-> rep.n, gen |-> rep.gen, group |-> rep.group,
   via |-> [to |-> r, conn |-> receiver[r].conn]]

LEMMA PostedFields ==
  ASSUME ReportsType, NEW rep \in Report, NEW r \in Receiver
  PROVE  /\ PostedAs(rep, r) \in Posted
         /\ PostedAs(rep, r).n = rep.n /\ PostedAs(rep, r).gen = rep.gen
         /\ PostedAs(rep, r).group = rep.group
         /\ PostedAs(rep, r).via.to = r
         /\ PostedAs(rep, r).via.conn = receiver[r].conn
<1>1. receiver[r].conn \in 0..MaxFaults
  BY Fields DEF ReportsType
<1> QED
  BY <1>1, Fields DEF PostedAs, Posted, Via

(* What a step may do to a receiver without reading its queue: it is       *)
(* written anew with its queue or none, and its connections only age; when *)
(* it stops to accept, those there are are gone.                           *)
ServerMoves(r) ==
  \E x \in Server :
    /\ receiver' = [receiver EXCEPT ![r] = x]
    /\ x.queue = receiver[r].queue \/ x.queue = <<>>
    /\ x.conn >= receiver[r].conn /\ x.conn <= faults'
    /\ x.at # "up" => receiver[r].at # "up" \/ x.conn > receiver[r].conn

ServerStep(r) ==
  \/ StopServer(r) \/ CloseConnHandler(r) \/ CloseSink(r) \/ Exits(r)
  \/ Killed(r) \/ Run(r) \/ Breaks(r)

LEMMA ServerSteps ==
  ASSUME ReportsType, Limits, NEW r \in Receiver, ServerStep(r)
  PROVE  /\ ServerMoves(r) /\ flight' \subseteq flight /\ faults' \in 0..MaxFaults
         /\ \A s \in Receiver : receiver[s].conn <= faults'
         /\ UNCHANGED <<clock, gen, live, loop, data, consumer, row>>
<1> DEFINE x == receiver[r]
<1>1. /\ x \in Server /\ x.conn \in 0..MaxFaults /\ x.conn <= faults
      /\ faults \in 0..MaxFaults /\ MaxFaults \in Nat
  BY Fields, Bounds DEF ReportsType, Limits
<1>2. /\ faults' \in 0..MaxFaults /\ faults' >= faults
      /\ faults' = faults \/ x.conn + 1 <= faults'
      /\ flight' \subseteq flight
      /\ UNCHANGED <<clock, gen, live, loop, data, consumer, row>>
  <2> HIDE DEF x
  <2> QED
    BY <1>1
    DEF ServerStep, StopServer, CloseConnHandler, CloseSink, Exits, Killed, Run, Breaks, Fault
<1>3. \A s \in Receiver : receiver[s].conn <= faults'
  <2> TAKE s \in Receiver
  <2>1. receiver[s].conn \in 0..MaxFaults /\ receiver[s].conn <= faults
    BY Fields DEF ReportsType, Limits
  <2> QED
    BY <1>1, <1>2, <2>1
<1>4. ASSUME NEW y \in Server, receiver' = [receiver EXCEPT ![r] = y],
             y.queue = x.queue \/ y.queue = <<>>,
             y.conn = x.conn \/ (y.conn = x.conn + 1 /\ faults' = faults + 1),
             y.at # "up" => x.at # "up" \/ y.conn = x.conn + 1
      PROVE  ServerMoves(r)
  <2>1. /\ y.conn >= x.conn /\ y.conn <= faults'
        /\ y.at # "up" => x.at # "up" \/ y.conn > x.conn
    <3> HIDE DEF x
    <3> QED
      BY <1>1, <1>2, <1>4
  <2> QED
    BY <1>4, <2>1 DEF ServerMoves
<1>5. faults < MaxFaults => x.conn + 1 \in 0..MaxFaults
  <2> HIDE DEF x
  <2> QED
    BY <1>1
<1>6. ServerMoves(r)
  <2>1. CASE StopServer(r)
    <3> DEFINE y == [x EXCEPT !.at = "stopping", !.conn = @ + 1]
    <3>1. y \in Server /\ y.queue = x.queue /\ y.conn = x.conn + 1 /\ y.at = "stopping"
      BY <1>1, <1>5, <2>1 DEF Server, ReceiverAt, StopServer, Fault
    <3>2. receiver' = [receiver EXCEPT ![r] = y] /\ faults' = faults + 1
      BY <2>1 DEF StopServer, ReportsType, Fault
    <3> HIDE DEF x, y
    <3> QED
      BY <1>4, <3>1, <3>2
  <2>2. CASE CloseConnHandler(r)
    <3> DEFINE y == [x EXCEPT !.at = "draining"]
    <3>1. y \in Server /\ y.queue = x.queue /\ y.conn = x.conn
      BY <1>1 DEF Server, ReceiverAt
    <3>2. receiver' = [receiver EXCEPT ![r] = y] /\ x.at = "stopping" /\ faults' = faults
      BY <2>2 DEF CloseConnHandler, ReportsType
    <3> HIDE DEF x, y
    <3> QED
      BY <1>4, <3>1, <3>2
  <2>3. CASE CloseSink(r)
    <3> DEFINE y == [x EXCEPT !.sink = FALSE]
    <3>1. y \in Server /\ y.queue = x.queue /\ y.conn = x.conn /\ y.at = x.at
      BY <1>1 DEF Server
    <3>2. receiver' = [receiver EXCEPT ![r] = y] /\ faults' = faults
      BY <2>3 DEF CloseSink, ReportsType
    <3> HIDE DEF x, y
    <3> QED
      BY <1>4, <3>1, <3>2
  <2>4. CASE Exits(r)
    <3> DEFINE y == [x EXCEPT !.at = "gone"]
    <3>1. y \in Server /\ y.queue = x.queue /\ y.conn = x.conn
      BY <1>1 DEF Server, ReceiverAt
    <3>2. receiver' = [receiver EXCEPT ![r] = y] /\ x.at = "draining" /\ faults' = faults
      BY <2>4 DEF Exits, ReportsType
    <3> HIDE DEF x, y
    <3> QED
      BY <1>4, <3>1, <3>2
  <2>5. CASE Killed(r)
    <3> DEFINE y == [x EXCEPT !.at = "gone", !.queue = <<>>, !.conn = @ + 1]
    <3>1. y \in Server /\ y.queue = <<>> /\ y.conn = x.conn + 1
      <4>1. <<>> \in Seq(Posted) /\ x.conn + 1 \in 0..MaxFaults
        BY <1>5, <2>5 DEF Killed, Fault
      <4> QED
        BY <1>1, <4>1 DEF Server, ReceiverAt
    <3>2. receiver' = [receiver EXCEPT ![r] = y] /\ faults' = faults + 1
      BY <2>5 DEF Killed, ReportsType, Fault
    <3> HIDE DEF x, y
    <3> QED
      BY <1>4, <3>1, <3>2
  <2>6. CASE Run(r)
    <3> DEFINE y == [x EXCEPT !.at = "up", !.sink = TRUE]
    <3>1. y \in Server /\ y.queue = x.queue /\ y.conn = x.conn /\ y.at = "up"
      BY <1>1 DEF Server, ReceiverAt
    <3>2. receiver' = [receiver EXCEPT ![r] = y] /\ faults' = faults
      BY <2>6 DEF Run, ReportsType
    <3> HIDE DEF x, y
    <3> QED
      BY <1>4, <3>1, <3>2
  <2>7. CASE Breaks(r)
    <3> DEFINE y == [x EXCEPT !.conn = @ + 1]
    <3>1. y \in Server /\ y.queue = x.queue /\ y.conn = x.conn + 1
      BY <1>1, <1>5, <2>7 DEF Server, Breaks, Fault
    <3>2. receiver' = [receiver EXCEPT ![r] = y] /\ faults' = faults + 1
      BY <2>7 DEF Breaks, ReportsType, Fault
    <3> HIDE DEF x, y
    <3> QED
      BY <1>4, <3>1, <3>2
  <2> QED
    BY <2>1, <2>2, <2>3, <2>4, <2>5, <2>6, <2>7 DEF ServerStep
<1> QED
  BY <1>2, <1>3, <1>6

(* What a step leaves alone keeps its part of the invariant.               *)
Upstream ==
  /\ \A k \in Gens, g \in Group : HandInv(k, g)
  /\ \A k \in Gens : ChannelInv(k)
  /\ SentInv

LEMMA UpstreamFrame ==
  ASSUME Upstream, UNCHANGED <<clock, gen, loop, data>>, Sent' \subseteq Sent
  PROVE  Upstream'
BY DEF Upstream, HandInv, ChannelInv, SentInv

LEMMA ConsumerFrame ==
  ASSUME \A k \in Gens : ConsumerInv(k), UNCHANGED <<consumer, gen>>
  PROVE  \A k \in Gens : ConsumerInv(k)'
BY DEF ConsumerInv

LEMMA InSent ==
  ASSUME NEW f \in Posted
  PROVE  /\ f \in flight => f \in Sent
         /\ \A r \in Receiver : Queued(r, f) => f \in Sent
         /\ f \in row[f.group] => f \in Sent
         /\ f \in Sent => \/ f \in flight
                          \/ \E r \in Receiver : Queued(r, f)
                          \/ f \in row[f.group]
BY DEF Sent

(* A receiver that is written anew, but for what it reads and accepts.     *)
LEMMA QueuesAfter ==
  ASSUME ReportsType, NEW r \in Receiver, ServerMoves(r)
  PROVE  \A s \in Receiver :
           /\ receiver'[s].queue = receiver[s].queue \/ receiver'[s].queue = <<>>
           /\ receiver'[s].conn >= receiver[s].conn
           /\ receiver'[s].at # "up" =>
                receiver[s].at # "up" \/ receiver'[s].conn > receiver[s].conn
           /\ s # r => receiver'[s] = receiver[s]
           /\ receiver'[s].conn <= faults' \/ s # r
<1>1. PICK x \in Server :
        /\ receiver' = [receiver EXCEPT ![r] = x]
        /\ x.queue = receiver[r].queue \/ x.queue = <<>>
        /\ x.conn >= receiver[r].conn /\ x.conn <= faults'
        /\ x.at # "up" => receiver[r].at # "up" \/ x.conn > receiver[r].conn
  BY DEF ServerMoves
<1>2. \A s \in Receiver : receiver[s].conn \in 0..MaxFaults
  BY Fields DEF ReportsType
<1>3. receiver'[r] = x /\ \A s \in Receiver \ {r} : receiver'[s] = receiver[s]
  BY <1>1 DEF ReportsType
<1>4. \A s \in Receiver \ {r} : receiver'[s].conn >= receiver[s].conn
  BY <1>2, <1>3
<1> QED
  BY <1>1, <1>3, <1>4

LEMMA ServerKeeps ==
  ASSUME ReportsInv, NEW r \in Receiver, ServerStep(r)
  PROVE  ReportsInv'
<1>1. /\ ServerMoves(r) /\ flight' \subseteq flight /\ faults' \in 0..MaxFaults
      /\ \A s \in Receiver : receiver[s].conn <= faults'
      /\ UNCHANGED <<clock, gen, live, loop, data, consumer, row>>
  BY ServerSteps DEF ReportsInv
<1>2. \A s \in Receiver :
        /\ receiver'[s].queue = receiver[s].queue \/ receiver'[s].queue = <<>>
        /\ receiver'[s].conn >= receiver[s].conn
        /\ receiver'[s].at # "up" =>
             receiver[s].at # "up" \/ receiver'[s].conn > receiver[s].conn
        /\ s # r => receiver'[s] = receiver[s]
        /\ receiver'[s].conn <= faults' \/ s # r
  BY <1>1, QueuesAfter DEF ReportsInv
<1>3. ReportsType'
  BY <1>1 DEF ReportsInv, ReportsType, ServerMoves
<1>4. Limits'
  <2>1. \A s \in Receiver : receiver'[s].conn <= faults'
    BY <1>1, <1>2
  <2>2. \A s \in Receiver : Len(receiver'[s].queue) <= QueueCap
    <3>1. Len(<<>>) <= QueueCap
      BY Bounds
    <3> QED
      BY <1>2, <3>1 DEF ReportsInv, Limits
  <2> QED
    BY <1>1, <2>1, <2>2 DEF ReportsInv, Limits
<1>5. \A s \in Receiver : \A f : Queued(s, f)' => Queued(s, f)
  BY <1>2 DEF Queued
<1>6. Sent' \subseteq Sent
  BY <1>1, <1>5 DEF Sent
<1>7. Upstream'
  BY <1>1, <1>6, UpstreamFrame DEF ReportsInv, Upstream
<1>8. \A k \in Gens : ConsumerInv(k)'
  BY <1>1, ConsumerFrame DEF ReportsInv
<1>9. FlightInv'
  <2> SUFFICES ASSUME NEW f \in flight'
               PROVE  /\ f \in consumer'[f.gen].rep \/ Cancelled(f.gen)' \/ Stale(f.via)'
                      /\ f.via.conn <= receiver'[f.via.to].conn
                      /\ receiver'[f.via.to].at # "up" => Stale(f.via)'
                      /\ \A e \in flight' : e.gen = f.gen /\ e.via = f.via => e = f
    BY DEF FlightInv
  <2>1. /\ f \in flight /\ f \in Posted /\ f.via.to \in Receiver
        /\ f.via.conn \in 0..MaxFaults
        /\ receiver[f.via.to].conn \in 0..MaxFaults
        /\ receiver'[f.via.to].conn \in 0..MaxFaults
    BY <1>1, <1>3, Fields DEF ReportsInv, ReportsType
  <2>2. /\ f \in consumer[f.gen].rep \/ Cancelled(f.gen) \/ Stale(f.via)
        /\ f.via.conn <= receiver[f.via.to].conn
        /\ receiver[f.via.to].at # "up" => Stale(f.via)
        /\ \A e \in flight : e.gen = f.gen /\ e.via = f.via => e = f
    BY <2>1 DEF ReportsInv, FlightInv
  <2>3. Stale(f.via) => Stale(f.via)'
    BY <1>2, <2>1 DEF Stale
  <2>4. f.via.conn <= receiver'[f.via.to].conn
    BY <1>2, <2>1, <2>2
  <2>5. receiver'[f.via.to].at # "up" => Stale(f.via)'
    BY <1>2, <2>1, <2>2, <2>3 DEF Stale
  <2>6. Cancelled(f.gen)' <=> Cancelled(f.gen)
    BY <1>1 DEF Cancelled
  <2> QED
    BY <1>1, <2>2, <2>3, <2>4, <2>5, <2>6
<1>10. \A s \in Receiver : QueueInv(s)'
  BY <1>1, <1>2 DEF ReportsInv, QueueInv
<1>11. \A g \in Group : RowInv(g)'
  BY <1>1, <1>5 DEF ReportsInv, RowInv
<1> QED
  BY <1>3, <1>4, <1>7, <1>8, <1>9, <1>10, <1>11 DEF ReportsInv, Upstream

(* The loops write upstream only.                                          *)
Downstream ==
  /\ FlightInv
  /\ \A r \in Receiver : QueueInv(r)
  /\ \A g \in Group : RowInv(g)

LEMMA DownstreamFrame ==
  ASSUME Downstream, UNCHANGED <<gen, live, consumer, flight, receiver, row>>
  PROVE  Downstream'
BY DEF Downstream, FlightInv, QueueInv, RowInv, Queued, Stale, Cancelled

LEMMA Split == ReportsInv <=> /\ ReportsType /\ Limits /\ Upstream /\ Downstream
                              /\ \A k \in Gens : ConsumerInv(k)
BY DEF ReportsInv, Upstream, Downstream

LEMMA LoopAfter ==
  ASSUME loop \in [Gens -> [Group -> Loop]], NEW k \in Gens, NEW g \in Group, NEW x \in Loop,
         loop' = [loop EXCEPT ![k][g] = x]
  PROVE  /\ loop' \in [Gens -> [Group -> Loop]]
         /\ loop'[k][g] = x
         /\ \A j \in Gens, h \in Group : j # k \/ h # g => loop'[j][h] = loop[j][h]
OBVIOUS

LEMMA CollectKeeps ==
  ASSUME ReportsInv, NEW k \in Gens, NEW g \in Group, CollectRound(k, g)
  PROVE  ReportsInv'
<1> DEFINE rep == [n |-> clock + 1, gen |-> k, group |-> g]
<1>1. /\ clock' = clock + 1 /\ clock \in 0..MaxReports /\ clock' \in 1..MaxReports
      /\ UNCHANGED <<gen, live, data, consumer, flight, receiver, row, faults>>
      /\ loop' = [loop EXCEPT ![k][g] = With("sending", rep)]
  BY Bounds DEF CollectRound, ReportsInv, ReportsType
<1>2. rep \in Report /\ rep.n = clock + 1 /\ rep.gen = k /\ rep.group = g
  BY <1>1 DEF Report
<1> HIDE DEF rep
<1>3. /\ loop' \in [Gens -> [Group -> Loop]] /\ loop'[k][g] = With("sending", rep)
      /\ \A j \in Gens, h \in Group : j # k \/ h # g => loop'[j][h] = loop[j][h]
  <2>1. With("sending", rep) \in Loop /\ loop \in [Gens -> [Group -> Loop]]
    BY <1>2, Entries DEF LoopAt, ReportsInv, ReportsType
  <2> QED
    BY <1>1, <2>1, LoopAfter
<1>4. ReportsType'
  BY <1>1, <1>3 DEF ReportsInv, ReportsType
<1>5. Limits'
  BY <1>1 DEF ReportsInv, Limits
<1>6. Downstream' /\ \A j \in Gens : ConsumerInv(j)'
  BY <1>1, DownstreamFrame, ConsumerFrame, Split
<1>7. Sent' = Sent /\ Sent \subseteq Posted /\ \A f \in Sent : f.n \in Nat /\ f.n < clock'
  <2>1. Sent' = Sent /\ Sent \subseteq Posted
    BY <1>1 DEF Sent, Queued
  <2>2. \A f \in Sent : f.n \in 1..MaxReports /\ f.n <= clock
    BY <2>1, Fields DEF ReportsInv, SentInv
  <2> QED
    BY <1>1, <2>1, <2>2, Bounds
<1>8. ASSUME NEW j \in Gens
      PROVE  /\ ChannelInv(j)'
             /\ \A i \in DOMAIN data[j] : data[j][i].n < clock'
  <2>1. ChannelInv(j) /\ \A i \in DOMAIN data[j] : data[j][i] \in Report
    BY DomainOf DEF ReportsInv, ReportsType
  <2>2. \A i \in DOMAIN data[j] : data[j][i].n \in Nat /\ data[j][i].n <= clock
    BY <2>1, Fields, Bounds DEF ChannelInv
  <2>3. \A i \in DOMAIN data[j] : data[j][i].n < clock' /\ data[j][i].n <= clock'
    BY <1>1, <2>2
  <2> QED
    BY <1>1, <1>7, <2>1, <2>3 DEF ChannelInv
<1>9. ASSUME NEW j \in Gens, NEW h \in Group
      PROVE  HandInv(j, h)'
  <2>1. CASE j = k /\ h = g
    <3>1. loop'[j][h].rep = {rep}
      BY <1>3, <2>1, Entries
    <3>2. rep.n = clock' /\ rep.n <= clock'
      BY <1>1, <1>2
    <3> QED
      BY <1>1, <1>2, <1>7, <1>8, <2>1, <3>1, <3>2 DEF HandInv
  <2>2. CASE ~(j = k /\ h = g)
    <3>1. HandInv(j, h) /\ loop'[j][h] = loop[j][h] /\ loop[j][h].rep \subseteq Report
      BY <1>3, <2>2, Fields DEF ReportsInv, ReportsType
    <3>2. \A e \in loop[j][h].rep : e.n \in 1..MaxReports /\ e.n <= clock
      BY <3>1, Fields DEF HandInv
    <3>3. \A e \in loop[j][h].rep : e.n <= clock'
      BY <1>1, <3>2
    <3> QED
      BY <1>1, <1>7, <3>1, <3>3 DEF HandInv
  <2> QED
    BY <2>1, <2>2
<1>10. SentInv'
  <2>1. \A f \in Sent : f.gen <= gen
    BY DEF ReportsInv, SentInv
  <2>2. \A f \in Sent : f.n <= clock'
    BY <1>1, <1>7
  <2> QED
    BY <1>1, <1>7, <2>1, <2>2 DEF SentInv
<1> QED
  BY <1>4, <1>5, <1>6, <1>8, <1>9, <1>10
  DEF ReportsInv, Upstream, Downstream

LEMMA SendKeeps ==
  ASSUME ReportsInv, NEW k \in Gens, NEW g \in Group, Send(k, g)
  PROVE  ReportsInv'
<1>1. PICK rep \in loop[k][g].rep : data' = [data EXCEPT ![k] = Append(@, rep)]
  BY DEF Send
<1>2. /\ UNCHANGED <<clock, gen, live, consumer, flight, receiver, row, faults>>
      /\ Len(data[k]) < DataCap /\ loop' = [loop EXCEPT ![k][g] = No("waiting")]
  BY DEF Send
<1>3. /\ loop' \in [Gens -> [Group -> Loop]] /\ loop'[k][g] = No("waiting")
      /\ \A j \in Gens, h \in Group : j # k \/ h # g => loop'[j][h] = loop[j][h]
  <2>1. No("waiting") \in Loop /\ loop \in [Gens -> [Group -> Loop]]
    BY Entries DEF LoopAt, ReportsInv, ReportsType
  <2> QED
    BY <1>2, <2>1, LoopAfter
<1>4. rep \in Report /\ data[k] \in Seq(Report) /\ data \in [Gens -> Seq(Report)]
  BY <1>1, Fields DEF ReportsInv, ReportsType
<1>5. /\ Append(data[k], rep) \in Seq(Report)
      /\ Len(Append(data[k], rep)) = Len(data[k]) + 1
      /\ Len(data[k]) \in Nat
      /\ \A i \in DOMAIN data[k] : i \in Nat /\ i <= Len(data[k])
      /\ \A i \in DOMAIN Append(data[k], rep) :
           \/ i \in DOMAIN data[k] /\ Append(data[k], rep)[i] = data[k][i]
           \/ i = Len(data[k]) + 1 /\ Append(data[k], rep)[i] = rep
  BY <1>4, AppendOf, DomainOf
<1>6. /\ data' \in [Gens -> Seq(Report)] /\ data'[k] = Append(data[k], rep)
      /\ \A j \in Gens \ {k} : data'[j] = data[j]
  BY <1>1, <1>4, <1>5
<1>7. ReportsType'
  BY <1>2, <1>3, <1>6 DEF ReportsInv, ReportsType
<1>8. Limits'
  <2>1. \A j \in Gens : Len(data'[j]) <= DataCap
    <3>1. Len(data'[k]) <= DataCap
      BY <1>2, <1>5, <1>6, Bounds
    <3> QED
      BY <1>6, <3>1 DEF ReportsInv, Limits
  <2> QED
    BY <1>2, <2>1 DEF ReportsInv, Limits
<1>9. Downstream' /\ \A j \in Gens : ConsumerInv(j)'
  BY <1>2, DownstreamFrame, ConsumerFrame, Split
<1>10. Sent' = Sent
  BY <1>2 DEF Sent, Queued
<1>11. /\ rep.gen = k /\ rep.group = g /\ rep.n <= clock
       /\ \A i \in DOMAIN data[k] : data[k][i].group = g => data[k][i].n < rep.n
       /\ \A f \in Sent : SameLoop(f, rep) => f.n < rep.n
  BY <1>1 DEF ReportsInv, HandInv
<1>12. ASSUME NEW j \in Gens, NEW h \in Group
       PROVE  HandInv(j, h)'
  <2>1. CASE j = k /\ h = g
    BY <1>3, <2>1, Entries DEF HandInv
  <2>2. CASE j = k /\ h # g
    <3>1. HandInv(k, h) /\ loop'[k][h] = loop[k][h]
      BY <1>3, <2>2 DEF ReportsInv
    <3>2. \A i \in DOMAIN data'[k] :
            data'[k][i].group = h => i \in DOMAIN data[k] /\ data'[k][i] = data[k][i]
      BY <1>5, <1>6, <1>11, <2>2
    <3> QED
      BY <1>2, <1>10, <2>2, <3>1, <3>2 DEF HandInv
  <2>3. CASE j # k
    BY <1>2, <1>3, <1>6, <1>10, <2>3 DEF HandInv, ReportsInv
  <2> QED
    BY <2>1, <2>2, <2>3
<1>13. ASSUME NEW j \in Gens
       PROVE  ChannelInv(j)'
  <2>1. ChannelInv(j)
    BY DEF ReportsInv
  <2>2. CASE j = k
    <3>1. \A i, m \in DOMAIN data'[k] :
            i < m => i \in DOMAIN data[k] /\ data'[k][i] = data[k][i]
      BY <1>5, <1>6
    <3>2. ASSUME NEW i \in DOMAIN data'[k]
          PROVE  /\ data'[k][i].gen = k /\ data'[k][i].n <= clock
                 /\ \A f \in Sent : SameLoop(f, data'[k][i]) => f.n < data'[k][i].n
      BY <1>5, <1>6, <1>11, <2>1, <2>2 DEF ChannelInv
    <3>3. ASSUME NEW i \in DOMAIN data'[k], NEW m \in DOMAIN data'[k],
                 i < m, data'[k][i].group = data'[k][m].group
          PROVE  data'[k][i].n < data'[k][m].n
      <4>1. i \in DOMAIN data[k] /\ data'[k][i] = data[k][i]
        BY <3>1, <3>3
      <4>2. CASE m \in DOMAIN data[k]
        BY <1>5, <1>6, <2>1, <2>2, <3>3, <4>1, <4>2 DEF ChannelInv
      <4>3. CASE m \notin DOMAIN data[k]
        <5>1. data'[k][m] = rep
          BY <1>5, <1>6, <3>3, <4>3
        <5> QED
          BY <1>11, <3>3, <4>1, <5>1
      <4> QED
        BY <4>2, <4>3
    <3> QED
      BY <1>2, <1>10, <2>2, <3>2, <3>3 DEF ChannelInv
  <2>3. CASE j # k
    BY <1>2, <1>6, <1>10, <2>1, <2>3 DEF ChannelInv
  <2> QED
    BY <2>2, <2>3
<1>14. SentInv'
  BY <1>2, <1>10 DEF SentInv, ReportsInv
<1> QED
  BY <1>7, <1>8, <1>9, <1>12, <1>13, <1>14
  DEF ReportsInv, Upstream, Downstream

LEMMA ReturnKeeps ==
  ASSUME ReportsInv, NEW k \in Gens, NEW g \in Group, LoopReturns(k, g)
  PROVE  ReportsInv'
<1>1. /\ UNCHANGED <<clock, gen, live, data, consumer, flight, receiver, row, faults>>
      /\ loop' = [loop EXCEPT ![k][g] = No("ended")]
  BY DEF LoopReturns, ReturnsIf
<1>2. /\ loop' \in [Gens -> [Group -> Loop]] /\ loop'[k][g] = No("ended")
      /\ \A j \in Gens, h \in Group : j # k \/ h # g => loop'[j][h] = loop[j][h]
  <2>1. No("ended") \in Loop /\ loop \in [Gens -> [Group -> Loop]]
    BY Entries DEF LoopAt, ReportsInv, ReportsType
  <2> QED
    BY <1>1, <2>1, LoopAfter
<1>3. ReportsType' /\ Limits'
  BY <1>1, <1>2 DEF ReportsInv, ReportsType, Limits
<1>4. Downstream' /\ \A j \in Gens : ConsumerInv(j)'
  BY <1>1, DownstreamFrame, ConsumerFrame, Split
<1>5. Sent' = Sent
  BY <1>1 DEF Sent, Queued
<1>6. ASSUME NEW j \in Gens, NEW h \in Group
      PROVE  HandInv(j, h)'
  <2>1. CASE j = k /\ h = g
    BY <1>2, <2>1, Entries DEF HandInv
  <2>2. CASE ~(j = k /\ h = g)
    BY <1>1, <1>2, <1>5, <2>2 DEF HandInv, ReportsInv
  <2> QED
    BY <2>1, <2>2
<1>7. SentInv' /\ \A j \in Gens : ChannelInv(j)'
  BY <1>1, <1>5 DEF ReportsInv, ChannelInv, SentInv
<1> QED
  BY <1>3, <1>4, <1>6, <1>7
  DEF ReportsInv, Upstream, Downstream

(* runPlugin takes the head of the channel: what it posts of it is older   *)
(* than what stays.                                                        *)
LEMMA HeadLeaves ==
  ASSUME ReportsType, Upstream, NEW k \in Gens, data[k] # <<>>,
         data' = [data EXCEPT ![k] = Tail(@)], UNCHANGED <<clock, gen, loop>>,
         \A f \in Sent' : \/ f \in Sent
                          \/ /\ SameLoop(f, Head(data[k])) /\ f.n = Head(data[k]).n
                             /\ k <= gen
  PROVE  Upstream'
<1> DEFINE old == Head(data[k])
<1>1. /\ data[k] \in Seq(Report) /\ data \in [Gens -> Seq(Report)]
      /\ old = data[k][1] /\ 1 \in DOMAIN data[k]
      /\ \A i \in DOMAIN Tail(data[k]) :
           i \in Nat /\ i + 1 \in DOMAIN data[k] /\ Tail(data[k])[i] = data[k][i + 1]
  BY TailOf DEF ReportsType
<1>2. data'[k] = Tail(data[k]) /\ \A j \in Gens \ {k} : data'[j] = data[j]
  BY <1>1
<1>3. /\ ChannelInv(k) /\ old.gen = k /\ old.n <= clock
      /\ \A i \in DOMAIN data'[k] :
           data[k][i + 1].group = old.group => old.n < data[k][i + 1].n
  <2>1. ChannelInv(k)
    BY DEF Upstream
  <2>2. \A i \in DOMAIN data'[k] : 1 < i + 1
    BY <1>1, <1>2
  <2> QED
    BY <1>1, <1>2, <2>1, <2>2 DEF ChannelInv
<1>4. \A f \in Sent' : \/ f \in Sent
                       \/ f.gen = k /\ f.group = old.group /\ f.n = old.n /\ k <= gen
  BY <1>3 DEF SameLoop
<1> HIDE DEF old
<1>5. ASSUME NEW j \in Gens, NEW h \in Group, NEW rep \in loop[j][h].rep
      PROVE  /\ rep.gen = j /\ rep.group = h /\ rep.n <= clock
             /\ \A i \in DOMAIN data'[j] : data'[j][i].group = h => data'[j][i].n < rep.n
             /\ \A f \in Sent' : SameLoop(f, rep) => f.n < rep.n
  <2>1. /\ rep.gen = j /\ rep.group = h /\ rep.n <= clock
        /\ \A i \in DOMAIN data[j] : data[j][i].group = h => data[j][i].n < rep.n
        /\ \A f \in Sent : SameLoop(f, rep) => f.n < rep.n
    BY DEF Upstream, HandInv
  <2>2. \A i \in DOMAIN data'[j] : data'[j][i].group = h => data'[j][i].n < rep.n
    BY <1>1, <1>2, <2>1
  <2>3. \A f \in Sent' : SameLoop(f, rep) => f.n < rep.n
    BY <1>1, <1>4, <2>1 DEF SameLoop
  <2> QED
    BY <2>1, <2>2, <2>3
<1>6. ASSUME NEW j \in Gens
      PROVE  ChannelInv(j)'
  <2>1. ChannelInv(j)
    BY DEF Upstream
  <2>2. CASE j # k
    <3>1. \A f \in Sent' : f \in Sent \/ f.gen # j
      BY <1>4, <2>2
    <3> QED
      BY <1>2, <2>1, <2>2, <3>1 DEF ChannelInv, SameLoop
  <2>3. CASE j = k
    <3>1. ASSUME NEW i \in DOMAIN data'[k]
          PROVE  /\ data'[k][i].gen = k /\ data'[k][i].n <= clock
                 /\ \A f \in Sent' : SameLoop(f, data'[k][i]) => f.n < data'[k][i].n
      BY <1>1, <1>2, <1>3, <1>4 DEF ChannelInv, SameLoop
    <3>2. ASSUME NEW i \in DOMAIN data'[k], NEW m \in DOMAIN data'[k],
                 i < m, data'[k][i].group = data'[k][m].group
          PROVE  data'[k][i].n < data'[k][m].n
      <4>1. i + 1 < m + 1
        BY <1>1, <1>2, <3>2
      <4> QED
        BY <1>1, <1>2, <1>3, <3>2, <4>1 DEF ChannelInv
    <3> QED
      BY <2>3, <3>1, <3>2 DEF ChannelInv
  <2> QED
    BY <2>2, <2>3
<1>7. SentInv'
  BY <1>3, <1>4 DEF Upstream, SentInv
<1> QED
  BY <1>5, <1>6, <1>7 DEF Upstream, HandInv

LEMMA ConsumerAfter ==
  ASSUME consumer \in [Gens -> Consumer], NEW k \in Gens, NEW x \in Consumer,
         consumer' = [consumer EXCEPT ![k] = x]
  PROVE  /\ consumer' \in [Gens -> Consumer] /\ consumer'[k] = x
         /\ \A j \in Gens \ {k} : consumer'[j] = consumer[j]
OBVIOUS

LEMMA TailKept ==
  ASSUME ReportsType, Limits, NEW k \in Gens, data[k] # <<>>,
         data' = [data EXCEPT ![k] = Tail(@)]
  PROVE  /\ data' \in [Gens -> Seq(Report)]
         /\ \A j \in Gens : Len(data'[j]) <= DataCap
<1>1. /\ data[k] \in Seq(Report) /\ data \in [Gens -> Seq(Report)]
      /\ Tail(data[k]) \in Seq(Report) /\ Len(Tail(data[k])) <= Len(data[k])
  BY TailOf DEF ReportsType
<1>2. Len(data[k]) \in Nat /\ Len(Tail(data[k])) \in Nat /\ Len(data[k]) <= DataCap
  BY <1>1, DomainOf DEF Limits
<1>3. data'[k] = Tail(data[k]) /\ \A j \in Gens \ {k} : data'[j] = data[j]
  BY <1>1
<1>4. Len(data'[k]) <= DataCap
  BY <1>1, <1>2, <1>3, Bounds
<1> QED
  BY <1>1, <1>3, <1>4 DEF Limits

LEMMA SkipKeeps ==
  ASSUME ReportsInv, NEW k \in Gens, Skipped(k)
  PROVE  ReportsInv'
<1>1. /\ UNCHANGED <<clock, gen, live, loop, consumer, flight, receiver, row, faults>>
      /\ data[k] # <<>> /\ data' = [data EXCEPT ![k] = Tail(@)]
  BY DEF Skipped
<1>2. ReportsType' /\ Limits'
  <2>1. /\ data' \in [Gens -> Seq(Report)]
        /\ \A j \in Gens : Len(data'[j]) <= DataCap
    BY <1>1, TailKept, Split
  <2> QED
    BY <1>1, <2>1 DEF ReportsInv, ReportsType, Limits
<1>3. Downstream' /\ \A j \in Gens : ConsumerInv(j)'
  BY <1>1, DownstreamFrame, ConsumerFrame, Split
<1>4. Sent' = Sent
  BY <1>1 DEF Sent, Queued
<1>5. Upstream'
  BY <1>1, <1>4, HeadLeaves, Split
<1> QED
  BY <1>2, <1>3, <1>5 DEF ReportsInv, Upstream, Downstream

LEMMA PostKeeps ==
  ASSUME ReportsInv, NEW k \in Gens, Post(k)
  PROVE  ReportsInv'
<1> DEFINE old == Head(data[k])
<1>1. /\ UNCHANGED <<clock, gen, live, loop, receiver, row, faults>>
      /\ data[k] # <<>> /\ data' = [data EXCEPT ![k] = Tail(@)]
      /\ consumer[k].at = "taking" /\ ~Cancelled(k)
  BY DEF Post
<1>2. PICK r \in Receiver :
        /\ receiver[r].at = "up"
        /\ consumer' = [consumer EXCEPT ![k] = With("posting", PostedAs(old, r))]
        /\ flight' = flight \cup {PostedAs(old, r)}
  BY DEF Post, PostedAs
<1> DEFINE p == PostedAs(old, r)
<1>3. /\ data[k] \in Seq(Report) /\ old \in Report
      /\ old = data[k][1] /\ 1 \in DOMAIN data[k]
  BY <1>1, TailOf DEF ReportsInv, ReportsType
<1>4. /\ old.gen = k /\ \A f \in Sent : SameLoop(f, old) => f.n < old.n
  BY <1>3 DEF ReportsInv, ChannelInv
<1>5. /\ p \in Posted /\ p.n = old.n /\ p.gen = k /\ p.group = old.group
      /\ p.via.to = r /\ p.via.conn = receiver[r].conn
  BY <1>3, <1>4, PostedFields DEF ReportsInv
<1> HIDE DEF p, old
<1>6. /\ consumer' \in [Gens -> Consumer] /\ consumer'[k] = With("posting", p)
      /\ \A j \in Gens \ {k} : consumer'[j] = consumer[j]
  <2>1. With("posting", p) \in Consumer /\ consumer \in [Gens -> Consumer]
    BY <1>5, Entries DEF ConsumerAt, ReportsInv, ReportsType
  <2>2. consumer' = [consumer EXCEPT ![k] = With("posting", p)]
    BY <1>2 DEF p
  <2> QED
    BY <2>1, <2>2, ConsumerAfter
<1>7. flight' = flight \cup {p} /\ flight \subseteq Posted
  BY <1>2 DEF p, ReportsInv, ReportsType
<1>8. consumer[k].rep = {} /\ k <= gen
  <2>1. ConsumerInv(k)
    BY DEF ReportsInv
  <2>2. k \in Nat /\ gen \in Nat
    BY Bounds DEF ReportsInv, ReportsType
  <2> QED
    BY <1>1, <2>1, <2>2 DEF ConsumerInv
<1>9. ReportsType' /\ Limits'
  <2>1. /\ data' \in [Gens -> Seq(Report)]
        /\ \A j \in Gens : Len(data'[j]) <= DataCap
    BY <1>1, TailKept, Split
  <2>2. flight' \in SUBSET Posted
    BY <1>5, <1>7
  <2> QED
    BY <1>1, <1>6, <2>1, <2>2 DEF ReportsInv, ReportsType, Limits
<1>10. \A f \in Sent' : f \in Sent \/ f = p
  BY <1>1, <1>7 DEF Sent, Queued
<1>11. Upstream'
  <2>1. \A f \in Sent' : \/ f \in Sent
                         \/ /\ SameLoop(f, Head(data[k])) /\ f.n = Head(data[k]).n
                            /\ k <= gen
    BY <1>4, <1>5, <1>8, <1>10 DEF SameLoop, old
  <2> QED
    BY <1>1, <2>1, HeadLeaves, Split
<1>12. \A j \in Gens : ConsumerInv(j)'
  <2>1. ConsumerInv(k)'
    <3>1. k \in Nat /\ gen' \in Nat /\ k <= gen'
      BY <1>1, <1>8, Bounds DEF ReportsInv, ReportsType
    <3>2. consumer'[k].rep = {p} /\ consumer'[k].at = "posting"
      BY <1>6, Entries
    <3> QED
      BY <1>5, <3>1, <3>2 DEF ConsumerInv
  <2>2. \A j \in Gens \ {k} : ConsumerInv(j)'
    BY <1>1, <1>6 DEF ReportsInv, ConsumerInv
  <2> QED
    BY <2>1, <2>2
<1>13. ASSUME NEW f \in flight
       PROVE  /\ f \in consumer'[f.gen].rep \/ Cancelled(f.gen) \/ Stale(f.via)
              /\ f.via.conn <= receiver[f.via.to].conn
              /\ receiver[f.via.to].at # "up" => Stale(f.via)
              /\ \A e \in flight : e.gen = f.gen /\ e.via = f.via => e = f
              /\ ~(f.gen = p.gen /\ f.via = p.via)
  <2>1. /\ f \in consumer[f.gen].rep \/ Cancelled(f.gen) \/ Stale(f.via)
        /\ f.via.conn <= receiver[f.via.to].conn
        /\ receiver[f.via.to].at # "up" => Stale(f.via)
        /\ \A e \in flight : e.gen = f.gen /\ e.via = f.via => e = f
    BY DEF ReportsInv, FlightInv
  <2>2. f.gen \in Gens
    BY <1>7, Fields
  <2>3. f \in consumer[f.gen].rep => f.gen # k /\ f \in consumer'[f.gen].rep
    BY <1>6, <1>8, <2>2
  <2>4. f.via = p.via => ~Stale(f.via)
    <3>1. receiver[r].conn \in Nat
      BY Fields, Bounds DEF ReportsInv, ReportsType
    <3> QED
      BY <1>5, <3>1 DEF Stale
  <2> QED
    BY <1>1, <1>5, <2>1, <2>3, <2>4
<1>14. FlightInv'
  <2>1. /\ p \in consumer'[p.gen].rep
        /\ p.via.conn <= receiver[p.via.to].conn
        /\ receiver[p.via.to].at = "up"
    <3>1. receiver[r].conn \in Nat
      BY Fields, Bounds DEF ReportsInv, ReportsType
    <3> QED
      BY <1>2, <1>5, <1>6, <3>1, Entries
  <2>2. SUFFICES ASSUME NEW f \in flight'
                 PROVE  /\ f \in consumer'[f.gen].rep \/ Cancelled(f.gen)' \/ Stale(f.via)'
                        /\ f.via.conn <= receiver'[f.via.to].conn
                        /\ receiver'[f.via.to].at # "up" => Stale(f.via)'
                        /\ \A e \in flight' : e.gen = f.gen /\ e.via = f.via => e = f
    BY DEF FlightInv
  <2>3. /\ Cancelled(f.gen)' <=> Cancelled(f.gen)
        /\ Stale(f.via)' <=> Stale(f.via)
    BY <1>1 DEF Cancelled, Stale
  <2>4. CASE f = p
    BY <1>1, <1>7, <1>13, <2>1, <2>4
  <2>5. CASE f \in flight
    BY <1>1, <1>7, <1>13, <2>3, <2>5
  <2> QED
    BY <1>7, <2>4, <2>5
<1>15. \A f \in Sent : SameWay(f, p) => f.n < p.n
  BY <1>4, <1>5 DEF SameWay, SameLoop
<1>16. ASSUME NEW s \in Receiver
       PROVE  QueueInv(s)'
  <2>1. \A i \in DOMAIN receiver[s].queue :
          SameWay(receiver[s].queue[i], p) => receiver[s].queue[i].n < p.n
    <3> TAKE i \in DOMAIN receiver[s].queue
    <3>1. receiver[s].queue[i] \in Posted
      BY Fields, DomainOf DEF ReportsInv, ReportsType
    <3>2. Queued(s, receiver[s].queue[i])
      BY DEF Queued
    <3> QED
      BY <1>15, <3>1, <3>2, InSent
  <2> QED
    BY <1>1, <1>7, <2>1 DEF ReportsInv, QueueInv
<1>17. ASSUME NEW g \in Group
       PROVE  RowInv(g)'
  <2>1. \A e \in row[g] : SameWay(e, p) => e.n < p.n
    <3> TAKE e \in row[g]
    <3>1. e \in Posted /\ e.group = g
      BY DEF ReportsInv, ReportsType, RowInv
    <3> QED
      BY <1>15, <3>1, InSent
  <2> QED
    BY <1>1, <1>7, <2>1 DEF ReportsInv, RowInv, Queued
<1> QED
  BY <1>9, <1>11, <1>12, <1>14, <1>16, <1>17 DEF ReportsInv, Upstream

(* A runPlugin that has no report in its hands any more, and what happens  *)
(* to the generations.                                                     *)
LEMMA LetGo ==
  ASSUME ReportsInv, NEW k \in Gens, NEW at \in {"taking", "ended"},
         consumer[k].at # "unborn",
         \A f \in flight : f \in consumer[k].rep => Cancelled(k) \/ Stale(f.via),
         consumer' = [consumer EXCEPT ![k] = No(at)],
         UNCHANGED <<clock, gen, live, loop, data, flight, receiver, row, faults>>
  PROVE  ReportsInv'
<1>1. /\ consumer' \in [Gens -> Consumer] /\ consumer'[k] = No(at)
      /\ \A j \in Gens \ {k} : consumer'[j] = consumer[j]
  <2>1. No(at) \in Consumer /\ consumer \in [Gens -> Consumer]
    BY Entries DEF ConsumerAt, ReportsInv, ReportsType
  <2> QED
    BY <2>1, ConsumerAfter
<1>2. ReportsType' /\ Limits'
  BY <1>1 DEF ReportsInv, ReportsType, Limits
<1>3. Sent' = Sent
  BY DEF Sent, Queued
<1>4. Upstream'
  BY <1>3, UpstreamFrame, Split
<1>5. \A j \in Gens : ConsumerInv(j)'
  BY <1>1, Entries DEF ReportsInv, ConsumerInv
<1>6. FlightInv'
  <2>1. SUFFICES ASSUME NEW f \in flight
                 PROVE  f \in consumer'[f.gen].rep \/ Cancelled(f.gen) \/ Stale(f.via)
    BY DEF ReportsInv, FlightInv, Stale, Cancelled
  <2>2. f \in consumer[f.gen].rep \/ Cancelled(f.gen) \/ Stale(f.via)
    BY DEF ReportsInv, FlightInv
  <2>3. f.gen \in Gens
    BY Fields DEF ReportsInv, ReportsType
  <2> QED
    BY <1>1, <2>2, <2>3
<1>7. /\ \A r \in Receiver : QueueInv(r)'
      /\ \A g \in Group : RowInv(g)'
  BY DEF ReportsInv, QueueInv, RowInv, Queued
<1> QED
  BY <1>2, <1>4, <1>5, <1>6, <1>7 DEF ReportsInv, Upstream

LEMMA FailKeeps ==
  ASSUME ReportsInv, NEW k \in Gens, PostFails(k)
  PROVE  ReportsInv'
<1>1. PICK f \in consumer[k].rep : Cancelled(k) \/ Broken(f.via)
  BY DEF PostFails
<1>2. \A e \in consumer[k].rep : e = f
  BY DEF ReportsInv, ConsumerInv
<1>3. consumer[k].at # "unborn"
  BY <1>1 DEF ReportsInv, ConsumerInv
<1>4. f \in flight /\ Broken(f.via) => Stale(f.via)
  <2>1. /\ f \in Posted /\ f.via.conn \in Nat /\ receiver[f.via.to].conn \in Nat
    BY <1>1, Fields, Bounds DEF ReportsInv, ReportsType
  <2>2. f \in flight => /\ f.via.conn <= receiver[f.via.to].conn
                        /\ receiver[f.via.to].at # "up" => Stale(f.via)
    BY DEF ReportsInv, FlightInv
  <2> QED
    BY <2>1, <2>2 DEF Broken, Stale
<1> QED
  BY <1>1, <1>2, <1>3, <1>4, LetGo DEF PostFails

LEMMA PluginReturnKeeps ==
  ASSUME ReportsInv, NEW k \in Gens, RunPluginReturns(k)
  PROVE  ReportsInv'
<1>1. consumer[k].rep = {}
  BY DEF RunPluginReturns, ReportsInv, ConsumerInv
<1> QED
  BY <1>1, LetGo DEF RunPluginReturns

LEMMA CancelKeeps ==
  ASSUME ReportsInv, Cancel
  PROVE  ReportsInv'
<1>1. live' = FALSE /\ UNCHANGED <<clock, gen, loop, data, consumer, flight, receiver, row, faults>>
  BY DEF Cancel
<1>2. ReportsType' /\ Limits'
  BY <1>1 DEF ReportsInv, ReportsType, Limits
<1>3. Sent' = Sent
  BY <1>1 DEF Sent, Queued
<1>4. Upstream' /\ \A k \in Gens : ConsumerInv(k)'
  BY <1>1, <1>3, UpstreamFrame, ConsumerFrame, Split
<1>5. FlightInv'
  BY <1>1 DEF ReportsInv, FlightInv, Cancelled, Stale
<1>6. /\ \A r \in Receiver : QueueInv(r)'
      /\ \A g \in Group : RowInv(g)'
  BY <1>1 DEF ReportsInv, QueueInv, RowInv, Queued
<1> QED
  BY <1>2, <1>4, <1>5, <1>6 DEF ReportsInv, Upstream

LEMMA StartKeeps ==
  ASSUME ReportsInv, StartRuntime
  PROVE  ReportsInv'
<1>1. gen + 1 \in Gens /\ gen \in Nat /\ gen \in Gens
  BY Bounds DEF StartRuntime, ReportsInv, ReportsType, Gens
<1>2. PICK k \in Gens : k = gen + 1
  BY <1>1
<1>3. /\ gen' = k /\ live' = TRUE /\ UNCHANGED <<clock, data, flight, receiver, row, faults>>
      /\ loop' = [loop EXCEPT ![k] = [g \in Group |-> No("waiting")]]
      /\ consumer' = [consumer EXCEPT ![k] = No("taking")]
  BY <1>2 DEF StartRuntime
<1>4. /\ loop' \in [Gens -> [Group -> Loop]]
      /\ \A g \in Group : loop'[k][g] = No("waiting")
      /\ \A j \in Gens \ {k} : loop'[j] = loop[j]
  <2>1. No("waiting") \in Loop /\ loop \in [Gens -> [Group -> Loop]]
    BY Entries DEF LoopAt, ReportsInv, ReportsType
  <2> QED
    BY <1>3, <1>1, <2>1
<1>5. /\ consumer' \in [Gens -> Consumer] /\ consumer'[k] = No("taking")
      /\ \A j \in Gens \ {k} : consumer'[j] = consumer[j]
  <2>1. No("taking") \in Consumer /\ consumer \in [Gens -> Consumer]
    BY Entries DEF ConsumerAt, ReportsInv, ReportsType
  <2> QED
    BY <1>3, <1>1, <2>1, ConsumerAfter
<1>6. ReportsType' /\ Limits'
  BY <1>3, <1>1, <1>4, <1>5 DEF ReportsInv, ReportsType, Limits
<1>7. Sent' = Sent /\ Sent \subseteq Posted
  BY <1>3 DEF Sent, Queued
<1>8. SentInv' /\ \A f \in Sent : f.gen \in Nat /\ f.gen < k
  <2>1. \A f \in Sent : f.n <= clock /\ f.gen <= gen /\ f.gen \in Nat
    BY <1>7, Fields, Bounds DEF ReportsInv, SentInv
  <2>2. \A f \in Sent : f.gen < k /\ f.gen <= k
    BY <1>1, <1>2, <2>1
  <2> QED
    BY <1>3, <1>7, <2>1, <2>2 DEF SentInv
<1>9. \A j \in Gens, g \in Group : HandInv(j, g)'
  <2>1. ASSUME NEW j \in Gens, NEW g \in Group, NEW rep \in loop'[j][g].rep
        PROVE  loop'[j][g] = loop[j][g] /\ rep \in loop[j][g].rep
    <3>1. loop'[k][g].rep = {}
      BY <1>4, Entries
    <3> QED
      BY <1>4, <2>1, <3>1
  <2> QED
    BY <1>3, <1>7, <2>1 DEF ReportsInv, HandInv
<1>10. \A j \in Gens : ChannelInv(j)'
  BY <1>3, <1>7 DEF ReportsInv, ChannelInv
<1>11. \A j \in Gens : ConsumerInv(j)'
  <2>1. ConsumerInv(k)'
    <3>1. consumer'[k].rep = {} /\ consumer'[k].at = "taking" /\ ~(k > gen')
      BY <1>3, <1>1, <1>2, <1>5, Entries
    <3> QED
      BY <3>1 DEF ConsumerInv
  <2>2. ASSUME NEW j \in Gens, j # k
        PROVE  ConsumerInv(j)'
    <3>1. j > gen' => j > gen
      <4>1. j \in Nat
        BY Bounds
      <4> QED
        BY <1>3, <1>1, <1>2, <4>1
    <3>2. ConsumerInv(j) /\ consumer'[j] = consumer[j]
      BY <1>5, <2>2 DEF ReportsInv
    <3> QED
      BY <3>1, <3>2 DEF ConsumerInv
  <2> QED
    BY <2>1, <2>2
<1>12. FlightInv'
  <2>1. \A f \in flight : f.gen < k
    BY <1>8, InSent DEF ReportsInv, ReportsType
  <2> QED
    BY <1>3, <2>1 DEF ReportsInv, FlightInv, Cancelled, Stale
<1>13. /\ \A r \in Receiver : QueueInv(r)'
       /\ \A g \in Group : RowInv(g)'
  BY <1>3 DEF ReportsInv, QueueInv, RowInv, Queued
<1> QED
  BY <1>6, <1>8, <1>9, <1>10, <1>11, <1>12, <1>13 DEF ReportsInv

(* A request that is lost.                                                 *)
LEMMA LostKeeps ==
  ASSUME ReportsInv, NEW f \in flight, Undelivered(f)
  PROVE  ReportsInv'
<1>1. /\ UNCHANGED <<clock, gen, live, loop, data, consumer, receiver, row, faults>>
      /\ flight' \subseteq flight
  BY DEF Undelivered
<1>2. ReportsType' /\ Limits'
  BY <1>1 DEF ReportsInv, ReportsType, Limits
<1>3. Sent' \subseteq Sent
  BY <1>1 DEF Sent, Queued
<1>4. Upstream' /\ \A k \in Gens : ConsumerInv(k)'
  BY <1>1, <1>3, UpstreamFrame, ConsumerFrame, Split
<1>5. FlightInv'
  BY <1>1 DEF ReportsInv, FlightInv, Cancelled, Stale
<1>6. /\ \A r \in Receiver : QueueInv(r)'
      /\ \A g \in Group : RowInv(g)'
  BY <1>1 DEF ReportsInv, QueueInv, RowInv, Queued
<1> QED
  BY <1>2, <1>4, <1>5, <1>6 DEF ReportsInv, Upstream

(* A handler ends: its call, if it still waits, ends with it.              *)
LEMMA HandlerEnds ==
  ASSUME ReportsInv, NEW f \in flight, consumer' = Answered(f), flight' \subseteq flight \ {f},
         UNCHANGED <<gen, live>>,
         \A s \in Receiver : /\ receiver'[s].conn = receiver[s].conn
                             /\ receiver'[s].at # "up" => receiver[s].at # "up"
  PROVE  /\ consumer' \in [Gens -> Consumer]
         /\ \A k \in Gens : ConsumerInv(k)'
         /\ FlightInv'
<1>1. ASSUME NEW k \in Gens
      PROVE  /\ \/ consumer'[k] = consumer[k]
                \/ consumer'[k] = No("taking") /\ f \in consumer[k].rep
             /\ consumer'[k] \in Consumer
  <2>1. consumer[k] \in Consumer /\ No("taking") \in Consumer
    BY Entries DEF ReportsInv, ReportsType, ConsumerAt
  <2>2. consumer'[k] = IF f \in consumer[k].rep /\ ~Broken(f.via) THEN No("taking") ELSE consumer[k]
    BY DEF Answered
  <2> QED
    BY <2>1, <2>2
<1>2. consumer' \in [Gens -> Consumer]
  BY <1>1 DEF Answered
<1>3. \A k \in Gens : ConsumerInv(k)'
  <2> TAKE k \in Gens
  <2>1. CASE consumer'[k] = consumer[k]
    BY <2>1 DEF ReportsInv, ConsumerInv
  <2>2. CASE consumer'[k] = No("taking") /\ f \in consumer[k].rep
    <3>1. consumer'[k].rep = {} /\ consumer'[k].at = "taking"
      BY <2>2, Entries
    <3>2. ~(k > gen)
      BY <2>2 DEF ReportsInv, ConsumerInv
    <3> QED
      BY <3>1, <3>2 DEF ConsumerInv
  <2> QED
    BY <1>1, <2>1, <2>2
<1>4. FlightInv'
  <2>1. SUFFICES ASSUME NEW e \in flight'
                 PROVE  /\ e \in consumer'[e.gen].rep \/ Cancelled(e.gen)' \/ Stale(e.via)'
                        /\ e.via.conn <= receiver'[e.via.to].conn
                        /\ receiver'[e.via.to].at # "up" => Stale(e.via)'
                        /\ \A d \in flight' : d.gen = e.gen /\ d.via = e.via => d = e
    BY DEF FlightInv
  <2>2. /\ e \in flight /\ e # f /\ e.gen \in Gens /\ e.via.to \in Receiver
    BY Fields DEF ReportsInv, ReportsType
  <2>3. /\ e \in consumer[e.gen].rep \/ Cancelled(e.gen) \/ Stale(e.via)
        /\ e.via.conn <= receiver[e.via.to].conn
        /\ receiver[e.via.to].at # "up" => Stale(e.via)
        /\ \A d \in flight : d.gen = e.gen /\ d.via = e.via => d = e
    BY <2>2 DEF ReportsInv, FlightInv
  <2>4. e \in consumer[e.gen].rep => e \in consumer'[e.gen].rep
    <3>1. \A d \in consumer[e.gen].rep : e \in consumer[e.gen].rep => d = e
      BY <2>2 DEF ReportsInv, ConsumerInv
    <3> QED
      BY <1>1, <2>2, <3>1
  <2>5. /\ Cancelled(e.gen)' <=> Cancelled(e.gen)
        /\ Stale(e.via)' <=> Stale(e.via)
    BY <2>2 DEF Cancelled, Stale
  <2> QED
    BY <2>2, <2>3, <2>4, <2>5
<1> QED
  BY <1>2, <1>3, <1>4

LEMMA PushKeeps ==
  ASSUME ReportsInv, NEW f \in flight, PushDataUnary(f)
  PROVE  ReportsInv'
<1>1. PICK r \in Receiver : r = f.via.to
  BY Fields DEF ReportsInv, ReportsType
<1>2. f \in Posted /\ receiver[r] \in Server /\ receiver \in [Receiver -> Server]
  BY DEF ReportsInv, ReportsType
<1> DEFINE q == receiver[r].queue
<1>3. q \in Seq(Posted) /\ Len(q) \in Nat
  BY <1>2, Fields, DomainOf
<1>4. consumer' = Answered(f) /\ UNCHANGED <<clock, gen, live, loop, data, row, faults>>
  BY DEF PushDataUnary
<1>5. \/ /\ receiver[r].at = "draining"
         /\ receiver' = [receiver EXCEPT ![r].at = "gone", ![r].queue = <<>>]
         /\ flight' = {e \in flight : e.via.to # r}
      \/ /\ Len(q) < QueueCap
         /\ receiver' = [receiver EXCEPT ![r].queue = Append(@, f)]
         /\ flight' = flight \ {f}
      \/ receiver' = receiver /\ flight' = flight \ {f}
  BY <1>1 DEF PushDataUnary
<1>6. flight' \subseteq flight \ {f}
  BY <1>1, <1>5
(* What the queue of the receiver is afterwards.                           *)
<1>7. PICK p \in Seq(Posted) :
        /\ receiver' \in [Receiver -> Server]
        /\ receiver'[r].queue = p /\ Len(p) <= QueueCap
        /\ \A s \in Receiver \ {r} : receiver'[s] = receiver[s]
        /\ receiver'[r].conn = receiver[r].conn
        /\ receiver'[r].at # "up" => receiver[r].at # "up"
        /\ p = q \/ p = <<>> \/ p = Append(q, f)
  <2>1. CASE receiver[r].at = "draining"
             /\ receiver' = [receiver EXCEPT ![r].at = "gone", ![r].queue = <<>>]
    <3> DEFINE x == [receiver[r] EXCEPT !.at = "gone", !.queue = <<>>]
    <3>1. /\ <<>> \in Seq(Posted) /\ Len(<<>>) <= QueueCap
      BY Bounds
    <3>2. x \in Server /\ x.queue = <<>> /\ x.conn = receiver[r].conn
      BY <1>2, <3>1 DEF Server, ReceiverAt
    <3>3. receiver' = [receiver EXCEPT ![r] = x]
      BY <1>2, <2>1
    <3> HIDE DEF x
    <3> QED
      BY <1>2, <2>1, <3>1, <3>2, <3>3
  <2>2. CASE Len(q) < QueueCap /\ receiver' = [receiver EXCEPT ![r].queue = Append(@, f)]
    <3> DEFINE x == [receiver[r] EXCEPT !.queue = Append(q, f)]
    <3>1. /\ Append(q, f) \in Seq(Posted) /\ Len(Append(q, f)) <= QueueCap
      BY <1>2, <1>3, <2>2, Bounds, AppendOf
    <3>2. x \in Server /\ x.queue = Append(q, f) /\ x.conn = receiver[r].conn
          /\ x.at = receiver[r].at
      BY <1>2, <3>1 DEF Server
    <3>3. receiver' = [receiver EXCEPT ![r] = x]
      BY <1>2, <2>2
    <3> HIDE DEF x, q
    <3> QED
      BY <1>2, <2>2, <3>1, <3>2, <3>3
  <2>3. CASE receiver' = receiver
    <3>1. Len(q) <= QueueCap
      BY DEF ReportsInv, Limits
    <3> HIDE DEF q
    <3> QED
      BY <1>2, <1>3, <2>3, <3>1 DEF q
  <2> QED
    BY <1>5, <2>1, <2>2, <2>3
<1>8. \A i \in DOMAIN p :
        \/ i \in DOMAIN q /\ p[i] = q[i] /\ i <= Len(q) /\ i \in Nat
        \/ i = Len(q) + 1 /\ p[i] = f
  <2>1. CASE p = Append(q, f)
    BY <1>2, <1>3, <2>1, AppendOf
  <2>2. CASE p = q \/ p = <<>>
    BY <1>3, <2>2
  <2> QED
    BY <1>7, <2>1, <2>2
<1> HIDE DEF q
<1>9. consumer' \in [Gens -> Consumer] /\ (\A k \in Gens : ConsumerInv(k)') /\ FlightInv'
  <2>1. \A s \in Receiver : /\ receiver'[s].conn = receiver[s].conn
                            /\ receiver'[s].at # "up" => receiver[s].at # "up"
    BY <1>7
  <2> QED
    BY <1>4, <1>6, <2>1, HandlerEnds
<1>10. ReportsType'
  <2>1. flight' \in SUBSET Posted
    BY <1>6 DEF ReportsInv, ReportsType
  <2> QED
    BY <1>4, <1>7, <1>9, <2>1 DEF ReportsInv, ReportsType
<1>11. Limits'
  BY <1>4, <1>7 DEF ReportsInv, Limits
<1>12. \A s \in Receiver : \A e : Queued(s, e)' => Queued(s, e) \/ (s = r /\ e = f)
  BY <1>7, <1>8 DEF Queued, q
<1>13. Upstream'
  <2>1. Sent' \subseteq Sent
    BY <1>2, <1>4, <1>6, <1>12 DEF Sent
  <2> QED
    BY <1>4, <2>1, UpstreamFrame, Split
<1>14. \A e \in flight' : ~SameWay(f, e)
  BY <1>6 DEF ReportsInv, FlightInv, SameWay, SameLoop
<1>15. ASSUME NEW s \in Receiver
       PROVE  QueueInv(s)'
  <2>1. QueueInv(s)
    BY DEF ReportsInv
  <2>2. CASE s # r
    BY <1>6, <1>7, <2>1, <2>2 DEF QueueInv
  <2>3. CASE s = r
    <3>1. /\ \A i \in DOMAIN q : q[i].via.to = r
          /\ \A i, j \in DOMAIN q : i < j /\ SameWay(q[i], q[j]) => q[i].n < q[j].n
          /\ \A i \in DOMAIN q : \A e \in flight : SameWay(q[i], e) => q[i].n < e.n
      BY <2>1, <2>3 DEF QueueInv, q
    <3>2. \A i \in DOMAIN p : p[i].via.to = r
      BY <1>1, <1>8, <3>1
    <3>3. ASSUME NEW i \in DOMAIN p, NEW j \in DOMAIN p, i < j, SameWay(p[i], p[j])
          PROVE  p[i].n < p[j].n
      <4>1. i \in DOMAIN q /\ p[i] = q[i]
        BY <1>3, <1>8, <3>3
      <4> QED
        BY <1>8, <3>1, <3>3, <4>1
    <3>4. \A i \in DOMAIN p : \A e \in flight' : SameWay(p[i], e) => p[i].n < e.n
      BY <1>6, <1>8, <1>14, <3>1
    <3>5. receiver'[s].queue = p
      BY <1>7, <2>3
    <3> QED
      BY <2>3, <3>2, <3>3, <3>4, <3>5 DEF QueueInv
  <2> QED
    BY <2>2, <2>3
<1>16. ASSUME NEW g \in Group
       PROVE  RowInv(g)'
  BY <1>2, <1>4, <1>6, <1>12 DEF ReportsInv, RowInv
<1> QED
  BY <1>9, <1>10, <1>11, <1>13, <1>15, <1>16 DEF ReportsInv, Upstream

(* The sinks take the head of the queue.                                   *)
LEMMA ReadKeeps ==
  ASSUME ReportsInv, NEW r \in Receiver, ReadEvent(r)
  PROVE  /\ ReportsInv'
         /\ \A g \in Group : \A old \in row[g], new \in row'[g] :
              new.n < old.n => new.gen # old.gen \/ new.via # old.via
<1>1. PICK f \in Posted : f = Head(receiver[r].queue)
  BY TailOf, Fields DEF ReadEvent, ReportsInv, ReportsType
<1> DEFINE q == receiver[r].queue
           p == Tail(q)
           x == [receiver[r] EXCEPT !.queue = p]
<1>2. /\ q \in Seq(Posted) /\ p \in Seq(Posted) /\ f = q[1] /\ 1 \in DOMAIN q
      /\ Len(p) <= Len(q)
      /\ \A i \in DOMAIN p : i \in Nat /\ i + 1 \in DOMAIN q /\ p[i] = q[i + 1]
  BY <1>1, TailOf, Fields DEF ReadEvent, ReportsInv, ReportsType
<1>3. /\ UNCHANGED <<clock, gen, live, loop, data, consumer, flight>>
      /\ receiver' = [receiver EXCEPT ![r].queue = Tail(@)]
  BY DEF ReadEvent
<1>4. /\ receiver' \in [Receiver -> Server] /\ receiver'[r].queue = p
      /\ receiver'[r].conn = receiver[r].conn /\ receiver'[r].at = receiver[r].at
      /\ \A s \in Receiver \ {r} : receiver'[s] = receiver[s]
  <2>1. receiver \in [Receiver -> Server] /\ receiver[r] \in Server
    BY DEF ReportsInv, ReportsType
  <2>2. x \in Server /\ x.queue = p /\ x.conn = receiver[r].conn /\ x.at = receiver[r].at
    BY <1>2, <2>1 DEF Server
  <2>3. receiver' = [receiver EXCEPT ![r] = x]
    BY <1>3, <2>1
  <2> HIDE DEF x, p, q
  <2> QED
    BY <2>1, <2>2, <2>3
<1> HIDE DEF x, p, q
<1>5. /\ row' = [row EXCEPT ![f.group] = {f}] \/ row' = row
      /\ faults' \in 0..MaxFaults /\ faults' >= faults
  <2>1. faults \in 0..MaxFaults /\ MaxFaults \in Nat
    BY Bounds DEF ReportsInv, ReportsType
  <2>2. \/ row' = [row EXCEPT ![f.group] = {f}] /\ faults' = faults
        \/ row' = row /\ faults' = faults
        \/ row' = row /\ faults < MaxFaults /\ faults' = faults + 1
    <3>1. CASE Save(f) /\ faults' = faults
      BY <3>1 DEF Save
    <3>2. CASE SaveFails(r)
      BY <3>2 DEF SaveFails
    <3> QED
      BY <1>1, <3>1, <3>2 DEF ReadEvent
  <2> QED
    BY <2>1, <2>2
<1>6. f.group \in Group /\ row \in [Group -> SUBSET Posted]
  BY Fields DEF ReportsInv, ReportsType
<1>7. /\ row' \in [Group -> SUBSET Posted]
      /\ \A g \in Group : row'[g] = row[g] \/ (g = f.group /\ row'[g] = {f})
  BY <1>5, <1>6
<1>8. ReportsType'
  BY <1>3, <1>4, <1>5, <1>7 DEF ReportsInv, ReportsType
<1>9. Limits'
  <2>1. \A s \in Receiver : receiver'[s].conn <= faults'
    <3>1. \A s \in Receiver : /\ receiver[s].conn \in Nat /\ receiver[s].conn <= faults
                              /\ receiver'[s].conn = receiver[s].conn
      BY <1>4, Fields, Bounds DEF ReportsInv, ReportsType, Limits
    <3>2. faults \in Nat /\ faults' \in Nat /\ faults <= faults'
      BY <1>5, Bounds DEF ReportsInv, ReportsType
    <3> QED
      BY <3>1, <3>2
  <2>2. \A s \in Receiver : Len(receiver'[s].queue) <= QueueCap
    <3>1. Len(p) \in Nat /\ Len(q) \in Nat /\ Len(q) <= QueueCap
      BY <1>2, DomainOf DEF ReportsInv, Limits, q
    <3>2. Len(p) <= QueueCap
      BY <1>2, <3>1, Bounds
    <3> QED
      BY <1>4, <3>2 DEF ReportsInv, Limits
  <2> QED
    BY <1>3, <2>1, <2>2 DEF ReportsInv, Limits
<1>10. /\ Queued(r, f)
       /\ \A s \in Receiver : \A e : Queued(s, e)' => Queued(s, e)
  <2>1. Queued(r, f)
    BY <1>2 DEF Queued, q
  <2>2. ASSUME NEW s \in Receiver, NEW e, Queued(s, e)'
        PROVE  Queued(s, e)
    <3>1. PICK i \in DOMAIN receiver'[s].queue : e = receiver'[s].queue[i]
      BY <2>2 DEF Queued
    <3>2. CASE s = r
      BY <1>2, <1>4, <3>1, <3>2 DEF Queued, q
    <3>3. CASE s # r
      BY <1>4, <3>1, <3>3 DEF Queued
    <3> QED
      BY <3>2, <3>3
  <2> QED
    BY <2>1, <2>2
<1>11. Upstream'
  <2>1. ASSUME NEW e \in Posted, e \in row'[e.group] PROVE e \in row[e.group] \/ e = f
    BY <1>7, <2>1, Fields
  <2>2. f \in Sent
    BY <1>10, InSent
  <2>3. Sent' \subseteq Sent
    BY <1>3, <1>10, <2>1, <2>2 DEF Sent
  <2> QED
    BY <1>3, <2>3, UpstreamFrame, Split
<1>12. \A k \in Gens : ConsumerInv(k)'
  BY <1>3, ConsumerFrame, Split
<1>13. FlightInv'
  <2>1. \A e \in flight : e.via.to \in Receiver
    BY Fields DEF ReportsInv, ReportsType
  <2>2. \A s \in Receiver : /\ receiver'[s].conn = receiver[s].conn
                            /\ receiver'[s].at = receiver[s].at
    BY <1>4
  <2> QED
    BY <1>3, <2>1, <2>2 DEF ReportsInv, FlightInv, Cancelled, Stale
<1>14. /\ \A i \in DOMAIN q : q[i].via.to = r
       /\ \A i, j \in DOMAIN q : i < j /\ SameWay(q[i], q[j]) => q[i].n < q[j].n
       /\ \A i \in DOMAIN q : \A e \in flight : SameWay(q[i], e) => q[i].n < e.n
  BY DEF ReportsInv, QueueInv, q
<1>15. ASSUME NEW s \in Receiver
       PROVE  QueueInv(s)'
  <2>1. CASE s # r
    BY <1>3, <1>4, <2>1 DEF ReportsInv, QueueInv
  <2>2. CASE s = r
    <3>1. /\ \A i \in DOMAIN p : p[i].via.to = r
          /\ \A i \in DOMAIN p : \A e \in flight : SameWay(p[i], e) => p[i].n < e.n
      BY <1>2, <1>14
    <3>2. ASSUME NEW i \in DOMAIN p, NEW j \in DOMAIN p, i < j, SameWay(p[i], p[j])
          PROVE  p[i].n < p[j].n
      <4>1. i + 1 < j + 1
        BY <1>2, <3>2
      <4> QED
        BY <1>2, <1>14, <3>2, <4>1
    <3> QED
      BY <1>3, <1>4, <2>2, <3>1, <3>2 DEF QueueInv
  <2> QED
    BY <2>1, <2>2
(* The head is older than what is queued behind it, and what is queued     *)
(* elsewhere took another way.                                             *)
<1>16. \A s \in Receiver : \A e \in Posted : Queued(s, e)' /\ SameWay(f, e) => f.n < e.n
  <2> SUFFICES ASSUME NEW s \in Receiver, NEW e \in Posted, Queued(s, e)', SameWay(f, e)
               PROVE  f.n < e.n
    OBVIOUS
  <2>1. e.via.to = r
    BY <1>2, <1>14 DEF SameWay
  <2>2. s = r
    <3>1. PICK i \in DOMAIN receiver'[s].queue : e = receiver'[s].queue[i]
      BY DEF Queued
    <3> QED
      BY <1>15, <2>1, <3>1 DEF QueueInv
  <2>3. PICK i \in DOMAIN p : e = p[i]
    BY <1>4, <2>2 DEF Queued
  <2>4. 1 < i + 1
    BY <1>2, <2>3, DomainOf
  <2> QED
    BY <1>2, <1>14, <2>3, <2>4
<1>17. ASSUME NEW g \in Group
       PROVE  RowInv(g)'
  <2>1. CASE row'[g] = row[g]
    BY <1>3, <1>10, <2>1 DEF ReportsInv, RowInv
  <2>2. CASE g = f.group /\ row'[g] = {f}
    BY <1>2, <1>3, <1>14, <1>16, <2>2 DEF RowInv
  <2> QED
    BY <1>7, <2>1, <2>2
<1>18. ASSUME NEW g \in Group, NEW old \in row[g], NEW new \in row'[g], new.n < old.n
       PROVE  new.gen # old.gen \/ new.via # old.via
  <2>1. old \in Posted /\ old.group = g /\ \A e \in row[g] : e = old
    BY <1>6 DEF ReportsInv, RowInv
  <2>2. ~(old.n < old.n)
    BY <2>1, Fields, Bounds
  <2>3. new = f /\ f.group = g
    BY <1>7, <1>18, <2>1, <2>2
  <2>4. SameWay(old, f) => old.n < f.n
    BY <1>10 DEF ReportsInv, RowInv
  <2>5. old.n \in Nat /\ f.n \in Nat
    BY <2>1, Fields, Bounds
  <2> QED
    BY <1>18, <2>1, <2>3, <2>4, <2>5 DEF SameWay, SameLoop
<1> QED
  BY <1>8, <1>9, <1>11, <1>12, <1>13, <1>15, <1>17, <1>18 DEF ReportsInv, Upstream

LEMMA ReportsStart == Init => ReportsInv
<1> SUFFICES ASSUME Init PROVE ReportsInv
  OBVIOUS
<1>1. /\ clock = 0 /\ gen = 1 /\ live = TRUE /\ flight = {} /\ faults = 0
      /\ \A k \in Gens, g \in Group : loop[k][g].rep = {}
      /\ \A k \in Gens : data[k] = <<>>
      /\ \A k \in Gens : consumer[k] = No(IF k = 1 THEN "taking" ELSE "unborn")
      /\ \A r \in Receiver : receiver[r].queue = <<>> /\ receiver[r].conn = 0
      /\ \A g \in Group : row[g] = {}
  BY Entries DEF Init
<1>2. ReportsType
  <2>1. <<>> \in Seq(Report) /\ <<>> \in Seq(Posted) /\ 0 \in 0..MaxFaults /\ 0 \in 0..MaxReports
    BY Bounds
  <2>2. \A k \in Gens : No(IF k = 1 THEN "waiting" ELSE "unborn") \in Loop
    BY Entries DEF LoopAt
  <2>3. \A k \in Gens : No(IF k = 1 THEN "taking" ELSE "unborn") \in Consumer
    BY Entries DEF ConsumerAt
  <2>4. [at |-> "up", queue |-> <<>>, sink |-> TRUE, conn |-> 0] \in Server
    BY <2>1 DEF Server, ReceiverAt
  <2>5. loop \in [Gens -> [Group -> Loop]] /\ consumer \in [Gens -> Consumer]
    BY <2>2, <2>3 DEF Init
  <2>6. receiver \in [Receiver -> Server] /\ data \in [Gens -> Seq(Report)]
    BY <2>1, <2>4 DEF Init
  <2>7. row \in [Group -> SUBSET Posted] /\ flight \in SUBSET Posted
    BY DEF Init
  <2>8. clock \in 0..MaxReports /\ gen \in Gens /\ live \in BOOLEAN /\ faults \in 0..MaxFaults
    BY <1>1, <2>1, Bounds
  <2> QED
    BY <2>5, <2>6, <2>7, <2>8 DEF ReportsType
<1>3. Sent = {}
  <2>1. \A r \in Receiver, f \in Posted : ~Queued(r, f)
    BY <1>1 DEF Queued
  <2>2. \A f \in Posted : f.group \in Group
    BY Fields
  <2> QED
    BY <1>1, <2>1, <2>2 DEF Sent
<1>4. Limits
  BY <1>1, Bounds DEF Limits
<1>5. \A k \in Gens : ConsumerInv(k)
  <2> TAKE k \in Gens
  <2>1. consumer[k].rep = {} /\ (k > gen => consumer[k].at = "unborn")
    <3>1. k \in Nat /\ gen = 1 /\ consumer[k] = No(IF k = 1 THEN "taking" ELSE "unborn")
      BY <1>1, Bounds
    <3> QED
      BY <3>1, Entries
  <2> QED
    BY <2>1 DEF ConsumerInv
<1>6. Upstream
  BY <1>1, <1>3 DEF Upstream, HandInv, ChannelInv, SentInv
<1>7. Downstream
  BY <1>1 DEF Downstream, FlightInv, QueueInv, RowInv
<1> QED
  BY <1>2, <1>4, <1>5, <1>6, <1>7, Split

NoRowGoesBack ==
  \A g \in Group : \A old \in row[g], new \in row'[g] :
    new.n < old.n => new.gen # old.gen \/ new.via # old.via

LEMMA SameRows ==
  ASSUME ReportsInv, row' = row
  PROVE  NoRowGoesBack
<1> SUFFICES ASSUME NEW g \in Group, NEW old \in row[g], NEW new \in row[g] PROVE ~(new.n < old.n)
  BY DEF NoRowGoesBack
<1>1. new = old /\ old \in Posted
  BY DEF ReportsInv, RowInv, ReportsType
<1> QED
  BY <1>1, Fields, Bounds

LEMMA ReportsStep == ReportsInv /\ Next => ReportsInv' /\ NoRowGoesBack
<1> SUFFICES ASSUME ReportsInv, Next PROVE ReportsInv' /\ NoRowGoesBack
  OBVIOUS
<1>1. ASSUME NEW k \in Gens, NEW g \in Group, CollectRound(k, g) \/ Send(k, g) \/ LoopReturns(k, g)
      PROVE  ReportsInv' /\ row' = row
  BY <1>1, CollectKeeps, SendKeeps, ReturnKeeps DEF CollectRound, Send, LoopReturns, ReturnsIf
<1>2. ASSUME NEW k \in Gens, Skipped(k) \/ Post(k) \/ PostFails(k) \/ RunPluginReturns(k)
      PROVE  ReportsInv' /\ row' = row
  BY <1>2, SkipKeeps, PostKeeps, FailKeeps, PluginReturnKeeps
  DEF Skipped, Post, PostFails, RunPluginReturns
<1>3. ASSUME Cancel \/ StartRuntime PROVE ReportsInv' /\ row' = row
  BY <1>3, CancelKeeps, StartKeeps DEF Cancel, StartRuntime
<1>4. ASSUME NEW f \in flight, PushDataUnary(f) \/ Undelivered(f) PROVE ReportsInv' /\ row' = row
  BY <1>4, PushKeeps, LostKeeps DEF PushDataUnary, Undelivered
<1>5. ASSUME NEW r \in Receiver, ServerStep(r) PROVE ReportsInv' /\ row' = row
  BY <1>5, ServerKeeps, ServerSteps DEF ReportsInv
<1>6. ASSUME NEW r \in Receiver, ReadEvent(r) PROVE ReportsInv' /\ NoRowGoesBack
  BY <1>6, ReadKeeps DEF NoRowGoesBack
<1>7. CASE ProbeStep
  BY <1>1, <1>2, <1>3, <1>7, SameRows DEF ProbeStep
<1>8. CASE ReceiverStep
  BY <1>4, <1>5, <1>6, <1>8, SameRows DEF ReceiverStep, ServerStep
<1> QED
  BY <1>7, <1>8 DEF Next

LEMMA ReportsStay == ReportsInv /\ UNCHANGED vars => ReportsInv'
BY DEF vars, ReportsInv, ReportsType, Limits, HandInv, ChannelInv, SentInv, Sent,
       Queued, ConsumerInv, FlightInv, Cancelled, Stale, QueueInv, RowInv

LEMMA ReportsAlways == MCSpec => []ReportsInv
<1>1. MCInit => ReportsInv
  BY ReportsStart DEF MCInit
<1>2. ReportsInv /\ [MCNext]_allVars => ReportsInv'
  BY ReportsStep, ReportsStay DEF MCNext, allVars
<1> QED
  BY <1>1, <1>2, PTL DEF MCSpec

(* The channels and queues stay within their capacities and the clients,   *)
(* receivers and rows are what their types say, whatever breaks, is        *)
(* stopped or reloaded (runtime.go, the client and the receiver).          *)
THEOREM ReportsTypeCorrect == MCSpec => []TypeOK
<1>1. ReportsInv => TypeOK
  BY Fields DEF ReportsInv, ReportsType, Limits, TypeOK, Loop, LoopAt, Consumer, ConsumerAt,
                Server, ReceiverAt
<1> QED
  BY <1>1, ReportsAlways, PTL

(* A row goes back in time only between two generations of the probe or    *)
(* two connections of its client, for any groups, receivers, capacities    *)
(* and faults (Save writes without looking at the timestamp).              *)
THEOREM RowsInOrder == MCSpec => RowGoesBackOnlyAcross
<1>1. ReportsInv /\ [MCNext]_allVars => [NoRowGoesBack]_vars
  BY ReportsStep DEF MCNext, allVars
<1> QED
  BY <1>1, ReportsAlways, PTL DEF MCSpec, RowGoesBackOnlyAcross, NoRowGoesBack
=============================================================================
