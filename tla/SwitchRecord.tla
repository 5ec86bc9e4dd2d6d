----------------------------- MODULE SwitchRecord -----------------------------
(***************************************************************************)
(* What a switch leaves behind for its readers: SwitchExecutor's           *)
(* TriggerSwitching around Mysql.Switch.  A row of the snapshot table is   *)
(* inserted before and updated after; in between one worker per group of   *)
(* instances runs the procedure and puts its outcome into the response     *)
(* that all workers share; alarms close the matter.  What the procedures   *)
(* do is in MasterSwitch and SpiderSwitch: here each instance succeeds or  *)
(* fails.                                                                  *)
(***************************************************************************)
EXTENDS Naturals, FiniteSets

CONSTANTS
  Inst,        \* the instances of the request
  HostOf,      \* the host of each
  ClusterOf,   \* the cluster of each
  WithStandby, \* masters whose standby slave is known: they get a new master
  MaxWorkers   \* HostLevelSwitchMaxHostNum, ClusterLevelSwitchMaxClusterNum

VARIABLES
  scope,    \* ActionScope of the request
  pc,       \* where TriggerSwitching is
  db,       \* the snapshot handler is open
  id,       \* the record knows the id of its row
  row,      \* status of the row
  masters,  \* instances with a new master in the row
  log,      \* the switch log handler is open
  line,     \* the last line of the switch log about each instance
  worker,   \* what the worker of each group does
  did,      \* how the procedure ended for each instance
  failure,  \* rsp.MySqlFailureInsts
  new,      \* rsp.MySqlNewMasterInfo
  err,      \* rsp.Err
  alarm,    \* the alarm posted for each instance
  cut       \* history: a panic, a crash or a write that got no answer

snapshot == <<db, id, row, masters>>
switchLog == <<log, line>>
response == <<failure, new, err>>
vars == <<scope, pc, snapshot, switchLog, worker, did, response, alarm, cut>>

(* buildIpGroup and buildClusterGroup; at instance level each is its own. *)
GroupOf(i) ==
  CASE scope = "host" -> HostOf[i]
    [] scope = "cluster" -> ClusterOf[i]
    [] OTHER -> i
Members(g) == {i \in Inst : GroupOf(i) = g}
Groups == {GroupOf(i) : i \in Inst}
AnyGroup == Inst \cup {HostOf[i] : i \in Inst} \cup {ClusterOf[i] : i \in Inst}

Init ==
  /\ scope \in {"instance", "host", "cluster", "unknown"}
  /\ pc = "open"
  /\ db = FALSE /\ id = FALSE /\ row = "none" /\ masters = {}
  /\ log = FALSE /\ line = [i \in Inst |-> "none"]
  /\ worker = [g \in AnyGroup |-> "none"]
  /\ did = [i \in Inst |-> "none"]
  /\ failure = {} /\ new = {} /\ err = "nil"
  /\ alarm = [i \in Inst |-> "none"]
  /\ cut = FALSE

-----------------------------------------------------------------------------
(* TriggerSwitching before the switch *)

(* NewSwitchingSnapshotReport: a handler that cannot reach its table is    *)
(* left out, which is logged and nothing else.                             *)
Open(opened) ==
  /\ pc = "open"
  /\ db' = opened
  /\ pc' = "before"
  /\ UNCHANGED <<scope, id, row, masters, switchLog, worker, did, response, alarm, cut>>

(* DbSnapshotHandler.PreSwitchLog: the insert fills in the id.  One that   *)
(* times out may have happened.                                            *)
PreSwitchLog(status, saved, answered) ==
  /\ row' = IF db /\ saved THEN status ELSE row
  /\ id' = (db /\ answered)

(* ReportBeforeSwitchingSnapshot *)
Before(saved, answered) ==
  /\ pc = "before"
  /\ answered => saved
  /\ PreSwitchLog("doing", saved, answered)
  /\ cut' = (db /\ ~answered)
  /\ pc' = "loggers"
  /\ UNCHANGED <<scope, db, masters, switchLog, worker, did, response, alarm>>

-----------------------------------------------------------------------------
(* Mysql.Switch *)

(* LogToDbHandler.Append: a closed handler refuses the line. *)
Append(M, text) ==
  line' = [i \in Inst |-> IF i \in M /\ log THEN text ELSE line[i]]

(* SwitchReporter: a line for each instance of M; a write that fails, or   *)
(* takes too long, is passed over.                                         *)
Report(M, text) == \E written \in SUBSET M : Append(written, text)

(* NewSwitchLogger: without the database the switch goes on. *)
NewSwitchLogger(opened) ==
  /\ pc = "loggers"
  /\ log' = opened
  /\ pc' = "switch"
  /\ UNCHANGED <<scope, snapshot, line, worker, did, response, alarm, cut>>

UnknownScope ==
  /\ pc = "switch" /\ scope = "unknown"
  /\ failure' = Inst /\ err' = "unknown scope"
  /\ log' = FALSE
  /\ pc' = "after"
  /\ UNCHANGED <<scope, snapshot, line, worker, did, new, alarm, cut>>

Busy == {g \in Groups : worker[g] \in {"make", "run"}}

(* The loops of InstanceLevelSwitch, HostLevelSwitch and                   *)
(* ClusterLevelSwitch: the semaphore is taken before a worker starts.      *)
Dispatch(g) ==
  /\ pc = "switch" /\ scope # "unknown"
  /\ worker[g] = "none"
  /\ scope # "instance" => Cardinality(Busy) < MaxWorkers
  /\ worker' = [worker EXCEPT ![g] = "make"]
  /\ Report(Members(g), "start")
  /\ UNCHANGED <<scope, pc, snapshot, log, did, response, alarm, cut>>

(* The switcher cannot be made, or the host has other instances than the   *)
(* request: all of the group fail.                                         *)
Refuse(g) ==
  /\ worker[g] = "make"
  /\ failure' = failure \cup Members(g)
  /\ Report(Members(g), "fail")
  /\ worker' = [worker EXCEPT ![g] = "gone"]
  /\ UNCHANGED <<scope, pc, snapshot, log, did, new, err, alarm, cut>>

Make(g) ==
  /\ worker[g] = "make"
  /\ worker' = [worker EXCEPT ![g] = "run"]
  /\ UNCHANGED <<scope, pc, snapshot, switchLog, did, response, alarm, cut>>

(* SwitchSingleInstance and SwitchSameHostInstances end for an instance,   *)
(* SwitchSameClusterInstances for all of the group.                        *)
Procedure(g, M, how) ==
  /\ worker[g] = "run"
  /\ IF scope = "cluster" THEN M = Members(g) ELSE \E i \in Members(g) : M = {i}
  /\ \A i \in M : did[i] = "none"
  /\ did' = [i \in Inst |-> IF i \in M THEN how ELSE did[i]]
  /\ UNCHANGED <<scope, pc, snapshot, switchLog, worker, response, alarm, cut>>

Ended(g, how) == {i \in Members(g) : did[i] = how}

(* The worker adds failures and new masters under rsp.mu and reports. *)
CollectFailures(g) ==
  /\ worker[g] = "run" /\ \A i \in Members(g) : did[i] # "none"
  /\ Ended(g, "failed") # {}
  /\ failure' = failure \cup Ended(g, "failed")
  /\ worker' = [worker EXCEPT ![g] = "good"]
  /\ Report(Ended(g, "failed"), "fail")
  /\ UNCHANGED <<scope, pc, snapshot, log, did, new, err, alarm, cut>>

CollectMasters(g) ==
  /\ \/ worker[g] = "good"
     \/ worker[g] = "run" /\ \A i \in Members(g) : did[i] = "switched"
  /\ new' = new \cup (Ended(g, "switched") \cap WithStandby)
  /\ worker' = [worker EXCEPT ![g] = "gone"]
  /\ Report(Ended(g, "switched"), "success")
  /\ UNCHANGED <<scope, pc, snapshot, log, did, failure, err, alarm, cut>>

(* A mistake: to go on when every group has been handed out. *)
WaitForSlots ==
  /\ pc = "switch" /\ scope # "unknown"
  /\ \A g \in Groups : worker[g] # "none"
  /\ err' = IF failure = {} THEN "nil" ELSE "partial success"
  /\ log' = FALSE
  /\ pc' = "after"
  /\ UNCHANGED <<scope, snapshot, line, worker, did, failure, new, alarm, cut>>

(* wg.Wait, then the error; Switch closes the loggers as it returns. *)
Wait ==
  /\ pc = "switch" /\ scope # "unknown"
  /\ \A g \in Groups : worker[g] = "gone"
  /\ err' = IF failure = {} THEN "nil" ELSE "partial success"
  /\ log' = FALSE
  /\ pc' = "after"
  /\ UNCHANGED <<scope, snapshot, line, worker, did, failure, new, alarm, cut>>

(* safe.Run swallows a panic of Switch's own goroutine: there is no        *)
(* response and nothing more is reported; workers go on without it.        *)
SwitchPanics ==
  /\ pc \in {"loggers", "switch"}
  /\ log' = FALSE
  /\ pc' = "done" /\ cut' = TRUE
  /\ UNCHANGED <<scope, snapshot, line, worker, did, response, alarm>>

-----------------------------------------------------------------------------
(* TriggerSwitching after the switch *)

(* DbSnapshotHandler.PostSwitchLog: a record without an id is not updated. *)
(* The update may fail, or time out and happen or not.                     *)
PostSwitchLog(status, found, saved) ==
  IF db /\ id /\ saved
    THEN row' = status /\ masters' = found
    ELSE UNCHANGED <<row, masters>>

(* ReportAfterSwitchingSnapshot *)
After(saved, answered) ==
  /\ pc = "after"
  /\ answered => saved
  /\ PostSwitchLog(IF err = "nil" THEN "success" ELSE "failed", new, saved)
  /\ cut' = (cut \/ (db /\ ~answered))
  /\ pc' = "success alarms"
  /\ UNCHANGED <<scope, db, id, switchLog, worker, did, response, alarm>>

Post(M, text) ==
  \E lost \in SUBSET M :
    alarm' = [i \in Inst |-> IF i \in M \ lost THEN text ELSE alarm[i]]

PostSuccessAlarms ==
  /\ pc = "success alarms"
  /\ Post(Inst \ failure, "success")
  /\ pc' = "failure alarms"
  /\ UNCHANGED <<scope, snapshot, switchLog, worker, did, response, cut>>

PostFailureAlarms ==
  /\ pc = "failure alarms"
  /\ Post(failure, "failure")
  /\ pc' = "done" /\ db' = FALSE
  /\ UNCHANGED <<scope, id, row, masters, switchLog, worker, did, response, cut>>

(* The process ends, by itself or because a worker panics.  Nothing goes   *)
(* back to the row later.                                                  *)
Crash ==
  /\ pc \notin {"done", "dead"}
  /\ pc' = "dead" /\ cut' = TRUE
  /\ worker' = [g \in AnyGroup |-> "gone"]
  /\ UNCHANGED <<scope, snapshot, switchLog, did, response, alarm>>

-----------------------------------------------------------------------------
TriggerSwitching ==
  \/ \E opened \in BOOLEAN : Open(opened) \/ NewSwitchLogger(opened)
  \/ \E saved, answered \in BOOLEAN : Before(saved, answered) \/ After(saved, answered)
  \/ UnknownScope \/ (\E g \in Groups : Dispatch(g)) \/ Wait
  \/ PostSuccessAlarms \/ PostFailureAlarms

Work(g) ==
  \/ Refuse(g) \/ Make(g) \/ CollectFailures(g) \/ CollectMasters(g)
  \/ \E M \in SUBSET Members(g), how \in {"switched", "failed"} : Procedure(g, M, how)

Next ==
  \/ TriggerSwitching \/ (\E g \in Groups : Work(g))
  \/ SwitchPanics \/ Crash

Spec == Init /\ [][Next]_vars

-----------------------------------------------------------------------------
Switched == {i \in Inst : did[i] = "switched"}

(* What a reader is told is what happened, though the outcomes come from   *)
(* workers that run side by side: a row says success only if every         *)
(* instance was switched and failed only if one was not, it names new      *)
(* masters only of instances that were switched, and an alarm or the last  *)
(* line of the log agrees with the outcome of its instance.  A row that    *)
(* still says doing after the end is that of a pass that panicked or of a  *)
(* write that got no answer.                                               *)
ReportedAsItWas ==
  /\ row = "success" => Switched = Inst
  /\ row = "failed" => Switched # Inst
  /\ masters \subseteq Switched
  /\ row = "success" => masters = Inst \cap WithStandby
  /\ \A i \in Inst :
       /\ alarm[i] = "success" \/ line[i] = "success" => i \in Switched
       /\ alarm[i] = "failure" \/ line[i] = "fail" => i \notin Switched
  /\ pc = "done" /\ row = "doing" => cut
=============================================================================
