---------------------------- MODULE MCProbeHost ----------------------------
(***************************************************************************)
(* Four systems around a probe, one at a time: the way of its reports, the *)
(* heartbeat it writes, the guard and commands that keep its process, and  *)
(* the configuration that is rendered for it.  Which one a behaviour runs  *)
(* is chosen at its start; the variables of the others stay at one of      *)
(* their initial states.                                                   *)
(***************************************************************************)
EXTENDS Reports, HeartbeatConstants, ProcessGuardConstants

(* The parameters of ProbeYAML.                                            *)
CONSTANTS Item, Account, MaxItems

VARIABLES
  which,
  hb_kind, hb_db, hb_pc, hb_attempt, hb_cut, hb_status,
  pg_proc, pg_pidFile, pg_lock, pg_cmd, pg_manual, pg_kills,
  py_answer, py_clear, py_harvester

heartbeatVars == <<hb_kind, hb_db, hb_pc, hb_attempt, hb_cut, hb_status>>
guardVars == <<pg_proc, pg_pidFile, pg_lock, pg_cmd, pg_manual, pg_kills>>
renderVars == <<py_answer, py_clear, py_harvester>>
allVars == <<which, vars, heartbeatVars, guardVars, renderVars>>

Beat == INSTANCE Heartbeat WITH
  kind <- hb_kind, db <- hb_db, pc <- hb_pc, attempt <- hb_attempt,
  cut <- hb_cut, status <- hb_status

Guard == INSTANCE ProcessGuard WITH
  proc <- pg_proc, pidFile <- pg_pidFile, lock <- pg_lock, cmd <- pg_cmd,
  manual <- pg_manual, kills <- pg_kills

Yaml == INSTANCE ProbeYAML WITH
  answer <- py_answer, clear <- py_clear, harvester <- py_harvester

(* A proxy, whose ports are also those of others, a database and a redis.  *)
KeyOf(family, proxy) == [family |-> family, proxy |-> proxy]
ItemOf(k, port, adminPort) == [key |-> k, port |-> port, adminPort |-> adminPort]
MCItem ==
  {ItemOf(KeyOf("mysql", TRUE), 1, 2), ItemOf(KeyOf("mysql", TRUE), 2, 0),
   ItemOf(KeyOf("mysql", TRUE), 0, 3), ItemOf(KeyOf("mysql", FALSE), 1, 0),
   ItemOf(KeyOf("mysql", FALSE), 3, 2), ItemOf(KeyOf("redis", TRUE), 2, 1)}

MCInit ==
  /\ which \in {"reports", "heartbeat", "guard", "render"}
  /\ Init /\ Guard!Init /\ Yaml!Init
  /\ Beat!Init /\ (which # "heartbeat" => hb_kind = CHOOSE k \in Kinds : TRUE)

MCNext ==
  \/ which = "reports" /\ Next /\ UNCHANGED <<which, heartbeatVars, guardVars, renderVars>>
  \/ which = "heartbeat" /\ Beat!Next /\ UNCHANGED <<which, vars, guardVars, renderVars>>
  \/ which = "guard" /\ Guard!Next /\ UNCHANGED <<which, vars, heartbeatVars, renderVars>>
  \/ which = "render" /\ Yaml!Next /\ UNCHANGED <<which, vars, heartbeatVars, guardVars>>

(* Reports!Fairness asks nothing of its initial state.  That of            *)
(* ProcessGuard does, so it is stated for the behaviours that run it.      *)
InGuard(A) ==
  which = "guard" /\ A /\ UNCHANGED <<which, vars, heartbeatVars, renderVars>>

GuardFairness ==
  /\ \A p \in Proc : WF_allVars(InGuard(Guard!GuardStep(p)))
  /\ \A c \in Cmd : WF_allVars(InGuard(Guard!CommandStep(c)))
  /\ WF_allVars(InGuard(\E c \in Cmd : Guard!Ensure(c)))

MCSpec == MCInit /\ [][MCNext]_allVars /\ Fairness /\ GuardFairness

-----------------------------------------------------------------------------
(* The properties of the parts, as their modules state them.               *)

(* Heartbeat: no row of the heartbeat is written to the binlog.            *)
RowsStayLocal == Beat!RowsStayLocal
(* ProcessGuard: cron alone never keeps two guards.                        *)
CronKeepsOneGuard == which = "guard" => Guard!CronKeepsOneGuard
(* ProbeYAML: a cleared port is as if it were not there.                   *)
ClearedAsIfAbsent == Yaml!ClearedAsIfAbsent
(* ProcessGuard: cron alone brings the service back for good.              *)
CronRestores == <>[](which = "guard" /\ pg_manual = 0 => Guard!Restored)
=============================================================================
