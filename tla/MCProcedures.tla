---------------------------- MODULE MCProcedures ----------------------------
(***************************************************************************)
(* The procedures that move the writes of a cluster, one at a time: the    *)
(* switches of a TendbHA and of a TendbCluster, the check of the slave     *)
(* they rely on, the reset of a cluster by the operator tool, and what the *)
(* server records of a switch.  Each is a system of its own: which one a   *)
(* behaviour runs is chosen at its start, and the variables of the others  *)
(* stay at one of their initial states.                                    *)
(***************************************************************************)
EXTENDS MasterSwitch, SpiderSwitchConstants, SlaveCheckerConstants, ClusterResetConstants, TLC

CONSTANTS x1, x2, y1, y2, m1, m2, s1, s2, s3, h1

(* The parameters of SwitchRecord; a request without instances ends before *)
(* there is anything to record.                                            *)
CONSTANTS Inst, HostOf, ClusterOf, WithStandby, MaxWorkers

ASSUME RecordAssumption == Inst # {}

VARIABLES
  which,
  sp_down, sp_swapped, sp_named, sp_detached, sp_alive, sp_primaries,
  sp_follows, sp_done, sp_gap, sp_served, sp_lock, sp_pc, sp_unit,
  sp_primary, sp_others, sp_base,
  ck_log, ck_relay, ck_exec, ck_facts, ck_pc, ck_rounds,
  rs_kind, rs_pc, rs_work, rs_runs, rs_status, rs_role, rs_source, rs_io,
  rs_written, rs_pos, rs_route, rs_servers, rs_ctlSource, rs_primary,
  rs_domain, rs_clb, rs_clbRead,
  sr_scope, sr_pc, sr_db, sr_id, sr_row, sr_masters, sr_log, sr_line,
  sr_worker, sr_did, sr_failure, sr_new, sr_err, sr_alarm, sr_cut

spiderVars ==
  <<sp_down, sp_swapped, sp_named, sp_detached, sp_alive, sp_primaries,
    sp_follows, sp_done, sp_gap, sp_served, sp_lock, sp_pc, sp_unit,
    sp_primary, sp_others, sp_base>>
checkerVars == <<ck_log, ck_relay, ck_exec, ck_facts, ck_pc, ck_rounds>>
resetVars ==
  <<rs_kind, rs_pc, rs_work, rs_runs, rs_status, rs_role, rs_source, rs_io,
    rs_written, rs_pos, rs_route, rs_servers, rs_ctlSource, rs_primary,
    rs_domain, rs_clb, rs_clbRead>>
recordVars ==
  <<sr_scope, sr_pc, sr_db, sr_id, sr_row, sr_masters, sr_log, sr_line,
    sr_worker, sr_did, sr_failure, sr_new, sr_err, sr_alarm, sr_cut>>
allVars == <<which, vars, spiderVars, checkerVars, resetVars, recordVars>>

Spiders == INSTANCE SpiderSwitch WITH
  down <- sp_down, swapped <- sp_swapped, named <- sp_named,
  detached <- sp_detached, alive <- sp_alive, primaries <- sp_primaries,
  follows <- sp_follows, done <- sp_done, gap <- sp_gap, served <- sp_served,
  lock <- sp_lock, pc <- sp_pc, unit <- sp_unit, primary <- sp_primary,
  others <- sp_others, base <- sp_base

Checker == INSTANCE SlaveChecker WITH
  log <- ck_log, relay <- ck_relay, exec <- ck_exec, facts <- ck_facts,
  pc <- ck_pc, rounds <- ck_rounds

Reset == INSTANCE ClusterReset WITH
  kind <- rs_kind, pc <- rs_pc, work <- rs_work, runs <- rs_runs,
  status <- rs_status, role <- rs_role, source <- rs_source, io <- rs_io,
  written <- rs_written, pos <- rs_pos, route <- rs_route,
  servers <- rs_servers, ctlSource <- rs_ctlSource, primary <- rs_primary,
  domain <- rs_domain, clb <- rs_clb, clbRead <- rs_clbRead

Record == INSTANCE SwitchRecord WITH
  scope <- sr_scope, pc <- sr_pc, db <- sr_db, id <- sr_id, row <- sr_row,
  masters <- sr_masters, log <- sr_log, line <- sr_line,
  worker <- sr_worker, did <- sr_did, failure <- sr_failure, new <- sr_new,
  err <- sr_err, alarm <- sr_alarm, cut <- sr_cut

AnySwitch == Init /\ \A a \in Attempt : scope[a] = "cluster"
AnyCheck == Checker!Init /\ ck_facts = CHOOSE f \in Checker!Facts : TRUE
AnyReset ==
  /\ Reset!Init /\ rs_kind = "tendbha" /\ rs_role = Masters \cap Reset!Shards
  /\ rs_primary = {CtlMaster} /\ rs_domain = {} /\ rs_clb = ClbWanted

MCInit ==
  /\ which \in {"tendbha", "tendbcluster", "check", "reset", "record"}
  /\ IF which = "tendbha" THEN Init ELSE AnySwitch
  /\ Spiders!Init
  /\ IF which = "check" THEN Checker!Init ELSE AnyCheck
  /\ IF which = "reset" THEN Reset!Init ELSE AnyReset
  /\ Record!Init /\ (which # "record" => sr_scope = "host")

MCNext ==
  /\ UNCHANGED which
  /\ IF which = "tendbha" THEN Next ELSE UNCHANGED vars
  /\ IF which = "tendbcluster" THEN Spiders!Next ELSE UNCHANGED spiderVars
  /\ IF which = "check" THEN Checker!Next ELSE UNCHANGED checkerVars
  /\ IF which = "reset" THEN Reset!Next ELSE UNCHANGED resetVars
  /\ IF which = "record" THEN Record!Next ELSE UNCHANGED recordVars

MCSpec == MCInit /\ [][MCNext]_allVars

-----------------------------------------------------------------------------
(* The properties of the parts, as their modules state them.               *)

(* SpiderSwitch: at most one tdbctl node that answers is primary.          *)
OnePrimary == which = "tendbcluster" => Spiders!OnePrimary
(* SpiderSwitch: no spider uses a standby slave that still replicates.     *)
DetachedBeforeRouted == which = "tendbcluster" => Spiders!DetachedBeforeRouted
(* SlaveChecker: a slave that passes is as close as the limits say.        *)
PassedIsInStep == Checker!PassedIsInStep
(* ClusterReset: a reset that succeeds leaves the configured cluster.      *)
DoneMeansReset == which = "reset" => Reset!DoneMeansReset
(* ClusterReset: what DBM lists as running replicates as configured.       *)
RunningIsConsistent == which = "reset" => Reset!RunningIsConsistent
(* SwitchRecord: rows, alarms and log lines agree with what happened.      *)
ReportedAsItWas == Record!ReportedAsItWas
-----------------------------------------------------------------------------
Units == {{s1}, {h1}, {s2, h1}}
MCFollows == [k \in Kind |-> IF k = "tendbha" THEN [s \in {s1, s2} |-> m1]
                             ELSE [s \in {s1, s2} |-> IF s = s1 THEN m1 ELSE m2]]

(* Three instances; two share a host, two a cluster. *)
MCHostOf == [i \in Inst |-> IF i = "i3" THEN "h2" ELSE "h1"]
MCClusterOf == [i \in Inst |-> IF i = "i2" THEN "c2" ELSE "c1"]

(* The attempts are interchangeable, and the proxies of the TendbHA.       *)
Symmetry == Permutations({x1, x2}) \cup Permutations({y1, y2})
=============================================================================
