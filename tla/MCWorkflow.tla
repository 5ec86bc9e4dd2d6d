------------------------------ MODULE MCWorkflow ------------------------------
(***************************************************************************)
(* The sliding window of one server with overlapping jobs, and the passes  *)
(* of two servers that both believe a business is theirs.  Which of the    *)
(* two a behaviour runs is chosen at its start; the other one stays at its *)
(* initial state.                                                          *)
(***************************************************************************)
EXTENDS SlidingWindow

CONSTANTS AM, Pass, AMOf, HostOf, ClusterOf, MaxRuns
CONSTANTS i1, i2, i3, b1, b2, h1, h2, c1, a1, a2, p1, p2

MCBizOf == [i \in Inst |-> IF i = i3 THEN b2 ELSE b1]
MCAMOf == [p \in {p1, p2} |-> IF p = p2 THEN a2 ELSE a1]
MCHostOf == [i \in {i1, i3} |-> IF i = i3 THEN h2 ELSE h1]
MCClusterOf == [i \in {i1, i3} |-> c1]

VARIABLES
  which,
  ps_mgr, ps_users, ps_pc, ps_biz, ps_keys, ps_req, ps_scope, ps_todo,
  ps_doing, ps_status, ps_runs, ps_held, ps_overrun

passVars ==
  <<ps_mgr, ps_users, ps_pc, ps_biz, ps_keys, ps_req, ps_scope, ps_todo,
  ps_doing, ps_status, ps_runs, ps_held, ps_overrun>>
allVars == <<which, vars, passVars>>

(* Two servers with a pass each, two hosts of one cluster. *)
Passes == INSTANCE PopSwitch WITH
  Inst <- {i1, i3}, Biz <- {b1}, BizOf <- [i \in {i1, i3} |-> b1],
  WindowDuration <- 0, InflightTTL <- 1,
  mgr <- ps_mgr, users <- ps_users, pc <- ps_pc, biz <- ps_biz, keys <-
  ps_keys, req <- ps_req, scope <- ps_scope, todo <- ps_todo, doing <-
  ps_doing, status <- ps_status, runs <- ps_runs, held <- ps_held, overrun
  <- ps_overrun

MCInit == which \in {"window", "passes"} /\ Init /\ Passes!Init

MCNext ==
  \/ which = "window" /\ Next /\ UNCHANGED <<which, passVars>>
  \/ which = "passes" /\ Passes!Next /\ UNCHANGED <<which, vars>>

InWindow(A) == which = "window" /\ A

WindowFairness ==
  /\ WF_vars(InWindow(Tick))
  /\ \A b \in Biz : SF_vars(InWindow(\E j \in Job : StartJob(j, b)))
  /\ \A j \in Job, i \in Inst : WF_vars(FinishKey(j, i))

MCSpec == MCInit /\ [][MCNext]_allVars /\ WindowFairness

-----------------------------------------------------------------------------
(* The properties of the passes, as PopSwitch states them.                 *)

(* PopSwitch: what one server has switched, another never does, though the *)
(* first may die in the middle and both may take the business for theirs.  *)
SwitchedByOneServer == Passes!SwitchedByOneServer
=============================================================================
