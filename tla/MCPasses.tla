------------------------------ MODULE MCPasses ------------------------------
(***************************************************************************)
(* Overlapping passes of one server over its window, and two things that   *)
(* decide what a pass switches: the strategies that admin requests edit,   *)
(* and the whitelist that the bwmgr tool edits.  The three share no state, *)
(* so a behaviour runs one of them, chosen at its start; the variables of  *)
(* the others stay as they were initially.                                 *)
(***************************************************************************)
EXTENDS PopSwitch, StrategiesConstants, WhitelistConstants, TLC

CONSTANTS a1, i1, h1, b1, p1, p2

MCAMOf == [p \in Pass |-> a1]
MCBizOf == [i \in Inst |-> b1]
(* The instances share a machine, each is a cluster of its own. *)
MCHostOf == [i \in Inst |-> h1]
MCClusterOf == [i \in Inst |-> i]

(* Two strategies of one business, one that counts a single failure and    *)
(* one that wants a cluster with both of its parts gone, and a global one. *)
MCContent ==
  {[name |-> "n1", biz |-> 1, event |-> "down", count |-> 1, prio |-> 1],
   [name |-> "n2", biz |-> 1, event |-> "pair", count |-> 0, prio |-> 0],
   [name |-> "n1", biz |-> Global, event |-> "down", count |-> 1, prio |-> 0]}
MCFailed ==
  {[event |-> "down", cluster |-> "c1", part |-> "front"],
   [event |-> "full", cluster |-> "c1", part |-> "master"],
   [event |-> "down", cluster |-> "c2", part |-> "master"]}

(* Files that touch a cluster twice, with one action undoing the other. *)
EntryOf(act, s) == [act |-> act, cluster |-> "c1", set |-> s]
MCFile ==
  {<<EntryOf("add", [version |-> "v2", status |-> "disabled"]),
     EntryOf("update", [status |-> "enabled"])>>,
   <<EntryOf("update", [version |-> "v1"]), EntryOf("delete", <<>>)>>,
   <<EntryOf("delete", <<>>), EntryOf("add", [version |-> "v2"])>>}

VARIABLES
  which,
  st_rows, st_job,
  wl_rows, wl_run, wl_late, wl_expect, wl_alone

strategyVars == <<st_rows, st_job>>
whitelistVars == <<wl_rows, wl_run, wl_late, wl_expect, wl_alone>>
allVars == <<which, vars, strategyVars, whitelistVars>>

Table == INSTANCE Strategies WITH
  rows <- st_rows, job <- st_job

List == INSTANCE Whitelist WITH
  rows <- wl_rows, run <- wl_run, late <- wl_late,
  expect <- wl_expect, alone <- wl_alone

MCInit ==
  /\ which \in {"passes", "strategies", "whitelist"}
  /\ Init /\ Table!Init /\ List!Init

MCNext ==
  \/ which = "passes" /\ Next /\ UNCHANGED <<which, strategyVars, whitelistVars>>
  \/ which = "strategies" /\ Table!Next /\ UNCHANGED <<which, vars, whitelistVars>>
  \/ which = "whitelist" /\ List!Next /\ UNCHANGED <<which, vars, strategyVars>>

MCSpec == MCInit /\ [][MCNext]_allVars

PassSymmetry == Permutations(Pass)

-----------------------------------------------------------------------------
(* The properties of the parts, as their modules state them.               *)

(* Strategies: a deleted strategy stays deleted and as it was.             *)
DeletedForGood == Table!DeletedForGood
(* Strategies: a global strategy triggers only when no own one does.       *)
OwnStrategiesFirst == which = "strategies" => Table!OwnStrategiesFirst
(* Whitelist: success means that the table is what the file makes of it.   *)
ImportedIsStored == List!ImportedIsStored
=============================================================================
