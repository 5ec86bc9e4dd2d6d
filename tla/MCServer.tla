------------------------------- MODULE MCServer -------------------------------
(***************************************************************************)
(* Two sides of a running analysis server, one at a time: the switch lock  *)
(* it shares with other servers, and its loops up to their end.  Which one *)
(* a behaviour runs is chosen at its start; the variables of the other     *)
(* stay as they were initially.                                            *)
(***************************************************************************)
EXTENDS LockTracker

CONSTANTS
  a1, a2, a3, p1, p2, p3, b1, b2,
  ScanSlots, PopSlots, Capacity

MCAMOf == [p \in Pass |-> CASE p \in {p1, p2} -> a1
                             [] p = p3 -> a2
                             [] OTHER -> a3]

VARIABLES
  which,
  sc_svc, sc_closing, sc_scan, sc_toScan, sc_scans, sc_pop, sc_toPop,
  sc_passes, sc_slots, sc_stats, sc_reader, sc_watcher, sc_queue

closeVars ==
  <<sc_svc, sc_closing, sc_scan, sc_toScan, sc_scans, sc_pop, sc_toPop,
    sc_passes, sc_slots, sc_stats, sc_reader, sc_watcher, sc_queue>>
allVars == <<which, vars, closeVars>>

Server == INSTANCE ServiceClose WITH
  Biz <- {b1, b2},
  svc <- sc_svc, closing <- sc_closing, scan <- sc_scan,
  toScan <- sc_toScan, scans <- sc_scans, pop <- sc_pop, toPop <- sc_toPop,
  passes <- sc_passes, slots <- sc_slots, stats <- sc_stats,
  reader <- sc_reader, watcher <- sc_watcher, queue <- sc_queue

MCInit ==
  /\ which \in {"lock", "close"}
  /\ Init /\ Server!Init

MCNext ==
  \/ which = "lock" /\ Next /\ UNCHANGED <<which, closeVars>>
  \/ which = "close" /\ Server!Next /\ UNCHANGED <<which, vars>>

(* Fairness of LockTracker asks nothing of its initial state.  That of     *)
(* ServiceClose does, so it is stated for the behaviours that run it.      *)
InClose(A) == which = "close" /\ A /\ UNCHANGED <<which, vars>>

CloseFairness ==
  /\ WF_allVars(InClose(Server!Run))
  /\ WF_allVars(InClose(Server!ScanGoesOn)) /\ WF_allVars(InClose(Server!PopGoesOn))
  /\ SF_allVars(InClose(Server!ScanQuits)) /\ SF_allVars(InClose(Server!PopQuits))
  /\ WF_allVars(InClose(Server!StatsQuits))
  /\ WF_allVars(InClose(Server!Send)) /\ WF_allVars(InClose(Server!ReaderGoesOn))
  /\ SF_allVars(InClose(Server!ReaderQuits)) /\ SF_allVars(InClose(Server!WatcherQuits))
  /\ \A b \in {b1, b2} :
       /\ WF_allVars(InClose(Server!EndScan(b)))
       /\ WF_allVars(InClose(\E panics \in BOOLEAN : Server!EndPass(b, panics)))
  /\ WF_allVars(InClose(Server!WorkflowClosed)) /\ WF_allVars(InClose(Server!Exit))

MCSpec == MCInit /\ [][MCNext]_allVars /\ Fairness /\ CloseFairness

-----------------------------------------------------------------------------
(* The properties of the parts, as their modules state them.               *)

(* ServiceClose: a server that is told to stop does.                       *)
CloseReturns == Server!CloseReturns
(* ServiceClose: no business waits for its pass for ever.                  *)
EveryBizGetsItsPass == Server!EveryBizGetsItsPass
=============================================================================
