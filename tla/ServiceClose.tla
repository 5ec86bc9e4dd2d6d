----------------------------- MODULE ServiceClose -----------------------------
(***************************************************************************)
(* The loops of an analysis server and how they end.  Workflow.Run starts  *)
(* a scan loop, a pop loop, a loop over registry events and one for        *)
(* statistics; scans and passes run beside their loops, bounded by         *)
(* semaphores.  A signal makes a goroutine call Service.Close, which waits *)
(* for the loops but not for the passes, and then ends the process.        *)
(***************************************************************************)
EXTENDS Naturals, FiniteSets

CONSTANTS
  Biz,       \* the businesses assigned to the server
  ScanSlots, \* the semaphore of ScanBusinesses
  PopSlots,  \* popSwitchSem
  Capacity   \* the buffer of a watch's event channel

VARIABLES
  svc,      \* Service.Run: starting, or its ticker runs
  closing,  \* where Service.Close is
  scan,     \* the scan loop: wait, spawn, join, gone
  toScan,   \* businesses of this round without a scan yet
  scans,    \* scans under way
  pop,      \* the pop loop: wait, spawn, gone
  toPop,    \* businesses of this round without a pass yet
  passes,   \* passes of each business; those of two rounds may overlap
  slots,    \* slots of popSwitchSem that are taken
  stats,    \* the statistics loop: wait, gone
  reader,   \* InstanceDiscovery.RunWatch: start, refresh, loop, gone
  watcher,  \* the goroutine of Discovery.watchCommon: wait, send, gone
  queue     \* events in the channel between the two

scanLoop == <<scan, toScan, scans>>
popLoop == <<pop, toPop, passes, slots>>
watch == <<reader, watcher, queue>>
vars == <<svc, closing, scanLoop, popLoop, stats, watch>>

Init ==
  /\ svc = "starting" /\ closing = "no"
  /\ scan = "off" /\ toScan = {} /\ scans = {}
  /\ pop = "off" /\ toPop = {} /\ passes = [b \in Biz |-> 0] /\ slots = 0
  /\ stats = "off"
  /\ reader = "off" /\ watcher = "off" /\ queue = 0

Alive == closing \notin {"exit", "panic"}

(* createWorkflow, Workflow.Run *)
Run ==
  /\ Alive /\ svc = "starting"
  /\ svc' = "running"
  /\ scan' = "wait" /\ pop' = "wait" /\ stats' = "wait"
  /\ reader' = "start"
  /\ UNCHANGED <<closing, toScan, scans, toPop, passes, slots, watcher, queue>>

(* The storage, the notifier, the APM server or the workflow cannot be     *)
(* created: Service.Run returns the error, which ends the process.         *)
RunFails ==
  /\ closing = "no" /\ svc = "starting"
  /\ closing' = "exit"
  /\ UNCHANGED <<svc, scanLoop, popLoop, stats, watch>>

Quit == closing # "no"

-----------------------------------------------------------------------------
(* ScanBusinesses *)

ScanTick ==
  /\ Alive /\ scan = "wait"
  /\ scan' = "spawn"
  /\ toScan' \in SUBSET Biz   \* {}: the businesses could not be read
  /\ UNCHANGED <<svc, closing, scans, popLoop, stats, watch>>

StartScan(b) ==
  /\ Alive /\ scan = "spawn" /\ b \in toScan
  /\ Cardinality(scans) < ScanSlots
  /\ scans' = scans \cup {b} /\ toScan' = toScan \ {b}
  /\ UNCHANGED <<svc, closing, scan, popLoop, stats, watch>>

(* By an error, a panic that safe.Run swallows, or at its end. *)
EndScan(b) ==
  /\ Alive /\ b \in scans
  /\ scans' = scans \ {b}
  /\ UNCHANGED <<svc, closing, scan, toScan, popLoop, stats, watch>>

ScanDone ==
  /\ Alive /\ scan = "spawn" /\ toScan = {} /\ scans = {}
  /\ scan' = "wait"
  /\ UNCHANGED <<svc, closing, toScan, scans, popLoop, stats, watch>>

ScanQuits ==
  /\ Alive /\ Quit /\ scan = "wait"
  /\ scan' = "gone"
  /\ UNCHANGED <<svc, closing, toScan, scans, popLoop, stats, watch>>

-----------------------------------------------------------------------------
(* PopAndSwitch *)

PopTick ==
  /\ Alive /\ pop = "wait"
  /\ pop' = "spawn"
  /\ toPop' \in SUBSET Biz
  /\ UNCHANGED <<svc, closing, scanLoop, passes, slots, stats, watch>>

(* Blocked while the semaphore is full, whoever quits. *)
StartPass(b) ==
  /\ Alive /\ pop = "spawn" /\ b \in toPop
  /\ slots < PopSlots
  /\ passes' = [passes EXCEPT ![b] = @ + 1] /\ slots' = slots + 1
  /\ toPop' = toPop \ {b}
  /\ UNCHANGED <<svc, closing, scanLoop, pop, stats, watch>>

(* A mistake: to give the slot back as the last statement of a pass, which *)
(* a panic skips.                                                          *)
EndPassNormally(b, panics) ==
  /\ Alive /\ passes[b] > 0
  /\ passes' = [passes EXCEPT ![b] = @ - 1]
  /\ slots' = IF panics THEN slots ELSE slots - 1
  /\ UNCHANGED <<svc, closing, scanLoop, pop, toPop, stats, watch>>

(* The deferred receive gives the slot back, after a panic too. *)
EndPass(b, panics) ==
  /\ Alive /\ passes[b] > 0
  /\ passes' = [passes EXCEPT ![b] = @ - 1] /\ slots' = slots - 1
  /\ UNCHANGED <<svc, closing, scanLoop, pop, toPop, stats, watch>>

PopDone ==
  /\ Alive /\ pop = "spawn" /\ toPop = {}
  /\ pop' = "wait"
  /\ UNCHANGED <<svc, closing, scanLoop, toPop, passes, slots, stats, watch>>

PopQuits ==
  /\ Alive /\ Quit /\ pop = "wait"
  /\ pop' = "gone"
  /\ UNCHANGED <<svc, closing, scanLoop, toPop, passes, slots, stats, watch>>

(* reportDbTableUpdatedStats changes nothing but gauges. *)
StatsQuits ==
  /\ Alive /\ Quit /\ stats = "wait"
  /\ stats' = "gone"
  /\ UNCHANGED <<svc, closing, scanLoop, popLoop, watch>>

-----------------------------------------------------------------------------
(* Discovery.watchCommon and InstanceDiscovery.RunWatch *)

(* RunWatch: the watch stands or is refused, which ends it. *)
Watch(stands) ==
  /\ Alive /\ reader = "start"
  /\ reader' = IF stands THEN "refresh" ELSE "gone"
  /\ watcher' = IF stands THEN "wait" ELSE "gone"
  /\ UNCHANGED <<svc, closing, scanLoop, popLoop, stats, queue>>

(* A change of the registry. *)
Event ==
  /\ Alive /\ watcher = "wait"
  /\ watcher' = "send"
  /\ UNCHANGED <<svc, closing, scanLoop, popLoop, stats, reader, queue>>

Send ==
  /\ Alive /\ watcher = "send" /\ queue < Capacity
  /\ queue' = queue + 1 /\ watcher' = "wait"
  /\ UNCHANGED <<svc, closing, scanLoop, popLoop, stats, reader>>

(* The watch fails: the client and the event channel are closed. *)
WatchEnds ==
  /\ Alive /\ watcher = "wait"
  /\ watcher' = "gone"
  /\ UNCHANGED <<svc, closing, scanLoop, popLoop, stats, reader, queue>>

Receive ==
  /\ Alive /\ reader = "loop" /\ queue > 0
  /\ queue' = queue - 1 /\ reader' = "refresh"
  /\ UNCHANGED <<svc, closing, scanLoop, popLoop, stats, watcher>>

(* The goroutine of a failed watch has taken the client away: a refresh    *)
(* after that ends the process.                                            *)
RefreshList ==
  /\ Alive /\ reader = "refresh"
  /\ IF watcher = "gone"
     THEN closing' = "panic" /\ reader' = reader
     ELSE reader' = "loop" /\ closing' = closing
  /\ UNCHANGED <<svc, scanLoop, popLoop, stats, watcher, queue>>

(* A mistake: to wait for the channel to be closed, which Close does later. *)
ReaderQuitsLast ==
  /\ Alive /\ reader = "loop"
  /\ watcher = "gone" /\ queue = 0
  /\ reader' = "gone"
  /\ UNCHANGED <<svc, closing, scanLoop, popLoop, stats, watcher, queue>>

ReaderQuits ==
  /\ Alive /\ reader = "loop"
  /\ Quit \/ (watcher = "gone" /\ queue = 0)
  /\ reader' = "gone"
  /\ UNCHANGED <<svc, closing, scanLoop, popLoop, stats, watcher, queue>>

(* d.quit is another channel than the workflow's: closed by                *)
(* Discovery.Close.  A goroutine that waits for room does not look at it.  *)
WatcherQuits ==
  /\ Alive /\ closing = "discovery" /\ watcher = "wait"
  /\ watcher' = "gone"
  /\ UNCHANGED <<svc, closing, scanLoop, popLoop, stats, reader, queue>>

-----------------------------------------------------------------------------
(* Service.Close, called by the goroutine that waits for signals *)

(* The server is not up yet: there is no workflow to close.  *)
CloseEarly ==
  /\ closing = "no" /\ svc = "starting"
  /\ closing' = "panic"
  /\ UNCHANGED <<svc, scanLoop, popLoop, stats, watch>>

Close ==
  /\ closing = "no" /\ svc = "running"
  /\ closing' = "workflow"
  /\ UNCHANGED <<svc, scanLoop, popLoop, stats, watch>>

(* Workflow.Close: wg.Wait *)
WorkflowClosed ==
  /\ closing = "workflow"
  /\ scan = "gone" /\ pop = "gone" /\ stats = "gone" /\ reader = "gone"
  /\ closing' = "discovery"
  /\ UNCHANGED <<svc, scanLoop, popLoop, stats, watch>>

(* Discovery.Close has waited for its goroutine; the APM server stops; the *)
(* process exits, and with it the passes.                                  *)
Exit ==
  /\ closing = "discovery" /\ watcher = "gone"
  /\ closing' = "exit"
  /\ UNCHANGED <<svc, scanLoop, popLoop, stats, watch>>

-----------------------------------------------------------------------------
ScanGoesOn == ScanTick \/ ScanDone \/ \E b \in Biz : StartScan(b)
PopGoesOn == PopTick \/ PopDone \/ \E b \in Biz : StartPass(b)
ReaderGoesOn == (\E stands \in BOOLEAN : Watch(stands)) \/ Receive \/ RefreshList

Next ==
  \/ Run \/ RunFails \/ ScanGoesOn \/ PopGoesOn \/ ReaderGoesOn
  \/ \E b \in Biz : EndScan(b) \/ \E panics \in BOOLEAN : EndPass(b, panics)
  \/ Event \/ Send \/ WatchEnds
  \/ ScanQuits \/ PopQuits \/ StatsQuits \/ ReaderQuits \/ WatcherQuits
  \/ CloseEarly \/ Close \/ WorkflowClosed \/ Exit

(* The loops go on; a select that is offered quit again and again takes it *)
(* in the end; scans and passes end, as all their calls have timeouts.     *)
Fairness ==
  /\ WF_vars(Run)
  /\ WF_vars(ScanGoesOn) /\ WF_vars(PopGoesOn)
  /\ SF_vars(ScanQuits) /\ SF_vars(PopQuits) /\ WF_vars(StatsQuits)
  /\ WF_vars(Send) /\ WF_vars(ReaderGoesOn)
  /\ SF_vars(ReaderQuits) /\ SF_vars(WatcherQuits)
  /\ \A b \in Biz :
       WF_vars(EndScan(b)) /\ WF_vars(\E panics \in BOOLEAN : EndPass(b, panics))
  /\ WF_vars(WorkflowClosed) /\ WF_vars(Exit)

Spec == Init /\ [][Next]_vars /\ Fairness

-----------------------------------------------------------------------------
(* Nobody reads the channel of a watcher that waits for room in it. *)
Stuck == watcher = "send" /\ queue = Capacity /\ reader = "gone"

(* A server that is told to stop ends, whatever its loops are doing: only  *)
(* an event channel that filled up after its reader left can hold it.      *)
CloseReturns == closing = "workflow" ~> ~Alive \/ Stuck

(* A business that a round of the pop loop has found gets its pass, though *)
(* slots are few and passes may panic; it is only lost when the process    *)
(* ends.                                                                   *)
EveryBizGetsItsPass ==
  \A b \in Biz : b \in toPop ~> b \notin toPop \/ ~Alive
=============================================================================
