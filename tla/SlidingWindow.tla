---------------------------- MODULE SlidingWindow ----------------------------
(***************************************************************************)
(* The sliding window of one analysis server with its users: the scans     *)
(* that push confirmed failures, and the pop passes that take mature       *)
(* failures and handle them.  A Job is one failure group in the hands of a *)
(* pop pass; the jobs of one server overlap, because PopAndSwitch starts a *)
(* pass per tick and does not wait for the passes of earlier ticks.        *)
(***************************************************************************)
EXTENDS WindowManager

CONSTANTS
  Job,     \* failure groups that may be handled at a time
  MaxLag   \* bound: time between the clock reading of a scan and its Push

ASSUME SlidingWindowAssumption ==
  MaxLag \in Nat /\ MaxLag <= WindowDuration + 1

VARIABLES
  mgr,      \* the BizWindowManager
  job,      \* the instance keys each job still has to MarkDone
  held,     \* how long each job has been in hand
  overrun   \* history: instances that some job has kept for InflightTTL

vars == <<mgr, job, held, overrun>>

Handled(i) == \E j \in Job : i \in job[j]

Init ==
  /\ mgr = NewBizWindowManager(Inst)
  /\ job = [j \in Job |-> {}]
  /\ held = [j \in Job |-> 0]
  /\ overrun = {}

(* LivenessDoubleCheck reports an instance of a host that SSH cannot reach. *)
ReportFailure(i) ==
  /\ \E lag \in 0 .. MaxLag : mgr' = Push(mgr, i, lag)
  /\ UNCHANGED <<job, held, overrun>>

(* popAndSwitchForBiz takes what is mature and hands it to a job. *)
StartJob(j, b) ==
  /\ job[j] = {}
  /\ Mature(mgr, b) # {}
  /\ mgr' = PopAndMarkStart(mgr, b)
  /\ job' = [job EXCEPT ![j] = Mature(mgr, b)]
  /\ held' = [held EXCEPT ![j] = 0]
  /\ UNCHANGED overrun

(* markDoneAll, one key at a time. *)
FinishKey(j, i) ==
  /\ i \in job[j]
  /\ mgr' = MarkDone(mgr, i)
  /\ job' = [job EXCEPT ![j] = @ \ {i}]
  /\ overrun' = IF \E k \in Job \ {j} : i \in job[k] THEN overrun
                ELSE overrun \ {i}
  /\ UNCHANGED held

Tick ==
  /\ mgr' = Elapse(mgr)
  /\ held' = [j \in Job |-> IF job[j] = {} THEN held[j]
                            ELSE Older(held[j], InflightTTL)]
  /\ overrun' = overrun \cup
       {i \in Inst : \E j \in Job : i \in job[j] /\ held'[j] = InflightTTL}
  /\ UNCHANGED job

Next ==
  \/ \E i \in Inst : ReportFailure(i)
  \/ \E j \in Job, b \in Biz : StartJob(j, b)
  \/ \E j \in Job, i \in Inst : FinishKey(j, i)
  \/ Tick

(* Time passes; the pop loop visits every business each popInterval; a job *)
(* ends, because handleFailureGroup defers markDoneAll and runs the switch *)
(* under a deadline.  Nothing makes an instance fail or be reported.       *)
Fairness ==
  /\ WF_vars(Tick)
  /\ \A b \in Biz : SF_vars(\E j \in Job : StartJob(j, b))
  /\ \A j \in Job, i \in Inst : WF_vars(FinishKey(j, i))

Spec == Init /\ [][Next]_vars
FairSpec == Spec /\ Fairness

-----------------------------------------------------------------------------

TypeOK ==
  /\ mgr \in Manager
  /\ job \in [Job -> SUBSET Inst]
  /\ held \in [Job -> MarkAge]
  /\ overrun \in SUBSET Inst

(* An instance that carries an inflight mark has no entry waiting in the   *)
(* window (PopAndMarkStart and Push share one lock), so a mark is never    *)
(* overwritten by a second pop while it stands.                            *)
MarkedIsNotQueued ==
  \A i \in Inst : ~(Marked(mgr, i) /\ Queued(mgr, i))

(* A failure is discarded by Push only while some job really has the       *)
(* instance in hand: no mark outlives the last job of its instance, so no  *)
(* instance is deaf to failures with nobody working on it.                 *)
MarkHasJob ==
  \A i \in Inst : Marked(mgr, i) => Handled(i)

(* As long as every job on an instance ends within inflightTTL, no two     *)
(* jobs have the instance in hand at once.                                 *)
ExclusiveUnlessOverrun ==
  \A i \in Inst \ overrun :
    \A j, k \in Job : i \in job[j] /\ i \in job[k] => j = k

(* A mature failure is popped, whatever is reported in the meantime: a     *)
(* repeated report does not postpone FirstAt.                              *)
QueuedIsHandled ==
  \A i \in Inst : Queued(mgr, i) ~> Handled(i)

(* The window implements the life cycle of a failure: an instance is       *)
(* "pending" while its entry waits, "switching" while its mark stands.     *)
Lifecycle == INSTANCE FailureLifecycle WITH
  phase <- [i \in Inst |-> IF Queued(mgr, i) THEN "pending"
                           ELSE IF Marked(mgr, i) THEN "switching"
                           ELSE "quiet"]

(* Every step of the window is a step of the life cycle: in particular a   *)
(* pending failure leaves the window only by being handed to a job.        *)
ImplementsLifecycle == Lifecycle!Spec
=============================================================================
