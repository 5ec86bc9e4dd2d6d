------------------------- MODULE SlidingWindowProofs -------------------------
(***************************************************************************)
(* Proofs about SlidingWindow for every set of instances, businesses and   *)
(* jobs and every value of the two durations.                              *)
(***************************************************************************)
EXTENDS SlidingWindow, TLAPS

-----------------------------------------------------------------------------
(* What the operations of the manager do, key by key. *)

LEMMA PushEffect ==
  ASSUME NEW m \in Manager, NEW i \in Inst, NEW lag \in 0 .. MaxLag
  PROVE  /\ Push(m, i, lag) \in Manager
         /\ \A x \in Inst \ {i} : /\ Push(m, i, lag).queue[x] = m.queue[x]
                                  /\ Push(m, i, lag).mark[x] = m.mark[x]
         /\ Fresh(m, i) => Push(m, i, lag) = m
         /\ ~Fresh(m, i) => /\ Push(m, i, lag).mark[i] = None
                            /\ Push(m, i, lag).queue[i] # None
  BY WindowAssumption, SlidingWindowAssumption
     DEF Push, Fresh, Marked, Manager, QueueAge, MarkAge

LEMMA PopEffect ==
  ASSUME NEW m \in Manager, NEW b \in Biz
  PROVE  /\ PopAndMarkStart(m, b) \in Manager
         /\ \A i \in Mature(m, b) : /\ PopAndMarkStart(m, b).queue[i] = None
                                    /\ PopAndMarkStart(m, b).mark[i] = 0
                                    /\ Queued(m, i)
         /\ \A i \in Inst \ Mature(m, b) :
              /\ PopAndMarkStart(m, b).queue[i] = m.queue[i]
              /\ PopAndMarkStart(m, b).mark[i] = m.mark[i]
  BY WindowAssumption
     DEF PopAndMarkStart, Mature, Queued, Manager, QueueAge, MarkAge

LEMMA MarkDoneEffect ==
  ASSUME NEW m \in Manager, NEW i \in Inst
  PROVE  /\ MarkDone(m, i) \in Manager
         /\ MarkDone(m, i).mark[i] = None
         /\ MarkDone(m, i).queue = m.queue
         /\ \A x \in Inst \ {i} : MarkDone(m, i).mark[x] = m.mark[x]
  BY DEF MarkDone, Manager

LEMMA ElapseEffect ==
  ASSUME NEW m \in Manager
  PROVE  /\ Elapse(m) \in Manager
         /\ \A i \in Inst :
              /\ Queued(Elapse(m), i) <=> Queued(m, i)
              /\ Marked(Elapse(m), i) <=> Marked(m, i)
              /\ Fresh(m, i) => Elapse(m).mark[i] = m.mark[i] + 1
  BY WindowAssumption
     DEF Elapse, Older, Manager, QueueAge, MarkAge, Queued, Marked, Fresh

-----------------------------------------------------------------------------

LEMMA TypeStep == TypeOK /\ [Next]_vars => TypeOK'
<1> SUFFICES ASSUME TypeOK, [Next]_vars PROVE TypeOK'
  OBVIOUS
<1>1. ASSUME NEW i \in Inst, ReportFailure(i) PROVE TypeOK'
  BY <1>1, PushEffect DEF ReportFailure, TypeOK
<1>2. ASSUME NEW j \in Job, NEW b \in Biz, StartJob(j, b) PROVE TypeOK'
  <2>1. mgr' \in Manager
    BY <1>2, PopEffect DEF StartJob, TypeOK
  <2>2. QED
    BY <1>2, <2>1, WindowAssumption DEF StartJob, TypeOK, MarkAge, Mature
<1>3. ASSUME NEW j \in Job, NEW i \in Inst, FinishKey(j, i) PROVE TypeOK'
  BY <1>3, MarkDoneEffect DEF FinishKey, TypeOK
<1>4. CASE Tick
  <2>1. mgr' \in Manager
    BY <1>4, ElapseEffect DEF Tick, TypeOK
  <2>2. held' \in [Job -> MarkAge]
    BY <1>4, WindowAssumption DEF Tick, TypeOK, Older, MarkAge
  <2>3. QED
    BY <1>4, <2>1, <2>2 DEF Tick, TypeOK
<1>5. CASE UNCHANGED vars
  BY <1>5 DEF vars, TypeOK
<1>6. QED
  BY <1>1, <1>2, <1>3, <1>4, <1>5 DEF Next

(* Every reachable state is well typed: the ages stay within the durations *)
(* they are compared with.                                                 *)
THEOREM TypeCorrect == Spec => []TypeOK
<1>1. Init => TypeOK
  BY WindowAssumption
     DEF Init, TypeOK, NewBizWindowManager, Manager, MarkAge
<1>2. QED
  BY <1>1, TypeStep, PTL DEF Spec

-----------------------------------------------------------------------------
(* The inductive invariant. While an instance is not overrun, each of its  *)
(* jobs is as old as its mark, and so still within inflightTTL: this is    *)
(* what keeps Push from letting the instance back into the window.         *)

JobsInStepWithMark ==
  \A i \in Inst \ overrun : \A j \in Job :
    i \in job[j] => /\ mgr.mark[i] = held[j]
                    /\ held[j] < InflightTTL

IInv ==
  /\ TypeOK
  /\ MarkedIsNotQueued
  /\ MarkHasJob
  /\ JobsInStepWithMark
  /\ ExclusiveUnlessOverrun

LEMMA IInvInit == Init => IInv
  BY WindowAssumption
     DEF Init, IInv, TypeOK, NewBizWindowManager, Manager, MarkAge, Marked,
         Queued, MarkedIsNotQueued, MarkHasJob, JobsInStepWithMark,
         ExclusiveUnlessOverrun

LEMMA IInvStep == IInv /\ [Next]_vars => IInv'
<1> SUFFICES ASSUME IInv, [Next]_vars PROVE IInv'
  OBVIOUS
<1>t. TypeOK /\ TypeOK'
  BY TypeStep DEF IInv
<1>1. ASSUME NEW i \in Inst, ReportFailure(i) PROVE IInv'
  <2>1. PICK lag \in 0 .. MaxLag : mgr' = Push(mgr, i, lag)
    BY <1>1 DEF ReportFailure
  <2>2. UNCHANGED <<job, held, overrun>>
    BY <1>1 DEF ReportFailure
  <2>3. \A x \in Inst \ {i} : mgr'.queue[x] = mgr.queue[x] /\ mgr'.mark[x] = mgr.mark[x]
    BY <2>1, <1>t, PushEffect DEF TypeOK
  <2>4. CASE Fresh(mgr, i)
    <3>1. mgr' = mgr
      BY <2>1, <2>4, <1>t, PushEffect DEF TypeOK
    <3>2. QED
      BY <3>1, <2>2, <1>t
         DEF IInv, MarkedIsNotQueued, MarkHasJob, JobsInStepWithMark,
             ExclusiveUnlessOverrun, Marked, Queued, Handled
  <2>5. CASE ~Fresh(mgr, i)
    <3>1. mgr'.mark[i] = None
      BY <2>1, <2>5, <1>t, PushEffect DEF TypeOK
    <3>2. i \in overrun \/ ~Handled(i)
      BY <2>5, WindowAssumption, <1>t
         DEF IInv, JobsInStepWithMark, Fresh, Marked, Handled, TypeOK, MarkAge
    <3>3. MarkedIsNotQueued' /\ MarkHasJob'
      BY <2>2, <2>3, <3>1
         DEF IInv, MarkedIsNotQueued, MarkHasJob, Marked, Queued, Handled
    <3>4. JobsInStepWithMark'
      BY <2>2, <2>3, <3>2 DEF IInv, JobsInStepWithMark, Handled
    <3>5. QED
      BY <1>t, <2>2, <3>3, <3>4 DEF IInv, ExclusiveUnlessOverrun
  <2>6. QED
    BY <2>4, <2>5
<1>2. ASSUME NEW j \in Job, NEW b \in Biz, StartJob(j, b) PROVE IInv'
  <2> DEFINE M == Mature(mgr, b)
  <2>1. /\ mgr' = PopAndMarkStart(mgr, b)
        /\ job[j] = {} /\ job'[j] = M /\ held'[j] = 0
        /\ \A k \in Job \ {j} : job'[k] = job[k] /\ held'[k] = held[k]
        /\ overrun' = overrun
    BY <1>2, <1>t DEF StartJob, TypeOK
  <2>2. \A i \in M : /\ i \in Inst
                     /\ mgr'.queue[i] = None
                     /\ mgr'.mark[i] = 0
                     /\ ~Marked(mgr, i)
    BY <2>1, <1>t, PopEffect DEF IInv, MarkedIsNotQueued, TypeOK, Mature
  <2>3. \A i \in Inst \ M : mgr'.queue[i] = mgr.queue[i] /\ mgr'.mark[i] = mgr.mark[i]
    BY <2>1, <1>t, PopEffect DEF TypeOK
  <2>4. \A i \in M \ overrun : ~Handled(i)
    BY <2>2, <1>t, WindowAssumption
       DEF IInv, JobsInStepWithMark, Marked, Handled, TypeOK, MarkAge
  <2>5. MarkedIsNotQueued'
    BY <2>2, <2>3 DEF IInv, MarkedIsNotQueued, Marked, Queued
  <2>6. MarkHasJob'
    <3>1. ASSUME NEW i \in Inst, Marked(mgr', i) PROVE \E k \in Job : i \in job'[k]
      <4>1. CASE i \in M
        BY <4>1, <2>1
      <4>2. CASE i \notin M
        <5>1. PICK k \in Job : i \in job[k]
          BY <3>1, <4>2, <2>3 DEF IInv, MarkHasJob, Marked, Handled
        <5>2. QED
          BY <5>1, <2>1
      <4>3. QED
        BY <4>1, <4>2
    <3>2. QED
      BY <3>1 DEF MarkHasJob, Handled, Marked
  <2>7. JobsInStepWithMark'
    <3>1. ASSUME NEW i \in Inst \ overrun, NEW k \in Job, i \in job'[k]
          PROVE  mgr'.mark[i] = held'[k] /\ held'[k] < InflightTTL
      <4>1. CASE k = j
        BY <3>1, <4>1, <2>1, <2>2, WindowAssumption
      <4>2. CASE k # j
        <5>1. i \in job[k] /\ held'[k] = held[k]
          BY <3>1, <4>2, <2>1
        <5>2. i \notin M
          BY <5>1, <2>4 DEF Handled
        <5>3. QED
          BY <5>1, <5>2, <2>3 DEF IInv, JobsInStepWithMark
      <4>3. QED
        BY <4>1, <4>2
    <3>2. QED
      BY <3>1, <2>1 DEF JobsInStepWithMark
  <2>8. ExclusiveUnlessOverrun'
    <3>1. ASSUME NEW i \in Inst \ overrun, NEW k \in Job, NEW l \in Job,
                 i \in job'[k], i \in job'[l]
          PROVE  k = l
      <4>1. CASE i \in M
        BY <3>1, <4>1, <2>1, <2>4 DEF Handled
      <4>2. CASE i \notin M
        BY <3>1, <4>2, <2>1 DEF IInv, ExclusiveUnlessOverrun
      <4>3. QED
        BY <4>1, <4>2
    <3>2. QED
      BY <3>1, <2>1 DEF ExclusiveUnlessOverrun
  <2>9. QED
    BY <1>t, <2>5, <2>6, <2>7, <2>8 DEF IInv
<1>3. ASSUME NEW j \in Job, NEW i \in Inst, FinishKey(j, i) PROVE IInv'
  <2>1. /\ mgr'.mark[i] = None
        /\ mgr'.queue = mgr.queue
        /\ \A x \in Inst \ {i} : mgr'.mark[x] = mgr.mark[x]
    BY <1>3, <1>t, MarkDoneEffect DEF FinishKey, TypeOK
  <2>2. /\ job'[j] = job[j] \ {i}
        /\ \A k \in Job \ {j} : job'[k] = job[k]
        /\ held' = held
    BY <1>3, <1>t DEF FinishKey, TypeOK
  <2>3. /\ \A x \in Inst \ {i} : x \in overrun' <=> x \in overrun
        /\ i \notin overrun' => \A k \in Job : i \notin job'[k]
    BY <1>3, <2>2 DEF FinishKey, IInv, ExclusiveUnlessOverrun
  <2>4. MarkedIsNotQueued'
    BY <2>1 DEF IInv, MarkedIsNotQueued, Marked, Queued
  <2>5. MarkHasJob'
    BY <2>1, <2>2 DEF IInv, MarkHasJob, Marked, Handled
  <2>6. JobsInStepWithMark'
    BY <2>1, <2>2, <2>3 DEF IInv, JobsInStepWithMark
  <2>7. ExclusiveUnlessOverrun'
    BY <2>2, <2>3 DEF IInv, ExclusiveUnlessOverrun
  <2>8. QED
    BY <1>t, <2>4, <2>5, <2>6, <2>7 DEF IInv
<1>4. CASE Tick
  <2>1. /\ job' = job
        /\ \A i \in Inst : /\ Queued(mgr', i) <=> Queued(mgr, i)
                           /\ Marked(mgr', i) <=> Marked(mgr, i)
                           /\ Fresh(mgr, i) => mgr'.mark[i] = mgr.mark[i] + 1
    BY <1>4, <1>t, ElapseEffect DEF Tick, TypeOK
  <2>2. MarkedIsNotQueued' /\ MarkHasJob'
    BY <2>1 DEF IInv, MarkedIsNotQueued, MarkHasJob, Handled, Marked, Queued
  <2>3. overrun \subseteq overrun'
    BY <1>4 DEF Tick
  <2>4. JobsInStepWithMark'
    <3>1. ASSUME NEW i \in Inst \ overrun', NEW k \in Job, i \in job[k]
          PROVE  mgr'.mark[i] = held'[k] /\ held'[k] < InflightTTL
      <4>1. mgr.mark[i] = held[k] /\ held[k] < InflightTTL
        BY <3>1, <2>3 DEF IInv, JobsInStepWithMark
      <4>2. held[k] \in Nat /\ held[k] # None
        BY <1>t, WindowAssumption DEF TypeOK, MarkAge
      <4>3. Fresh(mgr, i)
        BY <4>1, <4>2 DEF Fresh, Marked
      <4>4. held'[k] = held[k] + 1
        BY <1>4, <3>1, <4>1, <4>2, WindowAssumption DEF Tick, Older
      <4>5. held'[k] # InflightTTL
        BY <1>4, <3>1 DEF Tick
      <4>6. QED
        BY <4>1, <4>2, <4>3, <4>4, <4>5, <2>1, WindowAssumption
    <3>2. QED
      BY <3>1, <2>1 DEF JobsInStepWithMark
  <2>5. ExclusiveUnlessOverrun'
    BY <2>1, <2>3 DEF IInv, ExclusiveUnlessOverrun
  <2>6. QED
    BY <1>t, <2>2, <2>4, <2>5 DEF IInv
<1>5. CASE UNCHANGED vars
  BY <1>5, <1>t
     DEF vars, IInv, MarkedIsNotQueued, MarkHasJob, JobsInStepWithMark,
         ExclusiveUnlessOverrun, Marked, Queued, Handled
<1>6. QED
  BY <1>1, <1>2, <1>3, <1>4, <1>5 DEF Next

LEMMA IInvAlways == Spec => []IInv
  BY IInvInit, IInvStep, PTL DEF Spec

(* No instance is deaf to failures without a job that has it in hand. *)
THEOREM MarksAreBacked == Spec => [](MarkedIsNotQueued /\ MarkHasJob)
<1>1. IInv => MarkedIsNotQueued /\ MarkHasJob
  BY DEF IInv
<1>2. QED
  BY <1>1, IInvAlways, PTL

(* The inflight marks do prevent an instance from being in two jobs, for   *)
(* as long as every job on it ends within inflightTTL.                     *)
THEOREM ExclusiveHandling == Spec => []ExclusiveUnlessOverrun
<1>1. IInv => ExclusiveUnlessOverrun
  BY DEF IInv
<1>2. QED
  BY <1>1, IInvAlways, PTL

-----------------------------------------------------------------------------
(* The window implements the life cycle of a failure. *)

phaseBar == [i \in Inst |-> IF Queued(mgr, i) THEN "pending"
                            ELSE IF Marked(mgr, i) THEN "switching"
                            ELSE "quiet"]

LEMMA LifecycleStep == IInv /\ [Next]_vars => [Lifecycle!Next]_phaseBar
<1> SUFFICES ASSUME IInv, [Next]_vars PROVE [Lifecycle!Next]_phaseBar
  OBVIOUS
<1>t. mgr \in Manager /\ MarkedIsNotQueued
  BY DEF IInv, TypeOK
<1>1. ASSUME NEW i \in Inst, ReportFailure(i) PROVE [Lifecycle!Next]_phaseBar
  <2>1. PICK lag \in 0 .. MaxLag : mgr' = Push(mgr, i, lag)
    BY <1>1 DEF ReportFailure
  <2>2. CASE Fresh(mgr, i)
    <3>1. mgr' = mgr
      BY <2>1, <2>2, <1>t, PushEffect
    <3>2. QED
      BY <3>1 DEF phaseBar, Queued, Marked
  <2>3. CASE ~Fresh(mgr, i) /\ Queued(mgr, i)
    <3>1. Queued(mgr', i)
      BY <2>1, <2>3, <1>t, PushEffect DEF Queued
    <3>2. phaseBar' = phaseBar
      BY <2>1, <2>3, <3>1, <1>t, PushEffect DEF phaseBar, Queued, Marked
    <3>3. QED
      BY <3>2
  <2>4. CASE ~Fresh(mgr, i) /\ ~Queued(mgr, i)
    <3> DEFINE after == Push(mgr, i, lag)
    <3>a. /\ after.queue[i] # None
          /\ \A x \in Inst \ {i} : /\ after.queue[x] = mgr.queue[x]
                                   /\ after.mark[x] = mgr.mark[x]
      BY <2>4, <1>t, PushEffect
    <3>b. /\ phaseBar'[i] = "pending"
          /\ \A x \in Inst \ {i} : phaseBar'[x] = phaseBar[x]
      BY <2>1, <3>a DEF phaseBar, Queued, Marked
    <3>1. phaseBar' = [phaseBar EXCEPT ![i] = "pending"]
      BY <3>b DEF phaseBar
    <3>2. phaseBar[i] \in {"quiet", "switching"}
      BY <2>4 DEF phaseBar
    <3>3. QED
      BY <3>1, <3>2 DEF Lifecycle!Next, Lifecycle!Report, phaseBar
  <2>5. QED
    BY <2>2, <2>3, <2>4
<1>2. ASSUME NEW j \in Job, NEW b \in Biz, StartJob(j, b)
      PROVE  [Lifecycle!Next]_phaseBar
  <2> DEFINE M == Mature(mgr, b)
  <2>1. mgr' = PopAndMarkStart(mgr, b) /\ M # {} /\ M \in SUBSET Inst
    BY <1>2 DEF StartJob, Mature
  <2>2. \A i \in M : phaseBar[i] = "pending" /\ phaseBar'[i] = "switching"
    BY <2>1, <1>t, PopEffect, WindowAssumption DEF phaseBar, Queued, Marked, Mature
  <2>3. \A i \in Inst \ M : phaseBar'[i] = phaseBar[i]
    BY <2>1, <1>t, PopEffect DEF phaseBar, Queued, Marked
  <2>4. phaseBar' = [i \in Inst |-> IF i \in M THEN "switching" ELSE phaseBar[i]]
    BY <2>2, <2>3 DEF phaseBar
  <2>5. Lifecycle!Take(M)
    BY <2>1, <2>2, <2>4 DEF Lifecycle!Take, phaseBar
  <2>6. QED
    BY <2>1, <2>5 DEF Lifecycle!Next
<1>3. ASSUME NEW j \in Job, NEW i \in Inst, FinishKey(j, i)
      PROVE  [Lifecycle!Next]_phaseBar
  <2>1. mgr' = MarkDone(mgr, i)
    BY <1>3 DEF FinishKey
  <2>2. CASE Marked(mgr, i)
    <3>1. phaseBar[i] = "switching"
      BY <2>2, <1>t DEF phaseBar, MarkedIsNotQueued
    <3> DEFINE after == MarkDone(mgr, i)
    <3>a. /\ after.queue[i] = None /\ after.mark[i] = None
          /\ \A x \in Inst \ {i} : /\ after.queue[x] = mgr.queue[x]
                                   /\ after.mark[x] = mgr.mark[x]
      BY <2>2, <1>t, MarkDoneEffect DEF MarkedIsNotQueued, Queued
    <3>b. /\ phaseBar'[i] = "quiet"
          /\ \A x \in Inst \ {i} : phaseBar'[x] = phaseBar[x]
      BY <2>1, <3>a DEF phaseBar, Queued, Marked
    <3>2. phaseBar' = [phaseBar EXCEPT ![i] = "quiet"]
      BY <3>b DEF phaseBar
    <3>3. QED
      BY <3>1, <3>2 DEF Lifecycle!Next, Lifecycle!Release, phaseBar
  <2>3. CASE ~Marked(mgr, i)
    <3>1. phaseBar' = phaseBar
      BY <2>1, <2>3, <1>t, MarkDoneEffect DEF phaseBar, Queued, Marked
    <3>2. QED
      BY <3>1
  <2>4. QED
    BY <2>2, <2>3
<1>4. CASE Tick
  BY <1>4, <1>t, ElapseEffect DEF Tick, phaseBar
<1>5. CASE UNCHANGED vars
  BY <1>5 DEF vars, phaseBar, Queued, Marked
<1>6. QED
  BY <1>1, <1>2, <1>3, <1>4, <1>5 DEF Next

(* SlidingWindow implements FailureLifecycle: a pending failure leaves the *)
(* window only by being taken, and only a taken one is ever released.      *)
THEOREM WindowImplementsLifecycle == Spec => ImplementsLifecycle
<1>1. Init => Lifecycle!Init
  BY DEF Init, Lifecycle!Init, NewBizWindowManager, Queued, Marked
<1>2. IInv /\ [Next]_vars => [Lifecycle!Next]_phaseBar
  BY LifecycleStep
<1>3. QED
  BY <1>1, <1>2, IInvAlways, PTL
     DEF Spec, ImplementsLifecycle, Lifecycle!Spec, phaseBar
=============================================================================
