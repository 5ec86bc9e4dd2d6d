---------------------------- MODULE WindowManager ----------------------------
(***************************************************************************)
(* The data of one BizWindowManager and its operations as functions on it. *)
(* A manager value is a record                                             *)
(*   queue : per instance key, how long ago FirstAt was, or None when the  *)
(*           business window holds no entry for the key;                   *)
(*   mark  : per instance key, how long ago the inflight mark was set, or  *)
(*           None.                                                         *)
(* Clock readings are kept as ages.  The code compares them with the two   *)
(* configured durations only, so an age stops growing once it is past the  *)
(* duration it is compared with: time is unbounded, the state is not.      *)
(* The per-entry Count and the event text feed logs and are left out.      *)
(***************************************************************************)
EXTENDS Naturals

CONSTANTS
  Inst,            \* instance keys bkCloudID:ip:port:dbType
  Biz,             \* businesses
  BizOf,           \* the business whose window an instance is pushed into
  WindowDuration,  \* how long an entry waits before it may be popped
  InflightTTL,     \* how long an inflight mark suppresses new pushes
  None

ASSUME WindowAssumption ==
  /\ BizOf \in [Inst -> Biz]
  /\ WindowDuration \in Nat
  /\ InflightTTL \in Nat \ {0}
  /\ None \notin Nat

QueueAge == 0 .. WindowDuration + 1
MarkAge  == 0 .. InflightTTL

Manager == [queue : [Inst -> QueueAge \cup {None}],
            mark  : [Inst -> MarkAge \cup {None}]]

(* The manager of the instances S. *)
NewBizWindowManager(S) == [queue |-> [i \in S |-> None],
                           mark  |-> [i \in S |-> None]]

Queued(m, i) == m.queue[i] # None
Marked(m, i) == m.mark[i] # None

(* A mark suppresses pushes while time.Since(startAt) < inflightTTL. *)
Fresh(m, i)  == Marked(m, i) /\ m.mark[i] < InflightTTL

(* A mistake: to restart the wait of an entry on every report. *)
PushRestartsWait(m, i, lag) ==
  IF Fresh(m, i) THEN m
  ELSE [queue |-> [m.queue EXCEPT ![i] = lag],
        mark  |-> [m.mark EXCEPT ![i] = None]]

(* Push(bizId, inst, at), where `at` was read `lag` ago: a fresh mark      *)
(* discards the event, an expired one is deleted; an entry that is already *)
(* in the window keeps its FirstAt.                                        *)
Push(m, i, lag) ==
  IF Fresh(m, i) THEN m
  ELSE [queue |-> [m.queue EXCEPT ![i] = IF @ = None THEN lag ELSE @],
        mark  |-> [m.mark EXCEPT ![i] = None]]

(* The entries of a business whose FirstAt is strictly before              *)
(* now - windowDuration.                                                   *)
Mature(m, b) ==
  {i \in Inst : BizOf[i] = b /\ Queued(m, i) /\ m.queue[i] > WindowDuration}

(* Two mistakes of the pop: to mark nothing (the plain Pop of the same     *)
(* file), and to drop the whole business window with the mature entries.   *)
PopWithoutMark(m, b) ==
  [m EXCEPT !.queue = [i \in Inst |-> IF i \in Mature(m, b) THEN None ELSE @[i]]]

PopDropsWindow(m, b) ==
  [queue |-> [i \in Inst |-> IF BizOf[i] = b THEN None ELSE m.queue[i]],
   mark  |-> [i \in Inst |-> IF i \in Mature(m, b) THEN 0 ELSE m.mark[i]]]

(* Takes the mature entries out of the window and marks every one of them, *)
(* in one critical section.                                                *)
PopAndMarkStart(m, b) ==
  [queue |-> [i \in Inst |-> IF i \in Mature(m, b) THEN None ELSE m.queue[i]],
   mark  |-> [i \in Inst |-> IF i \in Mature(m, b) THEN 0 ELSE m.mark[i]]]

(* A mistake of MarkDone: to leave expired marks to the cleanup in Push.   *)
MarkDoneFreshOnly(m, i) ==
  IF Fresh(m, i) THEN [m EXCEPT !.mark[i] = None] ELSE m

(* Deletes the mark, whoever set it. *)
MarkDone(m, i) == [m EXCEPT !.mark[i] = None]

Older(age, limit) == IF age = None \/ age >= limit THEN age ELSE age + 1

(* One unit of time passes. *)
Elapse(m) ==
  [queue |-> [i \in Inst |-> Older(m.queue[i], WindowDuration + 1)],
   mark  |-> [i \in Inst |-> Older(m.mark[i], InflightTTL)]]
=============================================================================
