--------------------------- MODULE ProceduresProofs ---------------------------
(***************************************************************************)
(* Proofs about the procedures that MCProcedures puts side by side, for    *)
(* any clusters, requests, attempts and numbers of workers: the failover   *)
(* of a TendbHA (MasterSwitch) and of a TendbCluster (SpiderSwitch), what  *)
(* the server records of a switch (SwitchRecord), the reset of a cluster   *)
(* (ClusterReset), and the check of a slave (SlaveChecker).                *)
(***************************************************************************)
EXTENDS MCProcedures, Sequences, FiniteSetTheorems, WellFoundedInduction, TLAPS

-----------------------------------------------------------------------------
(* MasterSwitch: any number of attempts and of proxies, any set of action  *)
(* scopes.                                                                 *)

Moving == {"cut", "reset", "point", "swap"}

(* The lock is with the attempt that is in the middle of its switch.       *)
LockHeld ==
  /\ LockInUse
  /\ \A a \in Attempt : pc[a] \in Locked => lock = a

(* Nothing ever makes the first master a slave, or the standby slave the   *)
(* slave of another node.                                                  *)
Sources == source[Old] = Nobody /\ source[New] \in {Old, Nobody}

(* What the request of an attempt does not list as available is listed as  *)
(* unavailable, and stays so; so is its unit, once DBM has been told.      *)
SkippedAreDown(a) ==
  /\ pc[a] # "idle" =>
       \A x \in Member \ seen[a].up : status[x] = "unavailable"
  /\ pc[a] \notin {"idle", "begun"} =>
       \A x \in unit[a] : status[x] = "unavailable"

(* Only the first master is ever switched: the check of an attempt on the  *)
(* new one fails, because the old one replicates from nobody.              *)
MovesFromOld(a) ==
  /\ pc[a] \in Locked \cup {"checked"} /\ SwitchesMaster(a) =>
       seen[a].master = Old
  /\ pc[a] \in Moving => SwitchesMaster(a)

(* Where the proxies that an attempt moves are, at each of its stages.     *)
Rounds(a) ==
  /\ pc[a] = "cut" => \A p \in Available(a) \ left[a] : backend[p] = Nobody
  /\ pc[a] = "reset" => \A p \in Available(a) : backend[p] = Nobody
  /\ pc[a] = "point" => \A p \in Available(a) :
       backend[p] = IF p \in left[a] THEN Nobody ELSE New
  /\ pc[a] = "swap" => \A p \in Available(a) : backend[p] = New
  /\ pc[a] \in {"point", "swap"} => source[New] = Nobody

(* What was checked under the lock holds until the slave is reset; only    *)
(* host scope is ever between its check and its switch without the lock.   *)
CheckFresh(a) ==
  /\ pc[a] \in {"names", "cut", "reset"} /\ scope[a] # "host"
       /\ SwitchesMaster(a) => source[New] = Old
  /\ pc[a] = "checked" => scope[a] = "host"

SwitchInv(a) ==
  SkippedAreDown(a) /\ MovesFromOld(a) /\ Rounds(a) /\ CheckFresh(a)

IInv ==
  /\ TypeOK
  /\ LockHeld
  /\ Sources
  /\ OneWritable
  /\ DetachedBeforeTraffic
  /\ \A a \in Attempt : SwitchInv(a)

(* An attempt that a step leaves alone. *)
SameFor(a) ==
  /\ pc'[a] = pc[a] /\ scope'[a] = scope[a] /\ unit'[a] = unit[a]
  /\ seen'[a] = seen[a] /\ left'[a] = left[a]

-----------------------------------------------------------------------------
(* Types. *)

(* What the end of an attempt does. *)
LEMMA EndEffect ==
  ASSUME TypeOK, NEW a \in Attempt, End(a)
  PROVE  /\ pc'[a] = "idle" /\ \A b \in Attempt \ {a} : SameFor(b)
         /\ pc' \in [Attempt -> Stage] /\ scope' \in [Attempt -> Scope]
         /\ unit' \in [Attempt -> SUBSET Member]
         /\ seen' \in [Attempt -> [master : Node, up : SUBSET Member]]
         /\ left' \in [Attempt -> SUBSET Proxy]
         /\ lock' = (IF lock = a THEN Nobody ELSE lock)
         /\ lock' \in Attempt \cup {Nobody}
  BY DEF End, TypeOK, Stage, SameFor

(* What a step to the next stage does. *)
LEMMA AdvanceEffect ==
  ASSUME TypeOK, NEW a \in Attempt, NEW stage \in Stage, Advance(a, stage)
  PROVE  /\ pc'[a] = stage /\ pc' \in [Attempt -> Stage]
         /\ \A b \in Attempt \ {a} : pc'[b] = pc[b]
         /\ scope' = scope /\ unit' = unit /\ seen' = seen
  BY DEF Advance, TypeOK

LEMMA TwoNodes ==
  /\ Node = {Old, New} /\ Old # New /\ Nobody \notin Node
  /\ Other(Old) = New /\ Other(New) = Old
  BY MasterSwitchAssumption DEF Node, Other, Member

LEMMA OtherNode == \A n \in Node : Other(n) \in Node
  BY DEF Other, Node

LEMMA ReleasedTypes ==
  ASSUME TypeOK, NEW P, named' \in Released(P) PROVE named' \in SUBSET Proxy
  BY DEF Released, TypeOK

LEMMA RefreshTypes ==
  ASSUME TypeOK, NEW a \in Attempt, NEW p \in Proxy,
         NEW address \in Node \cup {Nobody}, NEW next \in Stage,
         NEW round \in SUBSET Proxy, Refresh(a, p, address, next, round)
  PROVE  TypeOK'
<1>1. Advance(a, IF left[a] = {p} THEN next ELSE pc[a])
  BY DEF Refresh
<1>2. (IF left[a] = {p} THEN next ELSE pc[a]) \in Stage
  BY DEF TypeOK
<1> HIDE DEF Advance
<1> QED
  BY <1>1, <1>2, AdvanceEffect DEF Refresh, TypeOK

LEMMA NextTypes == TypeOK /\ [Next]_vars => TypeOK'
<1> SUFFICES ASSUME TypeOK, [Next]_vars PROVE TypeOK'
  OBVIOUS
<1> USE OtherNode DEF Standby
<1>1. ASSUME NEW a \in Attempt, NEW U \in SUBSET Member, NEW s \in Scope,
             Begin(a, U, s)
      PROVE  TypeOK'
  BY <1>1 DEF Begin, Metadata, TypeOK, Stage, world
<1>2. ASSUME NEW a \in Attempt, SetUnavailable(a) PROVE TypeOK'
  BY <1>2, AdvanceEffect DEF SetUnavailable, Mark, TypeOK, Stage
<1>3. ASSUME NEW a \in Attempt, NEW T \in SUBSET Member,
             SetUnavailableFails(a, T)
      PROVE  TypeOK'
  BY <1>3, EndEffect DEF SetUnavailableFails, Mark, TypeOK
<1>4. ASSUME NEW a \in Attempt, GiveUp(a) PROVE TypeOK'
  BY <1>4, EndEffect DEF GiveUp, TypeOK, world
<1>5. ASSUME NEW a \in Attempt, Check(a) PROVE TypeOK'
  BY <1>5, AdvanceEffect DEF Check, TypeOK, Stage, world
<1>6. ASSUME NEW a \in Attempt, CheckOnSameHost(a) PROVE TypeOK'
  BY <1>6, AdvanceEffect DEF CheckOnSameHost, TypeOK, Stage, world
<1>7. ASSUME NEW a \in Attempt, ProcessOnSameHost(a) PROVE TypeOK'
  BY <1>7, AdvanceEffect DEF ProcessOnSameHost, TypeOK, Stage, world
<1>8. ASSUME NEW a \in Attempt, DeleteNameService(a) PROVE TypeOK'
  <2> named' \in SUBSET Proxy
    BY <1>8, ReleasedTypes DEF DeleteNameService
  <2>1. CASE SwitchesMaster(a) /\ Available(a) # {}
    <3>1. Advance(a, "cut")
      BY <1>8, <2>1 DEF DeleteNameService
    <3> QED
      BY <1>8, <2>1, <3>1, AdvanceEffect
      DEF DeleteNameService, TypeOK, Stage, Available
  <2>2. CASE ~(SwitchesMaster(a) /\ Available(a) # {})
    <3>1. End(a)
      BY <1>8, <2>2 DEF DeleteNameService
    <3> QED
      BY <1>8, <3>1, EndEffect DEF DeleteNameService, TypeOK
  <2> QED
    BY <2>1, <2>2
<1>9. ASSUME NEW a \in Attempt, NEW P \in SUBSET Proxy,
             DeleteNameServiceFails(a, P)
      PROVE  TypeOK'
  <2> named' \in SUBSET Proxy
    BY <1>9, ReleasedTypes DEF DeleteNameServiceFails
  <2> QED
    BY <1>9, EndEffect DEF DeleteNameServiceFails, TypeOK
<1>10. ASSUME NEW a \in Attempt, NEW p \in Proxy, CutTraffic(a, p)
       PROVE  TypeOK'
  BY <1>10, RefreshTypes DEF CutTraffic, Stage
<1>11. ASSUME NEW a \in Attempt, NEW p \in Proxy, PointTraffic(a, p)
       PROVE  TypeOK'
  BY <1>11, RefreshTypes DEF PointTraffic, Stage, TypeOK
<1>12. ASSUME NEW a \in Attempt, NEW p \in Proxy,
              NEW x \in Node \cup {Nobody}, RefreshFails(a, p, x)
       PROVE  TypeOK'
  BY <1>12, EndEffect DEF RefreshFails, TypeOK
<1>13. ASSUME NEW a \in Attempt, ResetSlave(a) PROVE TypeOK'
  BY <1>13, AdvanceEffect DEF ResetSlave, TypeOK, Stage, Available
<1>14. ASSUME NEW a \in Attempt, NEW x \in Node \cup {Nobody},
              ResetSlaveFails(a, x)
       PROVE  TypeOK'
  BY <1>14, EndEffect DEF ResetSlaveFails, TypeOK
<1>15. ASSUME NEW a \in Attempt, SwapMySQLRole(a) PROVE TypeOK'
  BY <1>15, AdvanceEffect DEF SwapMySQLRole, TypeOK, Stage
<1>16. ASSUME NEW a \in Attempt, NEW n \in Node, SwapMySQLRoleFails(a, n)
       PROVE  TypeOK'
  BY <1>16, EndEffect DEF SwapMySQLRoleFails, TypeOK
<1>17. ASSUME Crash PROVE TypeOK'
  BY <1>17 DEF Crash, TypeOK, Stage, world
<1>18. ASSUME NEW a \in Attempt, NEW n \in Node,
              SwitchBinlogDumper(a) \/ SwitchBinlogDumperFails(a, n)
       PROVE  TypeOK'
  BY <1>18, EndEffect DEF SwitchBinlogDumper, SwitchBinlogDumperFails, TypeOK
<1>19. CASE UNCHANGED vars
  BY <1>19 DEF vars, world, TypeOK
<1>20. ASSUME NEW a \in Attempt, Success(a) PROVE TypeOK'
  <2>1. SwitchBinlogDumper(a) => TypeOK'
    BY <1>18, TwoNodes
  <2> QED
    BY <1>2, <1>5, <1>6, <1>7, <1>8, <1>10, <1>11, <1>13, <1>15, <1>20, <2>1
    DEF Success
<1>21. ASSUME NEW a \in Attempt, Failure(a) PROVE TypeOK'
  BY <1>3, <1>4, <1>9, <1>12, <1>14, <1>16, <1>18, <1>21 DEF Failure
<1> QED
  BY <1>1, <1>17, <1>19, <1>20, <1>21 DEF Next

LEMMA InitTypes == Init => TypeOK
  BY MasterSwitchAssumption DEF Init, TypeOK, Node, Member, Stage

(* Types, whichever calls fail and whenever the server stops: the metadata *)
(* always names one master (SwapMySQLRole), and an attempt is at a stage.  *)
THEOREM TypeCorrect == Spec => []TypeOK
  BY InitTypes, NextTypes, PTL DEF Spec

-----------------------------------------------------------------------------
(* What one step leaves alone. *)

StatusGrows ==
  \A x \in Member : status[x] = "unavailable" => status'[x] = "unavailable"

LEMMA IdleInv ==
  ASSUME NEW a \in Attempt, pc'[a] = "idle" PROVE SwitchInv(a)'
  BY DEF SwitchInv, SkippedAreDown, MovesFromOld, Rounds, CheckFresh, Locked,
         Moving

(* An attempt keeps its part of the invariant when another one moves. *)
LEMMA Framed ==
  ASSUME NEW a \in Attempt, SwitchInv(a), SameFor(a), StatusGrows,
         TypeOK, pc[a] \in Locked => UNCHANGED <<backend, source>>
  PROVE  SwitchInv(a)'
<1>1. Available(a)' = Available(a) /\ SwitchesMaster(a)' = SwitchesMaster(a)
  BY DEF SameFor, Available, SwitchesMaster
<1>2. SkippedAreDown(a)'
  BY DEF SwitchInv, SkippedAreDown, SameFor, StatusGrows, TypeOK
<1>3. MovesFromOld(a)'
  BY <1>1 DEF SwitchInv, MovesFromOld, SameFor
<1>4. Rounds(a)'
  BY <1>1 DEF SwitchInv, Rounds, SameFor, Locked
<1>5. CheckFresh(a)'
  BY <1>1 DEF SwitchInv, CheckFresh, SameFor, Locked
<1> QED
  BY <1>2, <1>3, <1>4, <1>5 DEF SwitchInv

(* What a step of attempt a has to establish: its own part, the state of   *)
(* the databases, and that it has the lock exactly while it is switching.  *)
LEMMA StepOf ==
  ASSUME IInv, TypeOK', NEW a \in Attempt,
         \A b \in Attempt \ {a} : SameFor(b),
         StatusGrows,
         pc[a] \in Locked \/ UNCHANGED <<backend, source>>,
         SwitchInv(a)', Sources', OneWritable', DetachedBeforeTraffic',
         lock' = a <=> pc'[a] \in Locked,
         lock' = lock \/ {lock, lock'} = {a, Nobody}
  PROVE  IInv'
<1>1. ASSUME NEW b \in Attempt \ {a} PROVE SwitchInv(b)'
  <2>1. pc[b] \in Locked => UNCHANGED <<backend, source>>
    BY DEF IInv, LockHeld
  <2> QED
    BY <2>1, Framed DEF IInv
<1>2. Nobody \notin Attempt
  BY MasterSwitchAssumption
<1>3. LockHeld'
  <2>1. ASSUME NEW b \in Attempt, pc'[b] \in Locked PROVE lock' = b
    BY <2>1, <1>2 DEF IInv, LockHeld, SameFor
  <2>2. ASSUME lock' # Nobody PROVE pc'[lock'] \in Locked
    <3>1. CASE lock' = a
      BY <3>1
    <3>2. CASE lock' # a
      <4>1. lock' = lock /\ lock # a /\ lock # Nobody
        BY <2>2, <3>2
      <4>2. lock \in Attempt /\ pc[lock] \in Locked
        BY <4>1 DEF IInv, LockHeld, LockInUse, TypeOK
      <4> QED
        BY <4>1, <4>2 DEF SameFor
    <3> QED
      BY <3>1, <3>2
  <2> QED
    BY <2>1, <2>2 DEF LockHeld, LockInUse
<1> QED
  BY <1>1, <1>3 DEF IInv

(* A step that ends an attempt. *)
LEMMA EndStep ==
  ASSUME IInv, TypeOK', NEW a \in Attempt, End(a), StatusGrows,
         pc[a] \in Locked \/ UNCHANGED <<backend, source>>,
         Sources', OneWritable', DetachedBeforeTraffic'
  PROVE  IInv'
<1>1. /\ pc'[a] = "idle" /\ \A b \in Attempt \ {a} : SameFor(b)
      /\ lock' = (IF lock = a THEN Nobody ELSE lock)
  BY EndEffect DEF IInv
<1>2. a # Nobody
  BY MasterSwitchAssumption
<1>3. lock' # a /\ pc'[a] \notin Locked
  BY <1>1, <1>2 DEF Locked
<1>4. lock' = lock \/ {lock, lock'} = {a, Nobody}
  BY <1>1
<1> QED
  BY <1>1, <1>3, <1>4, IdleInv, StepOf

(* The databases stay as good as they are while the proxies and sources    *)
(* are left alone.                                                         *)
LEMMA WorldKept ==
  ASSUME IInv, StatusGrows, UNCHANGED <<backend, source>>
  PROVE  Sources' /\ OneWritable' /\ DetachedBeforeTraffic'
  BY DEF IInv, StatusGrows, Sources, OneWritable, DetachedBeforeTraffic, Member

LEMMA Skipped ==
  ASSUME NEW a \in Attempt, SkippedAreDown(a), pc[a] \notin {"idle", "begun"},
         NEW p \in Proxy, p \notin Available(a)
  PROVE  status[p] = "unavailable"
  BY DEF SkippedAreDown, Available, Member

(* The standby slave of an attempt that moves the master is the new one. *)
LEMMA MovesToNew ==
  ASSUME NEW a \in Attempt, MovesFromOld(a), pc[a] \in Moving
  PROVE  Standby(a) = New /\ seen[a].master = Old /\ SwitchesMaster(a)
  BY TwoNodes DEF MovesFromOld, Standby, Moving, Locked

-----------------------------------------------------------------------------
(* The steps before the databases are touched. *)

LEMMA BeginInv ==
  ASSUME IInv, TypeOK', NEW a \in Attempt, NEW U \in SUBSET Member,
         NEW s \in Scope, Begin(a, U, s)
  PROVE  IInv'
<1>1. StatusGrows /\ UNCHANGED <<backend, source>>
  BY DEF Begin, Metadata, world, StatusGrows
<1>2. \A b \in Attempt \ {a} : SameFor(b)
  BY DEF Begin, Metadata, SameFor, IInv, TypeOK
<1>3. pc'[a] = "begun" /\ lock' = lock /\ lock # a
  BY MasterSwitchAssumption
  DEF Begin, Metadata, IInv, TypeOK, LockHeld, LockInUse, Locked
<1>4. \A x \in Member \ seen'[a].up : status'[x] = "unavailable"
  BY DEF Begin, Metadata, IInv, TypeOK, world
<1>5. SwitchInv(a)'
  BY <1>3, <1>4
  DEF SwitchInv, SkippedAreDown, MovesFromOld, Rounds, CheckFresh, Locked,
      Moving
<1> QED
  BY <1>1, <1>2, <1>3, <1>5, StepOf, WorldKept DEF Locked

LEMMA SetUnavailableInv ==
  ASSUME IInv, TypeOK', NEW a \in Attempt, SetUnavailable(a)
  PROVE  IInv'
<1>1. StatusGrows /\ UNCHANGED <<backend, source>>
  BY DEF SetUnavailable, Mark, StatusGrows
<1>2. /\ pc'[a] = "locking" /\ \A b \in Attempt \ {a} : pc'[b] = pc[b]
      /\ scope' = scope /\ unit' = unit /\ seen' = seen /\ left' = left
  BY AdvanceEffect DEF SetUnavailable, IInv, Stage
<1>3. \A b \in Attempt \ {a} : SameFor(b)
  BY <1>2 DEF SameFor
<1>4. lock' = lock /\ lock # a
  BY MasterSwitchAssumption
  DEF SetUnavailable, IInv, TypeOK, LockHeld, LockInUse, Locked
<1>5. SkippedAreDown(a)'
  <2>1. \A x \in unit[a] : status'[x] = "unavailable"
    BY DEF SetUnavailable, Mark, IInv, TypeOK
  <2>2. \A x \in Member \ seen[a].up : status[x] = "unavailable"
    BY DEF SetUnavailable, IInv, SwitchInv, SkippedAreDown
  <2> QED
    BY <1>1, <1>2, <2>1, <2>2 DEF SkippedAreDown, StatusGrows
<1>6. SwitchInv(a)'
  BY <1>2, <1>5 DEF SwitchInv, MovesFromOld, Rounds, CheckFresh, Locked, Moving
<1> QED
  BY <1>1, <1>2, <1>3, <1>4, <1>6, StepOf, WorldKept DEF Locked

LEMMA SetUnavailableFailsInv ==
  ASSUME IInv, TypeOK', NEW a \in Attempt, NEW T \in SUBSET Member,
         SetUnavailableFails(a, T)
  PROVE  IInv'
<1>1. StatusGrows /\ UNCHANGED <<backend, source>> /\ End(a)
  BY DEF SetUnavailableFails, Mark, StatusGrows
<1> QED
  BY <1>1, EndStep, WorldKept

LEMMA GiveUpInv ==
  ASSUME IInv, TypeOK', NEW a \in Attempt, GiveUp(a)
  PROVE  IInv'
<1>1. StatusGrows /\ UNCHANGED <<backend, source>> /\ End(a)
  BY DEF GiveUp, world, StatusGrows
<1> QED
  BY <1>1, EndStep, WorldKept

(* A check that passes is about the first master, and its standby slave    *)
(* still replicates.                                                       *)
LEMMA PassesMeans ==
  ASSUME IInv, NEW a \in Attempt, Passes(a), SwitchesMaster(a)
  PROVE  seen[a].master = Old /\ source[New] = Old
<1>1. seen[a].master \in Node /\ source[Standby(a)] = seen[a].master
  BY DEF IInv, TypeOK, Passes, CheckMySQLStorageMaster
<1> QED
  BY <1>1, TwoNodes DEF IInv, Sources, Standby

(* Check, CheckOnSameHost and ProcessOnSameHost move to stage next with or *)
(* without the lock.                                                       *)
LEMMA CheckedStep ==
  ASSUME IInv, TypeOK', NEW a \in Attempt, NEW next \in {"checked", "names"},
         pc[a] \in {"locking", "checked"}, lock = Nobody,
         Advance(a, next), UNCHANGED <<world, left>>,
         lock' = IF next = "names" THEN a ELSE lock,
         SwitchesMaster(a) => seen[a].master = Old,
         next = "names" /\ scope[a] # "host" /\ SwitchesMaster(a) =>
           source[New] = Old,
         next = "checked" => scope[a] = "host"
  PROVE  IInv'
<1>1. StatusGrows /\ UNCHANGED <<backend, source>>
  BY DEF world, StatusGrows
<1>2. /\ pc'[a] = next /\ \A b \in Attempt \ {a} : pc'[b] = pc[b]
      /\ scope' = scope /\ unit' = unit /\ seen' = seen /\ left' = left
  BY AdvanceEffect DEF IInv, Stage
<1>3. \A b \in Attempt \ {a} : SameFor(b)
  BY <1>2 DEF SameFor
<1>4. SwitchInv(a)'
  <2>1. SkippedAreDown(a)'
    BY <1>2 DEF IInv, SwitchInv, SkippedAreDown, world
  <2>2. SwitchesMaster(a)' = SwitchesMaster(a)
    BY <1>2 DEF SwitchesMaster
  <2>3. MovesFromOld(a)' /\ Rounds(a)' /\ CheckFresh(a)'
    BY <1>1, <1>2, <2>2 DEF MovesFromOld, Rounds, CheckFresh, Moving, Locked
  <2> QED
    BY <2>1, <2>3 DEF SwitchInv
<1>5. lock' = a <=> pc'[a] \in Locked
  BY <1>2, MasterSwitchAssumption DEF Locked
<1> QED
  BY <1>1, <1>2, <1>3, <1>4, <1>5, StepOf, WorldKept

LEMMA CheckInv ==
  ASSUME IInv, TypeOK', NEW a \in Attempt, Check(a)
  PROVE  IInv'
  BY CheckedStep, PassesMeans DEF Check

LEMMA CheckOnSameHostInv ==
  ASSUME IInv, TypeOK', NEW a \in Attempt, CheckOnSameHost(a)
  PROVE  IInv'
  BY CheckedStep, PassesMeans DEF CheckOnSameHost

LEMMA ProcessOnSameHostInv ==
  ASSUME IInv, TypeOK', NEW a \in Attempt, ProcessOnSameHost(a)
  PROVE  IInv'
<1>1. /\ scope[a] = "host"
      /\ SwitchesMaster(a) => seen[a].master = Old
  BY DEF ProcessOnSameHost, IInv, SwitchInv, CheckFresh, MovesFromOld
<1> QED
  BY <1>1, CheckedStep DEF ProcessOnSameHost

-----------------------------------------------------------------------------
(* The steps under the cluster lock. *)

LEMMA DeleteNameServiceInv ==
  ASSUME IInv, TypeOK', NEW a \in Attempt, DeleteNameService(a)
  PROVE  IInv'
<1>1. StatusGrows /\ UNCHANGED <<backend, source>>
  BY DEF DeleteNameService, StatusGrows
<1>2. CASE SwitchesMaster(a) /\ Available(a) # {}
  <2>1. /\ pc[a] = "names" /\ Advance(a, "cut") /\ lock' = lock
        /\ left' = [left EXCEPT ![a] = Available(a)]
    BY <1>2 DEF DeleteNameService
  <2>2. /\ pc'[a] = "cut" /\ \A b \in Attempt \ {a} : pc'[b] = pc[b]
        /\ scope' = scope /\ unit' = unit /\ seen' = seen
    BY <2>1, AdvanceEffect DEF IInv, Stage
  <2>3. \A b \in Attempt \ {a} : SameFor(b)
    BY <2>1, <2>2 DEF SameFor, IInv, TypeOK
  <2>4. /\ left'[a] = Available(a) /\ Available(a)' = Available(a)
        /\ SwitchesMaster(a)' = SwitchesMaster(a)
    BY <2>1, <2>2 DEF IInv, TypeOK, Available, SwitchesMaster
  <2>5. SkippedAreDown(a)'
    BY <2>1, <2>2 DEF IInv, SwitchInv, SkippedAreDown, DeleteNameService
  <2>6. MovesFromOld(a)' /\ Rounds(a)' /\ CheckFresh(a)'
    BY <1>1, <1>2, <2>1, <2>2, <2>4
    DEF IInv, SwitchInv, MovesFromOld, Rounds, CheckFresh, Moving, Locked
  <2>7. lock = a
    BY <2>1 DEF IInv, LockHeld, Locked
  <2> QED
    BY <1>1, <2>1, <2>2, <2>3, <2>5, <2>6, <2>7, StepOf, WorldKept
    DEF SwitchInv, Locked
<1>3. CASE ~(SwitchesMaster(a) /\ Available(a) # {})
  BY <1>1, <1>3, EndStep, WorldKept DEF DeleteNameService
<1> QED
  BY <1>2, <1>3

LEMMA DeleteNameServiceFailsInv ==
  ASSUME IInv, TypeOK', NEW a \in Attempt, NEW P \in SUBSET Proxy,
         DeleteNameServiceFails(a, P)
  PROVE  IInv'
<1>1. StatusGrows /\ UNCHANGED <<backend, source>> /\ End(a)
  BY DEF DeleteNameServiceFails, StatusGrows
<1> QED
  BY <1>1, EndStep, WorldKept

(* One proxy takes the address that its round prescribes, or stays where   *)
(* it is: the databases remain as they should be.                          *)
LEMMA ProxyMoves ==
  ASSUME IInv, NEW a \in Attempt, NEW p \in Proxy, NEW x \in Node \cup {Nobody},
         pc[a] \in {"cut", "point"},
         x \in {backend[p], IF pc[a] = "cut" THEN Nobody ELSE New},
         backend' = [backend EXCEPT ![p] = x],
         UNCHANGED <<status, source>>
  PROVE  Sources' /\ OneWritable' /\ DetachedBeforeTraffic'
<1> USE TwoNodes
<1>1. Sources'
  BY DEF IInv, Sources
<1>2. backend' \in [Proxy -> Node \cup {Nobody}]
      /\ backend'[p] = x /\ \A q \in Proxy \ {p} : backend'[q] = backend[q]
  BY DEF IInv, TypeOK
<1>3. CASE x = backend[p]
  <2>1. backend' = backend
    BY <1>3 DEF IInv, TypeOK
  <2> QED
    BY <1>1, <2>1 DEF IInv, OneWritable, DetachedBeforeTraffic
<1>4. CASE x = Nobody
  BY <1>1, <1>2, <1>4 DEF IInv, OneWritable, DetachedBeforeTraffic
<1>5. CASE pc[a] = "point" /\ x = New
  <2>1. source[New] = Nobody
    BY <1>5 DEF IInv, SwitchInv, Rounds
  <2>2. \A q \in Available(a) : backend[q] # Old
    BY <1>5 DEF IInv, SwitchInv, Rounds
  <2>3. \A q \in Proxy : backend'[q] = Old => status[q] = "unavailable"
    BY <1>2, <1>5, <2>2, Skipped DEF IInv, SwitchInv
  <2> QED
    BY <1>1, <1>2, <1>5, <2>1, <2>3
    DEF IInv, OneWritable, DetachedBeforeTraffic
<1> QED
  BY <1>3, <1>4, <1>5

(* One step of a round.  The address is the one of the round, the stage    *)
(* after it is entered with the last proxy.                                *)
LEMMA RefreshInv ==
  ASSUME IInv, TypeOK', NEW a \in Attempt, NEW p \in Proxy,
         NEW x \in {Nobody, New}, NEW next \in {"reset", "swap"},
         \/ pc[a] = "cut" /\ x = Nobody /\ next = "reset"
         \/ pc[a] = "point" /\ x = New /\ next = "swap",
         Refresh(a, p, x, next, {})
  PROVE  IInv'
<1> USE TwoNodes
<1> DEFINE stage == IF left[a] = {p} THEN next ELSE pc[a]
<1>1. /\ p \in left[a] /\ backend' = [backend EXCEPT ![p] = x]
      /\ left' = [left EXCEPT ![a] = IF @ = {p} THEN {} ELSE @ \ {p}]
      /\ UNCHANGED <<master, status, source, named, lock>>
      /\ Advance(a, stage)
  BY DEF Refresh
<1>2. stage \in Stage
  BY DEF IInv, TypeOK, Stage
<1>3. /\ pc'[a] = stage /\ \A b \in Attempt \ {a} : pc'[b] = pc[b]
      /\ scope' = scope /\ unit' = unit /\ seen' = seen
  <2> HIDE DEF stage
  <2> QED
    BY <1>1, <1>2, AdvanceEffect DEF IInv
<1>4. \A b \in Attempt \ {a} : SameFor(b)
  BY <1>1, <1>3 DEF SameFor, IInv, TypeOK
<1>5. /\ left'[a] = left[a] \ {p} /\ Available(a)' = Available(a)
      /\ SwitchesMaster(a)' = SwitchesMaster(a)
  BY <1>1, <1>3 DEF IInv, TypeOK, Available, SwitchesMaster
<1>6. SkippedAreDown(a)'
  BY <1>1, <1>3 DEF IInv, SwitchInv, SkippedAreDown
<1>7. MovesFromOld(a)' /\ CheckFresh(a)'
  BY <1>1, <1>3, <1>5
  DEF IInv, SwitchInv, MovesFromOld, CheckFresh, Moving, Locked
<1>8. Available(a) \subseteq Proxy
  BY DEF Available
<1>9. backend'[p] = x /\ \A q \in Proxy \ {p} : backend'[q] = backend[q]
  BY <1>1 DEF IInv, TypeOK
<1>10. Rounds(a)'
  <2>1. CASE pc[a] = "cut"
    BY <1>1, <1>3, <1>5, <1>8, <1>9, <2>1 DEF IInv, SwitchInv, Rounds
  <2>2. CASE pc[a] = "point"
    BY <1>1, <1>3, <1>5, <1>8, <1>9, <2>2 DEF IInv, SwitchInv, Rounds
  <2> QED
    BY <2>1, <2>2
<1>11. lock = a /\ pc[a] \in Locked /\ stage \in Locked
  BY DEF IInv, LockHeld, Locked
<1>12. Sources' /\ OneWritable' /\ DetachedBeforeTraffic'
  BY <1>1, ProxyMoves
<1>13. StatusGrows
  BY <1>1 DEF StatusGrows
<1>14. SwitchInv(a)'
  BY <1>6, <1>7, <1>10 DEF SwitchInv
<1> HIDE DEF stage
<1> QED
  BY <1>1, <1>3, <1>4, <1>11, <1>12, <1>13, <1>14, StepOf

LEMMA CutTrafficInv ==
  ASSUME IInv, TypeOK', NEW a \in Attempt, NEW p \in Proxy, CutTraffic(a, p)
  PROVE  IInv'
  BY RefreshInv DEF CutTraffic

LEMMA PointTrafficInv ==
  ASSUME IInv, TypeOK', NEW a \in Attempt, NEW p \in Proxy, PointTraffic(a, p)
  PROVE  IInv'
<1>1. Standby(a) = New
  BY MovesToNew DEF PointTraffic, Moving, IInv, SwitchInv
<1> QED
  BY <1>1, RefreshInv DEF PointTraffic

LEMMA RefreshFailsInv ==
  ASSUME IInv, TypeOK', NEW a \in Attempt, NEW p \in Proxy,
         NEW x \in Node \cup {Nobody}, RefreshFails(a, p, x)
  PROVE  IInv'
<1>1. pc[a] \in {"cut", "point"} /\ Standby(a) = New
  BY MovesToNew DEF RefreshFails, Moving, IInv, SwitchInv
<1>2. Sources' /\ OneWritable' /\ DetachedBeforeTraffic'
  BY <1>1, ProxyMoves DEF RefreshFails
<1> QED
  BY <1>1, <1>2, EndStep DEF RefreshFails, StatusGrows, Locked

(* The slave of the switch is detached, or stays as it is. *)
LEMMA SlaveDetached ==
  ASSUME IInv, NEW from \in {source[New], Nobody},
         source' = [source EXCEPT ![New] = from],
         UNCHANGED <<backend, status>>
  PROVE  Sources' /\ OneWritable' /\ DetachedBeforeTraffic'
  BY TwoNodes DEF IInv, TypeOK, Sources, OneWritable, DetachedBeforeTraffic

LEMMA ResetSlaveInv ==
  ASSUME IInv, TypeOK', NEW a \in Attempt, ResetSlave(a)
  PROVE  IInv'
<1> USE TwoNodes
<1>1. /\ pc[a] = "reset" /\ Standby(a) = New /\ SwitchesMaster(a)
      /\ seen[a].master = Old
  BY MovesToNew DEF ResetSlave, Moving, IInv, SwitchInv
<1>2. /\ pc'[a] = "point" /\ \A b \in Attempt \ {a} : pc'[b] = pc[b]
      /\ scope' = scope /\ unit' = unit /\ seen' = seen
  BY AdvanceEffect DEF ResetSlave, IInv, Stage
<1>3. \A b \in Attempt \ {a} : SameFor(b)
  BY <1>2 DEF SameFor, ResetSlave, IInv, TypeOK
<1>4. /\ left'[a] = Available(a) /\ Available(a)' = Available(a)
      /\ SwitchesMaster(a)' = SwitchesMaster(a)
  BY <1>2 DEF ResetSlave, IInv, TypeOK, Available, SwitchesMaster
<1>5. source' = [source EXCEPT ![New] = Nobody] /\ source'[New] = Nobody
  BY <1>1 DEF ResetSlave, IInv, TypeOK
<1>6. Sources' /\ OneWritable' /\ DetachedBeforeTraffic'
  BY <1>5, SlaveDetached DEF ResetSlave
<1>7. SkippedAreDown(a)'
  BY <1>1, <1>2 DEF ResetSlave, IInv, SwitchInv, SkippedAreDown
<1>8. MovesFromOld(a)' /\ CheckFresh(a)'
  BY <1>1, <1>2, <1>4 DEF MovesFromOld, CheckFresh
<1>9. Rounds(a)'
  BY <1>1, <1>2, <1>4, <1>5 DEF ResetSlave, IInv, SwitchInv, Rounds
<1>10. lock' = a /\ lock = a
  BY <1>1 DEF ResetSlave, IInv, LockHeld, Locked
<1>11. StatusGrows
  BY DEF ResetSlave, StatusGrows
<1> QED
  BY <1>1, <1>2, <1>3, <1>6, <1>7, <1>8, <1>9, <1>10, <1>11, StepOf
  DEF SwitchInv, Locked

LEMMA ResetSlaveFailsInv ==
  ASSUME IInv, TypeOK', NEW a \in Attempt, NEW x \in Node \cup {Nobody},
         ResetSlaveFails(a, x)
  PROVE  IInv'
<1>1. pc[a] = "reset" /\ Standby(a) = New
  BY MovesToNew DEF ResetSlaveFails, Moving, IInv, SwitchInv
<1>2. Sources' /\ OneWritable' /\ DetachedBeforeTraffic'
  BY <1>1, SlaveDetached DEF ResetSlaveFails
<1> QED
  BY <1>1, <1>2, EndStep DEF ResetSlaveFails, StatusGrows, Locked

LEMMA SwapInv ==
  ASSUME IInv, TypeOK', NEW a \in Attempt, SwapMySQLRole(a)
  PROVE  IInv'
<1>1. StatusGrows /\ UNCHANGED <<backend, source>>
  BY DEF SwapMySQLRole, StatusGrows
<1>2. /\ pc'[a] = "final" /\ \A b \in Attempt \ {a} : pc'[b] = pc[b]
      /\ scope' = scope /\ unit' = unit /\ seen' = seen /\ left' = left
  BY AdvanceEffect DEF SwapMySQLRole, IInv, Stage
<1>3. \A b \in Attempt \ {a} : SameFor(b)
  BY <1>2 DEF SameFor
<1>4. lock' = a /\ pc[a] \in Locked
  BY DEF SwapMySQLRole, IInv, LockHeld, Locked
<1>5. lock' = lock
  BY DEF SwapMySQLRole
<1>6. SkippedAreDown(a)'
  BY <1>1, <1>2 DEF SwapMySQLRole, IInv, SwitchInv, SkippedAreDown
<1>7. MovesFromOld(a)'
  BY <1>2, <1>4
  DEF IInv, SwitchInv, MovesFromOld, SwitchesMaster, Locked, Moving
<1>8. SwitchInv(a)'
  BY <1>2, <1>6, <1>7 DEF SwitchInv, Rounds, CheckFresh
<1> QED
  BY <1>1, <1>2, <1>3, <1>4, <1>5, <1>8, StepOf, WorldKept DEF Locked

(* The last calls of an attempt: whether they fail or not, it ends.        *)
LEMMA LastCallInv ==
  ASSUME IInv, TypeOK', NEW a \in Attempt,
         \/ SwitchBinlogDumper(a)
         \/ \E n \in Node : \/ SwapMySQLRoleFails(a, n)
                            \/ SwitchBinlogDumperFails(a, n)
  PROVE  IInv'
<1>1. StatusGrows /\ UNCHANGED <<backend, source>> /\ End(a)
  BY DEF SwapMySQLRoleFails, SwitchBinlogDumper, SwitchBinlogDumperFails,
         StatusGrows
<1> QED
  BY <1>1, EndStep, WorldKept

LEMMA CrashInv == ASSUME IInv, TypeOK', Crash PROVE IInv'
<1>1. StatusGrows /\ UNCHANGED <<backend, source>>
  BY DEF Crash, world, StatusGrows
<1>2. \A a \in Attempt : pc'[a] = "idle" /\ lock' = Nobody
  BY DEF Crash
<1>3. LockHeld'
  BY <1>2 DEF Crash, LockHeld, LockInUse, Locked
<1> QED
  BY <1>1, <1>2, <1>3, IdleInv, WorldKept DEF IInv

LEMMA StutterInv == ASSUME IInv, TypeOK', UNCHANGED vars PROVE IInv'
<1>1. \A a \in Attempt : SameFor(a)
  BY DEF vars, SameFor
<1>2. StatusGrows /\ UNCHANGED <<backend, source>>
  BY DEF vars, world, StatusGrows
<1>3. LockHeld'
  BY DEF vars, IInv, LockHeld, LockInUse
<1> QED
  BY <1>1, <1>2, <1>3, Framed, WorldKept DEF IInv

-----------------------------------------------------------------------------

LEMMA IInvInit == Init => IInv
<1> SUFFICES ASSUME Init PROVE IInv
  OBVIOUS
<1>1. TypeOK
  BY InitTypes
<1>2. LockHeld
  BY DEF Init, LockHeld, LockInUse, Locked
<1>3. Sources /\ OneWritable /\ DetachedBeforeTraffic
  BY TwoNodes DEF Init, Sources, OneWritable, DetachedBeforeTraffic
<1>4. ASSUME NEW a \in Attempt PROVE SwitchInv(a)
  BY DEF Init, SwitchInv, SkippedAreDown, MovesFromOld, Rounds, CheckFresh,
         Locked, Moving
<1> QED
  BY <1>1, <1>2, <1>3, <1>4 DEF IInv

LEMMA IInvStep == IInv /\ [Next]_vars => IInv'
<1> SUFFICES ASSUME IInv, [Next]_vars PROVE IInv'
  OBVIOUS
<1>1. TypeOK'
  BY NextTypes DEF IInv
<1>2. ASSUME NEW a \in Attempt, Success(a) PROVE IInv'
  BY <1>1, <1>2, SetUnavailableInv, CheckInv, CheckOnSameHostInv,
     ProcessOnSameHostInv, DeleteNameServiceInv, CutTrafficInv,
     PointTrafficInv, ResetSlaveInv, SwapInv, LastCallInv
  DEF Success
<1>3. ASSUME NEW a \in Attempt, Failure(a) PROVE IInv'
  BY <1>1, <1>3, SetUnavailableFailsInv, GiveUpInv, DeleteNameServiceFailsInv,
     RefreshFailsInv, ResetSlaveFailsInv, LastCallInv
  DEF Failure
<1>4. CASE UNCHANGED vars
  BY <1>1, <1>4, StutterInv
<1> QED
  BY <1>1, <1>2, <1>3, <1>4, BeginInv, CrashInv DEF Next

LEMMA IInvAlways == Spec => []IInv
  BY IInvInit, IInvStep, PTL DEF Spec

(* Never two nodes behind proxies that DBM lists as available, whichever   *)
(* of the calls of DoMasterSwitch fail and whenever, and never a node that *)
(* takes traffic and replicates.                                           *)
THEOREM OneMaster == Spec => [](OneWritable /\ DetachedBeforeTraffic)
<1>1. IInv => OneWritable /\ DetachedBeforeTraffic
  BY DEF IInv
<1> QED
  BY <1>1, IInvAlways, PTL

(* The cluster lock of switchmutex is with an attempt in the middle of its *)
(* switch: no error path of the switch procedures leaks it.                *)
THEOREM LockNotLeaked == Spec => []LockInUse
<1>1. IInv => LockInUse
  BY DEF IInv, LockHeld
<1> QED
  BY <1>1, IInvAlways, PTL

(* What CheckBeforeSwitch found in the scopes that keep the lock holds     *)
(* until the standby slave is reset.                                       *)
THEOREM ChecksHold == Spec => []CheckStillHolds
<1>1. IInv => CheckStillHolds
  <2> SUFFICES ASSUME IInv, NEW a \in Attempt,
                      scope[a] \in {"dbinstance", "cluster"},
                      pc[a] \in {"cut", "reset"}
               PROVE  source[Standby(a)] = seen[a].master
    BY DEF CheckStillHolds, CheckHoldsIn
  <2>1. Standby(a) = New /\ seen[a].master = Old /\ SwitchesMaster(a)
    BY MovesToNew DEF IInv, SwitchInv, Moving
  <2>2. source[New] = Old
    BY <2>1 DEF IInv, SwitchInv, CheckFresh
  <2> QED
    BY <2>1, <2>2
<1> QED
  BY <1>1, IInvAlways, PTL

-----------------------------------------------------------------------------
(* The role of the master. *)

(* Only the role swap of an attempt changes it, and only to the new master *)
(* once every proxy that DBM lists as available sends its traffic there.   *)
LEMMA MasterChanges ==
  ASSUME IInv, [Next]_vars, master' # master
  PROVE  /\ master' = New
         /\ \A p \in Proxy : status[p] = "available" => backend[p] = New
<1>1. PICK a \in Attempt :
        SwapMySQLRole(a) \/ \E n \in Node : SwapMySQLRoleFails(a, n)
  BY DEF Next, Success, Failure, vars, world, Begin, SetUnavailable,
         SetUnavailableFails, GiveUp, Check, CheckOnSameHost, ProcessOnSameHost,
         DeleteNameService, DeleteNameServiceFails, CutTraffic, PointTraffic,
         Refresh, RefreshFails, ResetSlave, ResetSlaveFails,
         SwitchBinlogDumper, SwitchBinlogDumperFails, Crash
<1>2. pc[a] = "swap" /\ Standby(a) = New
  BY <1>1, MovesToNew
  DEF SwapMySQLRole, SwapMySQLRoleFails, Moving, IInv, SwitchInv
<1>3. master' = New
  BY <1>1, <1>2 DEF SwapMySQLRole, SwapMySQLRoleFails
<1>4. ASSUME NEW p \in Proxy, status[p] = "available" PROVE backend[p] = New
  <2>1. p \in Available(a)
    BY <1>2, <1>4, Skipped DEF IInv, SwitchInv
  <2> QED
    BY <1>2, <2>1 DEF IInv, SwitchInv, Rounds
<1> QED
  BY <1>3, <1>4

(* The roles in DBM follow the traffic (UpdateMetaInfo comes after the     *)
(* last RefreshBackends), whatever earlier attempts left behind.           *)
THEOREM RolesFollow == Spec => RolesFollowTraffic
<1>1. IInv /\ [Next]_vars =>
        [master = Old /\ master' = New =>
          \A p \in Proxy : status[p] = "available" => backend[p] = New]_vars
  BY MasterChanges, TwoNodes
<1> QED
  BY <1>1, IInvAlways, PTL DEF Spec, RolesFollowTraffic

(* No second attempt and no retry after a lost answer of SwapMySQLRole     *)
(* gives the role of the master back.                                      *)
THEOREM FailoverStands == Spec => FailoverNotUndone
<1>1. IInv /\ [Next]_vars => [master = New => master' = New]_vars
  BY MasterChanges
<1> QED
  BY <1>1, IInvAlways, PTL DEF Spec, FailoverNotUndone

-----------------------------------------------------------------------------
(* SwitchRecord: the states of a request, and of each of its instances.    *)

Worker == {"none", "make", "run", "good", "gone"}
Line == {"none", "start", "success", "fail"}
Finishing == {"after", "success alarms", "failure alarms"}
RecordStage ==
  {"open", "before", "loggers", "switch", "done", "dead"} \union Finishing

RecordType ==
  /\ sr_scope \in {"instance", "host", "cluster", "unknown"}
  /\ sr_pc \in RecordStage
  /\ sr_db \in BOOLEAN /\ sr_id \in BOOLEAN
  /\ sr_row \in {"none", "doing", "success", "failed"} /\ sr_masters \subseteq Inst
  /\ sr_log \in BOOLEAN /\ sr_line \in [Inst -> Line]
  /\ sr_worker \in [Record!AnyGroup -> Worker]
  /\ sr_did \in [Inst -> {"none", "switched", "failed"}]
  /\ sr_failure \subseteq Inst /\ sr_new \subseteq Inst
  /\ sr_err \in {"nil", "unknown scope", "partial success"}
  /\ sr_alarm \in [Inst -> {"none", "success", "failure"}]
  /\ sr_cut \in BOOLEAN

(* The worker of the instance's group. *)
WorkerOf(i) == sr_worker[Record!GroupOf(i)]

(* An instance fails only before its procedure or by it; while the server  *)
(* is up, an outcome the worker has collected is in the response.          *)
Collected(i) ==
  \/ i \in sr_failure
  \/ sr_did[i] = "switched" /\ (i \in WithStandby => i \in sr_new)

InstanceInv(i) ==
  /\ WorkerOf(i) \in {"none", "make"} => sr_did[i] = "none"
  /\ WorkerOf(i) = "good" => sr_did[i] # "none"
  /\ WorkerOf(i) = "good" => sr_did[i] = "switched" \/ i \in sr_failure
  /\ WorkerOf(i) = "gone" => sr_pc = "dead" \/ Collected(i)
  /\ i \in sr_failure => sr_did[i] # "switched"
  /\ i \in sr_failure => WorkerOf(i) \notin {"make", "run"}
  /\ i \in sr_failure => WorkerOf(i) # "none" \/ sr_scope = "unknown"
  /\ i \in sr_new => sr_did[i] = "switched" /\ i \in WithStandby
  /\ sr_line[i] = "success" => sr_did[i] = "switched"
  /\ sr_line[i] = "fail" => i \in sr_failure
  /\ sr_alarm[i] = "success" => sr_did[i] = "switched"
  /\ sr_alarm[i] = "failure" => i \in sr_failure

WorkInv == \A i \in Inst : InstanceInv(i)

(* Before the response is read nobody works on it any more. *)
Quiet == \A i \in Inst : WorkerOf(i) \in {"none", "gone"}

EndInv ==
  /\ sr_pc = "dead" => \A i \in Inst : WorkerOf(i) = "gone"
  /\ sr_scope = "unknown" /\ sr_pc # "dead" => \A i \in Inst : WorkerOf(i) = "none"
  /\ sr_pc \in {"open", "before"} => sr_row = "none"
  /\ sr_pc \in {"open", "before", "loggers", "switch"} => sr_masters = {}
  /\ sr_row \in {"success", "failed"} =>
       Quiet /\ sr_pc \in {"success alarms", "failure alarms", "done", "dead"}
  /\ sr_pc \in Finishing =>
       /\ Quiet
       /\ \A i \in Inst : Collected(i)
       /\ sr_err = "nil" <=> sr_failure = {}

(* A row that says doing has a handler, and an id unless the insert got no *)
(* answer; past its update that got none, or there was a panic.            *)
DoingInv ==
  sr_row = "doing" =>
    /\ sr_pc \in {"loggers", "switch", "after"} => sr_db /\ (sr_id \/ sr_cut)
    /\ sr_pc \in {"success alarms", "failure alarms", "done"} => sr_cut

RecordInv ==
  RecordType /\ WorkInv /\ EndInv /\ DoingInv /\ Record!ReportedAsItWas

-----------------------------------------------------------------------------
(* What a worker's step does to the instances. *)

LEMMA GroupIsGroup == \A i \in Inst : Record!GroupOf(i) \in Record!AnyGroup
  BY DEF Record!GroupOf, Record!AnyGroup

LEMMA GroupKept ==
  ASSUME sr_scope' = sr_scope
  PROVE  \A i : Record!GroupOf(i)' = Record!GroupOf(i)
  BY DEF Record!GroupOf

LEMMA WorkersKept ==
  ASSUME sr_scope' = sr_scope, sr_worker' = sr_worker
  PROVE  \A i : WorkerOf(i)' = WorkerOf(i)
  BY GroupKept DEF WorkerOf

LEMMA WorkerMoves ==
  ASSUME RecordType, NEW g, NEW w \in Worker, sr_scope' = sr_scope,
         sr_worker' = [sr_worker EXCEPT ![g] = w]
  PROVE  /\ sr_worker' \in [Record!AnyGroup -> Worker]
         /\ \A i \in Inst :
              WorkerOf(i)' = IF i \in Record!Members(g) THEN w ELSE WorkerOf(i)
<1>1. \A i \in Inst : i \in Record!Members(g) <=> Record!GroupOf(i) = g
  BY DEF Record!Members
<1>2. sr_worker \in [Record!AnyGroup -> Worker]
  BY DEF RecordType
<1>3. QED
  BY <1>1, <1>2, GroupIsGroup, GroupKept DEF WorkerOf

LEMMA MembersAre ==
  ASSUME NEW g
  PROVE  /\ Record!Members(g) \subseteq Inst
         /\ \A i \in Record!Members(g) : WorkerOf(i) = sr_worker[g]
  BY DEF Record!Members, WorkerOf

LEMMA Reported ==
  ASSUME RecordType, NEW M, NEW text \in Line, Record!Report(M, text)
  PROVE  /\ sr_line' \in [Inst -> Line]
         /\ \A i \in Inst : \/ sr_line'[i] = sr_line[i]
                            \/ i \in M /\ sr_line'[i] = text
  BY DEF Record!Report, Record!Append, RecordType

LEMMA Posted ==
  ASSUME RecordType, NEW M, NEW text \in {"success", "failure"}, Record!Post(M, text)
  PROVE  /\ sr_alarm' \in [Inst -> {"none", "success", "failure"}]
         /\ \A i \in Inst : \/ sr_alarm'[i] = sr_alarm[i]
                            \/ i \in M /\ sr_alarm'[i] = text
  BY DEF Record!Post, RecordType

(* What a step must leave alone to keep the invariant of an instance. *)
LEMMA InstanceFrame ==
  ASSUME NEW i, InstanceInv(i), WorkerOf(i)' = WorkerOf(i),
         sr_scope' = sr_scope, sr_pc' = sr_pc, sr_did'[i] = sr_did[i],
         sr_line'[i] = sr_line[i], sr_alarm'[i] = sr_alarm[i],
         i \in sr_failure' <=> i \in sr_failure, i \in sr_new' <=> i \in sr_new
  PROVE  InstanceInv(i)'
  BY DEF InstanceInv, Collected

-----------------------------------------------------------------------------
(* Each step keeps the invariant: first those of the workers. *)

(* While some instance has a worker at work, the request is unfinished. *)
LEMMA Unfinished ==
  ASSUME RecordInv, NEW i \in Inst, WorkerOf(i) \in {"make", "run", "good"}
  PROVE  /\ sr_scope # "unknown" /\ sr_row \in {"none", "doing"}
         /\ sr_pc \notin Finishing
  BY DEF RecordInv, RecordType, EndInv, Quiet, InstanceInv, WorkInv

LEMMA WorkerFrame ==
  ASSUME RecordInv, NEW i \in Inst, WorkerOf(i) \in {"make", "run", "good"},
         UNCHANGED <<sr_scope, sr_pc, sr_db, sr_id, sr_row, sr_masters, sr_cut>>,
         RecordType', WorkInv',
         \A j \in Inst : sr_did[j] = "switched" => sr_did'[j] = "switched"
  PROVE  RecordInv'
<1>1. sr_scope # "unknown" /\ sr_row \in {"none", "doing"} /\ sr_pc \notin Finishing
  BY Unfinished
<1>2. RecordType /\ WorkInv /\ EndInv /\ DoingInv /\ Record!ReportedAsItWas
  BY DEF RecordInv
<1>3. sr_pc # "dead"
  BY <1>2 DEF EndInv
<1>4. EndInv' /\ DoingInv'
  BY <1>1, <1>2, <1>3 DEF EndInv, DoingInv
<1>5. Record!ReportedAsItWas'
  BY <1>1, <1>2 DEF Record!ReportedAsItWas, Record!Switched, WorkInv, InstanceInv
<1>6. QED
  BY <1>4, <1>5 DEF RecordInv

LEMMA RefuseKeeps ==
  ASSUME RecordInv, NEW g \in Record!Groups, Record!Refuse(g)
  PROVE  RecordInv'
<1>1. RecordType /\ WorkInv
  BY DEF RecordInv
<1>2. /\ sr_worker' \in [Record!AnyGroup -> Worker]
      /\ \A i \in Inst :
           WorkerOf(i)' = IF i \in Record!Members(g) THEN "gone" ELSE WorkerOf(i)
  BY <1>1, WorkerMoves DEF Record!Refuse, Worker
<1>3. /\ sr_line' \in [Inst -> Line]
      /\ \A i \in Inst : \/ sr_line'[i] = sr_line[i]
                         \/ i \in Record!Members(g) /\ sr_line'[i] = "fail"
  BY <1>1, Reported DEF Record!Refuse, Line
<1>4. \A i \in Record!Members(g) : i \in Inst /\ WorkerOf(i) = "make"
  BY MembersAre DEF Record!Refuse
<1>5. RecordType'
  BY <1>1, <1>2, <1>3, <1>4 DEF Record!Refuse, Record!snapshot, RecordType
<1>6. WorkInv'
  <2>1. SUFFICES ASSUME NEW i \in Inst PROVE InstanceInv(i)'
    BY DEF WorkInv
  <2>2. /\ InstanceInv(i)
        /\ UNCHANGED <<sr_scope, sr_pc, sr_did, sr_alarm, sr_new>>
        /\ sr_failure' = sr_failure \cup Record!Members(g)
    BY <1>1 DEF WorkInv, Record!Refuse
  <2>3. CASE i \in Record!Members(g)
    BY <1>2, <1>3, <1>4, <2>2, <2>3 DEF InstanceInv, Collected
  <2>4. CASE i \notin Record!Members(g)
    BY <1>2, <1>3, <2>2, <2>4, InstanceFrame
  <2>5. QED
    BY <2>3, <2>4
<1>7. PICK i \in Inst : i \in Record!Members(g)
  BY DEF Record!Groups, Record!Members
<1>8. QED
  BY <1>4, <1>5, <1>6, <1>7, WorkerFrame DEF Record!Refuse, Record!snapshot

LEMMA MakeKeeps ==
  ASSUME RecordInv, NEW g \in Record!Groups, Record!Make(g)
  PROVE  RecordInv'
<1>1. RecordType /\ WorkInv
  BY DEF RecordInv
<1>2. /\ sr_worker' \in [Record!AnyGroup -> Worker]
      /\ \A i \in Inst :
           WorkerOf(i)' = IF i \in Record!Members(g) THEN "run" ELSE WorkerOf(i)
  BY <1>1, WorkerMoves DEF Record!Make, Worker
<1>3. \A i \in Record!Members(g) : i \in Inst /\ WorkerOf(i) = "make"
  BY MembersAre DEF Record!Make
<1>4. RecordType' /\ WorkInv'
  BY <1>1, <1>2, <1>3 DEF Record!Make, Record!switchLog, Record!response,
     Record!snapshot, RecordType, WorkInv, InstanceInv, Collected
<1>5. PICK i \in Inst : i \in Record!Members(g)
  BY DEF Record!Groups, Record!Members
<1>6. QED
  BY <1>3, <1>4, <1>5, WorkerFrame DEF Record!Make, Record!snapshot, Record!response

LEMMA ProcedureKeeps ==
  ASSUME RecordInv, NEW g \in Record!Groups, NEW M \in SUBSET Record!Members(g),
         NEW how \in {"switched", "failed"}, Record!Procedure(g, M, how)
  PROVE  RecordInv'
<1>1. RecordType /\ WorkInv
  BY DEF RecordInv
<1>2. \A i \in Inst : WorkerOf(i)' = WorkerOf(i)
  BY WorkersKept DEF Record!Procedure
<1>3. \A i \in Record!Members(g) : i \in Inst /\ WorkerOf(i) = "run"
  BY MembersAre DEF Record!Procedure
<1>4. /\ sr_did' \in [Inst -> {"none", "switched", "failed"}]
      /\ \A i \in Inst : sr_did'[i] = IF i \in M THEN how ELSE sr_did[i]
      /\ \A i \in M : sr_did[i] = "none" /\ i \in Inst /\ WorkerOf(i) = "run"
  BY <1>1, <1>3 DEF Record!Procedure, RecordType
<1>5. RecordType'
  BY <1>1, <1>4 DEF Record!Procedure, Record!switchLog, Record!response,
     Record!snapshot, RecordType
<1>6. WorkInv'
  <2>1. SUFFICES ASSUME NEW i \in Inst PROVE InstanceInv(i)'
    BY DEF WorkInv
  <2>2. /\ InstanceInv(i)
        /\ UNCHANGED <<sr_scope, sr_pc, sr_line, sr_alarm, sr_failure, sr_new>>
    BY <1>1 DEF WorkInv, Record!Procedure, Record!switchLog, Record!response
  <2>3. CASE i \in M
    BY <1>2, <1>4, <2>2, <2>3 DEF InstanceInv, Collected
  <2>4. CASE i \notin M
    BY <1>2, <1>4, <2>2, <2>4, InstanceFrame
  <2>5. QED
    BY <2>3, <2>4
<1>7. PICK i \in Inst : i \in Record!Members(g)
  BY DEF Record!Groups, Record!Members
<1>8. QED
  BY <1>3, <1>4, <1>5, <1>6, <1>7, WorkerFrame DEF Record!Procedure, Record!snapshot

LEMMA CollectFailuresKeeps ==
  ASSUME RecordInv, NEW g \in Record!Groups, Record!CollectFailures(g)
  PROVE  RecordInv'
<1>1. RecordType /\ WorkInv
  BY DEF RecordInv
<1>2. /\ sr_worker' \in [Record!AnyGroup -> Worker]
      /\ \A i \in Inst :
           WorkerOf(i)' = IF i \in Record!Members(g) THEN "good" ELSE WorkerOf(i)
  BY <1>1, WorkerMoves DEF Record!CollectFailures, Worker
<1>3. /\ sr_line' \in [Inst -> Line]
      /\ \A i \in Inst :
           \/ sr_line'[i] = sr_line[i]
           \/ i \in Record!Ended(g, "failed") /\ sr_line'[i] = "fail"
  BY <1>1, Reported DEF Record!CollectFailures, Line
<1>4. \A i \in Record!Members(g) :
         i \in Inst /\ WorkerOf(i) = "run" /\ sr_did[i] # "none"
  BY MembersAre DEF Record!CollectFailures
<1>5. \A i : i \in Record!Ended(g, "failed") <=>
                i \in Record!Members(g) /\ sr_did[i] = "failed"
  BY DEF Record!Ended
<1>6. RecordType'
  BY <1>1, <1>2, <1>3, <1>4, <1>5 DEF Record!CollectFailures, Record!snapshot,
     RecordType
<1>7. WorkInv'
  <2>1. SUFFICES ASSUME NEW i \in Inst PROVE InstanceInv(i)'
    BY DEF WorkInv
  <2>2. /\ InstanceInv(i)
        /\ UNCHANGED <<sr_scope, sr_pc, sr_did, sr_alarm, sr_new>>
        /\ sr_failure' = sr_failure \cup Record!Ended(g, "failed")
    BY <1>1 DEF WorkInv, Record!CollectFailures
  <2>3. CASE i \in Record!Members(g)
    BY <1>1, <1>2, <1>3, <1>4, <1>5, <2>2, <2>3
    DEF RecordType, InstanceInv, Collected
  <2>4. CASE i \notin Record!Members(g)
    BY <1>2, <1>3, <1>5, <2>2, <2>4, InstanceFrame
  <2>5. QED
    BY <2>3, <2>4
<1>8. PICK i \in Inst : i \in Record!Members(g)
  BY DEF Record!Groups, Record!Members
<1>9. QED
  BY <1>4, <1>6, <1>7, <1>8, WorkerFrame DEF Record!CollectFailures, Record!snapshot

LEMMA CollectMastersKeeps ==
  ASSUME RecordInv, NEW g \in Record!Groups, Record!CollectMasters(g)
  PROVE  RecordInv'
<1>1. RecordType /\ WorkInv
  BY DEF RecordInv
<1>2. /\ sr_worker' \in [Record!AnyGroup -> Worker]
      /\ \A i \in Inst :
           WorkerOf(i)' = IF i \in Record!Members(g) THEN "gone" ELSE WorkerOf(i)
  BY <1>1, WorkerMoves DEF Record!CollectMasters, Worker
<1>3. /\ sr_line' \in [Inst -> Line]
      /\ \A i \in Inst :
           \/ sr_line'[i] = sr_line[i]
           \/ i \in Record!Ended(g, "switched") /\ sr_line'[i] = "success"
  BY <1>1, Reported DEF Record!CollectMasters, Line
<1>4. \A i \in Record!Members(g) :
         /\ i \in Inst /\ WorkerOf(i) \in {"run", "good"}
         /\ WorkerOf(i) = "run" => sr_did[i] = "switched"
  BY MembersAre DEF Record!CollectMasters
<1>5. \A i : i \in Record!Ended(g, "switched") <=>
                i \in Record!Members(g) /\ sr_did[i] = "switched"
  BY DEF Record!Ended
<1>6. RecordType'
  BY <1>1, <1>2, <1>3, <1>4, <1>5 DEF Record!CollectMasters, Record!snapshot,
     RecordType
<1>7. WorkInv'
  <2>1. SUFFICES ASSUME NEW i \in Inst PROVE InstanceInv(i)'
    BY DEF WorkInv
  <2>2. /\ InstanceInv(i)
        /\ UNCHANGED <<sr_scope, sr_pc, sr_did, sr_alarm, sr_failure>>
        /\ sr_new' =
             sr_new \cup (Record!Ended(g, "switched") \cap WithStandby)
    BY <1>1 DEF WorkInv, Record!CollectMasters
  <2>3. CASE i \in Record!Members(g)
    BY <1>1, <1>2, <1>3, <1>4, <1>5, <2>2, <2>3
    DEF RecordType, InstanceInv, Collected
  <2>4. CASE i \notin Record!Members(g)
    BY <1>2, <1>3, <1>5, <2>2, <2>4, InstanceFrame
  <2>5. QED
    BY <2>3, <2>4
<1>8. PICK i \in Inst : i \in Record!Members(g)
  BY DEF Record!Groups, Record!Members
<1>9. QED
  BY <1>4, <1>6, <1>7, <1>8, WorkerFrame DEF Record!CollectMasters, Record!snapshot

LEMMA WorkKeeps ==
  ASSUME RecordInv, NEW g \in Record!Groups, Record!Work(g)
  PROVE  RecordInv'
  BY RefuseKeeps, MakeKeeps, CollectFailuresKeeps, CollectMastersKeeps,
     ProcedureKeeps DEF Record!Work

-----------------------------------------------------------------------------
(* Then those of the server's own goroutine. *)

LEMMA OpenKeeps ==
  ASSUME RecordInv, NEW opened \in BOOLEAN, Record!Open(opened)
  PROVE  RecordInv'
<1>1. RecordType /\ WorkInv /\ EndInv /\ DoingInv /\ Record!ReportedAsItWas
  BY DEF RecordInv
<1>2. \A i \in Inst : WorkerOf(i)' = WorkerOf(i)
  BY WorkersKept DEF Record!Open
<1>3. RecordType' /\ WorkInv'
  BY <1>1, <1>2 DEF Record!Open, Record!switchLog, Record!response, RecordType,
     RecordStage, WorkInv, InstanceInv, Collected
<1>4. EndInv' /\ DoingInv'
  BY <1>1, <1>2 DEF Record!Open, Record!response, Finishing, EndInv, Quiet, DoingInv
<1>5. Record!ReportedAsItWas'
  BY <1>1 DEF Record!ReportedAsItWas, Record!Switched, Record!Open, Record!switchLog
<1>6. QED
  BY <1>3, <1>4, <1>5 DEF RecordInv

LEMMA NewSwitchLoggerKeeps ==
  ASSUME RecordInv, NEW opened \in BOOLEAN, Record!NewSwitchLogger(opened)
  PROVE  RecordInv'
<1>1. RecordType /\ WorkInv /\ EndInv /\ DoingInv /\ Record!ReportedAsItWas
  BY DEF RecordInv
<1>2. \A i \in Inst : WorkerOf(i)' = WorkerOf(i)
  BY WorkersKept DEF Record!NewSwitchLogger
<1>3. RecordType' /\ WorkInv'
  BY <1>1, <1>2 DEF Record!NewSwitchLogger, Record!snapshot, Record!response,
     RecordType, RecordStage, WorkInv, InstanceInv, Collected
<1>4. EndInv' /\ DoingInv'
  BY <1>1, <1>2 DEF Record!NewSwitchLogger, Record!snapshot, Finishing, EndInv,
     Quiet, DoingInv
<1>5. Record!ReportedAsItWas'
  BY <1>1 DEF Record!ReportedAsItWas, Record!Switched, Record!NewSwitchLogger,
     Record!snapshot
<1>6. QED
  BY <1>3, <1>4, <1>5 DEF RecordInv

LEMMA BeforeKeeps ==
  ASSUME RecordInv, NEW saved \in BOOLEAN, NEW answered \in BOOLEAN,
         Record!Before(saved, answered)
  PROVE  RecordInv'
<1>1. RecordType /\ WorkInv /\ EndInv /\ DoingInv /\ Record!ReportedAsItWas
  BY DEF RecordInv
<1>2. \A i \in Inst : WorkerOf(i)' = WorkerOf(i)
  BY WorkersKept DEF Record!Before
<1>3. /\ sr_row' \in {"none", "doing"} /\ sr_id' \in BOOLEAN /\ sr_cut' \in BOOLEAN
      /\ sr_row' = "doing" => sr_db /\ (sr_id' \/ sr_cut')
  BY <1>1 DEF Record!Before, Record!PreSwitchLog, RecordType, EndInv
<1>4. RecordType' /\ WorkInv'
  BY <1>1, <1>2, <1>3 DEF Record!Before, Record!switchLog,
     Record!response, RecordType, RecordStage, WorkInv, InstanceInv, Collected
<1>5. EndInv' /\ DoingInv'
  BY <1>1, <1>2, <1>3 DEF Record!Before, Record!response, RecordType, Finishing,
     EndInv, Quiet, DoingInv
<1>6. Record!ReportedAsItWas'
  BY <1>1, <1>3 DEF Record!ReportedAsItWas, Record!Switched, Record!Before,
     Record!switchLog, Record!response
<1>7. QED
  BY <1>4, <1>5, <1>6 DEF RecordInv

LEMMA UnknownScopeKeeps ==
  ASSUME RecordInv, Record!UnknownScope
  PROVE  RecordInv'
<1>1. RecordType /\ WorkInv /\ EndInv /\ DoingInv /\ Record!ReportedAsItWas
  BY DEF RecordInv
<1>2. \A i \in Inst : WorkerOf(i) = "none" /\ WorkerOf(i)' = "none"
  BY <1>1, WorkersKept DEF Record!UnknownScope, EndInv
<1>3. RecordType' /\ WorkInv'
  BY <1>1, <1>2 DEF Record!UnknownScope, Record!snapshot, RecordType,
     RecordStage, Finishing, WorkInv, InstanceInv, Collected
<1>4. EndInv' /\ DoingInv'
  BY <1>1, <1>2, RecordAssumption DEF Record!UnknownScope, Record!snapshot,
     Finishing, EndInv, Quiet, Collected, DoingInv
<1>5. Record!ReportedAsItWas'
  BY <1>1 DEF Record!ReportedAsItWas, Record!Switched, Record!UnknownScope,
     Record!snapshot
<1>6. QED
  BY <1>3, <1>4, <1>5 DEF RecordInv

LEMMA DispatchKeeps ==
  ASSUME RecordInv, NEW g \in Record!Groups, Record!Dispatch(g)
  PROVE  RecordInv'
<1>1. RecordType /\ WorkInv /\ EndInv /\ DoingInv /\ Record!ReportedAsItWas
  BY DEF RecordInv
<1>2. /\ sr_worker' \in [Record!AnyGroup -> Worker]
      /\ \A i \in Inst :
           WorkerOf(i)' = IF i \in Record!Members(g) THEN "make" ELSE WorkerOf(i)
  BY <1>1, WorkerMoves DEF Record!Dispatch, Worker
<1>3. /\ sr_line' \in [Inst -> Line]
      /\ \A i \in Inst : \/ sr_line'[i] = sr_line[i]
                         \/ i \in Record!Members(g) /\ sr_line'[i] = "start"
  BY <1>1, Reported DEF Record!Dispatch, Line
<1>4. \A i \in Record!Members(g) : i \in Inst /\ WorkerOf(i) = "none"
  BY MembersAre DEF Record!Dispatch
<1>5. RecordType' /\ WorkInv'
  <2>1. RecordType'
    BY <1>1, <1>2, <1>3 DEF Record!Dispatch, Record!response, Record!snapshot,
       RecordType
  <2>2. ASSUME NEW i \in Inst PROVE InstanceInv(i)'
    <3>1. /\ InstanceInv(i)
          /\ UNCHANGED <<sr_scope, sr_pc, sr_did, sr_alarm, sr_failure, sr_new>>
      BY <1>1 DEF WorkInv, Record!Dispatch, Record!response
    <3>2. CASE i \in Record!Members(g)
      BY <1>1, <1>2, <1>3, <1>4, <3>1, <3>2
      DEF Record!Dispatch, InstanceInv, Collected
    <3>3. CASE i \notin Record!Members(g)
      BY <1>2, <1>3, <3>1, <3>3, InstanceFrame
    <3>4. QED
      BY <3>2, <3>3
  <2>3. QED
    BY <2>1, <2>2 DEF WorkInv
<1>6. EndInv' /\ DoingInv'
  BY <1>1 DEF Record!Dispatch, Record!snapshot, Finishing, EndInv, DoingInv
<1>7. Record!ReportedAsItWas'
  BY <1>1, <1>5 DEF Record!ReportedAsItWas, Record!Switched, Record!Dispatch,
     Record!snapshot, WorkInv, InstanceInv
<1>8. QED
  BY <1>5, <1>6, <1>7 DEF RecordInv

LEMMA WaitKeeps ==
  ASSUME RecordInv, Record!Wait
  PROVE  RecordInv'
<1>1. RecordType /\ WorkInv /\ EndInv /\ DoingInv /\ Record!ReportedAsItWas
  BY DEF RecordInv
<1>2. \A i \in Inst : WorkerOf(i) = "gone" /\ WorkerOf(i)' = "gone"
  BY WorkersKept DEF Record!Wait, Record!Groups, WorkerOf
<1>3. RecordType' /\ WorkInv'
  BY <1>1, <1>2 DEF Record!Wait, Record!snapshot, RecordType,
     RecordStage, Finishing, WorkInv, InstanceInv, Collected
<1>4. \A i \in Inst : Collected(i)'
  BY <1>1, <1>2 DEF Record!Wait, WorkInv, InstanceInv, Collected
<1>5. EndInv' /\ DoingInv'
  BY <1>1, <1>2, <1>4 DEF Record!Wait, Record!snapshot, Finishing, EndInv, Quiet,
     DoingInv
<1>6. Record!ReportedAsItWas'
  BY <1>1 DEF Record!ReportedAsItWas, Record!Switched, Record!Wait, Record!snapshot
<1>7. QED
  BY <1>3, <1>5, <1>6 DEF RecordInv

LEMMA SwitchPanicsKeeps ==
  ASSUME RecordInv, Record!SwitchPanics
  PROVE  RecordInv'
<1>1. RecordType /\ WorkInv /\ EndInv /\ DoingInv /\ Record!ReportedAsItWas
  BY DEF RecordInv
<1>2. \A i \in Inst : WorkerOf(i)' = WorkerOf(i)
  BY WorkersKept DEF Record!SwitchPanics
<1>3. RecordType' /\ WorkInv'
  BY <1>1, <1>2 DEF Record!SwitchPanics, Record!snapshot, Record!response,
     RecordType, RecordStage, WorkInv, InstanceInv, Collected
<1>4. EndInv' /\ DoingInv'
  BY <1>1, <1>2 DEF Record!SwitchPanics, Record!snapshot, Finishing, EndInv,
     Quiet, DoingInv
<1>5. Record!ReportedAsItWas'
  BY <1>1 DEF Record!ReportedAsItWas, Record!Switched, Record!SwitchPanics,
     Record!snapshot
<1>6. QED
  BY <1>3, <1>4, <1>5 DEF RecordInv

LEMMA AfterKeeps ==
  ASSUME RecordInv, NEW saved \in BOOLEAN, NEW answered \in BOOLEAN,
         Record!After(saved, answered)
  PROVE  RecordInv'
<1>1. RecordType /\ WorkInv /\ EndInv /\ DoingInv /\ Record!ReportedAsItWas
  BY DEF RecordInv
<1>2. \A i \in Inst : WorkerOf(i)' = WorkerOf(i)
  BY WorkersKept DEF Record!After
<1>3. /\ sr_pc = "after" /\ sr_row \in {"none", "doing"} /\ Quiet
      /\ \A i \in Inst : Collected(i)
      /\ sr_err = "nil" <=> sr_failure = {}
  BY <1>1 DEF Record!After, Finishing, EndInv, RecordType
<1>4. /\ sr_row' \in {"none", "doing", "success", "failed"}
      /\ sr_masters' \in {sr_masters, sr_new}
      /\ sr_row' = "success" => sr_err = "nil" /\ sr_masters' = sr_new
      /\ sr_row' = "failed" => sr_err # "nil"
      /\ sr_row' = "doing" => sr_cut'
  BY <1>1, <1>3 DEF Record!After, Record!PostSwitchLog, RecordType, DoingInv
<1>5. RecordType' /\ WorkInv'
  BY <1>1, <1>2, <1>4 DEF Record!After, Record!switchLog, Record!response,
     RecordType, RecordStage, Finishing, WorkInv, InstanceInv, Collected
<1>6. EndInv' /\ DoingInv'
  BY <1>1, <1>2, <1>3, <1>4 DEF Record!After, Record!response, Finishing, EndInv,
     Quiet, Collected, DoingInv
<1>7. Record!ReportedAsItWas'
  BY <1>1, <1>3, <1>4 DEF Record!ReportedAsItWas, Record!Switched, Record!After,
     Record!switchLog, RecordType, WorkInv, InstanceInv, Collected
<1>8. QED
  BY <1>5, <1>6, <1>7 DEF RecordInv

LEMMA PostSuccessAlarmsKeeps ==
  ASSUME RecordInv, Record!PostSuccessAlarms
  PROVE  RecordInv'
<1>1. RecordType /\ WorkInv /\ EndInv /\ DoingInv /\ Record!ReportedAsItWas
  BY DEF RecordInv
<1>2. \A i \in Inst : WorkerOf(i)' = WorkerOf(i)
  BY WorkersKept DEF Record!PostSuccessAlarms
<1>3. /\ sr_alarm' \in [Inst -> {"none", "success", "failure"}]
      /\ \A i \in Inst : \/ sr_alarm'[i] = sr_alarm[i]
                         \/ i \in Inst \ sr_failure /\ sr_alarm'[i] = "success"
  BY <1>1, Posted DEF Record!PostSuccessAlarms
<1>4. \A i \in Inst : Collected(i)
  BY <1>1 DEF Record!PostSuccessAlarms, Finishing, EndInv
<1>5. RecordType' /\ WorkInv'
  <2>1. RecordType'
    BY <1>1, <1>3 DEF Record!PostSuccessAlarms, Record!snapshot,
       Record!switchLog, Record!response, RecordType, RecordStage, Finishing
  <2>2. ASSUME NEW i \in Inst PROVE InstanceInv(i)'
    <3>1. /\ InstanceInv(i) /\ Collected(i)
          /\ UNCHANGED <<sr_scope, sr_did, sr_line, sr_failure, sr_new>>
          /\ sr_pc = "success alarms" /\ sr_pc' = "failure alarms"
      BY <1>1, <1>4 DEF WorkInv, Record!PostSuccessAlarms, Record!switchLog,
         Record!response
    <3>2. QED
      BY <1>2, <1>3, <3>1 DEF InstanceInv, Collected
  <2>3. QED
    BY <2>1, <2>2 DEF WorkInv
<1>6. EndInv' /\ DoingInv'
  BY <1>1, <1>2 DEF Record!PostSuccessAlarms, Record!snapshot, Record!response,
     Finishing, EndInv, Quiet, Collected, DoingInv
<1>7. Record!ReportedAsItWas'
  BY <1>1, <1>5 DEF Record!ReportedAsItWas, Record!Switched,
     Record!PostSuccessAlarms, Record!snapshot, WorkInv, InstanceInv
<1>8. QED
  BY <1>5, <1>6, <1>7 DEF RecordInv

LEMMA PostFailureAlarmsKeeps ==
  ASSUME RecordInv, Record!PostFailureAlarms
  PROVE  RecordInv'
<1>1. RecordType /\ WorkInv /\ EndInv /\ DoingInv /\ Record!ReportedAsItWas
  BY DEF RecordInv
<1>2. \A i \in Inst : WorkerOf(i)' = WorkerOf(i)
  BY WorkersKept DEF Record!PostFailureAlarms
<1>3. /\ sr_alarm' \in [Inst -> {"none", "success", "failure"}]
      /\ \A i \in Inst : \/ sr_alarm'[i] = sr_alarm[i]
                         \/ i \in sr_failure /\ sr_alarm'[i] = "failure"
  BY <1>1, Posted DEF Record!PostFailureAlarms
<1>4. RecordType' /\ WorkInv'
  BY <1>1, <1>2, <1>3 DEF Record!PostFailureAlarms, Record!switchLog,
     Record!response, RecordType, RecordStage, WorkInv, InstanceInv, Collected
<1>5. EndInv' /\ DoingInv'
  BY <1>1, <1>2 DEF Record!PostFailureAlarms, Record!response,
     Finishing, EndInv, Quiet, Collected, DoingInv
<1>6. Record!ReportedAsItWas'
  BY <1>1, <1>4, <1>5 DEF Record!ReportedAsItWas, Record!Switched,
     Record!PostFailureAlarms, WorkInv, InstanceInv, DoingInv
<1>7. QED
  BY <1>4, <1>5, <1>6 DEF RecordInv

LEMMA RecordCrashKeeps ==
  ASSUME RecordInv, Record!Crash
  PROVE  RecordInv'
<1>1. RecordType /\ WorkInv /\ EndInv /\ DoingInv /\ Record!ReportedAsItWas
  BY DEF RecordInv
<1>2. \A i \in Inst : WorkerOf(i)' = "gone"
  BY GroupIsGroup, GroupKept DEF Record!Crash, WorkerOf, Record!AnyGroup
<1>3. RecordType'
  BY <1>1 DEF Record!Crash, Record!snapshot, Record!switchLog, Record!response,
     RecordType, RecordStage, Worker, Record!AnyGroup
<1>4. WorkInv' /\ EndInv' /\ DoingInv'
  BY <1>1, <1>2 DEF Record!Crash, Record!snapshot, Record!switchLog,
     Record!response, Finishing, WorkInv, InstanceInv, EndInv, Quiet, DoingInv
<1>5. Record!ReportedAsItWas'
  BY <1>1 DEF Record!ReportedAsItWas, Record!Switched, Record!Crash,
     Record!snapshot, Record!switchLog, Record!response
<1>6. QED
  BY <1>3, <1>4, <1>5 DEF RecordInv

LEMMA RecordStep ==
  ASSUME RecordInv, Record!Next
  PROVE  RecordInv'
<1>1. CASE Record!TriggerSwitching
  BY <1>1, OpenKeeps, NewSwitchLoggerKeeps, BeforeKeeps, AfterKeeps,
     UnknownScopeKeeps, DispatchKeeps, WaitKeeps, PostSuccessAlarmsKeeps,
     PostFailureAlarmsKeeps DEF Record!TriggerSwitching
<1>2. CASE \E g \in Record!Groups : Record!Work(g)
  BY <1>2, WorkKeeps
<1>3. QED
  BY <1>1, <1>2, SwitchPanicsKeeps, RecordCrashKeeps DEF Record!Next

LEMMA RecordStutters ==
  ASSUME RecordInv, UNCHANGED recordVars
  PROVE  RecordInv'
<1>1. \A i : WorkerOf(i)' = WorkerOf(i)
  BY WorkersKept DEF recordVars
<1>2. RecordType'
  BY DEF RecordInv, recordVars, RecordType, Record!AnyGroup
<1>3. WorkInv'
  BY <1>1 DEF RecordInv, recordVars, WorkInv, InstanceInv, Collected
<1>4. EndInv' /\ DoingInv'
  BY <1>1 DEF RecordInv, recordVars, Collected, EndInv, Quiet, DoingInv
<1>5. Record!ReportedAsItWas'
  BY DEF RecordInv, recordVars, Record!ReportedAsItWas, Record!Switched
<1>6. QED
  BY <1>2, <1>3, <1>4, <1>5 DEF RecordInv

LEMMA RecordInit ==
  ASSUME Record!Init
  PROVE  RecordInv
<1>1. RecordType
  BY DEF Record!Init, RecordType, RecordStage, Worker, Line
<1>2. \A i \in Inst : WorkerOf(i) = "none"
  BY GroupIsGroup DEF Record!Init, WorkerOf
<1>3. WorkInv /\ EndInv /\ DoingInv
  BY <1>2 DEF Record!Init, WorkInv, InstanceInv, EndInv, Finishing, DoingInv
<1>4. Record!ReportedAsItWas
  BY DEF Record!Init, Record!ReportedAsItWas, Record!Switched
<1>5. QED
  BY <1>1, <1>3, <1>4 DEF RecordInv

LEMMA RecordInvHolds == MCSpec => []RecordInv
<1>1. MCInit => RecordInv
  BY RecordInit DEF MCInit
<1>2. RecordInv /\ [MCNext]_allVars => RecordInv'
  BY RecordStep, RecordStutters DEF MCNext, allVars
<1>3. QED
  BY <1>1, <1>2, PTL DEF MCSpec

(* What the snapshot row, the switch log and the alarms say of a switch is *)
(* what happened to its instances, however the workers of the groups are   *)
(* interleaved and whatever call fails (TriggerSwitching, Mysql.Switch).   *)
THEOREM ReportsAreTrue == MCSpec => []ReportedAsItWas
<1>1. RecordInv => ReportedAsItWas
  BY DEF RecordInv, ReportedAsItWas
<1>2. QED
  BY <1>1, RecordInvHolds, PTL

(* A row that has an outcome is the last word: no worker is at work on the *)
(* switch any more, so nothing can make it untrue later.                   *)
THEOREM OutcomeIsFinal ==
  MCSpec => [](sr_row \in {"success", "failed"} =>
                 \A i \in Inst : WorkerOf(i) \in {"none", "gone"})
<1>1. RecordInv => (sr_row \in {"success", "failed"} =>
                      \A i \in Inst : WorkerOf(i) \in {"none", "gone"})
  BY DEF RecordInv, EndInv, Quiet
<1>2. QED
  BY <1>1, RecordInvHolds, PTL

-----------------------------------------------------------------------------
(* SpiderSwitch: the invariant, in the part of the world and the part of   *)
(* the attempts.                                                           *)

WorldType ==
  /\ sp_down \subseteq Spider \union Shard /\ sp_swapped \subseteq Shard
  /\ sp_named \subseteq Spider /\ sp_detached \subseteq Shard
  /\ sp_alive \subseteq Tdbctl /\ sp_primaries \subseteq Tdbctl
  /\ sp_follows \in [Tdbctl -> Tdbctl \union {Nobody}]
  /\ sp_done \in [Tdbctl -> SUBSET Spiders!Change]
  /\ sp_gap \in [Tdbctl -> SUBSET Spiders!Change]
  /\ sp_served \subseteq Spiders!Change

OperatorType ==
  /\ sp_primary \in [Attempt -> Tdbctl \union {Nobody}]
  /\ sp_others \in [Attempt -> SUBSET Tdbctl]
  /\ sp_base \in [Attempt -> SUBSET Spiders!Change]

AttemptType ==
  /\ sp_lock \in Attempt \union {Nobody}
  /\ sp_pc \in [Attempt -> Spiders!Stage]
  /\ sp_unit \in [Attempt -> SUBSET (Spider \union Shard)]
  /\ OperatorType

(* A tdbctl is dropped from a table only when DBM lists its spider as      *)
(* unavailable, and a shard is routed to a standby slave only when that    *)
(* has been reset.                                                         *)
DropInv ==
  \A t, x \in Tdbctl : <<x, "tdbctl">> \in sp_done[t] => x \in sp_down
RouteInv ==
  /\ \A t \in Tdbctl : \A h \in Shard :
       <<h, "master">> \in sp_done[t] => h \in sp_detached
  /\ \A h \in Shard : <<h, "master">> \in sp_served => h \in sp_detached

WorldInv == WorldType /\ IsFiniteSet(sp_primaries) /\ DropInv /\ RouteInv

(* The primaries that count. *)
Up == (sp_primaries \intersect sp_alive) \ sp_down

AttemptInv(a) ==
  /\ sp_pc[a] \notin {"idle", "begun", "locking"} => sp_lock = a
  /\ sp_pc[a] \notin {"idle", "begun"} => sp_unit[a] \subseteq sp_down
  /\ sp_pc[a] \in {"reset", "enable"} => Up = {}
  /\ sp_pc[a] = "alter" => sp_unit[a] \intersect Shard \subseteq sp_detached

SpiderInv ==
  /\ WorldInv /\ AttemptType
  /\ \A a \in Attempt : AttemptInv(a)
  /\ \A x, y \in Up : x = y

(* What a step may do to the world under an attempt: nothing becomes       *)
(* available or attached again, and a new primary comes up only by the     *)
(* holder of the lock.                                                     *)
WorldStep(a) ==
  /\ WorldInv'
  /\ sp_down \subseteq sp_down' /\ sp_detached \subseteq sp_detached'
  /\ Up' \subseteq Up \/ (sp_lock = a /\ \E p : Up' \subseteq {p})

-----------------------------------------------------------------------------
LEMMA SameNames ==
  /\ Spiders!Tdbctl = Tdbctl
  /\ \A S : Spiders!Cardinality(S) = Cardinality(S)
  BY DEF Spiders!Tdbctl, Tdbctl, Spiders!Cardinality, Cardinality

LEMMA Singletons == \A x : IsFiniteSet({x}) /\ Cardinality({x}) = 1
  BY FS_Singleton

(* The attempts under a step of the world. *)

LEMMA EndKeeps ==
  ASSUME SpiderInv, NEW a \in Attempt, Spiders!End(a), WorldStep(a)
  PROVE  SpiderInv'
<1>1. AttemptType'
  BY DEF SpiderInv, AttemptType, OperatorType, Spiders!End, Spiders!Stage
<1>2. ASSUME NEW b \in Attempt PROVE AttemptInv(b)'
  BY <1>2 DEF SpiderInv, AttemptInv, AttemptType, Spiders!End, WorldStep
<1>3. \A x, y \in Up' : x = y
  BY DEF SpiderInv, WorldStep
<1>4. QED
  BY <1>1, <1>2, <1>3 DEF SpiderInv, WorldStep

LEMMA GotoKeeps ==
  ASSUME SpiderInv, NEW a \in Attempt, NEW stage \in Spiders!Stage,
         sp_pc[a] \notin {"idle", "begun", "locking"},
         Spiders!Goto(a, stage), WorldStep(a), OperatorType',
         stage \in {"reset", "enable"} => Up' = {},
         stage = "alter" => sp_unit[a] \intersect Shard \subseteq sp_detached'
  PROVE  SpiderInv'
<1>1. AttemptType'
  BY DEF SpiderInv, AttemptType, Spiders!Goto
<1>2. ASSUME NEW b \in Attempt PROVE AttemptInv(b)'
  BY <1>2 DEF SpiderInv, AttemptInv, AttemptType, Spiders!Goto, WorldStep
<1>3. \A x, y \in Up' : x = y
  BY DEF SpiderInv, WorldStep
<1>4. QED
  BY <1>1, <1>2, <1>3 DEF SpiderInv, WorldStep

(* A step that leaves the world alone, or only takes primaries away. *)
LEMMA QuietStep ==
  ASSUME SpiderInv, WorldInv', NEW a,
         UNCHANGED sp_primaries, sp_alive' \subseteq sp_alive,
         sp_down \subseteq sp_down', sp_detached \subseteq sp_detached'
  PROVE  WorldStep(a)
  BY DEF WorldStep, Up

LEMMA SameWorld ==
  ASSUME SpiderInv, UNCHANGED Spiders!world, NEW a
  PROVE  WorldStep(a) /\ Up' = Up
  BY DEF WorldStep, Up, SpiderInv, WorldInv, WorldType, DropInv, RouteInv, Spiders!world,
     Spiders!dbm, Spiders!tdbctl

-----------------------------------------------------------------------------
(* The world under each operation. *)

LEMMA NamesStep ==
  ASSUME SpiderInv, NEW a \in Attempt, NEW S, Spiders!DeleteSpiderNameService(a, S)
  PROVE  WorldStep(a)
<1>1. sp_named' \subseteq Spider
  BY DEF Spiders!DeleteSpiderNameService, Spiders!Released, SpiderInv, WorldInv, WorldType
<1>2. WorldInv'
  BY <1>1 DEF Spiders!DeleteSpiderNameService, Spiders!dbm, Spiders!tdbctl, SpiderInv,
     WorldInv, WorldType, DropInv, RouteInv
<1>3. QED
  BY <1>2, QuietStep DEF Spiders!DeleteSpiderNameService, Spiders!dbm, Spiders!tdbctl

LEMMA ResetPrimaryStep ==
  ASSUME SpiderInv, NEW a \in Attempt, Spiders!DoResetSlaveWithBinlogPos(a)
  PROVE  WorldStep(a)
<1>1. WorldInv'
  BY DEF Spiders!DoResetSlaveWithBinlogPos, Spiders!dbm, SpiderInv,
     WorldInv, WorldType, DropInv, RouteInv
<1>2. QED
  BY <1>1, QuietStep DEF Spiders!DoResetSlaveWithBinlogPos, Spiders!dbm

(* There is no primary to be found when one is enabled. *)
LEMMA EnableStep ==
  ASSUME SpiderInv, NEW a \in Attempt, Spiders!TdbctlEnablePrimary(a)
  PROVE  WorldStep(a)
<1>1. IsFiniteSet(sp_primaries')
  BY FS_AddElement DEF Spiders!TdbctlEnablePrimary, SpiderInv, WorldInv
<1>2. WorldInv'
  BY <1>1 DEF Spiders!TdbctlEnablePrimary, Spiders!dbm, SpiderInv,
     WorldInv, WorldType, DropInv, RouteInv
<1>3. sp_lock = a /\ Up' \subseteq {sp_primary[a]}
  BY DEF Spiders!TdbctlEnablePrimary, Spiders!dbm, SpiderInv, AttemptInv, Up
<1>4. QED
  BY <1>2, <1>3 DEF WorldStep, Spiders!TdbctlEnablePrimary, Spiders!dbm

(* The changes D that are put into the table of the attempt's primary.     *)
LEMMA AlterStep ==
  ASSUME SpiderInv, NEW a \in Attempt, NEW D, Spiders!Alter(a, D),
         D \subseteq Spiders!Change, UNCHANGED sp_detached \/ sp_detached' \subseteq Shard,
         sp_detached \subseteq sp_detached',
         \A x \in Tdbctl : <<x, "tdbctl">> \in D => x \in sp_down,
         \A h \in Shard : <<h, "master">> \in D => h \in sp_detached'
  PROVE  WorldStep(a)
<1>1. sp_primary[a] \in Tdbctl
  BY DEF Spiders!Alter, SpiderInv, WorldInv, WorldType
<1>2. /\ sp_done' \in [Tdbctl -> SUBSET Spiders!Change]
      /\ \A t \in Tdbctl : sp_done'[t] \subseteq sp_done[t] \union D
  BY <1>1 DEF Spiders!Alter, SpiderInv, WorldInv, WorldType
<1>3. WorldInv'
  BY <1>2 DEF Spiders!Alter, Spiders!dbm, SpiderInv, WorldInv, WorldType, DropInv, RouteInv
<1>4. QED
  BY <1>3, QuietStep DEF Spiders!Alter, Spiders!dbm

LEMMA DropStep ==
  ASSUME SpiderInv, NEW a \in Attempt, NEW D \in SUBSET Spiders!BrokenRoutes(a),
         Spiders!DropBrokenSpiderRoutes(a, D)
  PROVE  WorldStep(a)
<1>1. sp_unit[a] \subseteq sp_down
  BY DEF Spiders!DropBrokenSpiderRoutes, SpiderInv, AttemptInv
<1>2. /\ D \subseteq Spiders!Change
      /\ \A x : <<x, "tdbctl">> \in D => x \in sp_unit[a]
      /\ \A h : <<h, "master">> \notin D
  BY DEF Spiders!BrokenRoutes, Spiders!Broken
<1>3. QED
  BY <1>1, <1>2, AlterStep DEF Spiders!DropBrokenSpiderRoutes

LEMMA DetachStep ==
  ASSUME SpiderInv, NEW a \in Attempt, NEW H \in SUBSET Shard,
         Spiders!ResetStandbySlaves(a, H)
  PROVE  WorldStep(a)
<1>1. WorldInv'
  BY DEF Spiders!ResetStandbySlaves, Spiders!dbm, Spiders!tdbctl, SpiderInv,
     WorldInv, WorldType, DropInv, RouteInv
<1>2. QED
  BY <1>1, QuietStep DEF Spiders!ResetStandbySlaves, Spiders!dbm, Spiders!tdbctl

LEMMA MasterRoutes ==
  ASSUME NEW H \in SUBSET Shard
  PROVE  /\ H \X {"master"} \subseteq Spiders!Change
         /\ \A x : <<x, "tdbctl">> \notin H \X {"master"}
         /\ \A h : <<h, "master">> \in H \X {"master"} => h \in H
  BY DEF Spiders!Change

LEMMA UpdateStep ==
  ASSUME SpiderInv, NEW a \in Attempt, NEW H \in SUBSET Spiders!RemoteMasters(a),
         Spiders!UpdateMasterRouteToSlave(a, H)
  PROVE  WorldStep(a)
<1>1. H \subseteq Shard /\ H \subseteq sp_detached
  BY DEF Spiders!UpdateMasterRouteToSlave, Spiders!RemoteMasters, SpiderInv, AttemptInv
<1>2. QED
  BY <1>1, MasterRoutes, AlterStep DEF Spiders!UpdateMasterRouteToSlave

LEMMA SwitchFailsStep ==
  ASSUME SpiderInv, NEW a \in Attempt, NEW H \in SUBSET Spiders!RemoteMasters(a),
         NEW G, Spiders!SwitchRemoteMastersFails(a, H, G)
  PROVE  WorldStep(a)
<1>1. /\ G \subseteq H /\ H \subseteq Shard
      /\ sp_detached' = sp_detached \union H /\ sp_detached' \subseteq Shard
  BY DEF Spiders!SwitchRemoteMastersFails, Spiders!RemoteMasters, SpiderInv, WorldInv,
     WorldType
<1>2. QED
  BY <1>1, MasterRoutes, AlterStep DEF Spiders!SwitchRemoteMastersFails

LEMMA FlushStep ==
  ASSUME SpiderInv, NEW a \in Attempt, Spiders!TdbctlFlushRouting(a)
  PROVE  WorldStep(a)
<1>1. sp_primary[a] \in Tdbctl
  BY DEF Spiders!TdbctlFlushRouting, SpiderInv, WorldInv, WorldType
<1>2. WorldInv'
  BY <1>1 DEF Spiders!TdbctlFlushRouting, Spiders!dbm, Spiders!tdbctl, SpiderInv,
     WorldInv, WorldType, DropInv, RouteInv
<1>3. QED
  BY <1>2, QuietStep DEF Spiders!TdbctlFlushRouting, Spiders!dbm, Spiders!tdbctl

LEMMA MetaInfoStep ==
  ASSUME SpiderInv, NEW a \in Attempt, NEW H \in SUBSET Spiders!RemoteMasters(a),
         Spiders!UpdateMetaInfo(a, H)
  PROVE  WorldStep(a)
<1>1. WorldInv'
  BY DEF Spiders!UpdateMetaInfo, Spiders!RemoteMasters, Spiders!tdbctl, SpiderInv,
     WorldInv, WorldType, DropInv, RouteInv
<1>2. QED
  BY <1>1, QuietStep DEF Spiders!UpdateMetaInfo, Spiders!tdbctl

LEMMA RepairStep ==
  ASSUME SpiderInv, NEW a \in Attempt, NEW T, Spiders!RepairTdbctlReplication(a, T)
  PROVE  WorldStep(a)
<1>1. /\ sp_follows' \in [Tdbctl -> Tdbctl \union {Nobody}]
      /\ sp_gap' \in [Tdbctl -> SUBSET Spiders!Change]
  BY SameNames DEF Spiders!RepairTdbctlReplication, SpiderInv, WorldInv, WorldType,
     AttemptType, OperatorType
<1>2. WorldInv'
  BY <1>1 DEF Spiders!RepairTdbctlReplication, Spiders!dbm, SpiderInv,
     WorldInv, WorldType, DropInv, RouteInv
<1>3. QED
  BY <1>2, QuietStep DEF Spiders!RepairTdbctlReplication, Spiders!dbm

-----------------------------------------------------------------------------
(* FindPrimaryTdbctl reads every node that answers and is not dropped: the *)
(* one it finds is the only primary there is, so when that one is involved *)
(* none is left.                                                           *)
LEMMA InvolvedIsLast ==
  ASSUME SpiderInv, NEW a \in Attempt, sp_pc[a] = "find",
         NEW p \in Tdbctl, NEW t \in Tdbctl, NEW shown \in SUBSET Tdbctl,
         Spiders!FindPrimaryTdbctl(a, p, t, shown), Spiders!IsInvolved(a, p)
  PROVE  Up = {}
<1> DEFINE Prim == shown \intersect sp_primaries
<1>1. p \in sp_down
  BY DEF Spiders!IsInvolved, Spiders!Broken, SpiderInv, AttemptInv
<1>2. \A x \in Up : x \in Prim
  BY SameNames DEF Up, Spiders!FindPrimaryTdbctl, Spiders!Shows, Spiders!Rows, SpiderInv,
     WorldInv, WorldType, DropInv
<1>3. ASSUME Prim # {} PROVE \A x \in Prim : x = p
  <2>1. p \in Prim /\ Cardinality(Prim) <= 1
    BY <1>3, SameNames DEF Spiders!FindPrimaryTdbctl, Spiders!IsPrimary
  <2>2. IsFiniteSet(Prim)
    BY FS_Subset DEF SpiderInv, WorldInv
  <2>3. ASSUME NEW x \in Prim, x # p PROVE FALSE
    <3>1. Cardinality({p} \union {x}) = 2
      <4>1. IsFiniteSet({p}) /\ Cardinality({p}) = 1
        BY Singletons
      <4>2. Cardinality({p} \union {x}) = Cardinality({p}) + 1
        BY <2>3, <4>1, FS_AddElement
      <4>3. QED
        BY <4>1, <4>2
    <3>2. Cardinality({p} \union {x}) <= Cardinality(Prim)
      BY <2>1, <2>2, <2>3, FS_Subset
    <3>3. Cardinality(Prim) \in Nat
      BY <2>2, FS_CardinalityType
    <3>4. QED
      BY <2>1, <3>1, <3>2, <3>3
  <2>4. QED
    BY <2>3
<1>4. QED
  BY <1>1, <1>2, <1>3 DEF Up

LEMMA Stages ==
  {"find", "reset", "enable", "drop", "detach", "alter", "flush", "swap", "final"}
    \subseteq Spiders!Stage
  BY DEF Spiders!Stage

LEMMA OperatorKept ==
  ASSUME SpiderInv, UNCHANGED Spiders!operator
  PROVE  OperatorType'
  BY DEF SpiderInv, AttemptType, OperatorType, Spiders!operator

(* The steps of an attempt that go well, up to the drop of the routes. *)
LEMMA SpiderStepsKeep ==
  ASSUME SpiderInv, NEW a \in Attempt, Spiders!SpiderSteps(a)
  PROVE  SpiderInv'
<1>1. CASE /\ Spiders!DeleteSpiderNameService(a, Spiders!Broken(a))
           /\ Spiders!Goto(a, "find") /\ UNCHANGED Spiders!operator
  <2>1. sp_pc[a] = "names"
    BY <1>1 DEF Spiders!DeleteSpiderNameService
  <2>2. QED
    BY <1>1, <2>1, NamesStep, OperatorKept, GotoKeeps, Stages
<1>2. ASSUME NEW t \in Tdbctl, NEW p \in Tdbctl, NEW shown \in SUBSET Tdbctl,
             sp_pc[a] = "find", Spiders!KeepPrimary(a, p, t, shown)
      PROVE  SpiderInv'
  <2>1. WorldStep(a)
    BY <1>2, SameWorld DEF Spiders!KeepPrimary
  <2>2. OperatorType'
    BY <1>2 DEF Spiders!KeepPrimary, SpiderInv, AttemptType, OperatorType
  <2>3. QED
    BY <1>2, <2>1, <2>2, GotoKeeps, Stages DEF Spiders!KeepPrimary
<1>3. ASSUME NEW t \in Tdbctl, NEW p \in Tdbctl, NEW shown \in SUBSET Tdbctl,
             NEW e \in Tdbctl, NEW R \in SUBSET Tdbctl, sp_pc[a] = "find",
             Spiders!HandleInvolvedPrimaryTdbctl(a, p, t, shown, R, e)
      PROVE  SpiderInv'
  <2>1. WorldStep(a) /\ Up' = Up
    BY <1>3, SameWorld DEF Spiders!HandleInvolvedPrimaryTdbctl
  <2>2. OperatorType'
    BY <1>3 DEF Spiders!HandleInvolvedPrimaryTdbctl, Spiders!Secondaries,
       Spiders!Secondary, SpiderInv, AttemptType, OperatorType
  <2>3. Up = {}
    BY <1>3, InvolvedIsLast DEF Spiders!HandleInvolvedPrimaryTdbctl
  <2>4. QED
    BY <1>3, <2>1, <2>2, <2>3, GotoKeeps, Stages DEF Spiders!HandleInvolvedPrimaryTdbctl
<1>4. CASE /\ Spiders!DoResetSlaveWithBinlogPos(a)
           /\ sp_base' = [sp_base EXCEPT ![a] = sp_done[sp_primary[a]]]
           /\ Spiders!Goto(a, "enable") /\ UNCHANGED <<sp_primary, sp_others>>
  <2>1. sp_pc[a] = "reset" /\ sp_primary[a] \in Tdbctl
    BY <1>4 DEF Spiders!DoResetSlaveWithBinlogPos, SpiderInv, WorldInv, WorldType
  <2>2. Up' = {}
    BY <1>4, <2>1 DEF Spiders!DoResetSlaveWithBinlogPos, Spiders!dbm, SpiderInv,
       AttemptInv, Up
  <2>3. OperatorType'
    BY <1>4, <2>1 DEF SpiderInv, AttemptType, OperatorType, WorldInv, WorldType
  <2>4. QED
    BY <1>4, <2>1, <2>2, <2>3, ResetPrimaryStep, GotoKeeps, Stages
<1>5. CASE /\ Spiders!TdbctlEnablePrimary(a) /\ Spiders!Goto(a, "drop")
           /\ UNCHANGED Spiders!operator
  <2>1. sp_pc[a] = "enable"
    BY <1>5 DEF Spiders!TdbctlEnablePrimary
  <2>2. QED
    BY <1>5, <2>1, EnableStep, OperatorKept, GotoKeeps, Stages
<1>6. CASE /\ Spiders!DropBrokenSpiderRoutes(a, Spiders!BrokenRoutes(a))
           /\ Spiders!Goto(a, "detach") /\ UNCHANGED Spiders!operator
  <2>1. sp_pc[a] = "drop"
    BY <1>6 DEF Spiders!DropBrokenSpiderRoutes
  <2>2. QED
    BY <1>6, <2>1, DropStep, OperatorKept, GotoKeeps, Stages
<1>7. QED
  BY <1>1, <1>2, <1>3, <1>4, <1>5, <1>6, SameNames DEF Spiders!SpiderSteps

(* ... from the reset of the standby slaves to the end. *)
LEMMA RemoteStepsKeep ==
  ASSUME SpiderInv, NEW a \in Attempt, Spiders!RemoteSteps(a)
  PROVE  SpiderInv'
<1>1. CASE /\ Spiders!ResetStandbySlaves(a, Spiders!RemoteMasters(a))
           /\ Spiders!Goto(a, "alter") /\ UNCHANGED Spiders!operator
  <2>1. /\ sp_pc[a] = "detach" /\ Spiders!RemoteMasters(a) = sp_unit[a] \intersect Shard
        /\ sp_detached' = sp_detached \union Spiders!RemoteMasters(a)
    BY <1>1 DEF Spiders!ResetStandbySlaves, Spiders!RemoteMasters
  <2>2. WorldStep(a)
    BY <1>1, <2>1, DetachStep
  <2>3. QED
    BY <1>1, <2>1, <2>2, OperatorKept, GotoKeeps, Stages
<1>2. CASE /\ Spiders!UpdateMasterRouteToSlave(a, Spiders!RemoteMasters(a))
           /\ Spiders!Goto(a, "flush") /\ UNCHANGED Spiders!operator
  <2>1. sp_pc[a] = "alter"
    BY <1>2 DEF Spiders!UpdateMasterRouteToSlave
  <2>2. QED
    BY <1>2, <2>1, UpdateStep, OperatorKept, GotoKeeps, Stages
<1>3. CASE /\ Spiders!TdbctlFlushRouting(a) /\ Spiders!Goto(a, "swap")
           /\ UNCHANGED Spiders!operator
  <2>1. sp_pc[a] = "flush"
    BY <1>3 DEF Spiders!TdbctlFlushRouting
  <2>2. QED
    BY <1>3, <2>1, FlushStep, OperatorKept, GotoKeeps, Stages
<1>4. QED
  BY <1>1, <1>2, <1>3 DEF Spiders!RemoteSteps

LEMMA SpiderSuccessKeeps ==
  ASSUME SpiderInv, NEW a \in Attempt, Spiders!Success(a)
  PROVE  SpiderInv'
<1>1. CASE Spiders!CheckBeforeSwitch(a)
  <2>1. /\ sp_pc[a] = "locking" /\ sp_lock = Nobody /\ sp_lock' = a
        /\ sp_pc' = [sp_pc EXCEPT ![a] = "names"]
        /\ UNCHANGED <<Spiders!world, sp_unit, Spiders!operator>>
    BY <1>1 DEF Spiders!CheckBeforeSwitch
  <2>2. WorldStep(a) /\ Up' = Up
    BY <2>1, SameWorld
  <2>3. AttemptType'
    BY <2>1, OperatorKept DEF SpiderInv, AttemptType, Spiders!Stage
  <2>4. ASSUME NEW b \in Attempt PROVE AttemptInv(b)'
    BY <2>1, <2>2, <2>4, SpiderSwitchAssumption
       DEF SpiderInv, AttemptInv, AttemptType, WorldStep
  <2>5. QED
    BY <2>2, <2>3, <2>4 DEF SpiderInv, WorldStep
<1>2. CASE /\ Spiders!UpdateMetaInfo(a, Spiders!RemoteMasters(a))
           /\ Spiders!Goto(a, "final") /\ UNCHANGED Spiders!operator
  <2>1. sp_pc[a] = "swap"
    BY <1>2 DEF Spiders!UpdateMetaInfo
  <2>2. QED
    BY <1>2, <2>1, MetaInfoStep, OperatorKept, GotoKeeps, Stages
<1>3. CASE Spiders!RepairTdbctlReplication(a, sp_others[a]) /\ Spiders!End(a)
  BY <1>3, RepairStep, EndKeeps
<1>4. QED
  BY <1>1, <1>2, <1>3, SpiderStepsKeep, RemoteStepsKeep DEF Spiders!Success

LEMMA SpiderFailureKeeps ==
  ASSUME SpiderInv, NEW a \in Attempt, Spiders!Failure(a)
  PROVE  SpiderInv'
<1>1. CASE Spiders!GiveUp(a)
  BY <1>1, SameWorld, EndKeeps DEF Spiders!GiveUp
<1>2. CASE ~Spiders!GiveUp(a)
  <2>1. Spiders!End(a)
    BY <1>2 DEF Spiders!Failure
  <2>2. WorldStep(a)
    BY <1>2, NamesStep, ResetPrimaryStep, EnableStep, DropStep, SwitchFailsStep, UpdateStep,
       FlushStep, MetaInfoStep, RepairStep DEF Spiders!Failure
  <2>3. QED
    BY <2>1, <2>2, EndKeeps
<1>3. QED
  BY <1>1, <1>2

(* The steps around the procedure, and those of the nodes. *)

LEMMA BeginKeeps ==
  ASSUME SpiderInv, NEW a \in Attempt, NEW U \in SameHostUnits, Spiders!Begin(a, U)
  PROVE  SpiderInv'
<1>1. /\ sp_pc' = [sp_pc EXCEPT ![a] = "begun"] /\ sp_unit' = [sp_unit EXCEPT ![a] = U]
      /\ UNCHANGED <<Spiders!world, sp_lock, Spiders!operator>>
  BY DEF Spiders!Begin
<1>2. WorldStep(a) /\ Up' = Up
  BY <1>1, SameWorld
<1>3. AttemptType'
  BY <1>1, OperatorKept, SpiderSwitchAssumption DEF SpiderInv, AttemptType, Spiders!Stage
<1>4. ASSUME NEW b \in Attempt PROVE AttemptInv(b)'
  BY <1>1, <1>2, <1>4 DEF SpiderInv, AttemptInv, AttemptType, WorldStep
<1>5. QED
  BY <1>2, <1>3, <1>4 DEF SpiderInv, WorldStep

LEMMA SetUnavailableKeeps ==
  ASSUME SpiderInv, NEW a \in Attempt, NEW T \in SUBSET sp_unit[a],
         Spiders!SetUnavailable(a, T)
  PROVE  SpiderInv'
<1>1. sp_down' = sp_down \union T /\ T \subseteq Spider \union Shard
  BY DEF Spiders!SetUnavailable, SpiderInv, AttemptType
<1>2. WorldInv'
  BY <1>1 DEF Spiders!SetUnavailable, Spiders!tdbctl, SpiderInv, WorldInv, WorldType,
     DropInv, RouteInv
<1>3. WorldStep(a) /\ Up' \subseteq Up
  BY <1>1, <1>2, QuietStep DEF Spiders!SetUnavailable, Spiders!tdbctl, Up
<1>4. CASE T = sp_unit[a]
  <2>1. Spiders!Goto(a, "locking") /\ UNCHANGED Spiders!operator
    BY <1>4 DEF Spiders!SetUnavailable
  <2>2. AttemptType'
    BY <2>1, OperatorKept DEF SpiderInv, AttemptType, Spiders!Goto, Spiders!Stage
  <2>3. ASSUME NEW b \in Attempt PROVE AttemptInv(b)'
    BY <1>1, <1>3, <1>4, <2>1, <2>3
       DEF SpiderInv, AttemptInv, AttemptType, Spiders!Goto, WorldStep
  <2>4. QED
    BY <1>3, <2>2, <2>3 DEF SpiderInv, WorldStep
<1>5. CASE T # sp_unit[a]
  BY <1>3, <1>5, EndKeeps DEF Spiders!SetUnavailable
<1>6. QED
  BY <1>4, <1>5

(* No attempt moves, and the world keeps its part of the invariant. *)
LEMMA NodeStep ==
  ASSUME SpiderInv, WorldInv',
         UNCHANGED <<sp_primaries, sp_down, sp_detached, sp_lock, sp_pc, sp_unit,
                     Spiders!operator>>,
         sp_alive' \subseteq sp_alive
  PROVE  SpiderInv'
<1>1. Up' \subseteq Up
  BY DEF Up
<1>2. AttemptType'
  BY OperatorKept DEF SpiderInv, AttemptType
<1>3. ASSUME NEW b \in Attempt PROVE AttemptInv(b)'
  BY <1>1, <1>3 DEF SpiderInv, AttemptInv
<1>4. QED
  BY <1>1, <1>2, <1>3 DEF SpiderInv

LEMMA ReplicateKeeps ==
  ASSUME SpiderInv, NEW x \in Tdbctl, Spiders!Replicate(x)
  PROVE  SpiderInv'
<1>1. sp_follows[x] \in Tdbctl
  BY DEF Spiders!Replicate, SpiderInv, WorldInv, WorldType
<1>2. /\ sp_done' \in [Tdbctl -> SUBSET Spiders!Change]
      /\ \A t \in Tdbctl : sp_done'[t] \subseteq sp_done[t] \union sp_done[sp_follows[x]]
  BY <1>1 DEF Spiders!Replicate, SpiderInv, WorldInv, WorldType
<1>3. WorldInv'
  BY <1>1, <1>2 DEF Spiders!Replicate, Spiders!dbm, SpiderInv, WorldInv, WorldType,
     DropInv, RouteInv
<1>4. QED
  BY <1>3, NodeStep DEF Spiders!Replicate, Spiders!dbm

LEMMA DieKeeps ==
  ASSUME SpiderInv, NEW x \in Tdbctl, Spiders!Die(x)
  PROVE  SpiderInv'
<1>1. WorldInv'
  BY DEF Spiders!Die, Spiders!dbm, Spiders!tdbctl, SpiderInv, WorldInv, WorldType,
     DropInv, RouteInv
<1>2. QED
  BY <1>1, NodeStep DEF Spiders!Die, Spiders!dbm, Spiders!tdbctl

LEMMA SpiderCrashKeeps ==
  ASSUME SpiderInv, Spiders!Crash
  PROVE  SpiderInv'
<1>1. WorldInv' /\ Up' = Up
  BY SameWorld DEF Spiders!Crash, WorldStep
<1>2. AttemptType'
  BY DEF Spiders!Crash, AttemptType, OperatorType, Spiders!Stage
<1>3. ASSUME NEW b \in Attempt PROVE AttemptInv(b)'
  BY <1>3 DEF Spiders!Crash, AttemptInv
<1>4. QED
  BY <1>1, <1>2, <1>3 DEF SpiderInv

LEMMA SpiderStep ==
  ASSUME SpiderInv, Spiders!Next
  PROVE  SpiderInv'
  BY BeginKeeps, SetUnavailableKeeps, SpiderSuccessKeeps, SpiderFailureKeeps,
     ReplicateKeeps, DieKeeps, SpiderCrashKeeps, SameNames DEF Spiders!Next

LEMMA SpiderStutters ==
  ASSUME SpiderInv, UNCHANGED spiderVars
  PROVE  SpiderInv'
<1>1. WorldInv'
  BY DEF SpiderInv, WorldInv, WorldType, DropInv, RouteInv, spiderVars
<1>2. QED
  BY <1>1, NodeStep DEF spiderVars, Spiders!operator

LEMMA SpiderInit ==
  ASSUME Spiders!Init
  PROVE  SpiderInv
<1>1. WorldType
  BY SameNames, SpiderSwitchAssumption DEF Spiders!Init, WorldType, Tdbctl
<1>2. WorldInv
  BY <1>1, FS_Singleton DEF Spiders!Init, WorldInv, DropInv, RouteInv, Tdbctl, Spiders!Tdbctl
<1>3. AttemptType /\ \A a \in Attempt : AttemptInv(a)
  BY DEF Spiders!Init, AttemptType, OperatorType, AttemptInv, Spiders!Stage
<1>4. QED
  BY <1>2, <1>3 DEF Spiders!Init, SpiderInv, Up

LEMMA SpiderInvHolds == MCSpec => []SpiderInv
<1>1. MCInit => SpiderInv
  BY SpiderInit DEF MCInit
<1>2. SpiderInv /\ [MCNext]_allVars => SpiderInv'
  BY SpiderStep, SpiderStutters DEF MCNext, allVars
<1>3. QED
  BY <1>1, <1>2, PTL DEF MCSpec

(* The variables of SpiderSwitch keep their types. *)
THEOREM SpidersTypeCorrect == MCSpec => []Spiders!TypeOK
<1>1. SpiderInv => Spiders!TypeOK
  BY SameNames DEF SpiderInv, WorldInv, WorldType, AttemptType, OperatorType,
     Spiders!TypeOK
<1>2. QED
  BY <1>1, SpiderInvHolds, PTL

(* Attempts of any number on a TendbCluster of any size never make two     *)
(* tdbctl nodes primary that DBM lists as available, whichever nodes stop  *)
(* answering meanwhile (HandleInvolvedPrimaryTdbctl).                      *)
THEOREM OnePrimaryAlways == MCSpec => []OnePrimary
<1>1. SpiderInv => OnePrimary
  <2>1. SUFFICES ASSUME SpiderInv PROVE Cardinality(Up) <= 1
    BY SameNames DEF OnePrimary, Spiders!OnePrimary, Up
  <2>2. CASE Up = {}
    BY <2>2, FS_EmptySet
  <2>3. CASE Up # {}
    <3>1. PICK x \in Up : Up = {x}
      BY <2>1, <2>3 DEF SpiderInv
    <3>2. QED
      BY <3>1, Singletons
  <2>4. QED
    BY <2>2, <2>3
<1>2. QED
  BY <1>1, SpiderInvHolds, PTL

(* No spider is ever told to write to a standby slave that still           *)
(* replicates from the master it stands in for (switchRemoteMasters).      *)
THEOREM DetachedFirst == MCSpec => []DetachedBeforeRouted
<1>1. SpiderInv => DetachedBeforeRouted
  BY DEF SpiderInv, WorldInv, RouteInv, DetachedBeforeRouted,
     Spiders!DetachedBeforeRouted
<1>2. QED
  BY <1>1, SpiderInvHolds, PTL

(* The attempts of one server exclude each other: two are never past the   *)
(* cluster lock together, in any of its stages (CheckBeforeSwitch).        *)
THEOREM OneAttemptSwitches ==
  MCSpec => [](\A a, b \in Attempt :
                 /\ sp_pc[a] \notin {"idle", "begun", "locking"}
                 /\ sp_pc[b] \notin {"idle", "begun", "locking"}
                 => a = b)
<1>1. SpiderInv => \A a, b \in Attempt :
                     /\ sp_pc[a] \notin {"idle", "begun", "locking"}
                     /\ sp_pc[b] \notin {"idle", "begun", "locking"}
                     => a = b
  BY DEF SpiderInv, AttemptInv
<1>2. QED
  BY <1>1, SpiderInvHolds, PTL

-----------------------------------------------------------------------------
(* ClusterReset: the stages in the order in which both kinds of cluster    *)
(* meet them.  Each name is what is true from its first stage on.          *)

Ending == {"domain", "clb", "done"}
Restored == {"running"} \union Ending
Flushing == {"flush"} \union Restored
Enabled == {"delete", "insert"} \union Flushing
Disabled == {"ctlenable"} \union Enabled
Corrected == {"backends", "ctlstop", "ctlchange", "ctldisable"} \union Disabled
Changed == {"role"} \union Corrected
Stopped == {"change"} \union Changed
Dark == {"blackhole", "stop"} \union (Stopped \ Restored)

LEMMA DarkStages ==
  Dark = {"blackhole", "stop", "change", "role", "backends", "ctlstop", "ctlchange",
          "ctldisable", "ctlenable", "delete", "insert", "flush"}
  BY DEF Dark, Stopped, Changed, Corrected, Disabled, Enabled, Flushing, Restored, Ending

HaStages == {"unavailable", "blackhole", "stop", "change", "role", "backends",
             "running", "domain", "clb"}
ClusterStages == {"unavailable", "stop", "change", "role", "ctlstop", "ctlchange",
                  "ctldisable", "ctlenable", "delete", "insert", "flush", "running",
                  "domain", "clb"}

LEMMA StageNames ==
  /\ rs_kind = "tendbha" => Reset!Steps = HaStages
  /\ rs_kind = "tendbcluster" => Reset!Steps = ClusterStages
<1>1. ASSUME rs_kind = "tendbha" PROVE Reset!Steps = HaStages
  <2>1. Reset!StepsOf(rs_kind) = <<"unavailable", "blackhole", "stop", "change", "role",
           "backends", "running", "domain", "clb">>
    BY <1>1 DEF Reset!StepsOf
  <2>2. DOMAIN Reset!StepsOf(rs_kind) = 1 .. 9
    BY <2>1
  <2>3. QED
    BY <2>1, <2>2 DEF Reset!Steps, HaStages
<1>2. ASSUME rs_kind = "tendbcluster" PROVE Reset!Steps = ClusterStages
  <2>1. Reset!StepsOf(rs_kind) =
           <<"unavailable", "stop", "change", "role", "ctlstop", "ctlchange", "ctldisable",
           "ctlenable", "delete", "insert", "flush", "running", "domain", "clb">>
    BY <1>2 DEF Reset!StepsOf
  <2>2. DOMAIN Reset!StepsOf(rs_kind) = 1 .. 14
    BY <2>1
  <2>3. QED
    BY <2>1, <2>2 DEF Reset!Steps, ClusterStages
<1>3. QED
  BY <1>1, <1>2

LEMMA NextHaStage ==
  ASSUME rs_kind = "tendbha", rs_pc \in HaStages, Reset!StepDone
  PROVE  /\ rs_work' = Reset!Fresh
         /\ rs_pc = "unavailable" => rs_pc' = "blackhole"
         /\ rs_pc = "blackhole" => rs_pc' = "stop"
         /\ rs_pc = "stop" => rs_pc' = "change"
         /\ rs_pc = "change" => rs_pc' = "role"
         /\ rs_pc = "role" => rs_pc' = "backends"
         /\ rs_pc = "backends" => rs_pc' = "running"
         /\ rs_pc = "running" => rs_pc' = "domain"
         /\ rs_pc = "domain" => rs_pc' = "clb"
         /\ rs_pc = "clb" => rs_pc' = "done"
<1> DEFINE S == <<"unavailable", "blackhole", "stop", "change", "role",
                  "backends", "running", "domain", "clb">>
<1>1. Reset!StepsOf(rs_kind) = S /\ DOMAIN S = 1 .. 9 /\ Reset!Len(S) = 9
  BY DEF Reset!StepsOf
<1>2. PICK i \in 1 .. 9 :
        /\ S[i] = rs_pc
        /\ rs_pc' = IF i = 9 THEN "done" ELSE S[i + 1]
  <2>1. \E j \in 1 .. 9 : S[j] = rs_pc
    BY DEF HaStages
  <2>2. QED
    BY <1>1, <2>1 DEF Reset!StepDone
<1>3. rs_work' = Reset!Fresh
  BY DEF Reset!StepDone
<1>4. QED
  BY <1>2, <1>3

LEMMA NextClusterStage ==
  ASSUME rs_kind = "tendbcluster", rs_pc \in ClusterStages, Reset!StepDone
  PROVE  /\ rs_work' = Reset!Fresh
         /\ rs_pc = "unavailable" => rs_pc' = "stop"
         /\ rs_pc = "stop" => rs_pc' = "change"
         /\ rs_pc = "change" => rs_pc' = "role"
         /\ rs_pc = "role" => rs_pc' = "ctlstop"
         /\ rs_pc = "ctlstop" => rs_pc' = "ctlchange"
         /\ rs_pc = "ctlchange" => rs_pc' = "ctldisable"
         /\ rs_pc = "ctldisable" => rs_pc' = "ctlenable"
         /\ rs_pc = "ctlenable" => rs_pc' = "delete"
         /\ rs_pc = "delete" => rs_pc' = "insert"
         /\ rs_pc = "insert" => rs_pc' = "flush"
         /\ rs_pc = "flush" => rs_pc' = "running"
         /\ rs_pc = "running" => rs_pc' = "domain"
         /\ rs_pc = "domain" => rs_pc' = "clb"
         /\ rs_pc = "clb" => rs_pc' = "done"
<1> DEFINE S == <<"unavailable", "stop", "change", "role", "ctlstop", "ctlchange",
                  "ctldisable", "ctlenable", "delete", "insert", "flush", "running",
                  "domain", "clb">>
<1>1. Reset!StepsOf(rs_kind) = S /\ DOMAIN S = 1 .. 14 /\ Reset!Len(S) = 14
  BY DEF Reset!StepsOf
<1>2. PICK i \in 1 .. 14 :
        /\ S[i] = rs_pc
        /\ rs_pc' = IF i = 14 THEN "done" ELSE S[i + 1]
  <2>1. \E j \in 1 .. 14 : S[j] = rs_pc
    BY DEF ClusterStages
  <2>2. QED
    BY <1>1, <2>1 DEF Reset!StepDone
<1>3. rs_work' = Reset!Fresh
  BY DEF Reset!StepDone
<1>4. QED
  BY <1>2, <1>3

-----------------------------------------------------------------------------
(* The invariant. *)

Nodes == Frontend \union Masters \union Slaves \union Ctl
Progress == {"todo", "stopped", "read", "changed", "started", "done", "failed",
             "listed", "registered"}

ResetType ==
  /\ rs_kind \in Kind
  /\ rs_pc \in Reset!Steps \union {"idle", "failed", "done"}
  /\ rs_work \in [Nodes -> Progress]
  /\ rs_status \subseteq Reset!InstanceList /\ rs_role \subseteq Reset!Storage
  /\ rs_source \in [Reset!Storage -> Reset!Storage \union {None}]
  /\ rs_route = [f \in Frontend |-> rs_route[f]]
  /\ rs_primary \subseteq Ctl /\ rs_domain \subseteq Reset!DomainMembers

(* Each shard has its master, or one of that master's slaves, as master.   *)
Home(m) == \/ m \in rs_role
           \/ \E s \in Slaves : Follows[rs_kind][s] = m /\ s \in rs_role

(* What RunningIsConsistent promises of a cluster DBM lists as running.    *)
Consistent ==
  /\ \A f \in Frontend : \A m \in Reset!Shards : rs_route[f][m] \in rs_role
  /\ \A n \in rs_role : rs_source[n] = None
  /\ \E c \in Ctl : rs_primary = {c}

(* From the first status update to the last, nothing is listed as running. *)
DarkInv ==
  /\ rs_pc \in Dark => rs_status = {}
  /\ rs_status # {} => Consistent
  /\ rs_kind = "tendbha" => \E c \in Ctl : rs_primary = {c}
  /\ \A m \in Reset!Shards : Home(m)

(* What the stages that are over have brought about. *)
Replicates(s) == s \in rs_io /\ rs_source[s] = Follows[rs_kind][s]

StorageDone ==
  /\ rs_pc \in Stopped => \A m \in Reset!Shards : rs_source[m] = None
  /\ rs_pc \in Changed => \A s \in Slaves : Replicates(s)
  /\ rs_pc \in Corrected => rs_role = Reset!Shards

RoutesDone ==
  /\ rs_pc \in Restored =>
       \A f \in Frontend : rs_route[f] = Reset!CollectServerRecords
  /\ rs_kind = "tendbcluster" =>
       /\ rs_pc \in Disabled => rs_primary \subseteq {CtlMaster}
       /\ rs_pc \in Enabled => rs_primary = {CtlMaster}
       /\ rs_pc \in Flushing => rs_servers = Reset!CollectServerRecords

NamesDone ==
  /\ rs_pc \in Ending => rs_status = Reset!InstanceList
  /\ rs_pc \in {"clb", "done"} => rs_domain = Reset!DomainMembers
  /\ rs_pc = "done" => rs_clb = ClbWanted

(* What the stage under way has brought about node by node. *)
WorkDone ==
  /\ rs_pc = "stop" =>
       \A m \in Reset!Shards : rs_work[m] = "done" => rs_source[m] = None
  /\ rs_pc = "change" => \A s \in Slaves : rs_work[s] = "done" => Replicates(s)
  /\ rs_pc = "role" => \A s \in Slaves : rs_work[s] = "done" => s \notin rs_role
  /\ rs_pc = "backends" =>
       \A f \in Frontend : rs_work[f] = "done" => rs_route[f] = Reset!CollectServerRecords
  /\ rs_pc = "ctldisable" =>
       \A c \in Ctl \ {CtlMaster} : rs_work[c] = "done" => c \notin rs_primary
  /\ rs_pc = "domain" =>
       \A n \in Reset!DomainMembers : rs_work[n] = "done" => n \in rs_domain

(* The listener between the two listings the tool works from. *)
ListenerDone ==
  rs_pc = "clb" => \A f \in Frontend :
    /\ rs_work[f] \in {"listed", "registered"} =>
         /\ rs_clbRead \subseteq rs_clb
         /\ rs_clb \subseteq rs_clbRead \union Reset!Missing
    /\ rs_work[f] = "registered" => rs_clb = rs_clbRead \union Reset!Missing

ResetInv ==
  /\ ResetType /\ DarkInv /\ StorageDone /\ RoutesDone /\ NamesDone
  /\ WorkDone /\ ListenerDone

-----------------------------------------------------------------------------
(* What every step has in common. *)

LEMMA Places ==
  ASSUME rs_kind \in Kind
  PROVE  /\ Reset!Shards \subseteq Masters
         /\ Reset!Shards \intersect Slaves = {}
         /\ Reset!Storage = Reset!Shards \union Slaves
         /\ Reset!DomainMembers \subseteq Frontend \union Slaves
         /\ Reset!InstanceList = Frontend \union Reset!Shards \union Slaves
         /\ Reset!Shards \union Slaves \union Frontend \union Ctl \subseteq Nodes
         /\ \A s \in Slaves : Follows[rs_kind][s] \in Reset!Shards
         /\ None \notin Reset!Storage
  BY ResetAssumption DEF Reset!Shards, Reset!Storage, Reset!DomainMembers,
     Reset!InstanceList, Nodes

LEMMA KindKept ==
  ASSUME rs_kind' = rs_kind
  PROVE  /\ Reset!Shards' = Reset!Shards /\ Reset!Storage' = Reset!Storage
         /\ Reset!DomainMembers' = Reset!DomainMembers
         /\ Reset!InstanceList' = Reset!InstanceList
         /\ Reset!CollectServerRecords' = Reset!CollectServerRecords
         /\ Reset!Steps' = Reset!Steps
  BY DEF Reset!Shards, Reset!Storage, Reset!DomainMembers, Reset!InstanceList,
     Reset!CollectServerRecords, Reset!Steps, Reset!StepsOf

LEMMA FreshIsTodo ==
  /\ Reset!Fresh \in [Nodes -> Progress]
  /\ \A n \in Nodes : Reset!Fresh[n] = "todo"
  BY DEF Reset!Fresh, Nodes, Progress

(* At the start of a stage no node has been worked on. *)
LEMMA NothingDone ==
  ASSUME ResetType, rs_kind' = rs_kind, rs_work' = Reset!Fresh
  PROVE  WorkDone' /\ ListenerDone'
<1>1. \A n \in Nodes : rs_work'[n] = "todo"
  BY FreshIsTodo
<1>2. QED
  BY <1>1, Places, KindKept DEF ResetType, WorkDone, ListenerDone, Nodes

(* A reset that stops where it is. *)
LEMMA Stops ==
  ASSUME ResetInv, rs_pc' \in {"failed", "unavailable"}, rs_work' = Reset!Fresh,
         rs_kind' = rs_kind,
         UNCHANGED <<Reset!store, Reset!dbm, rs_route, Reset!ctl>>
  PROVE  ResetInv'
<1>1. WorkDone' /\ ListenerDone'
  BY NothingDone DEF ResetInv
<1>2. ResetType'
  BY KindKept, FreshIsTodo, StageNames DEF ResetInv, ResetType, Reset!dbm, Reset!ctl, Reset!store,
     HaStages, ClusterStages, Kind
<1>3. DarkInv'
  BY KindKept DEF ResetInv, DarkInv, Consistent, Home, Reset!dbm, Reset!ctl, Reset!store,
     Dark, Stopped, Changed, Corrected, Disabled, Enabled, Flushing, Restored, Ending
<1>4. StorageDone' /\ RoutesDone' /\ NamesDone'
  BY DEF StorageDone, RoutesDone, NamesDone, Stopped, Changed,
     Corrected, Disabled, Enabled, Flushing, Restored, Ending
<1>5. QED
  BY <1>1, <1>2, <1>3, <1>4 DEF ResetInv

(* The stage that follows, for both kinds. *)
LEMMA NextStage ==
  ASSUME ResetType, rs_pc \in Reset!Steps, Reset!StepDone, rs_kind' = rs_kind
  PROVE  /\ rs_work' = Reset!Fresh /\ rs_work' \in [Nodes -> Progress]
         /\ rs_pc' \in Reset!Steps \union {"done"}
         /\ rs_pc = "unavailable" => rs_pc' \in {"blackhole", "stop"}
         /\ rs_pc = "blackhole" => rs_pc' = "stop"
         /\ rs_pc = "stop" => rs_pc' = "change"
         /\ rs_pc = "change" => rs_pc' = "role"
         /\ rs_pc = "role" /\ rs_kind = "tendbha" => rs_pc' = "backends"
         /\ rs_pc = "role" /\ rs_kind = "tendbcluster" => rs_pc' = "ctlstop"
         /\ rs_pc = "backends" => rs_pc' = "running"
         /\ rs_pc = "ctlstop" => rs_pc' = "ctlchange"
         /\ rs_pc = "ctlchange" => rs_pc' = "ctldisable"
         /\ rs_pc = "ctldisable" => rs_pc' = "ctlenable"
         /\ rs_pc = "ctlenable" => rs_pc' = "delete"
         /\ rs_pc = "delete" => rs_pc' = "insert"
         /\ rs_pc = "insert" => rs_pc' = "flush"
         /\ rs_pc = "flush" => rs_pc' = "running"
         /\ rs_pc = "running" => rs_pc' = "domain"
         /\ rs_pc = "domain" => rs_pc' = "clb"
         /\ rs_pc = "clb" => rs_pc' = "done"
<1>1. CASE rs_kind = "tendbha"
  BY <1>1, StageNames, NextHaStage, FreshIsTodo DEF HaStages
<1>2. CASE rs_kind = "tendbcluster"
  BY <1>2, StageNames, NextClusterStage, FreshIsTodo DEF ClusterStages
<1>3. QED
  BY <1>1, <1>2 DEF ResetType, Kind

(* The stages of one kind only. *)
LEMMA StageKind ==
  ASSUME ResetType
  PROVE  /\ rs_pc \in {"blackhole", "backends"} => rs_kind = "tendbha"
         /\ rs_pc \in {"ctlstop", "ctlchange", "ctldisable", "ctlenable", "delete",
                       "insert", "flush"} => rs_kind = "tendbcluster"
  BY StageNames DEF ResetType, Kind, HaStages, ClusterStages

LEMMA StageIsStep ==
  ASSUME ResetType, rs_pc \notin {"idle", "failed", "done"}
  PROVE  rs_pc \in Reset!Steps
  BY DEF ResetType

LEMMA NodeDoneOr ==
  ASSUME NEW n, NEW N, Reset!NodeDone(n, N)
  PROVE  \/ Reset!StepDone /\ \A o \in N \ {n} : rs_work[o] = "done"
         \/ rs_pc' = rs_pc /\ rs_work' = [rs_work EXCEPT ![n] = "done"]
  BY DEF Reset!NodeDone

LEMMA Moved ==
  ASSUME ResetType, NEW n, NEW to \in Progress, rs_work' = [rs_work EXCEPT ![n] = to]
  PROVE  /\ rs_work' \in [Nodes -> Progress]
         /\ \A o \in Nodes : rs_work'[o] = IF o = n THEN to ELSE rs_work[o]
  BY DEF ResetType

-----------------------------------------------------------------------------
(* Each step keeps the invariant. *)

LEMMA EndsKeep ==
  ASSUME ResetInv,
         Reset!ResetSingleCluster \/ Reset!StepFails \/ Reset!WorkersJoin
  PROVE  ResetInv'
<1>1. /\ rs_pc' \in {"failed", "unavailable"} /\ rs_work' = Reset!Fresh
      /\ UNCHANGED <<rs_kind, Reset!store, Reset!dbm, rs_route, Reset!ctl>>
  BY DEF Reset!ResetSingleCluster, Reset!StepFails, Reset!WorkersJoin
<1>2. QED
  BY <1>1, Stops

(* A node of the stages "stop" and "change" moves on and is not done.      *)
LEMMA WorkerMovesOn ==
  ASSUME ResetInv, rs_pc \in {"stop", "change"}, NEW n \in Masters \union Slaves,
         NEW to \in Progress \ {"done"}, Reset!Moves(n, to),
         rs_kind' = rs_kind, UNCHANGED <<Reset!dbm, rs_route, Reset!ctl>>,
         rs_source' \in [Reset!Storage -> Reset!Storage \union {None}],
         \A m \in Reset!Shards : rs_source'[m] = rs_source[m],
         \A s \in Slaves \ {n} : /\ rs_source'[s] = rs_source[s]
                                 /\ s \in rs_io => s \in rs_io'
  PROVE  ResetInv'
<1>1. /\ rs_pc' = rs_pc /\ rs_work' \in [Nodes -> Progress]
      /\ \A o \in Nodes : rs_work'[o] = IF o = n THEN to ELSE rs_work[o]
  BY Moved DEF Reset!Moves, ResetInv
<1>2. ResetType'
  BY <1>1, KindKept DEF ResetInv, ResetType, Reset!dbm, Reset!ctl
<1>3. DarkInv'
  BY <1>1, KindKept DEF ResetInv, DarkInv, Home, Reset!dbm, Reset!ctl, Dark,
     Stopped, Changed, Corrected, Disabled, Enabled, Flushing, Restored, Ending
<1>4. StorageDone' /\ RoutesDone' /\ NamesDone'
  BY <1>1, KindKept DEF ResetInv, StorageDone, RoutesDone, NamesDone, Stopped, Changed,
     Corrected, Disabled, Enabled, Flushing, Restored, Ending
<1>5. WorkDone' /\ ListenerDone'
  BY <1>1, KindKept, Places DEF ResetInv, ResetType, WorkDone, ListenerDone, Replicates
<1>6. QED
  BY <1>2, <1>3, <1>4, <1>5 DEF ResetInv

LEMMA MovesKeep ==
  ASSUME ResetInv, NEW n \in Masters \union Slaves,
         \/ Reset!WorkerFails(n) \/ Reset!StopSlaveForMaster(n)
         \/ Reset!ShowMasterStatus(n) \/ Reset!ChangeMasterForSlave(n)
         \/ Reset!StartSlave(n)
  PROVE  ResetInv'
<1>1. ResetType /\ rs_kind \in Kind
  BY DEF ResetInv, ResetType
<1>2. CASE Reset!WorkerFails(n)
  BY <1>1, <1>2, WorkerMovesOn DEF Reset!WorkerFails, Reset!store, Progress, ResetType
<1>3. CASE Reset!StopSlaveForMaster(n)
  BY <1>1, <1>3, Places, WorkerMovesOn DEF Reset!StopSlaveForMaster, Progress, ResetType
<1>4. CASE Reset!ShowMasterStatus(n)
  BY <1>1, <1>4, WorkerMovesOn DEF Reset!ShowMasterStatus, Progress, ResetType
<1>5. CASE Reset!ChangeMasterForSlave(n)
  <2>1. rs_source' \in [Reset!Storage -> Reset!Storage \union {None}]
    BY <1>1, <1>5, Places DEF Reset!ChangeMasterForSlave, ResetType
  <2>2. /\ n \in Slaves
        /\ \A o \in Reset!Storage \ {n} : rs_source'[o] = rs_source[o]
        /\ \A o \in Slaves \ {n} : o \in rs_io => o \in rs_io'
    BY <1>1, <1>5 DEF Reset!ChangeMasterForSlave, ResetType
  <2>3. QED
    BY <1>1, <1>5, <2>1, <2>2, Places, WorkerMovesOn
       DEF Reset!ChangeMasterForSlave, Progress
<1>6. CASE Reset!StartSlave(n)
  BY <1>1, <1>6, WorkerMovesOn DEF Reset!StartSlave, Progress, ResetType
<1>7. QED
  BY <1>2, <1>3, <1>4, <1>5, <1>6

LEMMA UpdateAllKeeps ==
  ASSUME ResetInv, Reset!UpdateAllInstancesStatus
  PROVE  ResetInv'
<1>1. ResetType /\ DarkInv /\ StorageDone /\ RoutesDone /\ NamesDone
  BY DEF ResetInv
<1>2. PICK sent \in SUBSET Reset!InstanceList :
        /\ rs_status' = IF rs_pc = "running" THEN rs_status \union sent
                        ELSE rs_status \ sent
        /\ IF sent = Reset!InstanceList THEN Reset!StepDone
           ELSE rs_pc' = "failed" /\ rs_work' = Reset!Fresh
  BY DEF Reset!UpdateAllInstancesStatus
<1>3. /\ rs_pc \in {"unavailable", "running"} /\ rs_kind' = rs_kind
      /\ UNCHANGED <<Reset!store, rs_role, rs_domain, rs_route, Reset!ctl, Reset!bal>>
  BY DEF Reset!UpdateAllInstancesStatus
<1>4. /\ rs_work' = Reset!Fresh /\ rs_work' \in [Nodes -> Progress]
      /\ rs_pc' \in Reset!Steps \union {"failed", "done"}
      /\ rs_pc' = "failed" \/
           (/\ rs_pc = "unavailable" => rs_pc' \in {"blackhole", "stop"}
            /\ rs_pc = "running" => rs_pc' = "domain"
            /\ sent = Reset!InstanceList)
  BY <1>1, <1>2, <1>3, NextStage, StageIsStep, FreshIsTodo
<1>5. rs_pc = "running" => Consistent
  BY <1>1, ResetAssumption DEF StorageDone, RoutesDone, DarkInv, Consistent,
     ResetType, Kind, Reset!CollectServerRecords, Corrected, Disabled, Enabled, Flushing,
     Restored, Stopped, Changed, Ending
<1>6. ResetType'
  BY <1>1, <1>2, <1>3, <1>4, KindKept DEF ResetType, Reset!ctl, Reset!store
<1>7. DarkInv'
  <2>1. rs_status' # {} => Consistent
    BY <1>1, <1>2, <1>3, <1>5 DEF DarkInv
  <2>2. Consistent' <=> Consistent
    BY <1>3, KindKept DEF Consistent, Reset!ctl, Reset!store
  <2>3. rs_pc' \in Dark => rs_status' = {}
    BY <1>1, <1>2, <1>3, <1>4 DEF Dark, Stopped, Changed, Corrected, Disabled, Enabled,
       Flushing, Restored, Ending, ResetType
  <2>4. QED
    BY <1>1, <1>3, <2>1, <2>2, <2>3, KindKept DEF DarkInv, Home, Reset!ctl
<1>8. StorageDone' /\ RoutesDone' /\ NamesDone'
  BY <1>1, <1>2, <1>3, <1>4, KindKept DEF StorageDone, RoutesDone, NamesDone, Replicates,
     Reset!ctl, Reset!store, ResetType, Stopped, Changed, Corrected, Disabled, Enabled,
     Flushing, Restored, Ending
<1>9. QED
  BY <1>1, <1>3, <1>4, <1>6, <1>7, <1>8, NothingDone DEF ResetInv

LEMMA SwitchProxyBackendKeeps ==
  ASSUME ResetInv, NEW f \in Frontend, Reset!SwitchProxyBackend(f)
  PROVE  ResetInv'
<1>1. /\ ResetType /\ DarkInv /\ StorageDone /\ RoutesDone /\ NamesDone
      /\ WorkDone /\ ListenerDone /\ rs_kind = "tendbha"
  BY StageKind DEF ResetInv, Reset!SwitchProxyBackend
<1>2. /\ rs_pc \in {"blackhole", "backends"} /\ rs_kind' = rs_kind
      /\ UNCHANGED <<Reset!store, Reset!dbm, Reset!ctl, Reset!bal>>
  BY DEF Reset!SwitchProxyBackend
<1>3. /\ rs_route' = [g \in Frontend |-> rs_route'[g]]
      /\ rs_pc = "backends" =>
           /\ rs_route'[f] = Reset!CollectServerRecords
           /\ \A g \in Frontend \ {f} : rs_route'[g] = rs_route[g]
  <2>1. rs_route' = [rs_route EXCEPT ![f] =
             [m \in Reset!Shards |-> IF rs_pc = "blackhole" THEN Blackhole ELSE m]]
    BY DEF Reset!SwitchProxyBackend
  <2>2. rs_route = [g \in Frontend |-> rs_route[g]]
    BY <1>1 DEF ResetType
  <2>3. QED
    BY <2>1, <2>2 DEF Reset!CollectServerRecords
<1>4. /\ rs_work' \in [Nodes -> Progress]
      /\ \/ /\ rs_work' = Reset!Fresh
            /\ \A g \in Frontend \ {f} : rs_work[g] = "done"
            /\ rs_pc = "blackhole" => rs_pc' = "stop"
            /\ rs_pc = "backends" => rs_pc' = "running"
         \/ /\ rs_pc' = rs_pc
            /\ \A n \in Nodes : rs_work'[n] = IF n = f THEN "done" ELSE rs_work[n]
  <2>1. Reset!NodeDone(f, Frontend)
    BY DEF Reset!SwitchProxyBackend
  <2>2. CASE Reset!StepDone /\ \A o \in Frontend \ {f} : rs_work[o] = "done"
    BY <1>1, <1>2, <2>2, StageIsStep, NextStage
  <2>3. CASE rs_pc' = rs_pc /\ rs_work' = [rs_work EXCEPT ![f] = "done"]
    BY <1>1, <2>3, Moved DEF Progress
  <2>4. QED
    BY <2>1, <2>2, <2>3, NodeDoneOr
<1>5. ResetType'
  BY <1>1, <1>2, <1>3, <1>4, KindKept, StageNames DEF ResetType, HaStages, Reset!dbm,
     Reset!ctl, Reset!store
<1>6. DarkInv'
  BY <1>1, <1>2, DarkStages, KindKept DEF DarkInv, Home, Reset!dbm, Reset!ctl
<1>7. StorageDone' /\ NamesDone'
  BY <1>1, <1>2, <1>4, KindKept DEF StorageDone, NamesDone, Replicates, Reset!dbm, Reset!ctl,
     Reset!store, Stopped, Changed, Corrected, Disabled, Enabled, Flushing, Restored, Ending
<1>8. RoutesDone'
  BY <1>1, <1>2, <1>3, <1>4, KindKept DEF RoutesDone, WorkDone, Flushing, Restored, Ending
<1>9. WorkDone' /\ ListenerDone'
  <2>1. CASE rs_work' = Reset!Fresh
    BY <1>1, <1>2, <2>1, NothingDone
  <2>2. CASE rs_pc' = rs_pc
    BY <1>1, <1>2, <1>3, <1>4, <2>2, KindKept, Places, NothingDone
       DEF WorkDone, ListenerDone, ResetType
  <2>3. QED
    BY <1>4, <2>1, <2>2
<1>10. QED
  BY <1>5, <1>6, <1>7, <1>8, <1>9 DEF ResetInv

LEMMA ResetSlaveKeeps ==
  ASSUME ResetInv, NEW m \in Masters \union Slaves, Reset!ResetSlave(m)
  PROVE  ResetInv'
<1>1. /\ ResetType /\ DarkInv /\ StorageDone /\ RoutesDone /\ NamesDone
      /\ WorkDone /\ ListenerDone
  BY DEF ResetInv
<1>2. /\ rs_pc = "stop" /\ m \in Reset!Shards /\ rs_kind' = rs_kind
      /\ rs_source' = [rs_source EXCEPT ![m] = None]
      /\ UNCHANGED <<rs_io, Reset!dbm, rs_route, Reset!ctl, Reset!bal>>
  BY DEF Reset!ResetSlave
<1>3. /\ rs_work' \in [Nodes -> Progress]
      /\ \/ /\ rs_work' = Reset!Fresh /\ rs_pc' = "change"
            /\ \A o \in Reset!Shards \ {m} : rs_work[o] = "done"
         \/ /\ rs_pc' = rs_pc
            /\ \A n \in Nodes : rs_work'[n] = IF n = m THEN "done" ELSE rs_work[n]
  <2>1. Reset!NodeDone(m, Reset!Shards)
    BY DEF Reset!ResetSlave
  <2>2. CASE Reset!StepDone /\ \A o \in Reset!Shards \ {m} : rs_work[o] = "done"
    BY <1>1, <1>2, <2>2, StageIsStep, NextStage
  <2>3. CASE rs_pc' = rs_pc /\ rs_work' = [rs_work EXCEPT ![m] = "done"]
    BY <1>1, <2>3, Moved DEF Progress
  <2>4. QED
    BY <2>1, <2>2, <2>3, NodeDoneOr
<1>4. /\ rs_source' \in [Reset!Storage -> Reset!Storage \union {None}]
      /\ rs_source'[m] = None
      /\ \A o \in Reset!Storage \ {m} : rs_source'[o] = rs_source[o]
  BY <1>1, <1>2, Places DEF ResetType
<1>5. ResetType'
  BY <1>1, <1>2, <1>3, <1>4, KindKept, StageNames
     DEF ResetType, Kind, HaStages, ClusterStages, Reset!dbm, Reset!ctl
<1>6. DarkInv'
  BY <1>1, <1>2, DarkStages, KindKept DEF DarkInv, Home, Reset!dbm, Reset!ctl
<1>7. StorageDone'
  BY <1>1, <1>2, <1>3, <1>4, KindKept, Places DEF StorageDone, WorkDone, ResetType,
     Stopped, Changed, Corrected, Disabled, Enabled, Flushing, Restored, Ending
<1>8. RoutesDone' /\ NamesDone'
  BY <1>2, <1>3 DEF RoutesDone, NamesDone, Disabled, Enabled, Flushing, Restored, Ending
<1>9. WorkDone' /\ ListenerDone'
  <2>1. CASE rs_work' = Reset!Fresh
    BY <1>1, <1>2, <2>1, NothingDone
  <2>2. CASE rs_pc' = rs_pc
    BY <1>1, <1>2, <1>3, <1>4, <2>2, KindKept, Places, NothingDone
       DEF WorkDone, ListenerDone, ResetType
  <2>3. QED
    BY <1>3, <2>1, <2>2
<1>10. QED
  BY <1>5, <1>6, <1>7, <1>8, <1>9 DEF ResetInv

LEMMA CheckSlaveStatusKeeps ==
  ASSUME ResetInv, NEW s \in Slaves, Reset!CheckSlaveStatus(s)
  PROVE  ResetInv'
<1>1. /\ ResetType /\ DarkInv /\ StorageDone /\ RoutesDone /\ NamesDone
      /\ WorkDone /\ ListenerDone
  BY DEF ResetInv
<1>2. /\ rs_pc = "change" /\ rs_kind' = rs_kind /\ Replicates(s)
      /\ UNCHANGED <<Reset!store, Reset!dbm, rs_route, Reset!ctl, Reset!bal>>
  BY DEF Reset!CheckSlaveStatus, Replicates
<1>3. /\ rs_work' \in [Nodes -> Progress]
      /\ \/ /\ rs_work' = Reset!Fresh /\ rs_pc' = "role"
            /\ \A o \in Slaves \ {s} : rs_work[o] = "done"
         \/ /\ rs_pc' = rs_pc
            /\ \A n \in Nodes : rs_work'[n] = IF n = s THEN "done" ELSE rs_work[n]
  <2>1. Reset!NodeDone(s, Slaves)
    BY DEF Reset!CheckSlaveStatus
  <2>2. CASE Reset!StepDone /\ \A o \in Slaves \ {s} : rs_work[o] = "done"
    BY <1>1, <1>2, <2>2, StageIsStep, NextStage
  <2>3. CASE rs_pc' = rs_pc /\ rs_work' = [rs_work EXCEPT ![s] = "done"]
    BY <1>1, <2>3, Moved DEF Progress
  <2>4. QED
    BY <2>1, <2>2, <2>3, NodeDoneOr
<1>4. \A o \in Slaves : Replicates(o)' <=> Replicates(o)
  BY <1>2 DEF Replicates, Reset!store
<1>5. ResetType'
  BY <1>1, <1>2, <1>3, KindKept, StageNames
     DEF ResetType, Kind, HaStages, ClusterStages, Reset!dbm, Reset!ctl, Reset!store
<1>6. DarkInv'
  BY <1>1, <1>2, DarkStages, KindKept DEF DarkInv, Home, Reset!dbm, Reset!ctl
<1>7. StorageDone'
  BY <1>1, <1>2, <1>3, <1>4, KindKept DEF StorageDone, WorkDone, Reset!store,
     Stopped, Changed, Corrected, Disabled, Enabled, Flushing, Restored, Ending
<1>8. RoutesDone' /\ NamesDone'
  BY <1>2, <1>3 DEF RoutesDone, NamesDone, Disabled, Enabled, Flushing, Restored, Ending
<1>9. WorkDone' /\ ListenerDone'
  <2>1. CASE rs_work' = Reset!Fresh
    BY <1>1, <1>2, <2>1, NothingDone
  <2>2. CASE rs_pc' = rs_pc
    BY <1>1, <1>2, <1>3, <1>4, <2>2, Places DEF WorkDone, ListenerDone, ResetType
  <2>3. QED
    BY <1>3, <2>1, <2>2
<1>10. QED
  BY <1>5, <1>6, <1>7, <1>8, <1>9 DEF ResetInv

(* Two storage nodes of a pair swap roles: the pair still has its master.  *)
LEMMA RoleSwap ==
  ASSUME ResetInv, NEW s \in Slaves, NEW m \in Reset!Shards, s \in rs_role,
         m \notin rs_role
  PROVE  Reset!Swapped(rs_role, s, m) = (rs_role \ {s}) \union {m}
  BY Places DEF Reset!Swapped, ResetInv, ResetType

LEMMA CorrectBackendRoleKeeps ==
  ASSUME ResetInv, Reset!CorrectBackendRole
  PROVE  ResetInv'
<1>1. /\ ResetType /\ DarkInv /\ StorageDone /\ RoutesDone /\ NamesDone
      /\ WorkDone /\ ListenerDone
  BY DEF ResetInv
<1>2. /\ rs_pc = "role" /\ rs_kind = "tendbha" /\ rs_kind' = rs_kind
      /\ rs_role' \intersect Slaves = {} /\ Reset!StepDone
      /\ UNCHANGED <<rs_status, rs_domain, Reset!store, rs_route, Reset!ctl, Reset!bal>>
  BY DEF Reset!CorrectBackendRole
<1>3. rs_work' = Reset!Fresh /\ rs_work' \in [Nodes -> Progress] /\ rs_pc' = "backends"
  BY <1>1, <1>2, StageIsStep, NextStage
<1>4. rs_role' = Reset!Shards
  <2>1. PICK m \in Reset!Shards :
          \/ rs_role' = rs_role
          \/ /\ m \notin rs_role
             /\ \E s \in Slaves : s \in rs_role /\ rs_role' = Reset!Swapped(rs_role, s, m)
    BY DEF Reset!CorrectBackendRole, Reset!IsMaster
  <2>2. rs_role \subseteq Reset!Shards \union Slaves /\ \A o \in Reset!Shards : Home(o)
    BY <1>1, Places DEF ResetType, DarkInv
  <2>3. CASE rs_role' = rs_role
    BY <1>2, <2>2, <2>3 DEF Home
  <2>4. CASE m \notin rs_role /\ \E s \in Slaves : /\ s \in rs_role
                                                   /\ rs_role' = Reset!Swapped(rs_role, s, m)
    <3>1. PICK s \in Slaves : s \in rs_role /\ rs_role' = (rs_role \ {s}) \union {m}
      BY <2>4, RoleSwap
    <3>2. \A t \in Slaves : t \in rs_role => t = s
      BY <1>2, <3>1
    <3>3. Follows[rs_kind][s] = m
      BY <2>2, <2>4, <3>2 DEF Home
    <3>4. \A o \in Reset!Shards : o = m \/ o \in rs_role
      BY <2>2, <3>2, <3>3 DEF Home
    <3>5. QED
      BY <1>1, <1>2, <2>2, <3>1, <3>4, Places DEF ResetType
  <2>5. QED
    BY <2>1, <2>3, <2>4
<1>5. ResetType'
  BY <1>1, <1>2, <1>3, <1>4, KindKept, StageNames, Places
     DEF ResetType, Kind, HaStages, Reset!ctl, Reset!store
<1>6. DarkInv'
  BY <1>1, <1>2, <1>4, DarkStages, KindKept DEF DarkInv, Home, Reset!ctl
<1>7. StorageDone'
  BY <1>1, <1>2, <1>3, <1>4, KindKept DEF StorageDone, Replicates, Reset!store,
     Stopped, Changed, Corrected
<1>8. RoutesDone' /\ NamesDone'
  BY <1>2, <1>3 DEF RoutesDone, NamesDone, Disabled, Enabled, Flushing, Restored, Ending
<1>9. QED
  BY <1>1, <1>2, <1>3, <1>5, <1>6, <1>7, <1>8, NothingDone DEF ResetInv

LEMMA CorrectRemoteDBRoleKeeps ==
  ASSUME ResetInv, NEW s \in Slaves, Reset!CorrectRemoteDBRole(s)
  PROVE  ResetInv'
<1> DEFINE m == Follows[rs_kind][s]
<1>1. /\ ResetType /\ DarkInv /\ StorageDone /\ RoutesDone /\ NamesDone
      /\ WorkDone /\ ListenerDone
  BY DEF ResetInv
<1>2. /\ rs_pc = "role" /\ rs_kind = "tendbcluster" /\ rs_kind' = rs_kind
      /\ rs_role' = IF m \in rs_role THEN rs_role ELSE Reset!Swapped(rs_role, s, m)
      /\ s \notin rs_role'
      /\ UNCHANGED <<rs_status, rs_domain, Reset!store, rs_route, Reset!ctl, Reset!bal>>
  BY DEF Reset!CorrectRemoteDBRole, Reset!IsMaster
<1>3. /\ rs_work' \in [Nodes -> Progress]
      /\ \/ /\ rs_work' = Reset!Fresh /\ rs_pc' = "ctlstop"
            /\ \A o \in Slaves \ {s} : rs_work[o] = "done"
         \/ /\ rs_pc' = rs_pc
            /\ \A n \in Nodes : rs_work'[n] = IF n = s THEN "done" ELSE rs_work[n]
  <2>1. Reset!NodeDone(s, Slaves)
    BY DEF Reset!CorrectRemoteDBRole
  <2>2. CASE Reset!StepDone /\ \A o \in Slaves \ {s} : rs_work[o] = "done"
    BY <1>1, <1>2, <2>2, StageIsStep, NextStage
  <2>3. CASE rs_pc' = rs_pc /\ rs_work' = [rs_work EXCEPT ![s] = "done"]
    BY <1>1, <2>3, Moved DEF Progress
  <2>4. QED
    BY <2>1, <2>2, <2>3, NodeDoneOr
<1>4. m \in Reset!Shards
  BY <1>1, Places DEF ResetType
<1>5. /\ rs_role' \subseteq Reset!Storage
      /\ rs_role' \intersect Slaves \subseteq rs_role
      /\ \A o \in Reset!Shards : o \in rs_role => o \in rs_role'
      /\ s \in rs_role => m \in rs_role'
      /\ \A t \in Slaves \ {s} : t \in rs_role => t \in rs_role'
  BY <1>1, <1>2, <1>4, Places DEF Reset!Swapped, ResetType
<1>6. \A o \in Reset!Shards : Home(o)'
  BY <1>1, <1>2, <1>5, Places DEF DarkInv, Home
<1>7. ResetType'
  BY <1>1, <1>2, <1>3, <1>5, KindKept, StageNames
     DEF ResetType, Kind, ClusterStages, Reset!ctl, Reset!store
<1>8. DarkInv'
  BY <1>1, <1>2, <1>6, DarkStages, KindKept DEF DarkInv, Reset!ctl
<1>9. \A t \in Slaves : t = s \/ rs_work[t] = "done" => t \notin rs_role'
  BY <1>1, <1>2, <1>5 DEF WorkDone
<1>10. StorageDone'
  <2>1. rs_pc' \in Corrected => rs_role' = Reset!Shards
    <3>1. CASE rs_pc' = "ctlstop"
      <4>1. rs_role' \intersect Slaves = {}
        BY <1>2, <1>3, <1>9, <3>1
      <4>2. QED
        BY <1>1, <1>2, <1>5, <1>6, <4>1, Places, KindKept DEF Home, ResetType
    <3>2. CASE rs_pc' = rs_pc
      BY <1>2, <3>2 DEF Corrected, Disabled, Enabled, Flushing, Restored, Ending
    <3>3. QED
      BY <1>3, <3>1, <3>2
  <2>2. QED
    BY <1>1, <1>2, <1>3, <2>1, KindKept DEF StorageDone, Replicates, Reset!store,
       Stopped, Changed, Corrected
<1>11. RoutesDone' /\ NamesDone'
  BY <1>2, <1>3 DEF RoutesDone, NamesDone, Disabled, Enabled, Flushing, Restored, Ending
<1>12. WorkDone' /\ ListenerDone'
  <2>1. CASE rs_work' = Reset!Fresh
    BY <1>1, <1>2, <2>1, NothingDone
  <2>2. CASE rs_pc' = rs_pc
    BY <1>1, <1>2, <1>3, <1>9, <2>2, Places DEF WorkDone, ListenerDone, ResetType
  <2>3. QED
    BY <1>3, <2>1, <2>2
<1>13. QED
  BY <1>7, <1>8, <1>10, <1>11, <1>12 DEF ResetInv

(* The stages of the tdbctl nodes leave the rest alone.                    *)
LEMMA CtlStep ==
  ASSUME ResetInv, rs_kind' = rs_kind,
         rs_pc \in {"ctlstop", "ctlchange", "ctldisable", "ctlenable", "delete", "insert"},
         rs_pc' \in {"ctlstop", "ctlchange", "ctldisable", "ctlenable", "delete", "insert",
                     "flush"},
         UNCHANGED <<Reset!store, Reset!dbm, rs_route, Reset!bal>>,
         rs_primary' \subseteq Ctl, rs_work' \in [Nodes -> Progress],
         RoutesDone', WorkDone'
  PROVE  ResetInv'
<1>1. /\ ResetType /\ DarkInv /\ StorageDone /\ RoutesDone /\ NamesDone
      /\ rs_kind = "tendbcluster"
  BY StageKind DEF ResetInv
<1>2. ResetType'
  BY <1>1, KindKept, StageNames DEF ResetType, ClusterStages, Reset!dbm, Reset!store
<1>3. DarkInv'
  BY <1>1, DarkStages, KindKept DEF DarkInv, Home, Reset!dbm
<1>4. StorageDone' /\ NamesDone' /\ ListenerDone'
  BY <1>1, KindKept DEF StorageDone, NamesDone, ListenerDone, Replicates, Reset!dbm, Reset!store,
     Stopped, Changed, Corrected, Disabled, Enabled, Flushing, Restored, Ending
<1>5. QED
  BY <1>2, <1>3, <1>4 DEF ResetInv

(* Those that are over in one step. *)
LEMMA CtlStagesKeep ==
  ASSUME ResetInv,
         \/ Reset!StopSlaveForTdbCtlMaster \/ Reset!EnablePrimary
         \/ Reset!DeleteMysqlServersTable \/ Reset!InsertMysqlServersTable
  PROVE  ResetInv'
<1>1. ResetType /\ RoutesDone /\ CtlMaster \in Ctl
  BY ResetAssumption DEF ResetInv
<1>2. /\ rs_pc \in {"ctlstop", "ctlenable", "delete", "insert"} /\ Reset!StepDone
      /\ rs_kind' = rs_kind
      /\ UNCHANGED <<Reset!store, Reset!dbm, rs_route, Reset!bal>>
      /\ rs_primary' = IF rs_pc = "ctlenable" THEN rs_primary \union {CtlMaster}
                       ELSE rs_primary
      /\ rs_pc = "insert" => rs_servers' = Reset!CollectServerRecords
  BY DEF Reset!StopSlaveForTdbCtlMaster, Reset!EnablePrimary,
     Reset!DeleteMysqlServersTable, Reset!InsertMysqlServersTable
<1>3. /\ rs_work' = Reset!Fresh /\ rs_work' \in [Nodes -> Progress]
      /\ rs_pc = "ctlstop" => rs_pc' = "ctlchange"
      /\ rs_pc = "ctlenable" => rs_pc' = "delete"
      /\ rs_pc = "delete" => rs_pc' = "insert"
      /\ rs_pc = "insert" => rs_pc' = "flush"
  BY <1>1, <1>2, StageIsStep, NextStage
<1>4. RoutesDone'
  BY <1>1, <1>2, <1>3, KindKept DEF RoutesDone, Disabled, Enabled, Flushing, Restored, Ending
<1>5. WorkDone'
  BY <1>1, <1>2, <1>3, NothingDone
<1>6. rs_primary' \subseteq Ctl
  BY <1>1, <1>2 DEF ResetType
<1>7. QED
  BY <1>2, <1>3, <1>4, <1>5, <1>6, CtlStep

(* Those that visit the secondaries one by one. *)
LEMMA CtlNodesKeep ==
  ASSUME ResetInv, NEW c \in Ctl,
         Reset!ChangeMasterForTdbctlSlave(c) \/ Reset!DisablePrimary(c)
  PROVE  ResetInv'
<1> DEFINE N == Ctl \ {CtlMaster}
<1>1. ResetType /\ RoutesDone /\ WorkDone
  BY DEF ResetInv
<1>2. /\ rs_pc \in {"ctlchange", "ctldisable"} /\ rs_kind' = rs_kind
      /\ c \in N /\ Reset!NodeDone(c, N)
      /\ UNCHANGED <<Reset!store, Reset!dbm, rs_route, rs_servers, Reset!bal>>
      /\ rs_primary' = IF rs_pc = "ctldisable" THEN rs_primary \ {c} ELSE rs_primary
  BY DEF Reset!ChangeMasterForTdbctlSlave, Reset!DisablePrimary
<1>3. /\ rs_work' \in [Nodes -> Progress]
      /\ \/ /\ rs_work' = Reset!Fresh
            /\ rs_pc = "ctlchange" => rs_pc' = "ctldisable"
            /\ rs_pc = "ctldisable" => rs_pc' = "ctlenable"
            /\ \A o \in N \ {c} : rs_work[o] = "done"
         \/ /\ rs_pc' = rs_pc
            /\ \A n \in Nodes : rs_work'[n] = IF n = c THEN "done" ELSE rs_work[n]
  <2>1. CASE Reset!StepDone /\ \A o \in N \ {c} : rs_work[o] = "done"
    BY <1>1, <1>2, <2>1, StageIsStep, NextStage
  <2>2. CASE rs_pc' = rs_pc /\ rs_work' = [rs_work EXCEPT ![c] = "done"]
    BY <1>1, <2>2, Moved DEF Progress
  <2>3. QED
    BY <1>2, <2>1, <2>2, NodeDoneOr
<1>4. RoutesDone'
  BY <1>1, <1>2, <1>3 DEF RoutesDone, WorkDone, ResetType, Disabled, Enabled, Flushing,
     Restored, Ending
<1>5. WorkDone'
  <2>1. CASE rs_work' = Reset!Fresh
    BY <1>1, <1>2, <2>1, NothingDone
  <2>2. CASE rs_pc' = rs_pc
    BY <1>1, <1>2, <1>3, <2>2, Places DEF WorkDone, ResetType
  <2>3. QED
    BY <1>3, <2>1, <2>2
<1>6. rs_primary' \subseteq Ctl
  BY <1>1, <1>2 DEF ResetType
<1>7. QED
  BY <1>2, <1>3, <1>4, <1>5, <1>6, CtlStep

LEMMA FlushRoutingKeeps ==
  ASSUME ResetInv, Reset!FlushRouting
  PROVE  ResetInv'
<1>1. /\ ResetType /\ DarkInv /\ StorageDone /\ RoutesDone /\ NamesDone
      /\ rs_kind = "tendbcluster" /\ rs_pc = "flush" /\ rs_kind' = rs_kind
      /\ UNCHANGED <<Reset!store, Reset!dbm, Reset!ctl, Reset!bal>>
  BY StageKind DEF ResetInv, Reset!FlushRouting
<1>2. PICK F \in SUBSET Frontend :
        /\ rs_route' = [f \in Frontend |-> IF f \in F THEN rs_servers ELSE rs_route[f]]
        /\ IF F = Frontend THEN Reset!StepDone
           ELSE rs_pc' = "failed" /\ rs_work' = Reset!Fresh
  BY DEF Reset!FlushRouting
<1>3. /\ rs_work' = Reset!Fresh /\ rs_work' \in [Nodes -> Progress]
      /\ rs_pc' = "failed" \/ (rs_pc' = "running" /\ F = Frontend)
  BY <1>1, <1>2, StageIsStep, NextStage, FreshIsTodo
<1>4. ResetType'
  BY <1>1, <1>2, <1>3, KindKept, StageNames DEF ResetType, ClusterStages, Reset!dbm,
     Reset!ctl, Reset!store
<1>5. DarkInv'
  BY <1>1, DarkStages, KindKept DEF DarkInv, Home, Reset!dbm, Reset!ctl
<1>6. StorageDone' /\ NamesDone'
  BY <1>1, <1>3, KindKept DEF StorageDone, NamesDone, Replicates, Reset!dbm, Reset!store,
     Stopped, Changed, Corrected, Disabled, Enabled, Flushing, Restored, Ending
<1>7. RoutesDone'
  BY <1>1, <1>2, <1>3, KindKept DEF RoutesDone, Reset!ctl, Disabled, Enabled, Flushing,
     Restored, Ending
<1>8. QED
  BY <1>1, <1>3, <1>4, <1>5, <1>6, <1>7, NothingDone DEF ResetInv

(* The stages of the names change nothing but the domain and the listener. *)
LEMMA NameStep ==
  ASSUME ResetInv, rs_kind' = rs_kind, rs_pc \in {"domain", "clb"},
         rs_pc' \in {"domain", "clb", "done"},
         UNCHANGED <<Reset!store, rs_status, rs_role, rs_route, Reset!ctl>>,
         rs_domain' \subseteq Reset!DomainMembers, rs_work' \in [Nodes -> Progress],
         rs_pc' \in {"clb", "done"} => rs_domain' = Reset!DomainMembers,
         rs_pc' = "done" => rs_clb' = ClbWanted,
         WorkDone', ListenerDone'
  PROVE  ResetInv'
<1>1. ResetType /\ DarkInv /\ StorageDone /\ RoutesDone /\ NamesDone
  BY DEF ResetInv
<1>2. ResetType'
  BY <1>1, KindKept, StageNames DEF ResetType, Kind, HaStages, ClusterStages, Reset!store,
     Reset!ctl
<1>3. DarkInv'
  <2>1. Consistent' <=> Consistent
    BY KindKept DEF Consistent, Reset!store, Reset!ctl
  <2>2. QED
    BY <1>1, <2>1, DarkStages, KindKept DEF DarkInv, Home, Reset!ctl
<1>4. StorageDone' /\ NamesDone'
  BY <1>1, KindKept DEF StorageDone, NamesDone, Replicates, Reset!store,
     Stopped, Changed, Corrected, Disabled, Enabled, Flushing, Restored, Ending
<1>5. RoutesDone'
  BY <1>1, KindKept DEF RoutesDone, Reset!ctl, Disabled, Enabled, Flushing, Restored, Ending
<1>6. QED
  BY <1>2, <1>3, <1>4, <1>5 DEF ResetInv

LEMMA AddNodesToDomainKeeps ==
  ASSUME ResetInv, NEW n, Reset!AddNodesToDomain(n)
  PROVE  ResetInv'
<1> DEFINE N == Reset!DomainMembers
<1>1. ResetType /\ WorkDone /\ NamesDone
  BY DEF ResetInv
<1>2. /\ rs_pc = "domain" /\ rs_kind' = rs_kind /\ n \in N /\ Reset!NodeDone(n, N)
      /\ UNCHANGED <<Reset!store, rs_status, rs_role, rs_route, Reset!ctl, Reset!bal>>
      /\ rs_domain' = rs_domain \union {n}
  BY DEF Reset!AddNodesToDomain, Reset!IsInDomain
<1>3. /\ rs_work' \in [Nodes -> Progress]
      /\ \/ /\ rs_work' = Reset!Fresh /\ rs_pc' = "clb"
            /\ \A o \in N \ {n} : rs_work[o] = "done"
         \/ /\ rs_pc' = rs_pc
            /\ \A o \in Nodes : rs_work'[o] = IF o = n THEN "done" ELSE rs_work[o]
  <2>1. CASE Reset!StepDone /\ \A o \in N \ {n} : rs_work[o] = "done"
    BY <1>1, <1>2, <2>1, StageIsStep, NextStage
  <2>2. CASE rs_pc' = rs_pc /\ rs_work' = [rs_work EXCEPT ![n] = "done"]
    BY <1>1, <2>2, Moved DEF Progress
  <2>3. QED
    BY <1>2, <2>1, <2>2, NodeDoneOr
<1>4. /\ rs_domain' \subseteq N
      /\ rs_pc' \in {"clb", "done"} => rs_domain' = N
  BY <1>1, <1>2, <1>3 DEF WorkDone, ResetType
<1>5. WorkDone' /\ ListenerDone'
  <2>1. CASE rs_work' = Reset!Fresh
    BY <1>1, <1>2, <2>1, NothingDone
  <2>2. CASE rs_pc' = rs_pc
    BY <1>1, <1>2, <1>3, <2>2, Places, KindKept DEF WorkDone, ListenerDone, ResetType
  <2>3. QED
    BY <1>3, <2>1, <2>2
<1>6. QED
  BY <1>2, <1>3, <1>4, <1>5, NameStep

LEMMA ClbKeeps ==
  ASSUME ResetInv,
         \/ Reset!GetClbTargetPrivateIps \/ Reset!RegisterClbPartTarget
         \/ Reset!DeregisterClbPartTarget
  PROVE  ResetInv'
<1> DEFINE c == CHOOSE f \in Frontend : TRUE
<1>1. ResetType /\ NamesDone /\ ListenerDone /\ c \in Nodes /\ c \in Frontend
  BY ResetAssumption DEF ResetInv, Nodes
<1>2. /\ rs_pc = "clb" /\ rs_kind' = rs_kind
      /\ UNCHANGED <<Reset!store, Reset!dbm, rs_route, Reset!ctl>>
  BY DEF Reset!GetClbTargetPrivateIps, Reset!RegisterClbPartTarget,
     Reset!DeregisterClbPartTarget
<1>3. /\ rs_domain' = rs_domain /\ rs_domain = Reset!DomainMembers
  BY <1>1, <1>2 DEF NamesDone, Reset!dbm
<1>4. CASE Reset!GetClbTargetPrivateIps
  <2>1. /\ rs_pc' = rs_pc /\ rs_clb' = rs_clb /\ rs_clbRead' = rs_clb
        /\ rs_work' = [rs_work EXCEPT ![c] = "listed"]
        /\ \A f \in Frontend : rs_work[f] = "todo"
    BY <1>4 DEF Reset!GetClbTargetPrivateIps
  <2>2. /\ rs_work' \in [Nodes -> Progress]
        /\ \A o \in Nodes : rs_work'[o] = IF o = c THEN "listed" ELSE rs_work[o]
    BY <1>1, <2>1, Moved DEF Progress
  <2>3. WorkDone' /\ ListenerDone'
    BY <1>1, <1>2, <2>1, <2>2 DEF WorkDone, ListenerDone, Nodes
  <2>4. QED
    BY <1>2, <1>3, <2>1, <2>2, <2>3, NameStep DEF Reset!dbm
<1>5. CASE Reset!RegisterClbPartTarget
  <2>1. /\ rs_pc' = rs_pc /\ rs_clb' = rs_clb \union Reset!Missing
        /\ rs_clbRead' = rs_clbRead
        /\ rs_work' = [rs_work EXCEPT ![c] = "registered"]
        /\ \E f \in Frontend : rs_work[f] = "listed"
    BY <1>5 DEF Reset!RegisterClbPartTarget
  <2>2. /\ rs_work' \in [Nodes -> Progress]
        /\ \A o \in Nodes : rs_work'[o] = IF o = c THEN "registered" ELSE rs_work[o]
    BY <1>1, <2>1, Moved DEF Progress
  <2>3. Reset!Missing' = Reset!Missing
    BY <2>1 DEF Reset!Missing
  <2>4. rs_clb' = rs_clbRead \union Reset!Missing
    BY <1>1, <1>2, <2>1 DEF ListenerDone
  <2>5. WorkDone' /\ ListenerDone'
    BY <1>2, <2>1, <2>3, <2>4 DEF WorkDone, ListenerDone
  <2>6. QED
    BY <1>2, <1>3, <2>1, <2>2, <2>5, NameStep DEF Reset!dbm
<1>6. CASE Reset!DeregisterClbPartTarget
  <2>1. /\ Reset!StepDone /\ rs_clb' = rs_clb \ Reset!Extra
        /\ \E f \in Frontend : rs_work[f] = "registered"
    BY <1>6 DEF Reset!DeregisterClbPartTarget
  <2>2. rs_work' = Reset!Fresh /\ rs_work' \in [Nodes -> Progress] /\ rs_pc' = "done"
    BY <1>1, <1>2, <2>1, StageIsStep, NextStage
  <2>3. rs_clb' = ClbWanted
    BY <1>1, <1>2, <2>1 DEF ListenerDone, Reset!Extra, Reset!Missing
  <2>4. WorkDone' /\ ListenerDone'
    BY <1>1, <1>2, <2>2, NothingDone
  <2>5. QED
    BY <1>2, <1>3, <2>2, <2>3, <2>4, NameStep DEF Reset!dbm
<1>7. QED
  BY <1>4, <1>5, <1>6

LEMMA ResetStutters ==
  ASSUME ResetInv,
         UNCHANGED <<rs_kind, rs_pc, rs_work, rs_source, rs_io, Reset!dbm, rs_route,
                     Reset!ctl, Reset!bal>>
  PROVE  ResetInv'
<1>1. ResetType'
  BY KindKept DEF ResetInv, ResetType, Reset!dbm, Reset!ctl
<1>2. DarkInv'
  BY KindKept DEF ResetInv, DarkInv, Consistent, Home, Reset!dbm, Reset!ctl
<1>3. StorageDone' /\ RoutesDone' /\ NamesDone'
  BY KindKept DEF ResetInv, StorageDone, RoutesDone, NamesDone, Replicates, Reset!dbm,
     Reset!ctl, Reset!bal
<1>4. WorkDone' /\ ListenerDone'
  BY KindKept DEF ResetInv, WorkDone, ListenerDone, Replicates, Reset!Missing, Reset!dbm,
     Reset!ctl, Reset!bal
<1>5. QED
  BY <1>1, <1>2, <1>3, <1>4 DEF ResetInv

LEMMA ResetStep ==
  ASSUME ResetInv, Reset!Next
  PROVE  ResetInv'
<1>1. ASSUME NEW f \in Frontend, NEW m \in Masters, Reset!Write(f, m)
      PROVE  ResetInv'
  BY <1>1, ResetStutters DEF Reset!Write
<1>2. QED
  BY <1>1, EndsKeep, UpdateAllKeeps, MovesKeep, ResetSlaveKeeps, CheckSlaveStatusKeeps,
     CorrectRemoteDBRoleKeeps, CorrectBackendRoleKeeps, CtlStagesKeep, CtlNodesKeep,
     FlushRoutingKeeps, SwitchProxyBackendKeeps, AddNodesToDomainKeeps, ClbKeeps
     DEF Reset!Next

LEMMA ResetInit ==
  ASSUME Reset!Init
  PROVE  ResetInv
<1>1. /\ rs_kind \in Kind /\ rs_pc = "idle" /\ rs_work = Reset!Fresh
      /\ rs_domain \subseteq Reset!DomainMembers
      /\ \E c \in Ctl : rs_primary = {c}
  BY DEF Reset!Init, Reset!Kind, Kind
<1>2. PICK held \in [Reset!Shards -> Reset!Storage] :
        /\ \A m \in Reset!Shards :
             held[m] \in {m} \union {s \in Slaves : Follows[rs_kind][s] = m}
        /\ rs_role = {held[m] : m \in Reset!Shards}
        /\ rs_status = Reset!InstanceList \ {m \in Reset!Shards : held[m] # m}
        /\ rs_source = [n \in Reset!Storage |->
                          IF n \in Slaves /\ n \notin rs_role THEN Follows[rs_kind][n]
                          ELSE None]
        /\ rs_route = [f \in Frontend |-> held]
  BY DEF Reset!Init
<1>3. ResetType
  BY <1>1, <1>2, FreshIsTodo, Places DEF ResetType
<1>4. DarkInv
  <2>1. \A m \in Reset!Shards : Home(m)
    BY <1>2 DEF Home
  <2>2. Consistent
    BY <1>1, <1>2 DEF Consistent
  <2>3. QED
    BY <1>1, <2>1, <2>2, DarkStages DEF DarkInv, Consistent
<1>5. StorageDone /\ RoutesDone /\ NamesDone /\ WorkDone /\ ListenerDone
  BY <1>1 DEF StorageDone, RoutesDone, NamesDone, WorkDone, ListenerDone, Stopped,
     Changed, Corrected, Disabled, Enabled, Flushing, Restored, Ending
<1>6. QED
  BY <1>3, <1>4, <1>5 DEF ResetInv

LEMMA ResetInvHolds == MCSpec => []ResetInv
<1>1. MCInit => ResetInv
  BY ResetInit DEF MCInit, AnyReset
<1>2. ResetInv /\ [MCNext]_allVars => ResetInv'
  <2>1. ResetInv /\ UNCHANGED resetVars => ResetInv'
    BY ResetStutters DEF resetVars, Reset!dbm, Reset!ctl, Reset!bal
  <2>2. QED
    BY <2>1, ResetStep DEF MCNext, allVars
<1>3. QED
  BY <1>1, <1>2, PTL DEF MCSpec

(* Whatever step of a reset fails, is interrupted or runs a second time,   *)
(* DBM lists an instance as running only while each front sends the writes *)
(* of each shard to a node that has the master role and replicates from no *)
(* one, and one tdbctl is primary (the cluster tool's reset).              *)
THEOREM RunningStaysConsistent == MCSpec => []RunningIsConsistent
<1>1. ResetInv => RunningIsConsistent
  <2>1. \A S : Reset!Cardinality(S) = Cardinality(S)
    BY DEF Reset!Cardinality, Cardinality
  <2>2. QED
    BY <2>1, Singletons DEF ResetInv, DarkInv, Consistent, RunningIsConsistent,
       Reset!RunningIsConsistent
<1>2. QED
  BY <1>1, ResetInvHolds, PTL

(* A reset that ends well has restored the configured cluster, from any    *)
(* state that failovers and earlier resets left it in.                     *)
THEOREM DoneIsReset == MCSpec => []DoneMeansReset
<1>1. ASSUME ResetInv, rs_pc = "done" PROVE Reset!DoneMeansReset
  <2>1. /\ rs_status = Reset!InstanceList /\ rs_role = Reset!Shards
        /\ \A m \in Reset!Shards : rs_source[m] = None
        /\ \A s \in Slaves : Replicates(s)
        /\ \A f \in Frontend : rs_route[f] = Reset!CollectServerRecords
        /\ rs_domain = Reset!DomainMembers /\ rs_clb = ClbWanted
        /\ rs_kind \in Kind
    BY <1>1 DEF ResetInv, ResetType, StorageDone, RoutesDone, NamesDone, Stopped,
       Changed, Corrected, Disabled, Enabled, Flushing, Restored, Ending
  <2>2. \A n \in Reset!InstanceList :
           Reset!ShowNodes[n] = [running |-> TRUE, master |-> n \in Reset!Shards]
    BY <2>1 DEF Reset!ShowNodes
  <2>3. /\ \A m \in Reset!Shards : Reset!ShowReplication[m].from = None
        /\ \A s \in Slaves : Reset!ShowReplication[s] =
                               [from |-> Follows[rs_kind][s], threads |-> TRUE]
    BY <2>1, Places DEF Reset!ShowReplication, Reset!ReplicationOf, Replicates
  <2>4. \A f \in DOMAIN Reset!ShowRouting :
           Reset!ShowRouting[f] = Reset!CollectServerRecords
    <3>1. CASE rs_kind = "tendbha"
      BY <2>1, <3>1 DEF Reset!ShowRouting, Reset!ProxyRouting
    <3>2. CASE rs_kind = "tendbcluster"
      <4>1. rs_primary = {CtlMaster} /\ rs_servers = Reset!CollectServerRecords
        BY <1>1, <3>2 DEF ResetInv, RoutesDone, Enabled, Flushing, Restored, Ending
      <4>2. Frontend \intersect rs_status # {}
        BY <2>1, Places, ResetAssumption
      <4>3. Reset!PrimaryTdbctl = CtlMaster
        BY <4>1, <4>2 DEF Reset!PrimaryTdbctl
      <4>4. QED
        BY <3>2, <4>1, <4>3 DEF Reset!ShowRouting, Reset!ServersRouting
    <3>3. QED
      BY <2>1, <3>1, <3>2 DEF Kind
  <2>5. Reset!ShowDomain = Reset!DomainMembers /\ Reset!ShowClb = ClbWanted
    BY <2>1 DEF Reset!ShowDomain, Reset!ShowClb
  <2>6. QED
    BY <2>2, <2>3, <2>4, <2>5 DEF Reset!DoneMeansReset
<1>2. ResetInv => DoneMeansReset
  BY <1>1 DEF DoneMeansReset, Reset!DoneMeansReset
<1>3. QED
  BY <1>2, ResetInvHolds, PTL

(* While storage nodes, tdbctl nodes and routes are being changed, nothing *)
(* is listed as running, so no scan can start a failover of them: every    *)
(* stage between the two status updates runs in the dark.                  *)
THEOREM ResetsInTheDark == MCSpec => [](rs_pc \in Dark => rs_status = {})
<1>1. ResetInv => (rs_pc \in Dark => rs_status = {})
  BY DEF ResetInv, DarkInv
<1>2. QED
  BY <1>1, ResetInvHolds, PTL

-----------------------------------------------------------------------------
(* SlaveChecker: the slave and the checker are always as they should be,   *)
(* whichever transactions arrive between two readings.                     *)

CheckerInv ==
  /\ Checker!TypeOK
  /\ Len(ck_log) <= MaxFiles
  /\ ck_pc \in {"idle", "waiting"} => ck_rounds < Loops

LEMMA Limits ==
  /\ {K, MaxTransaction, MaxFiles, Loops, MasterBinlogSize, MaxBinlogSize} \subseteq Nat \ {0}
  /\ AllowedSlow \in Nat /\ Width \in Nat
  /\ K > 0 /\ MaxTransaction > 0 /\ MaxFiles > 0 /\ Loops > 0 /\ MaxBinlogSize > 0
  /\ MasterBinlogSize + MaxTransaction \in Nat
  BY SlaveCheckerAssumption

Byte == 0..(MasterBinlogSize + MaxTransaction)

LEMMA CheckerInit == MCInit => CheckerInv
<1>1. SUFFICES ASSUME Checker!Init PROVE CheckerInv
  BY DEF MCInit, AnyCheck
<1>2. /\ ck_log = <<0>> /\ ck_relay = 1 /\ ck_exec = 0 /\ ck_pc = "idle" /\ ck_rounds = 0
      /\ ck_facts \in Checker!Facts
  BY <1>1 DEF Checker!Init
<1>3. ck_log \in Seq(Byte) /\ ck_log # <<>> /\ Len(ck_log) = 1 /\ ck_log[1] = 0
  BY <1>2, Limits DEF Byte
<1>4. 1 \in DOMAIN ck_log
  BY <1>2
<1>5. QED
  BY <1>2, <1>3, <1>4, Limits DEF CheckerInv, Checker!TypeOK, Byte

LEMMA CheckerStep == CheckerInv /\ [MCNext]_allVars => CheckerInv'
<1>1. SUFFICES ASSUME CheckerInv, Checker!Next PROVE CheckerInv'
  <2>1. UNCHANGED checkerVars /\ CheckerInv => CheckerInv'
    BY DEF CheckerInv, Checker!TypeOK, checkerVars
  <2>2. [MCNext]_allVars => UNCHANGED checkerVars \/ Checker!Next
    BY DEF MCNext, allVars
  <2>3. QED
    BY <1>1, <2>1, <2>2
<1>2. /\ ck_log \in Seq(Byte) /\ ck_log # <<>> /\ Len(ck_log) \in Nat \ {0}
      /\ ck_relay \in 1..Len(ck_log) /\ ck_exec \in Nat /\ ck_exec <= ck_log[ck_relay]
      /\ \A k \in 1..Len(ck_log) : ck_log[k] \in Byte /\ ck_log[k] \in Nat
  <2>1. /\ ck_log \in Seq(Byte) /\ ck_log # <<>> /\ ck_relay \in DOMAIN ck_log
        /\ ck_exec \in 0..ck_log[ck_relay]
    BY <1>1 DEF CheckerInv, Checker!TypeOK, Byte
  <2>2. \A k \in 1..Len(ck_log) : ck_log[k] \in Byte /\ ck_log[k] \in Nat
    BY <2>1, Limits DEF Byte
  <2>3. QED
    BY <2>1, <2>2
<1>3. ASSUME NEW bytes \in 1..MaxTransaction, Checker!Receive(bytes) PROVE CheckerInv'
  <2>1. ck_log[Len(ck_log)] + bytes \in Byte
    <3>1. /\ ck_log[Len(ck_log)] \in Nat /\ ck_log[Len(ck_log)] < MasterBinlogSize
          /\ bytes \in Nat /\ bytes <= MaxTransaction
      BY <1>2, <1>3, Limits DEF Checker!Receive, Checker!Received
    <3>2. MasterBinlogSize \in Nat /\ MaxTransaction \in Nat
      BY Limits
    <3> QED
      BY <3>1, <3>2 DEF Byte
  <2>2. /\ ck_log' \in Seq(Byte) /\ Len(ck_log') = Len(ck_log)
        /\ \A k \in 1..Len(ck_log) : ck_log'[k] >= ck_log[k] /\ ck_log'[k] \in Byte
    <3>1. ck_log' = [ck_log EXCEPT ![Len(ck_log)] = @ + bytes] /\ bytes \in Nat
      BY <1>3 DEF Checker!Receive, Checker!Received
    <3>2. ck_log' \in Seq(Byte) /\ Len(ck_log') = Len(ck_log)
      BY <1>2, <2>1, <3>1
    <3>3. \A k \in 1..Len(ck_log) :
             ck_log'[k] = IF k = Len(ck_log) THEN ck_log[k] + bytes ELSE ck_log[k]
      BY <1>2, <3>1
    <3>4. ASSUME NEW k \in 1..Len(ck_log)
          PROVE  ck_log'[k] >= ck_log[k] /\ ck_log'[k] \in Byte
      <4>1. ck_log[k] \in Nat /\ ck_log[k] \in Byte /\ bytes \in Nat
        BY <1>2, <3>1
      <4>2. CASE k = Len(ck_log)
        BY <2>1, <3>3, <4>1, <4>2
      <4>3. CASE k # Len(ck_log)
        BY <3>3, <4>1, <4>3
      <4>4. QED
        BY <4>2, <4>3
    <3>5. QED
      BY <3>2, <3>4
  <2>3. ck_log' # <<>> /\ ck_relay' \in 1..Len(ck_log') /\ ck_exec' \in 0..ck_log'[ck_relay']
    BY <1>2, <1>3, <2>2 DEF Checker!Receive
  <2>4. QED
    BY <1>1, <1>3, <2>2, <2>3 DEF CheckerInv, Checker!TypeOK, Byte, Checker!Receive
<1>4. CASE Checker!Rotate
  <2>1. /\ ck_log' \in Seq(Byte) /\ Len(ck_log') = Len(ck_log) + 1
        /\ \A k \in 1..Len(ck_log) : ck_log'[k] = ck_log[k]
    BY <1>2, <1>4, Limits DEF Checker!Rotate, Byte
  <2>2. ck_log' # <<>> /\ ck_relay' \in 1..Len(ck_log') /\ ck_exec' \in 0..ck_log'[ck_relay']
    BY <1>2, <1>4, <2>1 DEF Checker!Rotate
  <2>3. Len(ck_log') <= MaxFiles
    BY <1>2, <1>4, <2>1, Limits DEF Checker!Rotate, Checker!Received
  <2>4. QED
    BY <1>1, <1>4, <2>1, <2>2, <2>3 DEF CheckerInv, Checker!TypeOK, Byte, Checker!Rotate
<1>5. CASE Checker!Execute
  <2>1. ck_log' = ck_log /\ ck_relay' \in 1..Len(ck_log) /\ ck_exec' \in 0..ck_log[ck_relay']
    <3>1. CASE ck_exec < ck_log[ck_relay]
      BY <1>2, <1>5, <3>1 DEF Checker!Execute
    <3>2. CASE ~(ck_exec < ck_log[ck_relay])
      BY <1>2, <1>5, <3>2 DEF Checker!Execute, Checker!Received
    <3>3. QED
      BY <3>1, <3>2
  <2>2. QED
    BY <1>1, <1>5, <2>1 DEF CheckerInv, Checker!TypeOK, Byte, Checker!Execute
<1>6. ASSUME Checker!Check \/ Checker!CheckFails \/ Checker!WaitReplPosDelay
      PROVE  CheckerInv'
  <2>1. UNCHANGED <<ck_log, ck_relay, ck_exec, ck_facts>>
    BY <1>6 DEF Checker!Check, Checker!CheckFails, Checker!WaitReplPosDelay, Checker!slave
  <2>2. Checker!Verdict \in {"passed", "refused"}
    BY DEF Checker!Verdict
  <2>3. /\ ck_pc' \in {"idle", "waiting", "passed", "refused"} /\ ck_rounds' \in 0..Loops
        /\ ck_pc' \in {"idle", "waiting"} => ck_rounds' < Loops
    <3> USE <1>1, <2>2, Limits DEF CheckerInv, Checker!TypeOK
    <3>1. CASE Checker!Check
      BY <3>1 DEF Checker!Check
    <3>2. CASE Checker!CheckFails
      BY <3>2 DEF Checker!CheckFails
    <3>3. CASE Checker!WaitReplPosDelay
      BY <3>3 DEF Checker!WaitReplPosDelay
    <3>4. QED
      BY <1>6, <3>1, <3>2, <3>3
  <2>4. QED
    BY <1>1, <2>1, <2>3 DEF CheckerInv, Checker!TypeOK
<1>7. QED
  BY <1>1, <1>3, <1>4, <1>5, <1>6 DEF Checker!Next

LEMMA CheckerInvHolds == MCSpec => []CheckerInv
  BY CheckerInit, CheckerStep, PTL DEF MCSpec

(* The SQL thread is at a place of a file that has been received, and the  *)
(* checker takes no more readings than its limit, whatever arrives.        *)
THEOREM CheckerTypeCorrect == MCSpec => []Checker!TypeOK
<1>1. CheckerInv => Checker!TypeOK
  BY DEF CheckerInv
<1>2. QED
  BY <1>1, CheckerInvHolds, PTL

-----------------------------------------------------------------------------
(* What the slave has to execute, counted by file and in kilobytes. *)

LEMMA Induction ==
  ASSUME NEW T, 0 \in T, \A n \in Nat : n \in T => n + 1 \in T
  PROVE  Nat \subseteq T
<1> DEFINE P == Nat \ T
<1>1. SUFFICES ASSUME P # {} PROVE FALSE
  OBVIOUS
<1>2. PICK m \in P : \A x \in P : <<x, m>> \notin OpToRel(<, Nat)
  BY <1>1, NatLessThanWellFounded, WFMin
<1>3. ASSUME NEW x \in Nat, x < m PROVE <<x, m>> \in OpToRel(<, Nat)
  BY <1>2, <1>3, Zenon DEF OpToRel
<1>4. m - 1 \in Nat /\ m - 1 < m /\ (m - 1) + 1 = m
  <2>1. m # 0 /\ m \in Nat
    OBVIOUS
  <2> QED
    BY <2>1
<1>5. m - 1 \notin P
  BY <1>2, <1>3, <1>4
<1> QED
  BY <1>2, <1>4, <1>5

LEMMA SumExists ==
  ASSUME ck_log \in Seq(Nat)
  PROVE  Checker!Sum = [i \in 0..Len(ck_log) |->
                          IF i = 0 THEN 0 ELSE Checker!Sum[i - 1] + ck_log[i]]
<1> DEFINE Adds(n, g) == g = [k \in 0..n |-> IF k = 0 THEN 0 ELSE g[k - 1] + ck_log[k]]
           T == {n \in Nat : \E g : Adds(n, g)}
<1>1. 0 \in T
  <2> DEFINE g == [k \in 0..0 |-> 0]
  <2>1. Adds(0, g)
    OBVIOUS
  <2> QED
    BY <2>1
<1>2. ASSUME NEW n \in Nat, n \in T PROVE n + 1 \in T
  <2>1. PICK g : Adds(n, g)
    BY <1>2
  <2> DEFINE h == [k \in 0..n + 1 |-> IF k = n + 1 THEN g[n] + ck_log[n + 1] ELSE g[k]]
  <2>2. /\ \A k \in 0..n : g[k] = IF k = 0 THEN 0 ELSE g[k - 1] + ck_log[k]
        /\ \A k \in 0..n + 1 : k \in 0..n \/ k = n + 1
        /\ n \in 0..n + 1 /\ n + 1 \in 0..n + 1 /\ n + 1 # 0 /\ n # n + 1 /\ (n + 1) - 1 = n
        /\ \A k \in 0..n : k \in 0..n + 1 /\ k # n + 1
                           /\ (k # 0 => k - 1 \in 0..n + 1 /\ k - 1 # n + 1)
    <3>1. \A k \in 0..n : g[k] = IF k = 0 THEN 0 ELSE g[k - 1] + ck_log[k]
      BY <2>1
    <3> QED
      BY <3>1
  <2>3. /\ h[n + 1] = g[n] + ck_log[n + 1] /\ h[n] = g[n]
        /\ \A k \in 0..n : h[k] = g[k] /\ (k # 0 => h[k - 1] = g[k - 1])
    BY <2>2
  <2>4. h = [k \in 0..n + 1 |-> h[k]]
    OBVIOUS
  <2> HIDE DEF h
  <2>5. \A k \in 0..n + 1 : h[k] = IF k = 0 THEN 0 ELSE h[k - 1] + ck_log[k]
    BY <2>2, <2>3
  <2>6. Adds(n + 1, h)
    BY <2>4, <2>5
  <2>7. \E x : Adds(n + 1, x)
    BY <2>6
  <2> HIDE DEF Adds
  <2> QED
    BY <2>7
<1>3. Len(ck_log) \in T
  <2> HIDE DEF T
  <2>1. Nat \subseteq T
    BY <1>1, <1>2, Induction
  <2> QED
    BY <2>1
<1>4. PICK g : Adds(Len(ck_log), g)
  BY <1>3
<1> QED
  BY <1>4, Zenon DEF Checker!Sum, Checker!Received

LEMMA SumsAre ==
  ASSUME ck_log \in Seq(Nat), NEW n \in 0..Len(ck_log)
  PROVE  /\ Checker!Sum[n] \in Nat
         /\ n > 0 => Checker!Sum[n] = Checker!Sum[n - 1] + ck_log[n]
<1> DEFINE T == {k \in Nat : k <= Len(ck_log) => Checker!Sum[k] \in Nat}
<1>1. /\ Checker!Sum[0] = 0
      /\ \A k \in 0..Len(ck_log) : k > 0 => Checker!Sum[k] = Checker!Sum[k - 1] + ck_log[k]
  <2> DEFINE s == Checker!Sum
  <2>1. Len(ck_log) \in Nat /\ s = [i \in 0..Len(ck_log) |-> IF i = 0 THEN 0 ELSE s[i - 1] + ck_log[i]]
    BY SumExists
  <2> HIDE DEF s
  <2>2. /\ s[0] = 0
        /\ \A k \in 0..Len(ck_log) : k > 0 => s[k] = s[k - 1] + ck_log[k]
    BY <2>1
  <2> QED
    BY <2>2 DEF s
<1>2. 0 \in T
  BY <1>1
<1>3. ASSUME NEW k \in Nat, k \in T PROVE k + 1 \in T
  <2>1. SUFFICES ASSUME k + 1 <= Len(ck_log) PROVE Checker!Sum[k + 1] \in Nat
    OBVIOUS
  <2>2. k <= Len(ck_log) /\ Checker!Sum[k] \in Nat
    BY <1>3, <2>1
  <2>3. k + 1 \in 0..Len(ck_log) /\ k + 1 \in 1..Len(ck_log) /\ k + 1 > 0 /\ (k + 1) - 1 = k
    BY <2>1
  <2>4. ck_log[k + 1] \in Nat
    BY <2>3
  <2>5. Checker!Sum[k + 1] = Checker!Sum[k] + ck_log[k + 1]
    BY <1>1, <2>3
  <2>6. QED
    BY <2>2, <2>4, <2>5
<1>4. Nat \subseteq T
  <2> HIDE DEF T
  <2> QED
    BY <1>2, <1>3, Induction
<1>5. QED
  BY <1>1, <1>4

(* d files hold something, and at most d times the size they keep to.      *)
LEMMA SumBound ==
  ASSUME ck_log \in Seq(Nat), NEW b \in Nat, \A i \in 1..Len(ck_log) : ck_log[i] <= b,
         NEW m \in Nat, NEW e \in Nat, m + e <= Len(ck_log)
  PROVE  /\ Checker!Sum[m] <= Checker!Sum[m + e]
         /\ Checker!Sum[m + e] <= Checker!Sum[m] + e * b
<1> DEFINE T == {d \in Nat : m + d <= Len(ck_log) =>
                               /\ Checker!Sum[m] <= Checker!Sum[m + d]
                               /\ Checker!Sum[m + d] <= Checker!Sum[m] + d * b}
<1>1. m \in 0..Len(ck_log) /\ Checker!Sum[m] \in Nat
  <2>1. m \in 0..Len(ck_log)
    OBVIOUS
  <2>2. QED
    BY <2>1, SumsAre
<1>2. 0 \in T
  BY <1>1
<1>3. ASSUME NEW d \in Nat, d \in T PROVE d + 1 \in T
  <2>1. SUFFICES ASSUME m + (d + 1) <= Len(ck_log)
                 PROVE  /\ Checker!Sum[m] <= Checker!Sum[m + (d + 1)]
                        /\ Checker!Sum[m + (d + 1)] <= Checker!Sum[m] + (d + 1) * b
    OBVIOUS
  <2>2. /\ Checker!Sum[m] <= Checker!Sum[m + d]
        /\ Checker!Sum[m + d] <= Checker!Sum[m] + d * b
    BY <1>3, <2>1
  <2>3. /\ m + d \in 0..Len(ck_log) /\ m + (d + 1) \in 0..Len(ck_log)
        /\ m + (d + 1) > 0 /\ m + (d + 1) \in 1..Len(ck_log) /\ (m + (d + 1)) - 1 = m + d
    BY <2>1
  <2>4. Checker!Sum[m + d] \in Nat
    BY <2>3, SumsAre
  <2>5. Checker!Sum[m + (d + 1)] = Checker!Sum[m + d] + ck_log[m + (d + 1)]
    BY <2>3, SumsAre
  <2>6. ck_log[m + (d + 1)] \in Nat /\ ck_log[m + (d + 1)] <= b
    BY <2>3
  <2>7. (d + 1) * b = d * b + b /\ d * b \in Nat
    OBVIOUS
  <2>8. \A s, t, x, p \in Nat : s <= t /\ t <= s + p /\ x <= b
                                => s <= t + x /\ t + x <= s + (p + b)
    OBVIOUS
  <2>9. /\ Checker!Sum[m] <= Checker!Sum[m + d] + ck_log[m + (d + 1)]
        /\ Checker!Sum[m + d] + ck_log[m + (d + 1)] <= Checker!Sum[m] + (d * b + b)
    BY <1>1, <2>2, <2>4, <2>6, <2>7, <2>8
  <2>10. QED
    BY <2>5, <2>7, <2>9
<1>4. Nat \subseteq T
  <2> HIDE DEF T
  <2> QED
    BY <1>2, <1>3, Induction
<1>5. QED
  BY <1>4

LEMMA Quotient ==
  ASSUME NEW a \in Nat
  PROVE  /\ a \div K \in Nat
         /\ (a \div K) * K <= a /\ a < (a \div K) * K + K
<1>1. K \in Nat /\ K > 0
  BY Limits
<1>2. QED
  BY <1>1

LEMMA QuotientOrder ==
  ASSUME NEW a \in Nat, NEW b \in Nat, a <= b
  PROVE  a \div K <= b \div K
<1>1. K \in Nat /\ K > 0
  BY Limits
<1>2. QED
  BY <1>1

LEMMA FileSize == MaxBinlogSize = (MaxBinlogSize \div K) * K
<1>1. K \in Nat /\ K > 0 /\ MaxBinlogSize \in Nat /\ MaxBinlogSize % K = 0
  BY Limits, SlaveCheckerAssumption
<1>2. QED
  BY <1>1

(* The kilobytes of d whole files, less those executed of the first and    *)
(* with those received of the last, bound the bytes between the two        *)
(* places, but for what the divisions lose.                                *)
LEMMA RestBound ==
  ASSUME NEW e \in Nat, NEW l \in Nat, NEW d \in Nat, NEW s \in Nat,
         s <= d * MaxBinlogSize,
         d * (MaxBinlogSize \div K) - (e \div K) + (l \div K) <= AllowedSlow
  PROVE  s + l - e < (AllowedSlow + 1) * K
<1>1. PICK q \in Nat : q = MaxBinlogSize \div K
  BY Limits, Quotient
<1>2. PICK x \in Nat : x = e \div K
  BY Quotient
<1>3. PICK y \in Nat : y = l \div K
  BY Quotient
<1>4. K \in Nat /\ K > 0 /\ AllowedSlow \in Nat /\ MaxBinlogSize = q * K
  BY <1>1, Limits, FileSize
<1>5. x * K <= e /\ l < y * K + K
  BY <1>2, <1>3, Quotient
<1>6. d * q - x + y <= AllowedSlow
  BY <1>1, <1>2, <1>3
<1>7. s <= (d * q) * K
  BY <1>1, <1>4
<1>8. PICK z \in Nat : z = d * q
  BY <1>1
<1>9. s + l - e < z * K + y * K + K - x * K
  BY <1>4, <1>5, <1>7, <1>8
<1>10. z * K + y * K + K - x * K = (z - x + y) * K + K
  BY <1>4
<1>11. (z - x + y) * K <= AllowedSlow * K
  <2>1. z - x + y \in Int /\ z - x + y <= AllowedSlow
    BY <1>6, <1>8
  <2>2. \A i, j \in Int : i <= j => i * K <= j * K
    BY <1>4
  <2>3. QED
    BY <1>4, <2>1, <2>2
<1>12. (AllowedSlow + 1) * K = AllowedSlow * K + K
  BY <1>4
<1>13. QED
  BY <1>4, <1>9, <1>10, <1>11, <1>12

(* The unsigned difference does not wrap when every file kept to its size. *)
LEMMA NoWrap ==
  ASSUME NEW e \in Nat, NEW l \in Nat, NEW d \in Nat,
         e <= MaxBinlogSize, l <= MaxBinlogSize, d = 0 => e <= l, d < MaxFiles
  PROVE  LET v == d * (MaxBinlogSize \div K) - (e \div K) + (l \div K)
         IN  v \in Int /\ v % Width = v
<1>1. PICK q \in Nat : q = MaxBinlogSize \div K
  BY Limits, Quotient
<1>2. PICK x \in Nat : x = e \div K
  BY Quotient
<1>3. PICK y \in Nat : y = l \div K
  BY Quotient
<1>4. /\ MaxBinlogSize \in Nat /\ MaxTransaction \in Nat /\ MaxFiles \in Nat
      /\ K \in Nat /\ K > 0 /\ Width \in Nat
  BY Limits
<1>5. x <= q /\ y <= q /\ (d = 0 => x <= y)
  BY <1>1, <1>2, <1>3, <1>4, QuotientOrder
<1>6. PICK z \in Nat : z = d * q
  BY <1>1
<1>7. z - x + y >= 0
  <2>1. CASE d = 0
    BY <1>5, <1>6, <2>1
  <2>2. CASE d # 0
    <3>1. d >= 1
      BY <2>2
    <3>2. d * q >= q
      BY <3>1
    <3>3. QED
      BY <1>5, <1>6, <3>2
  <2>3. QED
    BY <2>1, <2>2
<1>8. z - x + y < Width
  <2>1. z + q = (d + 1) * q
    BY <1>6
  <2>2. (d + 1) * q <= MaxFiles * q
    <3>1. \A i, j \in Nat : i <= j => i * q <= j * q
      OBVIOUS
    <3>2. d + 1 \in Nat /\ d + 1 <= MaxFiles
      BY <1>4
    <3>3. QED
      BY <1>4, <3>1, <3>2
  <2>3. q <= MaxBinlogSize + MaxTransaction
    <3>1. MaxBinlogSize = q * K /\ K >= 1
      BY <1>1, <1>4, FileSize
    <3>2. q * K >= q
      BY <1>4, <3>1
    <3>3. QED
      BY <1>4, <3>1, <3>2
  <2>4. MaxFiles * q <= MaxFiles * (MaxBinlogSize + MaxTransaction)
    <3>1. \A i, j \in Nat : i <= j => MaxFiles * i <= MaxFiles * j
      BY <1>4
    <3>2. MaxBinlogSize + MaxTransaction \in Nat
      BY <1>4
    <3>3. QED
      BY <2>3, <3>1, <3>2
  <2>5. MaxFiles * (MaxBinlogSize + MaxTransaction) < Width
    BY SlaveCheckerAssumption
  <2>6. z + q < Width
    <3>1. /\ (d + 1) * q \in Nat /\ MaxFiles * q \in Nat
          /\ MaxFiles * (MaxBinlogSize + MaxTransaction) \in Nat
      BY <1>4
    <3>2. QED
      BY <1>4, <1>6, <2>1, <2>2, <2>4, <2>5, <3>1
  <2>7. QED
    BY <1>4, <1>5, <1>6, <2>6
<1>9. z - x + y \in Int /\ (z - x + y) % Width = z - x + y
  BY <1>4, <1>7, <1>8
<1>10. QED
  BY <1>1, <1>2, <1>3, <1>6, <1>9

LEMMA RestSmall ==
  ASSUME CheckerInv, Checker!CalSlowBytes <= AllowedSlow,
         \A i \in 1..Len(ck_log) : ck_log[i] <= MaxBinlogSize
  PROVE  Checker!Rest < (AllowedSlow + 1) * K
<1>1. /\ ck_log \in Seq(Nat) /\ ck_log \in Seq(Byte) /\ Len(ck_log) \in Nat
      /\ Len(ck_log) <= MaxFiles /\ ck_relay \in 1..Len(ck_log)
      /\ ck_exec \in Nat /\ ck_exec <= ck_log[ck_relay]
      /\ \A k \in 1..Len(ck_log) : ck_log[k] \in Nat
  <2>1. /\ ck_log \in Seq(Byte) /\ ck_log # <<>> /\ ck_relay \in DOMAIN ck_log
        /\ ck_exec \in 0..ck_log[ck_relay] /\ Len(ck_log) <= MaxFiles
    BY DEF CheckerInv, Checker!TypeOK, Byte
  <2>2. Byte \subseteq Nat
    BY Limits DEF Byte
  <2>3. ck_log \in Seq(Nat) /\ Len(ck_log) \in Nat /\ ck_relay \in 1..Len(ck_log)
    <3>1. /\ Len(ck_log) \in Nat /\ ck_relay \in 1..Len(ck_log)
          /\ ck_log \in [1..Len(ck_log) -> Byte]
      BY <2>1
    <3>2. ck_log \in [1..Len(ck_log) -> Nat]
      BY <2>2, <3>1
    <3>3. QED
      BY <3>1, <3>2
  <2>4. QED
    BY <2>1, <2>3
<1>2. PICK l \in Nat : l = ck_log[Len(ck_log)]
  BY <1>1
<1>3. PICK d \in Nat : d = Len(ck_log) - ck_relay
  BY <1>1
<1>4. PICK e \in Nat : e = ck_exec
  BY <1>1
<1>5. /\ e <= MaxBinlogSize /\ l <= MaxBinlogSize /\ d < MaxFiles
      /\ d = 0 => e <= l
  <2>1. MaxBinlogSize \in Nat /\ MaxFiles \in Nat
    BY Limits
  <2>2. ck_log[ck_relay] \in Nat /\ ck_log[ck_relay] <= MaxBinlogSize
    BY <1>1
  <2>3. QED
    BY <1>1, <1>2, <1>3, <1>4, <2>1, <2>2
<1>6. d * (MaxBinlogSize \div K) - (e \div K) + (l \div K) <= AllowedSlow
  BY <1>2, <1>3, <1>4, <1>5, NoWrap DEF Checker!CalSlowBytes, Checker!Received
<1>7. PICK m \in Nat : m = ck_relay - 1
  BY <1>1
<1>8. m + d = Len(ck_log) - 1 /\ m + d <= Len(ck_log) /\ m \in 0..Len(ck_log) /\ m + d \in 0..Len(ck_log)
  BY <1>1, <1>3, <1>7
<1>9. /\ Checker!Sum[m] <= Checker!Sum[m + d]
      /\ Checker!Sum[m + d] <= Checker!Sum[m] + d * MaxBinlogSize
  BY <1>1, <1>8, Limits, SumBound
<1>10. Checker!Sum[m] \in Nat /\ Checker!Sum[m + d] \in Nat
  BY <1>1, <1>8, SumsAre
<1>11. Checker!Sum[Len(ck_log)] = Checker!Sum[m + d] + l
  <2>1. Len(ck_log) \in 0..Len(ck_log) /\ Len(ck_log) > 0
    BY <1>1
  <2>2. QED
    BY <1>1, <1>2, <1>8, <2>1, SumsAre
<1>12. PICK s \in Nat : s = Checker!Sum[m + d] - Checker!Sum[m]
  BY <1>9, <1>10
<1>13. s <= d * MaxBinlogSize
  <2>1. d * MaxBinlogSize \in Nat
    BY Limits
  <2>2. QED
    BY <1>9, <1>10, <1>12, <2>1
<1>14. s + l - e < (AllowedSlow + 1) * K
  BY <1>6, <1>13, RestBound
<1>15. Checker!Rest = s + l - e
  BY <1>4, <1>7, <1>10, <1>11, <1>12 DEF Checker!Rest, Checker!Received
<1>16. QED
  BY <1>14, <1>15

(* A slave that passes the check is at most the allowed kilobytes behind,  *)
(* and one more, in whatever files of the relay log the rest is            *)
(* (CheckSlaveDelay, CalSlowBytes), if no file is larger than the slave's  *)
(* max_binlog_size, whatever the master's is.                              *)
THEOREM PassedInStep == MCSpec => PassedIsInStep
<1>1. ASSUME CheckerInv, [MCNext]_allVars, ck_pc' = "passed", ck_pc # "passed",
             ~Checker!Ignores("delay"), \A i \in 1..Len(ck_log) : ck_log[i] <= MaxBinlogSize
      PROVE  Checker!Rest < (AllowedSlow + 1) * K
  <2>1. Checker!Next
    BY <1>1 DEF MCNext, allVars, checkerVars
  <2>2. Checker!Check \/ Checker!WaitReplPosDelay
    BY <1>1, <2>1 DEF Checker!Next, Checker!Receive, Checker!Rotate, Checker!Execute,
       Checker!CheckFails
  <2>3. Checker!InStep
    BY <1>1, <2>2 DEF Checker!Check, Checker!WaitReplPosDelay
  <2>4. QED
    BY <1>1, <2>3, RestSmall DEF Checker!InStep
<1>2. CheckerInv /\ [MCNext]_allVars =>
        [Checker!Passed /\ ~Checker!Ignores("delay")
           /\ (\A i \in 1..Checker!Received : ck_log[i] <= MaxBinlogSize)
           => Checker!Rest < (AllowedSlow + 1) * K]_Checker!vars
  BY <1>1 DEF Checker!Passed, Checker!Received
<1>3. QED
  BY <1>2, CheckerInvHolds, PTL DEF MCSpec, PassedIsInStep, Checker!PassedIsInStep
===============================================================================
