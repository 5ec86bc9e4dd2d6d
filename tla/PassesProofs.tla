----------------------------- MODULE PassesProofs -----------------------------
(***************************************************************************)
(* Proofs about the passes of PopSwitch, for any number of servers,        *)
(* passes, businesses, instances and hosts and any durations; and about    *)
(* the strategies and the whitelist that decide what a pass switches, for  *)
(* any requests, failures and files and any number of rows.                *)
(***************************************************************************)
EXTENDS MCPasses, FiniteSetTheorems, SequenceTheorems, WellFoundedInduction, TLAPS

-----------------------------------------------------------------------------
(* What the operations of a manager do, key by key. *)

LEMMA PushEffect ==
  ASSUME NEW m \in Manager, NEW i \in Inst
  PROVE  /\ Push(m, i, 0) \in Manager
         /\ \A x \in Inst \ {i} : /\ Push(m, i, 0).queue[x] = m.queue[x]
                                  /\ Push(m, i, 0).mark[x] = m.mark[x]
         /\ Fresh(m, i) => Push(m, i, 0) = m
         /\ ~Fresh(m, i) => Push(m, i, 0).mark[i] = None
  BY WindowAssumption DEF Push, Fresh, Marked, Manager, QueueAge, MarkAge

LEMMA PopEffect ==
  ASSUME NEW m \in Manager, NEW b \in Biz
  PROVE  /\ PopAndMarkStart(m, b) \in Manager
         /\ Mature(m, b) \in SUBSET Inst
         /\ \A i \in Mature(m, b) : /\ PopAndMarkStart(m, b).queue[i] = None
                                    /\ PopAndMarkStart(m, b).mark[i] = 0
                                    /\ Queued(m, i) /\ BizOf[i] = b
         /\ \A i \in Inst \ Mature(m, b) :
              /\ PopAndMarkStart(m, b).queue[i] = m.queue[i]
              /\ PopAndMarkStart(m, b).mark[i] = m.mark[i]
  BY WindowAssumption
     DEF PopAndMarkStart, Mature, Queued, Manager, QueueAge, MarkAge

Unmark(m, K) == [m EXCEPT !.mark = [i \in Inst |-> IF i \in K THEN None ELSE @[i]]]

LEMMA UnmarkEffect ==
  ASSUME NEW m \in Manager, NEW K \in SUBSET Inst
  PROVE  /\ Unmark(m, K) \in Manager
         /\ \A i \in Inst : /\ Unmark(m, K).queue[i] = m.queue[i]
                            /\ i \in K => Unmark(m, K).mark[i] = None
                            /\ i \notin K => Unmark(m, K).mark[i] = m.mark[i]
  BY DEF Unmark, Manager

LEMMA ElapseEffect ==
  ASSUME NEW m \in Manager
  PROVE  /\ Elapse(m) \in Manager
         /\ \A i \in Inst :
              /\ Queued(Elapse(m), i) <=> Queued(m, i)
              /\ Marked(Elapse(m), i) <=> Marked(m, i)
              /\ Fresh(m, i) => Elapse(m).mark[i] = m.mark[i] + 1
  BY WindowAssumption
     DEF Elapse, Older, Manager, QueueAge, MarkAge, Queued, Marked, Fresh

LEMMA NewEffect ==
  /\ NewBizWindowManager(Inst) \in Manager
  /\ \A i \in Inst : ~Marked(NewBizWindowManager(Inst), i)
  BY DEF NewBizWindowManager, Manager, Marked

LEMMA UnitPart == \A p, i : Unit(p, i) \subseteq req[p]
  BY DEF Unit

-----------------------------------------------------------------------------
(* Type correctness.  A pass has keys, a request and work only at the      *)
(* stages that come after it has taken them.                               *)

StageInv ==
  \A p \in Pass :
    /\ pc[p] \in {"idle", "in"} => keys[p] = {}
    /\ pc[p] \in {"idle", "in", "popped"} => req[p] = {}
    /\ pc[p] # "switching" => todo[p] = {} /\ doing[p] = {}

TypeInv == TypeOK /\ StageInv

LEMMA TypeBegin ==
  ASSUME TypeInv, NEW p \in Pass, NEW b \in Biz,
         Acquire(p, b) \/ PopNothing(p) \/ Pop(p) \/ Query(p) \/ QueryFails(p) \/ NoSwitch(p)
  PROVE  TypeInv'
<1>0. TypeOK /\ StageInv
  BY DEF TypeInv
<1>1. CASE Acquire(p, b)
  BY <1>0, <1>1 DEF Acquire, Lock!Enter, TypeInv, TypeOK, StageInv, Stage
<1>2. CASE PopNothing(p)
  BY <1>0, <1>2 DEF PopNothing, Lock!Leave, TypeInv, TypeOK, StageInv, Stage
<1>3. CASE Pop(p)
  <2>1. AMOf[p] \in AM /\ biz[p] \in Biz /\ mgr[AMOf[p]] \in Manager
    BY <1>0, PopSwitchAssumption DEF TypeOK
  <2>2. mgr' \in [AM -> Manager] /\ keys' \in [Pass -> SUBSET Inst]
    BY <1>0, <1>3, <2>1, PopEffect DEF Pop, TypeOK
  <2>3. QED
    BY <1>0, <1>3, <2>2, WindowAssumption DEF Pop, TypeInv, TypeOK, StageInv, Stage, MarkAge
<1>4. CASE Query(p)
  <2>1. CreateRequest(p) \in SUBSET Inst
    BY DEF CreateRequest, OnHosts
  <2>2. QED
    BY <1>0, <1>4, <2>1 DEF Query, TypeInv, TypeOK, StageInv, Stage
<1>5. CASE QueryFails(p)
  BY <1>0, <1>5 DEF QueryFails, TypeInv, TypeOK, StageInv, Stage
<1>6. CASE NoSwitch(p)
  BY <1>0, <1>6 DEF NoSwitch, TypeInv, TypeOK, StageInv, Stage
<1>7. QED
  BY <1>1, <1>2, <1>3, <1>4, <1>5, <1>6

LEMMA TypeSwitch ==
  ASSUME TypeInv, NEW p \in Pass,
         \/ \E s \in Scope, W \in SUBSET Inst : Switch(p, s, W)
         \/ \E i \in todo[p] : \/ SetUnavailable(p, Unit(p, i))
                              \/ \E told \in SUBSET Unit(p, i) : GiveUp(p, Unit(p, i), told)
         \/ \E i \in Inst : DoSwitch(p, i) \/ NotSwitched(p, i)
         \/ SwitchReturns(p)
  PROVE  TypeInv'
<1>0. TypeOK /\ StageInv
  BY DEF TypeInv
<1>1. ASSUME NEW s \in Scope, NEW W \in SUBSET Inst, Switch(p, s, W) PROVE TypeInv'
  BY <1>0, <1>1 DEF Switch, TypeInv, TypeOK, StageInv, Stage
<1>2. ASSUME NEW U, SetUnavailable(p, U) PROVE TypeInv'
  <2>1. /\ U \subseteq todo[p] /\ pc[p] = "switching"
        /\ todo[p] \cap doing[p] = {} /\ todo[p] \cup doing[p] \subseteq req[p]
    BY <1>0, <1>2 DEF SetUnavailable, TypeOK
  <2>2. status' \in [Inst -> {"available", "unavailable"}]
    BY <1>0, <1>2 DEF SetUnavailable, TypeOK
  <2>3. QED
    BY <1>0, <1>2, <2>1, <2>2 DEF SetUnavailable, TypeInv, TypeOK, StageInv
<1>3. ASSUME NEW U, NEW told \in SUBSET U, GiveUp(p, U, told) PROVE TypeInv'
  <2>1. status' \in [Inst -> {"available", "unavailable"}]
    BY <1>0, <1>3 DEF GiveUp, TypeOK
  <2>2. QED
    BY <1>0, <1>3, <2>1 DEF GiveUp, TypeInv, TypeOK, StageInv
<1>4. ASSUME NEW i \in Inst, DoSwitch(p, i) PROVE TypeInv'
  <2>1. /\ AMOf[p] \in AM /\ runs \in [Inst -> [AM -> 0 .. MaxRuns]]
        /\ runs[i][AMOf[p]] < MaxRuns /\ runs' = [runs EXCEPT ![i][AMOf[p]] = @ + 1]
    BY <1>0, <1>4, PopSwitchAssumption DEF DoSwitch, TypeOK
  <2>2. runs[i][AMOf[p]] + 1 \in 0 .. MaxRuns
    BY <2>1, PopSwitchAssumption
  <2>4. runs' \in [Inst -> [AM -> 0 .. MaxRuns]]
    BY <2>1, <2>2
  <2>3. QED
    BY <1>0, <1>4, <2>4 DEF DoSwitch, TypeInv, TypeOK, StageInv
<1>5. ASSUME NEW i \in Inst, NotSwitched(p, i) PROVE TypeInv'
  BY <1>0, <1>5 DEF NotSwitched, TypeInv, TypeOK, StageInv
<1>6. CASE SwitchReturns(p)
  BY <1>0, <1>6 DEF SwitchReturns, TypeInv, TypeOK, StageInv, Stage
<1>7. QED
  BY <1>1, <1>2, <1>3, <1>4, <1>5, <1>6

LEMMA TypeFinish ==
  ASSUME TypeInv, NEW p \in Pass, Finish(p)
  PROVE  TypeInv'
<1>0. TypeOK /\ StageInv
  BY DEF TypeInv
<1>1. AMOf[p] \in AM /\ mgr[AMOf[p]] \in Manager /\ keys[p] \in SUBSET Inst
  BY <1>0, PopSwitchAssumption DEF TypeOK
<1>2. mgr' = [mgr EXCEPT ![AMOf[p]] = Unmark(@, keys[p])]
  BY <1>0, <1>1 DEF Finish, Unmark, TypeOK
<1>3. mgr' \in [AM -> Manager]
  BY <1>0, <1>1, <1>2, UnmarkEffect DEF TypeOK
<1>4. held' \in [Pass -> MarkAge]
  BY <1>0, WindowAssumption DEF Finish, TypeOK, MarkAge
<1>5. overrun' \in SUBSET Inst /\ users' \in [Biz -> SUBSET Pass]
  BY <1>0 DEF Finish, Lock!Leave, TypeOK
<1>6. QED
  BY <1>0, <1>3, <1>4, <1>5 DEF Finish, TypeInv, TypeOK, StageInv, Stage, Scope

LEMMA TypeTick == TypeInv /\ Tick => TypeInv'
<1> SUFFICES ASSUME TypeInv, Tick PROVE TypeInv'
  OBVIOUS
<1>1. TypeOK /\ StageInv
  BY DEF TypeInv
<1>2. mgr' \in [AM -> Manager]
  BY <1>1, ElapseEffect DEF Tick, TypeOK
<1>3. held' \in [Pass -> MarkAge]
  BY <1>1, WindowAssumption DEF Tick, TypeOK, MarkAge, Older
<1>4. overrun' \in SUBSET Inst
  BY <1>1 DEF Tick, TypeOK
<1>5. QED
  BY <1>1, <1>2, <1>3, <1>4 DEF Tick, TypeInv, TypeOK, StageInv, passVars

(* What a crash leaves: the passes of the server are idle and have nothing. *)
LEMMA CrashEffect ==
  ASSUME TypeInv, NEW a \in AM, Crash(a)
  PROVE  /\ mgr'[a] = NewBizWindowManager(Inst)
         /\ \A c \in AM \ {a} : mgr'[c] = mgr[c]
         /\ \A b \in Biz : users'[b] = {p \in users[b] : AMOf[p] # a}
         /\ \A p \in Pass : AMOf[p] = a =>
              /\ pc'[p] = "idle" /\ scope'[p] = "host" /\ held'[p] = 0
              /\ keys'[p] = {} /\ req'[p] = {} /\ todo'[p] = {} /\ doing'[p] = {}
         /\ \A p \in Pass : AMOf[p] # a =>
              /\ pc'[p] = pc[p] /\ scope'[p] = scope[p] /\ held'[p] = held[p]
              /\ keys'[p] = keys[p] /\ req'[p] = req[p]
              /\ todo'[p] = todo[p] /\ doing'[p] = doing[p]
         /\ UNCHANGED <<biz, status, runs>>
         /\ overrun' \subseteq overrun
         /\ \A i \in overrun \ overrun' : \A p \in Pass : i \notin keys'[p]
<1>1. /\ mgr' = [mgr EXCEPT ![a] = NewBizWindowManager(Inst)]
      /\ users' = [b \in Biz |-> {p \in users[b] : AMOf[p] # a}]
      /\ UNCHANGED <<biz, status, runs>>
  BY DEF Crash, Lock!Crash
<1>2. /\ pc' = [p \in Pass |-> IF AMOf[p] = a THEN "idle" ELSE pc[p]]
      /\ scope' = [p \in Pass |-> IF AMOf[p] = a THEN "host" ELSE scope[p]]
      /\ held' = [p \in Pass |-> IF AMOf[p] = a THEN 0 ELSE held[p]]
  BY DEF Crash
<1>3. /\ keys' = [p \in Pass |-> IF AMOf[p] = a THEN {} ELSE keys[p]]
      /\ req' = [p \in Pass |-> IF AMOf[p] = a THEN {} ELSE req[p]]
      /\ todo' = [p \in Pass |-> IF AMOf[p] = a THEN {} ELSE todo[p]]
      /\ doing' = [p \in Pass |-> IF AMOf[p] = a THEN {} ELSE doing[p]]
      /\ overrun' = overrun \ {i \in Inst : \A p \in Pass : i \notin keys'[p]}
  BY DEF Crash
<1>4. QED
  BY <1>1, <1>2, <1>3 DEF TypeInv, TypeOK

LEMMA TypeCrash ==
  ASSUME TypeInv, NEW a \in AM, Crash(a)
  PROVE  TypeInv'
<1>1. TypeOK /\ StageInv
  BY DEF TypeInv
<1>2. mgr' \in [AM -> Manager] /\ users' \in [Biz -> SUBSET Pass]
  BY <1>1, NewEffect DEF Crash, Lock!Crash, TypeOK
<1>3. /\ pc' \in [Pass -> Stage] /\ scope' \in [Pass -> Scope]
      /\ held' \in [Pass -> MarkAge]
  BY <1>1, WindowAssumption DEF Crash, TypeOK, Stage, Scope, MarkAge
<1>4. {keys, req, todo, doing}' \subseteq [Pass -> SUBSET Inst]
  BY <1>1 DEF Crash, TypeOK
<1>5. /\ StageInv' /\ overrun' \in SUBSET Inst
      /\ \A p \in Pass : /\ todo'[p] \cap doing'[p] = {}
                         /\ todo'[p] \cup doing'[p] \subseteq req'[p]
  <2>1. \A p \in Pass : /\ todo[p] \cap doing[p] = {}
                        /\ todo[p] \cup doing[p] \subseteq req[p]
    BY <1>1 DEF TypeOK
  <2>2. overrun' \in SUBSET Inst
    BY <1>1, CrashEffect DEF TypeOK
  <2>3. StageInv'
    BY <1>1, CrashEffect DEF StageInv
  <2>4. \A p \in Pass : /\ todo'[p] \cap doing'[p] = {}
                        /\ todo'[p] \cup doing'[p] \subseteq req'[p]
    BY <2>1, CrashEffect
  <2> QED
    BY <2>2, <2>3, <2>4
<1>6. QED
  BY <1>1, <1>2, <1>3, <1>4, <1>5 DEF Crash, TypeInv, TypeOK

LEMMA TypeStep == TypeInv /\ [Next]_vars => TypeInv'
<1> SUFFICES ASSUME TypeInv, [Next]_vars PROVE TypeInv'
  OBVIOUS
<1>1. ASSUME NEW a \in AM, NEW i \in Inst, Report(a, i) PROVE TypeInv'
  BY <1>1, PushEffect DEF Report, TypeInv, TypeOK, StageInv, passVars
<1>2. CASE UNCHANGED vars
  BY <1>2 DEF vars, passVars, TypeInv, TypeOK, StageInv
<1>3. ASSUME NEW p \in Pass, PopNothing(p) \/ Pop(p) \/ Query(p) \/ QueryFails(p) \/ NoSwitch(p)
      PROVE  TypeInv'
  BY <1>3, TypeBegin DEF TypeInv, TypeOK
<1>4. QED
  BY <1>1, <1>2, <1>3, TypeBegin, TypeSwitch, TypeFinish, TypeTick, TypeCrash DEF Next

LEMMA TypeInit == Init => TypeInv
  BY NewEffect, PopSwitchAssumption, WindowAssumption
     DEF Init, Lock!Init, Nothing, Never, TypeInv, TypeOK, StageInv, Stage, Scope, MarkAge

LEMMA TypeAlways == Spec => []TypeInv
  BY TypeInit, TypeStep, PTL DEF Spec

(* Every reachable state is well typed, and a pass works on a part of its  *)
(* request only.                                                           *)
THEOREM TypeCorrect == Spec => []TypeOK
<1>1. TypeInv => TypeOK
  BY DEF TypeInv
<1>2. QED
  BY <1>1, TypeAlways, PTL

-----------------------------------------------------------------------------
(* The inductive invariant. *)

(* A pass is inside the lock of its business from Acquire to Finish, and   *)
(* shares it with passes of its own server only.                           *)
LockInv ==
  /\ \A p \in Pass : pc[p] # "idle" => p \in users[biz[p]]
  /\ \A b \in Biz : \A p \in users[b] : pc[p] # "idle" /\ biz[p] = b
  /\ \A b \in Biz : \A p, q \in users[b] : AMOf[p] = AMOf[q]

(* It works on instances of that business, and asks for their hosts.       *)
HandInv ==
  \A p \in Pass : /\ \A i \in keys[p] : BizOf[i] = biz[p]
                  /\ req[p] \subseteq OnHosts(Hosts(keys[p]))

(* While an instance is not overrun, its mark on the server of a pass that *)
(* has it is as old as the pass, and so still within inflightTTL: this is  *)
(* what keeps Push from letting the instance back into the window.         *)
MarkInv ==
  /\ \A a \in AM, i \in Inst : ~(Marked(mgr[a], i) /\ Queued(mgr[a], i))
  /\ \A i \in Inst \ overrun, p \in Pass :
       i \in keys[p] => mgr[AMOf[p]].mark[i] = held[p] /\ held[p] < InflightTTL
  /\ \A i \in Inst \ overrun, p, q \in Pass : i \in keys[p] /\ i \in keys[q] => p = q

IInv == TypeInv /\ LockInv /\ HandInv /\ MarkInv

(* The lock and the businesses: two passes with one instance in hand run   *)
(* on one server.                                                          *)
LEMMA SameServer ==
  ASSUME IInv, NEW p \in Pass, NEW q \in Pass, biz[p] = biz[q],
         keys[p] # {}, keys[q] # {}
  PROVE  AMOf[p] = AMOf[q]
<1>1. pc[p] # "idle" /\ pc[q] # "idle"
  BY DEF IInv, TypeInv, StageInv
<1>2. biz[p] \in Biz
  BY DEF IInv, TypeInv, TypeOK
<1>3. QED
  BY <1>1, <1>2 DEF IInv, LockInv

LEMMA LockStep ==
  ASSUME IInv, [Next]_vars
  PROVE  LockInv'
<1>0. TypeOK /\ LockInv
  BY DEF IInv, TypeInv
<1>1. ASSUME NEW p \in Pass, NEW b \in Biz, Acquire(p, b) PROVE LockInv'
  <2>1. /\ \A c \in Biz : p \notin users[c]
        /\ \A q \in users[b] : AMOf[q] = AMOf[p]
        /\ users'[b] = users[b] \cup {p} /\ \A c \in Biz \ {b} : users'[c] = users[c]
        /\ pc'[p] = "in" /\ biz'[p] = b
        /\ \A q \in Pass \ {p} : pc'[q] = pc[q] /\ biz'[q] = biz[q]
    BY <1>0, <1>1 DEF Acquire, Lock!Enter, TypeOK
  <2>2. users \in [Biz -> SUBSET Pass] /\ biz \in [Pass -> Biz]
    BY <1>0 DEF TypeOK
  <2>3. QED
    BY <1>0, <2>1, <2>2 DEF LockInv
<1>2. ASSUME NEW p \in Pass, PopNothing(p) \/ Finish(p) PROVE LockInv'
  <2>1. /\ users'[biz[p]] = users[biz[p]] \ {p}
        /\ \A c \in Biz \ {biz[p]} : users'[c] = users[c]
        /\ biz' = biz /\ pc'[p] = "idle" /\ \A q \in Pass \ {p} : pc'[q] = pc[q]
    BY <1>0, <1>2 DEF PopNothing, Finish, Lock!Leave, TypeOK
  <2>2. users \in [Biz -> SUBSET Pass] /\ biz \in [Pass -> Biz]
    BY <1>0 DEF TypeOK
  <2>3. QED
    BY <1>0, <2>1, <2>2 DEF LockInv
<1>3. ASSUME UNCHANGED <<users, biz>>,
             \A p \in Pass : pc'[p] = "idle" <=> pc[p] = "idle"
      PROVE  LockInv'
  BY <1>0, <1>3 DEF LockInv, TypeOK
<1>4. ASSUME NEW a \in AM, Crash(a) PROVE LockInv'
  <2>1. users \in [Biz -> SUBSET Pass] /\ biz \in [Pass -> Biz]
    BY <1>0 DEF TypeOK
  <2>2. /\ \A b \in Biz : users'[b] = {p \in users[b] : AMOf[p] # a}
        /\ \A p \in Pass : AMOf[p] = a => pc'[p] = "idle"
        /\ \A p \in Pass : AMOf[p] # a => pc'[p] = pc[p]
        /\ biz' = biz
    BY <1>4, CrashEffect DEF IInv
  <2>3. QED
    BY <1>0, <2>1, <2>2 DEF LockInv
<1>5. ASSUME NEW p \in Pass,
             \/ Pop(p) \/ Query(p) \/ QueryFails(p) \/ NoSwitch(p) \/ SwitchReturns(p)
             \/ \E s \in Scope, W \in SUBSET Inst : Switch(p, s, W)
      PROVE  LockInv'
  BY <1>0, <1>3, <1>5
     DEF Pop, Query, QueryFails, NoSwitch, SwitchReturns, Switch, TypeOK
<1>6. ASSUME UNCHANGED <<users, pc, biz>> PROVE LockInv'
  BY <1>3, <1>6
<1>7. QED
  BY <1>1, <1>2, <1>4, <1>5, <1>6
     DEF Next, vars, passVars, Report, SetUnavailable, GiveUp, DoSwitch, NotSwitched, Tick

LEMMA HandStep ==
  ASSUME IInv, [Next]_vars
  PROVE  HandInv'
<1>0. TypeOK /\ StageInv /\ HandInv
  BY DEF IInv, TypeInv
<1>1. ASSUME NEW p \in Pass,
             \A q \in Pass \ {p} : keys'[q] = keys[q] /\ req'[q] = req[q] /\ biz'[q] = biz[q],
             \A i \in keys'[p] : BizOf[i] = biz'[p],
             req'[p] \subseteq OnHosts(Hosts(keys'[p]))
      PROVE  HandInv'
  BY <1>0, <1>1 DEF HandInv
<1>2. ASSUME NEW p \in Pass, NEW b \in Biz, Acquire(p, b) PROVE HandInv'
  BY <1>0, <1>1, <1>2 DEF Acquire, TypeOK, StageInv
<1>3. ASSUME NEW p \in Pass, Pop(p) PROVE HandInv'
  <2>1. mgr[AMOf[p]] \in Manager /\ biz[p] \in Biz
    BY <1>0, PopSwitchAssumption DEF TypeOK
  <2>2. \A i \in Mature(mgr[AMOf[p]], biz[p]) : BizOf[i] = biz[p]
    BY <2>1, PopEffect
  <2>3. QED
    BY <1>0, <1>1, <1>3, <2>2 DEF Pop, TypeOK, StageInv
<1>4. ASSUME NEW p \in Pass, Query(p) PROVE HandInv'
  <2>1. CreateRequest(p) \subseteq OnHosts(Hosts(keys[p]))
    BY DEF CreateRequest
  <2>2. QED
    BY <1>0, <1>1, <1>4, <2>1 DEF Query, TypeOK, HandInv
<1>5. ASSUME NEW p \in Pass, NEW s \in Scope, NEW W \in SUBSET Inst, Switch(p, s, W)
      PROVE  HandInv'
  <2>1. W \subseteq req[p]
    BY <1>5 DEF Switch, Whitelisted
  <2>2. QED
    BY <1>0, <1>1, <1>5, <2>1 DEF Switch, TypeOK, HandInv
<1>6. ASSUME NEW p \in Pass, Finish(p) PROVE HandInv'
  BY <1>0, <1>1, <1>6 DEF Finish, TypeOK
<1>7. ASSUME NEW a \in AM, Crash(a) PROVE HandInv'
  BY <1>0, <1>7, CrashEffect DEF IInv, HandInv
<1>8. ASSUME UNCHANGED <<keys, req, biz>> PROVE HandInv'
  BY <1>0, <1>8 DEF HandInv
<1>9. QED
  BY <1>2, <1>3, <1>4, <1>5, <1>6, <1>7, <1>8
     DEF Next, vars, passVars, Report, PopNothing, QueryFails, NoSwitch, SwitchReturns,
         SetUnavailable, GiveUp, DoSwitch, NotSwitched, Tick

LEMMA MarkReport ==
  ASSUME IInv, NEW a \in AM, NEW i \in Inst, Report(a, i)
  PROVE  MarkInv'
<1>0. TypeOK /\ MarkInv
  BY DEF IInv, TypeInv
<1>1. /\ mgr'[a] = Push(mgr[a], i, 0) /\ mgr[a] \in Manager
      /\ \A c \in AM \ {a} : mgr'[c] = mgr[c]
      /\ UNCHANGED <<keys, held, overrun>>
  BY <1>0 DEF Report, TypeOK, passVars
<1>2. \A x \in Inst \ {i} : /\ mgr'[a].queue[x] = mgr[a].queue[x]
                            /\ mgr'[a].mark[x] = mgr[a].mark[x]
  BY <1>1, PushEffect
<1>3. \A c \in AM, x \in Inst : ~(Marked(mgr'[c], x) /\ Queued(mgr'[c], x))
  BY <1>0, <1>1, <1>2, PushEffect DEF MarkInv, Marked, Queued
<1>4. ASSUME NEW x \in Inst \ overrun, NEW p \in Pass, x \in keys[p]
      PROVE  mgr'[AMOf[p]].mark[x] = held[p] /\ held[p] < InflightTTL
  <2>1. mgr[AMOf[p]].mark[x] = held[p] /\ held[p] < InflightTTL /\ held[p] # None
    BY <1>0, <1>4, WindowAssumption DEF MarkInv, TypeOK, MarkAge
  <2>2. AMOf[p] \in AM
    BY PopSwitchAssumption
  <2>3. CASE AMOf[p] = a /\ x = i
    <3>1. Fresh(mgr[a], i)
      BY <2>1, <2>3 DEF Fresh, Marked
    <3>2. QED
      BY <1>1, <2>1, <2>3, <3>1, PushEffect
  <2>4. CASE ~(AMOf[p] = a /\ x = i)
    BY <1>1, <1>2, <2>1, <2>2, <2>4
  <2>5. QED
    BY <2>3, <2>4
<1>5. QED
  BY <1>0, <1>1, <1>3, <1>4 DEF MarkInv

(* What is popped is in nobody else's hands, unless it is overrun.         *)
LEMMA MarkPop ==
  ASSUME IInv, NEW p \in Pass, Pop(p)
  PROVE  MarkInv'
<1> DEFINE a == AMOf[p]
           M == Mature(mgr[a], biz[p])
<1>0. TypeOK /\ StageInv /\ LockInv /\ HandInv /\ MarkInv
  BY DEF IInv, TypeInv
<1>1. /\ a \in AM /\ mgr[a] \in Manager /\ biz[p] \in Biz
      /\ pc[p] = "in" /\ M # {} /\ keys[p] = {}
      /\ mgr'[a] = PopAndMarkStart(mgr[a], biz[p])
      /\ \A c \in AM \ {a} : mgr'[c] = mgr[c]
      /\ keys'[p] = M /\ held'[p] = 0
      /\ \A q \in Pass \ {p} : keys'[q] = keys[q] /\ held'[q] = held[q]
      /\ overrun' = overrun
  BY <1>0, PopSwitchAssumption DEF Pop, TypeOK, StageInv
<1>2. /\ M \in SUBSET Inst
      /\ \A i \in M : /\ mgr'[a].queue[i] = None /\ mgr'[a].mark[i] = 0
                      /\ Queued(mgr[a], i) /\ BizOf[i] = biz[p]
      /\ \A i \in Inst \ M : /\ mgr'[a].queue[i] = mgr[a].queue[i]
                             /\ mgr'[a].mark[i] = mgr[a].mark[i]
  BY <1>1, PopEffect
<1>3. ASSUME NEW i \in M \ overrun, NEW q \in Pass PROVE i \notin keys[q]
  <2> SUFFICES ASSUME i \in keys[q] PROVE FALSE
    OBVIOUS
  <2>1. biz[q] = biz[p] /\ pc[q] # "idle" /\ pc[p] # "idle"
    BY <1>0, <1>1, <1>2 DEF HandInv, StageInv
  <2>2. AMOf[q] = a
    BY <1>0, <1>1, <2>1 DEF LockInv
  <2>3. mgr[a].mark[i] = held[q] /\ held[q] # None
    BY <1>0, <1>2, <2>2, WindowAssumption DEF MarkInv, TypeOK, MarkAge
  <2>4. QED
    BY <1>0, <1>1, <1>2, <2>3 DEF MarkInv, Marked
<1>4. \A c \in AM, i \in Inst : ~(Marked(mgr'[c], i) /\ Queued(mgr'[c], i))
  BY <1>0, <1>1, <1>2 DEF MarkInv, Marked, Queued
<1>5. ASSUME NEW i \in Inst \ overrun, NEW q \in Pass, i \in keys'[q]
      PROVE  mgr'[AMOf[q]].mark[i] = held'[q] /\ held'[q] < InflightTTL
  <2>1. CASE q = p
    BY <1>1, <1>2, <1>5, <2>1, WindowAssumption
  <2>2. CASE q # p
    <3>1. i \in keys[q] /\ i \notin M /\ AMOf[q] \in AM
      BY <1>1, <1>3, <1>5, <2>2, PopSwitchAssumption
    <3>2. mgr'[AMOf[q]].mark[i] = mgr[AMOf[q]].mark[i]
      BY <1>1, <1>2, <3>1
    <3>3. QED
      BY <1>0, <1>1, <2>2, <3>1, <3>2 DEF MarkInv
  <2>3. QED
    BY <2>1, <2>2
<1>6. ASSUME NEW i \in Inst \ overrun, NEW q \in Pass, NEW r \in Pass,
             i \in keys'[q], i \in keys'[r]
      PROVE  q = r
  <2>1. CASE i \in M
    BY <1>1, <1>3, <1>6, <2>1
  <2>2. CASE i \notin M
    BY <1>0, <1>1, <1>6, <2>2 DEF MarkInv
  <2>3. QED
    BY <2>1, <2>2
<1>7. QED
  BY <1>1, <1>4, <1>5, <1>6 DEF MarkInv

LEMMA MarkFinish ==
  ASSUME IInv, NEW p \in Pass, Finish(p)
  PROVE  MarkInv'
<1> DEFINE a == AMOf[p]
<1>0. TypeOK /\ StageInv /\ HandInv /\ MarkInv
  BY DEF IInv, TypeInv
<1>1. /\ a \in AM /\ mgr[a] \in Manager /\ keys[p] \in SUBSET Inst
      /\ mgr'[a] = Unmark(mgr[a], keys[p])
      /\ \A c \in AM \ {a} : mgr'[c] = mgr[c]
      /\ keys'[p] = {}
      /\ \A q \in Pass \ {p} : keys'[q] = keys[q] /\ held'[q] = held[q]
  BY <1>0, PopSwitchAssumption DEF Finish, Unmark, TypeOK
<1>2. overrun' = overrun \ {i \in keys[p] :
                  \A q \in Pass \ {p} : AMOf[q] = AMOf[p] => i \notin keys[q]}
  BY DEF Finish
<1>3. \A i \in Inst : /\ mgr'[a].queue[i] = mgr[a].queue[i]
                      /\ i \in keys[p] => mgr'[a].mark[i] = None
                      /\ i \notin keys[p] => mgr'[a].mark[i] = mgr[a].mark[i]
  BY <1>1, UnmarkEffect
<1>4. ASSUME NEW i \in keys[p], NEW q \in Pass \ {p}, i \in keys[q] PROVE i \in overrun'
  <2>1. i \in overrun
    BY <1>0, <1>1, <1>4 DEF MarkInv
  <2>2. biz[q] = biz[p]
    BY <1>0, <1>4 DEF HandInv
  <2>3. AMOf[q] = AMOf[p]
    BY <1>4, <2>2, SameServer
  <2>4. QED
    BY <1>2, <1>4, <2>1, <2>3
<1>5. \A i \in Inst \ overrun' : i \in overrun => \A q \in Pass : i \notin keys'[q]
  BY <1>1, <1>2, <1>4
<1>6. ASSUME NEW c \in AM, NEW i \in Inst, Marked(mgr'[c], i), Queued(mgr'[c], i)
      PROVE  FALSE
  <2>1. CASE c = a
    <3>1. mgr'[a].queue[i] # None /\ mgr'[a].mark[i] # None
      BY <1>6, <2>1 DEF Marked, Queued
    <3>2. mgr[a].queue[i] # None /\ mgr[a].mark[i] # None
      BY <1>3, <3>1
    <3>3. QED
      BY <1>0, <1>1, <3>2 DEF MarkInv, Marked, Queued
  <2>2. CASE c # a
    BY <1>0, <1>1, <1>6, <2>2 DEF MarkInv
  <2>3. QED
    BY <2>1, <2>2
<1>7. ASSUME NEW i \in Inst \ overrun', NEW q \in Pass, i \in keys'[q]
      PROVE  mgr'[AMOf[q]].mark[i] = held'[q] /\ held'[q] < InflightTTL
  <2>a. q # p /\ i \in keys[q]
    BY <1>1, <1>7
  <2>b. i \notin keys[p] /\ i \notin overrun
    BY <1>4, <1>5, <1>7, <2>a
  <2>1. q # p /\ i \in keys[q] /\ i \notin keys[p] /\ i \notin overrun /\ AMOf[q] \in AM
    BY <2>a, <2>b, PopSwitchAssumption
  <2>2. mgr'[AMOf[q]].mark[i] = mgr[AMOf[q]].mark[i]
    <3>1. CASE AMOf[q] = a
      BY <1>3, <2>1, <3>1
    <3>2. CASE AMOf[q] # a
      BY <1>1, <2>1, <3>2
    <3>3. QED
      BY <3>1, <3>2
  <2>3. QED
    BY <1>0, <1>1, <2>1, <2>2 DEF MarkInv
<1>8. ASSUME NEW i \in Inst \ overrun', NEW q \in Pass, NEW r \in Pass,
             i \in keys'[q], i \in keys'[r]
      PROVE  q = r
  BY <1>0, <1>1, <1>5, <1>8 DEF MarkInv
<1>9. QED
  BY <1>6, <1>7, <1>8 DEF MarkInv

LEMMA MarkTick ==
  ASSUME IInv, Tick
  PROVE  MarkInv'
<1>0. TypeOK /\ MarkInv
  BY DEF IInv, TypeInv
<1>1. /\ keys' = keys
      /\ \A a \in AM : mgr'[a] = Elapse(mgr[a]) /\ mgr[a] \in Manager
      /\ overrun \subseteq overrun'
  BY <1>0 DEF Tick, TypeOK, passVars
<1>2. \A a \in AM, i \in Inst : ~(Marked(mgr'[a], i) /\ Queued(mgr'[a], i))
  BY <1>0, <1>1, ElapseEffect DEF MarkInv
<1>3. ASSUME NEW i \in Inst \ overrun', NEW p \in Pass, i \in keys[p]
      PROVE  mgr'[AMOf[p]].mark[i] = held'[p] /\ held'[p] < InflightTTL
  <2>1. AMOf[p] \in AM /\ held[p] \in Nat /\ held[p] # None
    BY <1>0, PopSwitchAssumption, WindowAssumption DEF TypeOK, MarkAge
  <2>2. mgr[AMOf[p]].mark[i] = held[p] /\ held[p] < InflightTTL
    BY <1>0, <1>1, <1>3 DEF MarkInv
  <2>3. Fresh(mgr[AMOf[p]], i)
    BY <2>1, <2>2 DEF Fresh, Marked
  <2>4. mgr'[AMOf[p]].mark[i] = held[p] + 1
    BY <1>1, <2>1, <2>2, <2>3, ElapseEffect
  <2>5. held'[p] = held[p] + 1
    BY <1>3, <2>1, <2>2, WindowAssumption DEF Tick, Older
  <2>6. held'[p] # InflightTTL
    BY <1>3 DEF Tick
  <2>7. QED
    BY <2>1, <2>2, <2>4, <2>5, <2>6, WindowAssumption
<1>4. QED
  BY <1>0, <1>1, <1>2, <1>3 DEF MarkInv

LEMMA MarkCrash ==
  ASSUME IInv, NEW a \in AM, Crash(a)
  PROVE  MarkInv'
<1>0. TypeOK /\ MarkInv
  BY DEF IInv, TypeInv
<1>1. /\ mgr'[a] = NewBizWindowManager(Inst)
      /\ \A c \in AM \ {a} : mgr'[c] = mgr[c]
      /\ \A p \in Pass : AMOf[p] = a => keys'[p] = {}
      /\ \A p \in Pass : AMOf[p] # a => keys'[p] = keys[p] /\ held'[p] = held[p]
      /\ \A i \in overrun \ overrun' : \A p \in Pass : i \notin keys'[p]
  BY CrashEffect DEF IInv
<1>2. \A c \in AM, i \in Inst : ~(Marked(mgr'[c], i) /\ Queued(mgr'[c], i))
  BY <1>0, <1>1, NewEffect DEF MarkInv
<1>3. \A p \in Pass : AMOf[p] \in AM
  BY PopSwitchAssumption
<1>4. QED
  BY <1>0, <1>1, <1>2, <1>3 DEF MarkInv

LEMMA IInvStep == IInv /\ [Next]_vars => IInv'
<1> SUFFICES ASSUME IInv, [Next]_vars PROVE IInv'
  OBVIOUS
<1>1. ASSUME UNCHANGED <<mgr, keys, held, overrun>> PROVE MarkInv'
  BY <1>1 DEF IInv, MarkInv
<1>2. MarkInv'
  BY <1>1, MarkReport, MarkPop, MarkFinish, MarkTick, MarkCrash
     DEF Next, vars, passVars, Acquire, PopNothing, Query, QueryFails, NoSwitch, Switch,
         SwitchReturns, SetUnavailable, GiveUp, DoSwitch, NotSwitched
<1>3. TypeInv'
  BY TypeStep DEF IInv
<1>4. QED
  BY <1>2, <1>3, LockStep, HandStep DEF IInv

LEMMA IInvInit == Init => IInv
<1> SUFFICES ASSUME Init PROVE IInv
  OBVIOUS
<1>1. LockInv
  BY DEF Init, Lock!Init, LockInv
<1>2. HandInv
  BY DEF Init, HandInv, Nothing
<1>3. MarkInv
  BY NewEffect DEF Init, MarkInv, Nothing
<1>4. QED
  BY <1>1, <1>2, <1>3, TypeInit DEF IInv

LEMMA IInvAlways == Spec => []IInv
  BY IInvInit, IInvStep, PTL DEF Spec

-----------------------------------------------------------------------------
(* Overlapping requests. *)

(* In the CMDB a machine belongs to one business.                          *)
HostsOfOneBiz == \A i, j \in Inst : HostOf[i] = HostOf[j] => BizOf[i] = BizOf[j]

LEMMA OverlapFromInv == HostsOfOneBiz /\ IInv => OverlapExplained
<1> SUFFICES ASSUME HostsOfOneBiz, IInv, NEW p \in Pass, NEW q \in Pass,
                    NEW i \in req[p] \cap req[q], p # q
             PROVE  /\ AMOf[p] = AMOf[q]
                    /\ \/ \E j \in keys[p], k \in keys[q] :
                            j # k /\ HostOf[j] = HostOf[i] /\ HostOf[k] = HostOf[i]
                       \/ OnHosts({HostOf[i]}) \cap overrun # {}
  BY DEF OverlapExplained
<1>1. TypeOK /\ HandInv /\ MarkInv
  BY DEF IInv, TypeInv
<1>2. PICK j \in keys[p] : HostOf[j] = HostOf[i]
  BY <1>1 DEF HandInv, OnHosts, Hosts
<1>3. PICK k \in keys[q] : HostOf[k] = HostOf[i]
  BY <1>1 DEF HandInv, OnHosts, Hosts
<1>4. j \in Inst /\ k \in Inst
  BY <1>1 DEF TypeOK
<1>5. biz[p] = biz[q]
  BY <1>1, <1>2, <1>3, <1>4 DEF HostsOfOneBiz, HandInv
<1>6. AMOf[p] = AMOf[q]
  BY <1>5, SameServer
<1>7. CASE j # k
  BY <1>2, <1>3, <1>6, <1>7
<1>8. CASE j = k
  <2>1. j \in overrun
    BY <1>1, <1>4, <1>8 DEF MarkInv
  <2>2. QED
    BY <1>2, <1>4, <1>6, <2>1 DEF OnHosts
<1>9. QED
  BY <1>7, <1>8

(* Two requests hold one instance only when the passes run on one server   *)
(* and took the host through two of its instances, or through one whose    *)
(* mark had expired in the hands of a slow pass: the lock keeps servers    *)
(* apart, the mark keeps the passes of one server apart.                   *)
THEOREM OverlapsExplained ==
  ASSUME HostsOfOneBiz
  PROVE  Spec => []OverlapExplained
<1>1. IInv => OverlapExplained
  BY OverlapFromInv
<1>2. QED
  BY <1>1, IInvAlways, PTL

-----------------------------------------------------------------------------
(* Host scope. *)

(* What DBM lists as unavailable it lists so from then on.                 *)
LEMMA StatusStep ==
  ASSUME TypeInv, [Next]_vars, NEW i \in Inst, status[i] = "unavailable"
  PROVE  status'[i] = "unavailable"
<1>1. status \in [Inst -> {"available", "unavailable"}]
  BY DEF TypeInv, TypeOK
<1>2. ASSUME UNCHANGED status PROVE status'[i] = "unavailable"
  BY <1>2
<1>3. ASSUME NEW p, NEW U, SetUnavailable(p, U) PROVE status'[i] = "unavailable"
  BY <1>3 DEF SetUnavailable
<1>4. ASSUME NEW p, NEW U, NEW told, GiveUp(p, U, told) PROVE status'[i] = "unavailable"
  BY <1>4 DEF GiveUp
<1>5. QED
  BY <1>2, <1>3, <1>4
     DEF Next, vars, passVars, Report, Acquire, PopNothing, Pop, Query, QueryFails, NoSwitch,
         Switch, SwitchReturns, DoSwitch, NotSwitched, Finish, Tick, Crash

LEMMA HostScopeStep ==
  ASSUME TypeInv, HostScopeIsWhole, [Next]_vars
  PROVE  HostScopeIsWhole'
<1>0. TypeOK /\ StageInv
  BY DEF TypeInv
<1>1. ASSUME \A p \in Pass : \A i \in doing'[p] : scope'[p] = "host" =>
                i \in doing[p] /\ scope[p] = "host"
      PROVE  HostScopeIsWhole'
  BY <1>0, <1>1, StatusStep DEF HostScopeIsWhole, OnHosts, TypeOK
<1>2. ASSUME UNCHANGED <<doing, scope>> PROVE HostScopeIsWhole'
  BY <1>1, <1>2
<1>3. ASSUME NEW p \in Pass, NEW s \in Scope, NEW W, Switch(p, s, W) PROVE HostScopeIsWhole'
  <2>1. doing' = doing /\ doing[p] = {} /\ \A q \in Pass \ {p} : scope'[q] = scope[q]
    BY <1>0, <1>3 DEF Switch, StageInv, TypeOK
  <2>2. QED
    BY <1>1, <2>1
<1>4. ASSUME NEW p \in Pass, Finish(p) PROVE HostScopeIsWhole'
  <2>1. doing' = doing /\ doing[p] = {} /\ \A q \in Pass \ {p} : scope'[q] = scope[q]
    BY <1>0, <1>4 DEF Finish, StageInv, TypeOK
  <2>2. QED
    BY <1>1, <2>1
<1>5. ASSUME NEW p \in Pass, NEW i \in Inst, DoSwitch(p, i) \/ NotSwitched(p, i)
      PROVE  HostScopeIsWhole'
  <2>1. scope' = scope /\ \A q \in Pass : doing'[q] \subseteq doing[q]
    BY <1>0, <1>5 DEF DoSwitch, NotSwitched, TypeOK
  <2>2. QED
    BY <1>1, <2>1
<1>6. ASSUME NEW a \in AM, Crash(a) PROVE HostScopeIsWhole'
  <2>1. \A p \in Pass : \/ doing'[p] = {}
                        \/ doing'[p] = doing[p] /\ scope'[p] = scope[p]
    BY <1>0, <1>6, CrashEffect
  <2>2. QED
    BY <1>1, <2>1
<1>7. ASSUME NEW p \in Pass, NEW U, NEW told \in SUBSET U, GiveUp(p, U, told)
      PROVE  HostScopeIsWhole'
  BY <1>2, <1>7 DEF GiveUp
<1>8. ASSUME NEW p \in Pass, NEW U, SetUnavailable(p, U) PROVE HostScopeIsWhole'
  <2>1. /\ Complete(p, U) /\ scope' = scope /\ U \subseteq Inst
        /\ doing'[p] = doing[p] \cup U /\ \A q \in Pass \ {p} : doing'[q] = doing[q]
        /\ \A j \in U : status'[j] = "unavailable"
    BY <1>0, <1>8 DEF SetUnavailable, TypeOK
  <2>2. ASSUME NEW q \in Pass, NEW i \in doing'[q], scope[q] = "host",
               NEW j \in OnHosts({HostOf[i]})
        PROVE  status'[j] = "unavailable"
    <3>1. CASE i \in doing[q]
      BY <1>0, <2>2, <3>1, StatusStep DEF HostScopeIsWhole, OnHosts
    <3>2. CASE i \notin doing[q]
      <4>1. q = p /\ i \in U /\ U = OnHosts(Hosts(U))
        BY <2>1, <2>2, <3>2 DEF Complete
      <4>2. j \in U
        BY <4>1 DEF OnHosts, Hosts
      <4>3. QED
        BY <2>1, <4>2
    <3>3. QED
      BY <3>1, <3>2
  <2>3. QED
    BY <2>1, <2>2 DEF HostScopeIsWhole, OnHosts
<1>9. QED
  BY <1>2, <1>3, <1>4, <1>5, <1>6, <1>7, <1>8
     DEF Next, vars, passVars, Report, Acquire, PopNothing, Pop, Query, QueryFails, NoSwitch,
         SwitchReturns, Tick

(* When a host-scope pass goes on to switch an instance, DBM lists every   *)
(* instance of that host as unavailable, and will not hand any of them to  *)
(* another pass.                                                           *)
THEOREM HostScopeWhole == Spec => []HostScopeIsWhole
<1>1. Init => HostScopeIsWhole
  BY DEF Init, HostScopeIsWhole, Nothing
<1>2. TypeInv /\ HostScopeIsWhole /\ [Next]_vars => HostScopeIsWhole'
  BY HostScopeStep
<1>3. QED
  BY <1>1, <1>2, TypeAlways, PTL DEF Spec

-----------------------------------------------------------------------------
(* A second switch. *)

(* A request changes by being made of instances that DBM does not list as  *)
(* unavailable, or by losing some.                                         *)
LEMMA RequestStep ==
  ASSUME TypeInv, [Next]_vars, NEW p \in Pass, NEW i \in req'[p]
  PROVE  i \in req[p] \/ status[i] # "unavailable"
<1>0. TypeOK /\ StageInv
  BY DEF TypeInv
<1>1. ASSUME NEW q \in Pass, Query(q) PROVE i \in req[p] \/ status[i] # "unavailable"
  BY <1>0, <1>1 DEF Query, CreateRequest, TypeOK
<1>2. ASSUME NEW q \in Pass, NEW s \in Scope, NEW W, Switch(q, s, W) PROVE i \in req[p]
  <2>1. W \subseteq req[q]
    BY <1>2 DEF Switch, Whitelisted
  <2>2. QED
    BY <1>0, <1>2, <2>1 DEF Switch, TypeOK
<1>3. ASSUME NEW q \in Pass, Finish(q) PROVE i \in req[p]
  BY <1>0, <1>3 DEF Finish, TypeOK
<1>4. ASSUME NEW a \in AM, Crash(a) PROVE i \in req[p]
  BY <1>4, CrashEffect
<1>5. ASSUME UNCHANGED req PROVE i \in req[p]
  BY <1>5
<1>6. QED
  BY <1>1, <1>2, <1>3, <1>4, <1>5
     DEF Next, vars, passVars, Report, Acquire, PopNothing, Pop, QueryFails, NoSwitch,
         SwitchReturns, SetUnavailable, GiveUp, DoSwitch, NotSwitched, Tick

(* What a pass goes on to switch is unavailable.                           *)
ToldInv == \A p \in Pass : \A i \in doing[p] : status[i] = "unavailable"

LEMMA ToldStep ==
  ASSUME TypeInv, ToldInv, [Next]_vars
  PROVE  ToldInv'
<1>0. TypeOK /\ StageInv
  BY DEF TypeInv
<1> SUFFICES ASSUME NEW p \in Pass, NEW i \in doing'[p], i \notin doing[p]
             PROVE  status'[i] = "unavailable"
  <2>1. \A p \in Pass : doing[p] \subseteq Inst
    BY <1>0 DEF TypeOK
  <2>2. QED
    BY <2>1, StatusStep DEF ToldInv
<1>1. ASSUME NEW q \in Pass, NEW U, SetUnavailable(q, U) PROVE status'[i] = "unavailable"
  BY <1>0, <1>1 DEF SetUnavailable, TypeOK
<1>2. ASSUME NEW q \in Pass, NEW j \in Inst, DoSwitch(q, j) \/ NotSwitched(q, j) PROVE FALSE
  BY <1>0, <1>2 DEF DoSwitch, NotSwitched, TypeOK
<1>3. ASSUME NEW a \in AM, Crash(a) PROVE FALSE
  BY <1>3, CrashEffect
<1>4. doing' # doing
  OBVIOUS
<1>5. QED
  BY <1>1, <1>2, <1>3, <1>4
     DEF Next, vars, passVars, Report, Acquire, PopNothing, Pop, Query, QueryFails, NoSwitch,
         Switch, SwitchReturns, GiveUp, Finish, Tick

(* What a server has switched is unavailable, and only requests of that    *)
(* server still hold it.                                                   *)
OwnerInv ==
  \A i \in Inst : \A a \in AM : runs[i][a] # 0 =>
    status[i] = "unavailable" /\ \A p \in Pass : i \in req[p] => AMOf[p] = a

LEMMA OwnerStep ==
  ASSUME TypeInv, OverlapExplained, ToldInv, OwnerInv, [Next]_vars
  PROVE  OwnerInv'
<1>0. TypeOK /\ StageInv
  BY DEF TypeInv
<1> SUFFICES ASSUME NEW i \in Inst, NEW a \in AM, runs'[i][a] # 0
             PROVE  /\ status'[i] = "unavailable"
                    /\ \A p \in Pass : i \in req'[p] => AMOf[p] = a
  BY DEF OwnerInv
<1>1. SUFFICES /\ status[i] = "unavailable"
               /\ \A p \in Pass : i \in req[p] => AMOf[p] = a
  BY <1>1, StatusStep, RequestStep
<1>2. CASE runs[i][a] # 0
  BY <1>2 DEF OwnerInv
<1>3. CASE runs[i][a] = 0
  <2>1. PICK p \in Pass, j \in Inst : DoSwitch(p, j)
    <3>1. runs' # runs
      BY <1>3
    <3>2. ASSUME NEW c \in AM, Crash(c) PROVE FALSE
      BY <3>1, <3>2, CrashEffect
    <3>3. QED
      BY <3>1, <3>2
         DEF Next, vars, passVars, Report, Acquire, PopNothing, Pop, Query, QueryFails,
             NoSwitch, Switch, SwitchReturns, SetUnavailable, GiveUp, NotSwitched, Finish, Tick
  <2>2. i = j /\ a = AMOf[p] /\ i \in doing[p] /\ i \in req[p]
    BY <1>0, <1>3, <2>1 DEF DoSwitch, TypeOK
  <2>3. \A q \in Pass : i \in req[q] => AMOf[q] = AMOf[p]
    BY <2>2 DEF OverlapExplained
  <2>4. QED
    BY <2>2, <2>3 DEF ToldInv
<1>4. QED
  BY <1>2, <1>3

LEMMA OneServerStep ==
  ASSUME TypeInv, OwnerInv, SwitchedByOneServer, [Next]_vars
  PROVE  SwitchedByOneServer'
<1>0. TypeOK /\ StageInv
  BY DEF TypeInv
<1>1. ASSUME NEW p \in Pass, NEW j \in Inst, DoSwitch(p, j) PROVE SwitchedByOneServer'
  <2>1. j \in req[p] /\ runs \in [Inst -> [AM -> 0 .. MaxRuns]]
    BY <1>0, <1>1 DEF DoSwitch, TypeOK
  <2>2. \A b \in AM : b # AMOf[p] => runs[j][b] = 0
    BY <2>1 DEF OwnerInv
  <2>3. \A i \in Inst : \A b \in AM :
          i # j \/ b # AMOf[p] => runs'[i][b] = runs[i][b]
    BY <1>1, <2>1 DEF DoSwitch
  <2>4. QED
    BY <2>2, <2>3 DEF SwitchedByOneServer
<1>2. ASSUME UNCHANGED runs PROVE SwitchedByOneServer'
  BY <1>2 DEF SwitchedByOneServer
<1>3. ASSUME NEW c \in AM, Crash(c) PROVE UNCHANGED runs
  BY <1>3, CrashEffect
<1>4. QED
  BY <1>1, <1>2, <1>3
     DEF Next, vars, passVars, Report, Acquire, PopNothing, Pop, Query, QueryFails, NoSwitch,
         Switch, SwitchReturns, SetUnavailable, GiveUp, NotSwitched, Finish, Tick

(* What one server has begun to switch no other server ever switches, for  *)
(* any number of servers and passes, crashes, failed and repeated passes:  *)
(* the lock orders the second server's look at DBM after the first one's   *)
(* word to it (switch_flow.go, switch_host_execution.go).                  *)
THEOREM OneServerSwitches ==
  ASSUME HostsOfOneBiz
  PROVE  Spec => []SwitchedByOneServer
<1>1. Init => ToldInv /\ OwnerInv /\ SwitchedByOneServer
  BY DEF Init, Nothing, Never, ToldInv, OwnerInv, SwitchedByOneServer
<1>2. TypeInv /\ ToldInv /\ [Next]_vars => ToldInv'
  BY ToldStep
<1>3. TypeInv /\ OverlapExplained /\ ToldInv /\ OwnerInv /\ [Next]_vars => OwnerInv'
  BY OwnerStep
<1>4. TypeInv /\ OwnerInv /\ SwitchedByOneServer /\ [Next]_vars => SwitchedByOneServer'
  BY OneServerStep
<1>5. QED
  BY <1>1, <1>2, <1>3, <1>4, TypeAlways, OverlapsExplained, PTL DEF Spec

(* No two requests hold one instance.                                      *)
Disjoint == \A p, q \in Pass : p # q => req[p] \cap req[q] = {}

(* What a pass has not attempted is available and was never switched; what *)
(* it goes on to switch is unavailable and was not switched yet.           *)
RunInv ==
  /\ \A p \in Pass : pc[p] = "queried" => \A i \in req[p] : status[i] = "available"
  /\ \A p \in Pass : \A i \in todo[p] : status[i] = "available"
  /\ \A p \in Pass : \A i \in doing[p] : status[i] = "unavailable" /\ runs[i] = Never
  /\ \A i \in Inst : status[i] = "available" => runs[i] = Never
  /\ NoDuplicateSwitch

LEMMA RunStep ==
  ASSUME TypeInv, Disjoint, RunInv, [Next]_vars
  PROVE  RunInv'
<1>0. TypeOK /\ StageInv
  BY DEF TypeInv
<1>1. ASSUME UNCHANGED <<status, runs>>,
             \A p \in Pass : /\ todo'[p] \subseteq todo[p] /\ doing'[p] \subseteq doing[p]
                             /\ req'[p] \subseteq req[p]
                             /\ pc'[p] = "queried" => pc[p] = "queried"
      PROVE  RunInv'
  BY <1>1 DEF RunInv, NoDuplicateSwitch, SwitchedByOneServer
<1>2. ASSUME UNCHANGED <<status, runs, todo, doing, req, pc>> PROVE RunInv'
  BY <1>2 DEF RunInv, NoDuplicateSwitch, SwitchedByOneServer
<1>3. ASSUME NEW p \in Pass,
             \/ \E b \in Biz : Acquire(p, b)
             \/ PopNothing(p) \/ Pop(p) \/ QueryFails(p) \/ NoSwitch(p) \/ SwitchReturns(p)
             \/ Finish(p)
      PROVE  RunInv'
  <2>1. UNCHANGED <<status, runs, todo, doing>>
    BY <1>3 DEF Acquire, PopNothing, Pop, QueryFails, NoSwitch, SwitchReturns, Finish
  <2>2. \A q \in Pass : req'[q] \subseteq req[q] /\ (pc'[q] = "queried" => pc[q] = "queried")
    BY <1>0, <1>3
       DEF Acquire, PopNothing, Pop, QueryFails, NoSwitch, SwitchReturns, Finish, TypeOK
  <2>3. QED
    BY <1>1, <2>1, <2>2
<1>4. ASSUME NEW p \in Pass, Query(p) PROVE RunInv'
  <2>1. /\ UNCHANGED <<status, runs, todo, doing>>
        /\ req'[p] = CreateRequest(p)
        /\ \A q \in Pass \ {p} : req'[q] = req[q] /\ pc'[q] = pc[q]
    BY <1>0, <1>4 DEF Query, TypeOK
  <2>2. \A i \in CreateRequest(p) : status[i] = "available"
    BY <1>0 DEF CreateRequest, OnHosts, TypeOK
  <2>3. QED
    BY <2>1, <2>2 DEF RunInv, NoDuplicateSwitch, SwitchedByOneServer
<1>5. ASSUME NEW p \in Pass, NEW s \in Scope, NEW W, Switch(p, s, W) PROVE RunInv'
  <2>1. /\ W \subseteq req[p] /\ pc[p] = "queried" /\ pc'[p] = "switching"
        /\ UNCHANGED <<status, runs, doing>> /\ todo'[p] = W
        /\ \A q \in Pass \ {p} : req'[q] = req[q] /\ pc'[q] = pc[q] /\ todo'[q] = todo[q]
    BY <1>0, <1>5 DEF Switch, Whitelisted, TypeOK
  <2>2. QED
    BY <2>1 DEF RunInv, NoDuplicateSwitch, SwitchedByOneServer
(* Only the pass that holds an instance in its request changes its status  *)
(* and its count.                                                          *)
<1>6. ASSUME NEW p \in Pass, NEW i \in req[p], NEW q \in Pass \ {p}
      PROVE  /\ i \notin req[q] /\ i \notin todo[q] /\ i \notin doing[q]
  BY <1>0, <1>6 DEF Disjoint, TypeOK
<1>7. ASSUME NEW p \in Pass, NEW U, NEW told \in SUBSET U,
             /\ pc[p] = "switching" /\ U \subseteq todo[p] /\ todo'[p] = todo[p] \ U
             /\ doing'[p] \subseteq doing[p] \cup told
             /\ \A q \in Pass \ {p} : todo'[q] = todo[q] /\ doing'[q] = doing[q]
             /\ status' = [j \in Inst |-> IF j \in told THEN "unavailable" ELSE status[j]]
             /\ UNCHANGED <<runs, req, pc>>
      PROVE  RunInv'
  <2>1. /\ U \subseteq req[p] /\ todo[p] \cap doing[p] = {} /\ req[p] \subseteq Inst
        /\ \A q \in Pass : todo[q] \cup doing[q] \subseteq Inst /\ req[q] \subseteq Inst
    BY <1>0, <1>7 DEF TypeOK
  <2>2. \A q \in Pass : pc'[q] = "queried" => \A i \in req'[q] : status'[i] = "available"
    <3>1. \A q \in Pass : pc[q] = "queried" => q # p /\ \A i \in req[q] : i \notin told
      BY <1>6, <1>7, <2>1
    <3>2. QED
      BY <1>7, <2>1, <3>1 DEF RunInv
  <2>3. \A q \in Pass : \A i \in todo'[q] : status'[i] = "available"
    <3>1. ASSUME NEW q \in Pass, NEW i \in todo'[q] PROVE i \in todo[q] /\ i \notin told
      BY <1>6, <1>7, <2>1, <3>1
    <3>2. QED
      BY <1>7, <2>1, <3>1 DEF RunInv
  <2>4. \A q \in Pass : \A i \in doing'[q] : status'[i] = "unavailable" /\ runs'[i] = Never
    <3>1. \A i \in told : status'[i] = "unavailable" /\ runs'[i] = Never
      BY <1>7, <2>1 DEF RunInv
    <3>2. \A q \in Pass : \A i \in doing[q] : status'[i] = "unavailable" /\ runs'[i] = Never
      BY <1>7, <2>1 DEF RunInv
    <3>3. QED
      BY <1>7, <3>1, <3>2
  <2>5. \A i \in Inst : status'[i] = "available" => runs'[i] = Never
    BY <1>7 DEF RunInv
  <2>6. QED
    BY <1>7, <2>2, <2>3, <2>4, <2>5 DEF RunInv, NoDuplicateSwitch, SwitchedByOneServer
<1>8. ASSUME NEW p \in Pass, NEW U, SetUnavailable(p, U) PROVE RunInv'
  BY <1>0, <1>7, <1>8 DEF SetUnavailable, TypeOK
<1>9. ASSUME NEW p \in Pass, NEW U, NEW told \in SUBSET U, GiveUp(p, U, told) PROVE RunInv'
  BY <1>0, <1>7, <1>9 DEF GiveUp, TypeOK
<1>10. ASSUME NEW p \in Pass, NEW i \in Inst, DoSwitch(p, i) PROVE RunInv'
  <2>1. /\ i \in doing[p] /\ i \in req[p] /\ status[i] = "unavailable" /\ runs[i] = Never
        /\ runs'[i] = [Never EXCEPT ![AMOf[p]] = 1] /\ \A j \in Inst \ {i} : runs'[j] = runs[j]
        /\ doing'[p] = doing[p] \ {i} /\ \A q \in Pass \ {p} : doing'[q] = doing[q]
        /\ UNCHANGED <<status, todo, req, pc>>
    <3>1. /\ i \in doing[p] /\ AMOf[p] \in AM /\ runs \in [Inst -> [AM -> 0 .. MaxRuns]]
          /\ runs' = [runs EXCEPT ![i][AMOf[p]] = @ + 1]
          /\ runs[i] = Never /\ status[i] = "unavailable"
      BY <1>0, <1>10, PopSwitchAssumption DEF DoSwitch, TypeOK, RunInv
    <3>2. runs[i][AMOf[p]] = 0 /\ 0 + 1 = 1
      BY <3>1 DEF Never
    <3>3. runs'[i] = [Never EXCEPT ![AMOf[p]] = 1] /\ \A j \in Inst \ {i} : runs'[j] = runs[j]
      BY <3>1, <3>2
    <3>4. QED
      BY <1>0, <1>10, <3>1, <3>3 DEF DoSwitch, TypeOK
  <2>2. \A q \in Pass : doing'[q] \subseteq doing[q] \ {i} /\ doing[q] \subseteq Inst
    BY <1>0, <1>6, <2>1 DEF TypeOK
  <2>3. /\ \A a \in AM : runs'[i][a] <= 1
        /\ \A a, b \in AM : a # b => runs'[i][a] = 0 \/ runs'[i][b] = 0
    BY <2>1 DEF Never
  <2>4. \A j \in Inst : /\ \A a \in AM : runs'[j][a] <= 1
                        /\ \A a, b \in AM : a # b => runs'[j][a] = 0 \/ runs'[j][b] = 0
    <3>1. ASSUME NEW j \in Inst, j # i PROVE runs'[j] = runs[j]
      BY <2>1, <3>1
    <3> QED
      BY <2>3, <3>1 DEF RunInv, NoDuplicateSwitch, SwitchedByOneServer
  <2>5. QED
    BY <1>0, <2>1, <2>2, <2>4 DEF RunInv, NoDuplicateSwitch, SwitchedByOneServer
<1>11. ASSUME NEW p \in Pass, NEW i \in Inst, NotSwitched(p, i) PROVE RunInv'
  BY <1>0, <1>1, <1>11 DEF NotSwitched, TypeOK
<1>12. ASSUME NEW a \in AM, Crash(a) PROVE RunInv'
  <2>1. UNCHANGED <<status, runs>>
    BY <1>12, CrashEffect
  <2>2. \A p \in Pass : /\ todo'[p] \subseteq todo[p] /\ doing'[p] \subseteq doing[p]
                        /\ req'[p] \subseteq req[p]
                        /\ pc'[p] = "queried" => pc[p] = "queried"
    BY <1>12, CrashEffect
  <2>3. QED
    BY <1>1, <2>1, <2>2
<1>13. QED
  BY <1>2, <1>3, <1>4, <1>5, <1>8, <1>9, <1>10, <1>11, <1>12
     DEF Next, vars, passVars, Report, Tick

LEMMA RunInit == Init => RunInv
  BY DEF Init, RunInv, NoDuplicateSwitch, SwitchedByOneServer, Never, Nothing

LEMMA RunAlways == Spec /\ []Disjoint => []RunInv
<1>1. TypeInv /\ Disjoint /\ RunInv /\ [Next]_vars => RunInv'
  BY RunStep
<1>2. QED
  BY <1>1, RunInit, TypeAlways, PTL DEF Spec

(* An instance is switched a second time only in behaviours where two      *)
(* requests held it at once: nothing else, neither a crash, nor a lost     *)
(* answer of DBM, nor a report that comes back, can do it.                 *)
THEOREM TwiceOnlyByOverlap == Spec /\ []Disjoint => []NoDuplicateSwitch
<1>1. RunInv => NoDuplicateSwitch
  BY DEF RunInv
<1>2. QED
  BY <1>1, RunAlways, PTL

(* Where a machine has one instance, and no pass lasts for InflightTTL,    *)
(* requests do not overlap, and no instance is switched twice.             *)
THEOREM OnceOnSingleHosts ==
  ASSUME \A i, j \in Inst : HostOf[i] = HostOf[j] => i = j
  PROVE  Spec /\ [](overrun = {}) => []NoDuplicateSwitch
<1>1. HostsOfOneBiz
  BY DEF HostsOfOneBiz
<1>2. ASSUME IInv, overrun = {} PROVE Disjoint
  <2>1. keys \in [Pass -> SUBSET Inst] /\ req \in [Pass -> SUBSET Inst]
    BY <1>2 DEF IInv, TypeInv, TypeOK
  <2>2. OverlapExplained
    BY <1>1, <1>2, OverlapFromInv
  <2>3. QED
    BY <1>2, <2>1, <2>2 DEF OverlapExplained, Disjoint
<1>3. QED
  BY <1>2, IInvAlways, TwiceOnlyByOverlap, PTL

-----------------------------------------------------------------------------
(* The strategies, as the composition runs them. *)

(* A finite set of positions has a last one. *)
LEMMA HasLast ==
  ASSUME NEW n \in Nat, NEW K \in SUBSET (1 .. n), K # {}
  PROVE  Table!Max(K) \in K
<1> DEFINE P == {m \in Nat : \A k \in K : k <= m}
<1>1. n \in P /\ P \subseteq Nat
  OBVIOUS
<1>2. PICK m \in P : \A x \in P : <<x, m>> \notin OpToRel(<, Nat)
  BY <1>1, NatLessThanWellFounded, WFMin
<1>3. ASSUME NEW x \in Nat, x < m PROVE <<x, m>> \in OpToRel(<, Nat)
  BY <1>2, <1>3, Zenon DEF OpToRel
<1>4. ASSUME NEW x \in P PROVE ~(x < m)
  BY <1>2, <1>3, Zenon
<1>5. m \in K
  <2>1. SUFFICES ASSUME m \notin K PROVE FALSE
    OBVIOUS
  <2>2. \A k \in K : k \in Nat \ {0} /\ k < m
    BY <2>1
  <2>3. m # 0 /\ m \in Nat
    <3>1. PICK k \in K : k \in Nat \ {0} /\ k < m
      BY <2>2
    <3>2. QED
      BY <3>1
  <2>4. m - 1 \in P /\ m - 1 < m
    BY <2>2, <2>3
  <2>5. QED
    BY <1>4, <2>4
<1>6. \A k \in K : m >= k
  OBVIOUS
<1>7. QED
  BY <1>5, <1>6 DEF Table!Max

LEMMA RowMade ==
  ASSUME NEW c \in Content, NEW s \in Table!Status
  PROVE  Table!With(c, s) \in Table!Row
  BY StrategiesAssumption DEF ContentType, Table!With, Table!Row, Table!Status, Table!Live

LEMMA AllInSeq ==
  ASSUME NEW S, NEW n \in Nat, NEW f, f \in [1 .. n -> S]
  PROVE  f \in Seq(S)
  BY SeqDef

LEMMA BatchIsSeq ==
  ASSUME NEW S
  PROVE  Table!Batches(S) \subseteq Seq(S) /\ \A x \in S : <<x>> \in Seq(S)
<1>1. \A x \in S : <<x>> \in Seq(S)
  OBVIOUS
<1>2. \A x, y \in S : <<x, y>> \in Seq(S)
  OBVIOUS
<1>3. ASSUME NEW t \in Table!Batches(S) PROVE t \in Seq(S)
  <2>1. CASE \E x \in S : t = <<x>>
    <3>1. PICK x \in S : t = <<x>>
      BY <2>1
    <3>2. QED
      BY <1>1, <3>1
  <2>2. CASE \E x, y \in S : t = <<x, y>>
    <3>1. PICK x \in S, y \in S : t = <<x, y>>
      BY <2>2
    <3>2. QED
      BY <1>2, <3>1
  <2>3. QED
    BY <2>1, <2>2, <1>3, Z3 DEF Table!Batches
<1>4. QED
  BY <1>1, <1>3

(* What a request asks for is well formed. *)
LEMMA AskedIsJob ==
  /\ Table!Create \cup Table!GlobalCreate \cup Table!BatchCreate \subseteq Table!Job
  /\ Table!Update \cup Table!GlobalUpdate \cup Table!BatchUpdate \subseteq Table!Job
  /\ Table!StatusUpdate \cup Table!GlobalStatusUpdate \cup Table!Delete
       \cup Table!GlobalDelete \cup Table!BatchUpdateStatus \cup Table!BatchDelete
       \subseteq Table!Job
<1>1. /\ Table!Businesses \subseteq Nat /\ Table!Global \in Nat
      /\ Table!Own \subseteq Content /\ Table!Shared \subseteq Content
      /\ \A c \in Content : c.biz \in Nat
  BY StrategiesAssumption
     DEF Table!Businesses, Table!Own, Table!Shared, ContentType, Table!Global
<1>2. /\ \A c \in Content : <<c>> \in Seq(Content)
      /\ \A i \in Table!Id : <<i>> \in Seq(Table!Id)
      /\ Table!Batches(Content) \subseteq Seq(Content)
      /\ Table!Batches(Table!Id) \subseteq Seq(Table!Id)
  BY BatchIsSeq
<1>3. \A b \in Nat, s \in Seq(Content) : Table!Creation(b, s) \in Table!Job
  BY DEF Table!Creation, Table!Job
<1>4. \A st \in {"look", "check"}, b \in Nat, s \in Seq(Content), is \in Seq(Table!Id) :
        Table!Alteration(st, b, s, is) \in Table!Job
  BY DEF Table!Alteration, Table!Job
<1>5. \A st \in {"look", "write"}, b \in Nat, is \in Seq(Table!Id), t \in Table!Status :
        Table!Mark(st, b, is, t) \in Table!Job
  BY DEF Table!Mark, Table!Job
<1>a. \A b \in Nat, c \in Content, i \in Table!Id :
        Table!Alteration("look", b, <<c>>, <<i>>) \in Table!Job
  BY <1>2, <1>4
<1>b. \A b \in Nat, i \in Table!Id, t \in Table!Status :
        Table!Mark("look", b, <<i>>, t) \in Table!Job
  BY <1>2, <1>5
<1>6. Table!Live \subseteq Table!Status /\ "deleted" \in Table!Status
  BY DEF Table!Status
<1>7. /\ Table!Create \subseteq Table!Job /\ Table!GlobalCreate \subseteq Table!Job
      /\ Table!BatchCreate \subseteq Table!Job
  <2>1. Table!Create \subseteq Table!Job /\ Table!GlobalCreate \subseteq Table!Job
    BY <1>1, <1>2, <1>3 DEF Table!Create, Table!GlobalCreate
  <2>2. Table!BatchCreate \subseteq Table!Job
    BY <1>1, <1>2, <1>3 DEF Table!BatchCreate
  <2>3. QED
    BY <2>1, <2>2
<1>8. /\ Table!Update \subseteq Table!Job /\ Table!GlobalUpdate \subseteq Table!Job
      /\ Table!BatchUpdate \subseteq Table!Job
  <2>1. ASSUME NEW j \in Table!Update PROVE j \in Table!Job
    <3>1. PICK c \in Table!Own, i \in Table!Id : j = Table!Alteration("look", c.biz, <<c>>, <<i>>)
      BY Z3 DEF Table!Update
    <3>2. QED
      BY <1>1, <1>6, <3>1, <1>a
  <2>2. ASSUME NEW j \in Table!GlobalUpdate PROVE j \in Table!Job
    <3>1. PICK c \in Table!Shared, i \in Table!Id : j = Table!Alteration("look", Table!Global, <<c>>, <<i>>)
      BY Z3 DEF Table!GlobalUpdate
    <3>2. QED
      BY <1>1, <1>6, <3>1, <1>a
  <2>3. Table!BatchUpdate \subseteq Table!Job
    BY <1>1, <1>2, <1>4 DEF Table!BatchUpdate
  <2>4. QED
    BY <2>1, <2>2, <2>3
<1>9. /\ Table!StatusUpdate \subseteq Table!Job /\ Table!GlobalStatusUpdate \subseteq Table!Job
      /\ Table!Delete \subseteq Table!Job /\ Table!GlobalDelete \subseteq Table!Job
  <2>1. ASSUME NEW j \in Table!StatusUpdate PROVE j \in Table!Job
    <3>1. PICK b \in Table!Businesses, i \in Table!Id, t \in Table!Live : j = Table!Mark("look", b, <<i>>, t)
      BY Z3 DEF Table!StatusUpdate
    <3>2. QED
      BY <1>1, <1>6, <3>1, <1>b
  <2>2. ASSUME NEW j \in Table!GlobalStatusUpdate PROVE j \in Table!Job
    <3>1. PICK i \in Table!Id, t \in Table!Live : j = Table!Mark("look", Table!Global, <<i>>, t)
      BY Z3 DEF Table!GlobalStatusUpdate
    <3>2. QED
      BY <1>1, <1>6, <3>1, <1>b
  <2>3. ASSUME NEW j \in Table!Delete PROVE j \in Table!Job
    <3>1. PICK b \in Table!Businesses, i \in Table!Id : j = Table!Mark("look", b, <<i>>, "deleted")
      BY Z3 DEF Table!Delete
    <3>2. QED
      BY <1>1, <1>6, <3>1, <1>b
  <2>4. ASSUME NEW j \in Table!GlobalDelete PROVE j \in Table!Job
    <3>1. PICK i \in Table!Id : j = Table!Mark("look", Table!Global, <<i>>, "deleted")
      BY Z3 DEF Table!GlobalDelete
    <3>2. QED
      BY <1>1, <1>6, <3>1, <1>b
  <2>5. QED
    BY <2>1, <2>2, <2>3, <2>4
<1>10. Table!BatchUpdateStatus \subseteq Table!Job /\ Table!BatchDelete \subseteq Table!Job
  BY <1>1, <1>2, <1>5, <1>6 DEF Table!BatchUpdateStatus, Table!BatchDelete
<1>11. QED
  BY <1>7, <1>8, <1>9, <1>10

(* The three writes keep every row a row, and a deleted one as it is. *)
LEMMA CreateEffect ==
  ASSUME Table!TypeOK, NEW j \in Table!Job, j.op = "create"
  PROVE  /\ Table!CreateStrategy(j) \in Seq(Table!Row)
         /\ \A i \in DOMAIN st_rows : Table!CreateStrategy(j)[i] = st_rows[i]
<1> DEFINE added == [k \in DOMAIN j.items |-> Table!With(j.items[k], "enabled")]
<1>1. st_rows \in Seq(Table!Row) /\ j.items \in Seq(Content)
  BY DEF Table!TypeOK, Table!Job
<1>2. added \in Seq(Table!Row)
  <2>1. \A k \in DOMAIN j.items : added[k] \in Table!Row
    BY <1>1, RowMade DEF Table!Status, Table!Live
  <2>2. DOMAIN added = 1 .. Len(j.items) /\ Len(j.items) \in Nat
    BY <1>1
  <2>3. QED
    BY <2>1, <2>2, AllInSeq
<1>3. /\ st_rows \o added \in Seq(Table!Row)
      /\ \A i \in DOMAIN st_rows : (st_rows \o added)[i] = st_rows[i]
  BY <1>1, <1>2, ConcatProperties
<1>4. QED
  BY <1>1, <1>3 DEF Table!CreateStrategy, Table!Created

LEMMA UpdateEffect ==
  ASSUME Table!TypeOK, NEW j \in Table!Job, j.op = "update"
  PROVE  /\ Table!UpdateStrategy(j) \in Seq(Table!Row)
         /\ \A i \in DOMAIN st_rows :
              st_rows[i].status = "deleted" => Table!UpdateStrategy(j)[i] = st_rows[i]
<1> DEFINE n == Len(j.items)
           K(i) == {k \in 1 .. n : j.ids[k] = i /\ Table!Changed(i, j.items[k])}
           new == [i \in DOMAIN st_rows |->
                     IF K(i) = {} THEN st_rows[i]
                     ELSE Table!With(j.items[Table!Max(K(i))], st_rows[i].status)]
<1>1. st_rows \in Seq(Table!Row) /\ j.items \in Seq(Content) /\ n \in Nat
  BY DEF Table!TypeOK, Table!Job
<1>2. ASSUME NEW i \in DOMAIN st_rows PROVE new[i] \in Table!Row
  <2>a. st_rows[i] \in Table!Row
    BY <1>1
  <2>1. st_rows[i].status \in Table!Status
    BY <2>a DEF Table!Row
  <2>2. CASE K(i) = {}
    BY <2>a, <2>2
  <2>3. CASE K(i) # {}
    <3>1. Table!Max(K(i)) \in 1 .. n
      <4>1. K(i) \in SUBSET (1 .. n)
        OBVIOUS
      <4>2. Table!Max(K(i)) \in K(i)
        BY <1>1, <2>3, <4>1, HasLast
      <4>3. QED
        BY <4>1, <4>2
    <3>2. j.items[Table!Max(K(i))] \in Content
      BY <1>1, <3>1, ElementOfSeq
    <3>3. QED
      BY <2>1, <2>3, <3>2, RowMade
  <2>4. QED
    BY <2>2, <2>3
<1>3. new \in Seq(Table!Row)
  <2>1. DOMAIN new = 1 .. Len(st_rows) /\ Len(st_rows) \in Nat
    BY <1>1
  <2>2. QED
    BY <1>2, <2>1, AllInSeq
<1>4. \A i \in DOMAIN st_rows : st_rows[i].status = "deleted" => new[i] = st_rows[i]
  BY DEF Table!Changed
<1>5. Table!UpdateStrategy(j) \in {st_rows, new}
  BY DEF Table!UpdateStrategy, Table!After
<1>6. QED
  BY <1>1, <1>3, <1>4, <1>5

LEMMA MarkEffect ==
  ASSUME Table!TypeOK, NEW j \in Table!Job, j.op = "mark"
  PROVE  /\ Table!UpdateStrategyStatus(j) \in Seq(Table!Row)
         /\ \A i \in DOMAIN st_rows :
              st_rows[i].status = "deleted" => Table!UpdateStrategyStatus(j)[i] = st_rows[i]
<1> DEFINE new == Table!UpdateStrategyStatus(j)
<1>1. st_rows \in Seq(Table!Row) /\ j.status \in Table!Status
  BY DEF Table!TypeOK, Table!Job
<1>2. ASSUME NEW i \in DOMAIN st_rows
      PROVE  /\ new[i] \in Table!Row
             /\ st_rows[i].status = "deleted" => new[i] = st_rows[i]
  <2>1. st_rows[i] \in Table!Row
    BY <1>1
  <2>2. QED
    BY <1>1, <2>1 DEF Table!UpdateStrategyStatus, Table!Marked, Table!Row
<1>3. DOMAIN new = 1 .. Len(st_rows) /\ Len(st_rows) \in Nat
  BY <1>1 DEF Table!UpdateStrategyStatus
<1>4. new \in [1 .. Len(st_rows) -> Table!Row]
  BY <1>2, <1>3 DEF Table!UpdateStrategyStatus
<1>5. QED
  BY <1>2, <1>3, <1>4, AllInSeq

LEMMA WriteEffect ==
  ASSUME Table!TypeOK, NEW r \in Request, Table!Write(r)
  PROVE  /\ st_rows' \in Seq(Table!Row)
         /\ \A i \in DOMAIN st_rows : st_rows[i].status = "deleted" => st_rows'[i] = st_rows[i]
<1>1. st_job[r] \in Table!Job
  BY DEF Table!TypeOK, Table!Write, Table!Idle
<1>2. st_job[r].op \in {"create", "update", "mark"}
  BY <1>1 DEF Table!Job
<1>3. QED
  BY <1>1, <1>2, CreateEffect, UpdateEffect, MarkEffect DEF Table!Write

LEMMA TableStep == Table!TypeOK /\ [Table!Next]_strategyVars => Table!TypeOK'
<1> SUFFICES ASSUME Table!TypeOK, [Table!Next]_strategyVars PROVE Table!TypeOK'
  OBVIOUS
<1>0. st_rows \in Seq(Table!Row) /\ st_job \in [Request -> {Table!Idle} \cup Table!Job]
  BY DEF Table!TypeOK
<1>1. ASSUME NEW r \in Request, Table!Answer(r), st_rows' \in Seq(Table!Row)
      PROVE  Table!TypeOK'
  BY <1>0, <1>1 DEF Table!Answer, Table!TypeOK
<1>2. ASSUME NEW r \in Request, Table!Ask(r) PROVE Table!TypeOK'
  BY <1>0, <1>2, AskedIsJob DEF Table!Ask, Table!TypeOK
<1>3. ASSUME NEW r \in Request, NEW s \in {"check", "write"}, st_job[r].op # "idle",
             st_job[r].op # "update" => s = "write",
             st_job' = [st_job EXCEPT ![r].stage = s], st_rows' = st_rows
      PROVE  Table!TypeOK'
  <2>1. st_job[r] \in Table!Job
    BY <1>0, <1>3 DEF Table!Idle
  <2>2. [st_job[r] EXCEPT !.stage = s] \in Table!Job
    BY <1>3, <2>1 DEF Table!Job
  <2>3. QED
    BY <1>0, <1>3, <2>2 DEF Table!TypeOK
<1>4. ASSUME NEW r \in Request, Table!Look(r) PROVE Table!TypeOK'
  BY <1>0, <1>1, <1>3, <1>4 DEF Table!Look
<1>5. ASSUME NEW r \in Request, Table!CheckNames(r) PROVE Table!TypeOK'
  BY <1>0, <1>1, <1>3, <1>5 DEF Table!CheckNames
<1>6. ASSUME NEW r \in Request, Table!Write(r) PROVE Table!TypeOK'
  BY <1>1, <1>6, WriteEffect DEF Table!Write
<1>7. ASSUME NEW r \in Request, Table!Fails(r) PROVE Table!TypeOK'
  BY <1>0, <1>1, <1>7 DEF Table!Fails
<1>8. CASE UNCHANGED strategyVars
  BY <1>0, <1>8 DEF strategyVars, Table!TypeOK
<1>9. QED
  BY <1>2, <1>4, <1>5, <1>6, <1>7, <1>8 DEF Table!Next

(* The rows and the requests on strategies are what their types say,       *)
(* however the requests interleave and fail (internal/admin/api/open).     *)
THEOREM StrategiesTypeCorrect == MCSpec => []Table!TypeOK
<1>1. MCInit => Table!TypeOK
  BY DEF MCInit, Table!Init, Table!TypeOK
<1>2. [MCNext]_allVars => [Table!Next]_strategyVars
  BY DEF MCNext, allVars, strategyVars
<1>3. QED
  BY <1>1, <1>2, TableStep, PTL DEF MCSpec

(* A strategy that is deleted stays deleted, and as it was, whatever the   *)
(* requests do that had found it before.                                   *)
THEOREM DeletedStays == MCSpec => DeletedForGood
<1>1. ASSUME Table!TypeOK, [MCNext]_allVars
      PROVE  [\A i \in DOMAIN st_rows : st_rows[i].status = "deleted" => st_rows'[i] = st_rows[i]]_Table!vars
  <2>1. CASE \E r \in Request : Table!Write(r)
    BY <1>1, <2>1, WriteEffect
  <2>2. CASE ~\E r \in Request : Table!Write(r)
    <3>1. st_rows' = st_rows
      BY <1>1, <2>2
         DEF MCNext, allVars, strategyVars, Table!Next, Table!Ask, Table!Look,
             Table!CheckNames, Table!Fails
    <3>2. QED
      BY <3>1
  <2>3. QED
    BY <2>1, <2>2
<1>2. QED
  BY <1>1, StrategiesTypeCorrect, PTL DEF MCSpec, DeletedForGood, Table!DeletedForGood

(* A strategy triggers on instances that fail now and that DBM still lists *)
(* as available, at least one and, for the combined one, of both parts of  *)
(* a cluster; a global strategy only where no own one of the business has  *)
(* its number together, whatever their priorities.                         *)
LEMMA SameCardinality == \A S : Table!Cardinality(S) = Cardinality(S)
  BY DEF Table!Cardinality, Cardinality

LEMMA OwnFirstFromType == Table!TypeOK => Table!OwnStrategiesFirst
<1> SUFFICES ASSUME Table!TypeOK,
                    NEW c \in Content, c.biz # Table!Global,
                    NEW G \in SUBSET Failed, NEW L \in SUBSET Failed,
                    NEW i \in Table!MatchStrategyForGroup(c.biz, G, L)
             PROVE  /\ st_rows[i].event # "pair" =>
                         \E x \in G \cap L : x.event = st_rows[i].event
                    /\ st_rows[i].event = "pair" =>
                         \E x, y \in G \cap L : x.cluster = y.cluster /\ x.part # y.part
                    /\ st_rows[i].biz = Table!Global =>
                         \A k \in DOMAIN st_rows :
                           st_rows[k].biz = c.biz /\ st_rows[k].status = "enabled"
                             /\ st_rows[k].event # "pair"
                           => Table!Cardinality({x \in G \cap L : x.event = st_rows[k].event})
                                < Table!Threshold(st_rows[k])
  BY DEF Table!OwnStrategiesFirst
<1> DEFINE S == G \cap L
           Of(e) == {x \in S : x.event = e}
           Both == {y \in S : \E z \in S : y.cluster = z.cluster /\ y.part = "front"
                                                                /\ z.part = "master"}
<1>1. /\ i \in DOMAIN st_rows
      /\ Table!Count(st_rows[i].event, S) >= Table!Threshold(st_rows[i])
      /\ \A k \in DOMAIN st_rows :
           /\ st_rows[k].biz \in {c.biz, Table!Global} /\ st_rows[k].status = "enabled"
           /\ Table!Count(st_rows[k].event, S) >= Table!Threshold(st_rows[k])
           => ~Table!Before(st_rows[k], st_rows[i])
  BY DEF Table!MatchStrategyForGroup, Table!ReadSwitchingStrategy, Table!SwitchGroup
<1>2. \A k \in DOMAIN st_rows : Table!Threshold(st_rows[k]) \in Nat \ {0}
  <2>1. \A k \in DOMAIN st_rows : st_rows[k] \in Table!Row
    BY DEF Table!TypeOK
  <2>2. QED
    BY <2>1 DEF Table!Row, Table!Threshold
<1>3. IsFiniteSet(S) /\ \A e : Cardinality(Of(e)) \in Nat
  BY StrategiesAssumption, FS_Subset, FS_CardinalityType
<1>4. ASSUME st_rows[i].event # "pair" PROVE \E x \in S : x.event = st_rows[i].event
  <2>1. Cardinality(Of(st_rows[i].event)) # 0
    BY <1>1, <1>2, <1>4, SameCardinality DEF Table!Count
  <2>2. QED
    BY <2>1, FS_EmptySet
<1>5. ASSUME st_rows[i].event = "pair"
      PROVE  \E x, y \in S : x.cluster = y.cluster /\ x.part # y.part
  <2>1. Cardinality({x.cluster : x \in Both}) # 0
    BY <1>1, <1>2, <1>5, SameCardinality DEF Table!Count
  <2>2. {x.cluster : x \in Both} # {}
    BY <2>1, FS_EmptySet
  <2>3. QED
    BY <2>2
<1>6. ASSUME st_rows[i].biz = Table!Global, NEW k \in DOMAIN st_rows,
             st_rows[k].biz = c.biz, st_rows[k].status = "enabled", st_rows[k].event # "pair"
      PROVE  Cardinality(Of(st_rows[k].event)) < Table!Threshold(st_rows[k])
  <2>1. Table!Before(st_rows[k], st_rows[i])
    BY <1>6 DEF Table!Before
  <2>2. ~(Cardinality(Of(st_rows[k].event)) >= Table!Threshold(st_rows[k]))
    BY <1>1, <1>6, <2>1, SameCardinality DEF Table!Count
  <2>3. QED
    BY <1>2, <1>3, <2>2
<1>7. QED
  BY <1>4, <1>5, <1>6, SameCardinality

(* In every reachable table of strategies, the choice is an own strategy   *)
(* of the business before a global one.                                    *)
THEOREM OwnBeforeGlobal == MCSpec => []OwnStrategiesFirst
<1>1. Table!TypeOK => OwnStrategiesFirst
  BY OwnFirstFromType DEF OwnStrategiesFirst
<1>2. QED
  BY <1>1, StrategiesTypeCorrect, PTL

-----------------------------------------------------------------------------
(* The whitelist, as the composition runs it. *)

LEMMA Induction ==
  ASSUME NEW T, 0 \in T, \A n \in Nat : n \in T => n + 1 \in T
  PROVE  Nat \subseteq T
<1> DEFINE P == Nat \ T
<1>1. SUFFICES ASSUME P # {} PROVE FALSE
  OBVIOUS
<1>2. PICK m \in P : \A x \in P : <<x, m>> \notin OpToRel(<, Nat)
  BY <1>1, NatLessThanWellFounded, WFMin
<1>3. ASSUME NEW x \in Nat, x < m PROVE <<x, m>> \in OpToRel(<, Nat)
  BY <1>2, <1>3, Zenon DEF OpToRel
<1>4. m - 1 \in Nat /\ m - 1 < m /\ (m - 1) + 1 = m
  <2>1. m # 0 /\ m \in Nat
    OBVIOUS
  <2> QED
    BY <2>1
<1>5. m - 1 \notin P
  BY <1>2, <1>3, <1>4
<1> QED
  BY <1>2, <1>4, <1>5

(* The file, applied to a table, entry by entry.                           *)
LEMMA StepsExist ==
  ASSUME NEW t, NEW f \in File, NEW upsert
  PROVE  List!Steps(t, f, upsert) =
           [k \in 0..Len(f) |->
              IF k = 0 THEN t ELSE List!Made(List!Steps(t, f, upsert)[k - 1], f[k], upsert)]
<1> DEFINE M(x, k) == List!Made(x, f[k], upsert)
           Made(n, g) == g = [k \in 0..n |-> IF k = 0 THEN t ELSE M(g[k - 1], k)]
           T == {n \in Nat : \E g : Made(n, g)}
<1>1. 0 \in T
  <2> DEFINE g == [k \in 0..0 |-> t]
  <2>1. Made(0, g)
    OBVIOUS
  <2> QED
    BY <2>1
<1>2. ASSUME NEW n \in Nat, n \in T PROVE n + 1 \in T
  <2> HIDE DEF M
  <2>1. PICK g : Made(n, g)
    BY <1>2
  <2> DEFINE h == [k \in 0..n + 1 |-> IF k = n + 1 THEN M(g[n], n + 1) ELSE g[k]]
  <2>2. /\ \A k \in 0..n : g[k] = IF k = 0 THEN t ELSE M(g[k - 1], k)
        /\ \A k \in 0..n + 1 : k \in 0..n \/ k = n + 1
        /\ n \in 0..n + 1 /\ n + 1 \in 0..n + 1 /\ n + 1 # 0 /\ n # n + 1 /\ (n + 1) - 1 = n
        /\ \A k \in 0..n : k \in 0..n + 1 /\ k # n + 1
                           /\ (k # 0 => k - 1 \in 0..n + 1 /\ k - 1 # n + 1)
    <3>1. \A k \in 0..n : g[k] = IF k = 0 THEN t ELSE M(g[k - 1], k)
      BY <2>1
    <3> QED
      BY <3>1
  <2>3. /\ h[n + 1] = M(g[n], n + 1) /\ h[n] = g[n]
        /\ \A k \in 0..n : h[k] = g[k] /\ (k # 0 => h[k - 1] = g[k - 1])
    BY <2>2
  <2> HIDE DEF h
  <2>4. \A k \in 0..n + 1 : h[k] = IF k = 0 THEN t ELSE M(h[k - 1], k)
    BY <2>2, <2>3
  <2>5. Made(n + 1, h)
    <3>1. h = [k \in 0..n + 1 |-> h[k]]
      BY DEF h
    <3> QED
      BY <2>4, <3>1
  <2> QED
    BY <2>5
<1>3. Len(f) \in T
  <2>1. Nat \subseteq T
    <3> HIDE DEF T
    <3> QED
      BY <1>1, <1>2, Induction
  <2> QED
    BY <2>1, WhitelistAssumption
<1>4. \E g : Made(Len(f), g)
  BY <1>3
<1> QED
  BY <1>4 DEF List!Steps

(* The steps of a file, one after the other.                               *)
LEMMA StepsAt ==
  ASSUME NEW t, NEW f \in File, NEW upsert
  PROVE  /\ Len(f) \in Nat
         /\ List!Steps(t, f, upsert)[0] = t
         /\ \A k \in 1..Len(f) :
              List!Steps(t, f, upsert)[k]
                = List!Made(List!Steps(t, f, upsert)[k - 1], f[k], upsert)
<1> DEFINE S == List!Steps(t, f, upsert)
<1>1. S = [k \in 0..Len(f) |-> IF k = 0 THEN t ELSE List!Made(S[k - 1], f[k], upsert)]
  BY StepsExist
<1>2. Len(f) \in Nat
  BY WhitelistAssumption
<1> HIDE DEF S
<1>3. S[0] = t /\ \A k \in 1..Len(f) : S[k] = List!Made(S[k - 1], f[k], upsert)
  BY <1>1, <1>2
<1> QED
  BY <1>2, <1>3 DEF S

(* A table is a sequence of rows, each of which is deleted or has its      *)
(* cluster and its values.                                                 *)
IsRow(r) == r = List!Gone \/ r = [cluster |-> r.cluster, set |-> r.set]
IsTable(t) == \E S : t \in Seq(S) /\ \A r \in S : IsRow(r)

IsRequest(q) ==
  q.op \in {"insert", "update", "delete"} /\ q.cluster # "gone"

LEMMA RowByRow ==
  ASSUME NEW n \in Nat, NEW t, t = [i \in 1..n |-> t[i]], \A i \in 1..n : IsRow(t[i])
  PROVE  IsTable(t)
<1> DEFINE S == {t[i] : i \in 1..n}
<1>1. t \in [1..n -> S]
  BY Zenon
<1>2. t \in Seq(S)
  BY <1>1, SeqDef
<1>3. \A r \in S : IsRow(r)
  OBVIOUS
<1> HIDE DEF S
<1> QED
  BY <1>2, <1>3 DEF IsTable

(* To execute a request once more changes nothing.                         *)
LEMMA ExecuteTwice ==
  ASSUME NEW t, IsTable(t), NEW q, IsRequest(q)
  PROVE  /\ IsTable(List!Execute(t, q))
         /\ List!Execute(List!Execute(t, q), q) = List!Execute(t, q)
<1>1. PICK S : t \in Seq(S) /\ \A r \in S : IsRow(r)
  BY DEF IsTable
<1>2. /\ Len(t) \in Nat /\ DOMAIN t = 1..Len(t) /\ t = [i \in 1..Len(t) |-> t[i]]
      /\ \A i \in 1..Len(t) : IsRow(t[i])
  BY <1>1
<1>3. CASE q.op = "insert"
  <2> DEFINE x == [cluster |-> q.cluster, set |-> q.set]
             u == Append(t, x)
  <2>1. CASE List!Refuses(t, q)
    BY <1>3, <2>1 DEF List!Execute
  <2>2. CASE ~List!Refuses(t, q)
    <3>1. List!Execute(t, q) = u
      BY <1>3, <2>2 DEF List!Execute
    <3>2. IsRow(x)
      BY DEF IsRow
    <3>3. u \in Seq(S \cup {x}) /\ Len(t) + 1 \in DOMAIN u /\ u[Len(t) + 1] = x
      BY <1>1, <1>2
    <3>4. IsTable(u)
      BY <1>1, <3>2, <3>3 DEF IsTable
    <3>5. List!Refuses(u, q)
      BY <1>3, <3>3 DEF List!Refuses, List!RowsOf
    <3> QED
      BY <1>3, <3>1, <3>4, <3>5 DEF List!Execute
  <2> QED
    BY <2>1, <2>2
<1>4. CASE q.op = "update"
  <2> DEFINE hit(i, r) == r.cluster = q.cluster /\ q.id \in {List!NoId, i}
             e(i, r) == IF hit(i, r) THEN [r EXCEPT !.set = List!Put(@, q.set)] ELSE r
             u == [i \in DOMAIN t |-> e(i, t[i])]
  <2>1. ASSUME NEW i, NEW r, IsRow(r)
        PROVE  IsRow(e(i, r)) /\ e(i, e(i, r)) = e(i, r)
    <3>1. CASE hit(i, r)
      <4>1. r = [cluster |-> r.cluster, set |-> r.set]
        BY <2>1, <3>1 DEF IsRow, IsRequest, List!Gone
      <4>2. e(i, r) = [cluster |-> r.cluster, set |-> List!Put(r.set, q.set)]
        BY <3>1, <4>1
      <4>3. List!Put(List!Put(r.set, q.set), q.set) = List!Put(r.set, q.set)
        BY DEF List!Put
      <4> QED
        BY <3>1, <4>2, <4>3 DEF IsRow
    <3>2. CASE ~hit(i, r)
      BY <2>1, <3>2
    <3> QED
      BY <3>1, <3>2
  <2>2. List!Execute(t, q) = u
    BY <1>4 DEF List!Execute
  <2> HIDE DEF e, hit
  <2>3. /\ u = [i \in 1..Len(t) |-> u[i]] /\ DOMAIN u = 1..Len(t)
        /\ \A i \in 1..Len(t) : u[i] = e(i, t[i]) /\ IsRow(u[i])
    BY <1>2, <2>1
  <2> HIDE DEF u
  <2>4. IsTable(u)
    BY <1>2, <2>3, RowByRow
  <2>5. List!Execute(u, q) = [i \in DOMAIN u |-> e(i, u[i])]
    BY <1>4 DEF List!Execute, e, hit
  <2>6. [i \in DOMAIN u |-> e(i, u[i])] = u
    BY <1>2, <2>1, <2>3
  <2> QED
    BY <2>2, <2>4, <2>5, <2>6
<1>5. CASE q.op = "delete"
  <2> DEFINE e(r) == IF r.cluster = q.cluster THEN List!Gone ELSE r
             u == [i \in DOMAIN t |-> e(t[i])]
  <2>1. ASSUME NEW r, IsRow(r)
        PROVE  IsRow(e(r)) /\ e(e(r)) = e(r)
    BY <2>1 DEF IsRow, IsRequest, List!Gone
  <2>2. List!Execute(t, q) = u
    BY <1>5 DEF List!Execute
  <2> HIDE DEF e
  <2>3. /\ u = [i \in 1..Len(t) |-> u[i]] /\ DOMAIN u = 1..Len(t)
        /\ \A i \in 1..Len(t) : u[i] = e(t[i]) /\ IsRow(u[i])
    BY <1>2, <2>1
  <2> HIDE DEF u
  <2>4. IsTable(u)
    BY <1>2, <2>3, RowByRow
  <2>5. List!Execute(u, q) = [i \in DOMAIN u |-> e(u[i])]
    BY <1>5 DEF List!Execute, e
  <2>6. [i \in DOMAIN u |-> e(u[i])] = u
    BY <1>2, <2>1, <2>3
  <2> QED
    BY <2>2, <2>4, <2>5, <2>6
<1> QED
  BY <1>3, <1>4, <1>5 DEF IsRequest

LEMMA AsksOf ==
  ASSUME NEW f \in File, NEW k \in 1..Len(f), NEW upsert, NEW matches
  PROVE  IsRequest(List!Asks(f[k], upsert, matches))
BY WhitelistAssumption
DEF IsRequest, List!Asks, List!Ask, List!InsertRequest, List!UpsertRequest,
    List!UpdateRequest, List!DeleteRequest

(* An invocation that is on its way through a file.                        *)
Under(j) == j.stage \in {"entry", "ask"}
IsRun(j) ==
  Under(j) =>
    /\ j.file \in File /\ j.at \in Nat \ {0} /\ j.at <= Len(j.file) + 1
    /\ j.stage = "ask" =>
         /\ j.at <= Len(j.file) /\ IsRequest(j.ask)
         /\ j = [stage |-> j.stage, file |-> j.file, upsert |-> j.upsert,
                 at |-> j.at, ask |-> j.ask, tries |-> j.tries]

(* What it leaves in the table, alone, is what its file would have made    *)
(* of some table up to the entry it is at, and w is what the whole file    *)
(* makes of that one.                                                      *)
Promised(j, w, t) ==
  Under(j) =>
    \E first :
      LET made == List!Steps(first, j.file, j.upsert) IN
      /\ w = List!View(made[Len(j.file)])
      /\ j.stage = "entry" => t = made[j.at - 1]
      /\ j.stage = "ask" => List!Execute(t, j.ask) = made[j.at]

LEMMA Begins ==
  ASSUME NEW f \in File, NEW upsert, NEW t,
         NEW j, j = [stage |-> "entry", file |-> f, upsert |-> upsert, at |-> 1]
  PROVE  IsRun(j) /\ Promised(j, List!View(List!Outcome(t, f, upsert)), t)
<1>1. /\ j.stage = "entry" /\ j.file = f /\ j.upsert = upsert /\ j.at = 1
      /\ Len(f) \in Nat /\ 1 - 1 = 0 /\ List!Steps(t, f, upsert)[0] = t
  BY StepsAt
<1>2. 1 <= Len(f) + 1
  BY <1>1
<1> QED
  BY <1>1, <1>2 DEF IsRun, Promised, Under, List!Outcome

LEMMA Looks ==
  ASSUME NEW j, IsRun(j), j.stage = "entry", j.at <= Len(j.file),
         NEW w, NEW t,
         NEW k, k = [stage |-> "ask", file |-> j.file, upsert |-> j.upsert, at |-> j.at,
                     ask |-> List!Asks(j.file[j.at], j.upsert,
                                       List!RowsOf(t, j.file[j.at].cluster)),
                     tries |-> 1]
  PROVE  IsRun(k) /\ (Promised(j, w, t) => Promised(k, w, t))
<1> DEFINE e == j.file[j.at]
           q == List!Asks(e, j.upsert, List!RowsOf(t, e.cluster))
<1>1. /\ k.stage = "ask" /\ k.file = j.file /\ k.upsert = j.upsert /\ k.at = j.at
      /\ k.ask = q /\ k.tries = 1
  OBVIOUS
<1>2. /\ j.file \in File /\ Len(j.file) \in Nat /\ j.at \in 1..Len(j.file)
      /\ j.at <= Len(j.file) + 1
  BY WhitelistAssumption DEF IsRun, Under
<1>3. IsRequest(q)
  BY <1>2, AsksOf
<1>4. IsRun(k)
  <2>1. k = [stage |-> k.stage, file |-> k.file, upsert |-> k.upsert,
             at |-> k.at, ask |-> k.ask, tries |-> k.tries]
    BY <1>1
  <2> QED
    BY <1>1, <1>2, <1>3, <2>1 DEF IsRun
<1>5. ASSUME Promised(j, w, t) PROVE Promised(k, w, t)
  <2>1. PICK first :
          /\ w = List!View(List!Steps(first, j.file, j.upsert)[Len(j.file)])
          /\ t = List!Steps(first, j.file, j.upsert)[j.at - 1]
    BY <1>5 DEF Promised, Under
  <2>2. List!Steps(first, j.file, j.upsert)[j.at] = List!Made(t, e, j.upsert)
    BY <1>2, <2>1, StepsAt
  <2>3. List!Execute(t, q) = List!Steps(first, j.file, j.upsert)[j.at]
    BY <2>2 DEF List!Made
  <2> HIDE DEF q, e
  <2> QED
    BY <1>1, <2>1, <2>3 DEF Promised
<1> QED
  BY <1>4, <1>5

LEMMA AsksAgain ==
  ASSUME NEW j, IsRun(j), j.stage = "ask", NEW w, NEW t, IsTable(t)
  PROVE  Promised(j, w, t) => Promised(j, w, List!Execute(t, j.ask))
BY ExecuteTwice DEF IsRun, Promised, Under

LEMMA TriesAgain ==
  ASSUME NEW j, IsRun(j), j.stage = "ask", NEW w, NEW t
  PROVE  /\ IsRun(List!Again(j)) /\ IsRun(List!AfterError(j))
         /\ Promised(j, w, t) => Promised(List!Again(j), w, t)
         /\ ~Under(List!AfterError(j))
<1>1. ~Under(List!AfterError(j))
  BY DEF Under, List!AfterError
<1>2. CASE List!Again(j) = List!AfterError(j)
  BY <1>1, <1>2 DEF IsRun, Promised
<1>3. CASE List!Again(j) # List!AfterError(j)
  <2> DEFINE k == List!Again(j)
  <2>1. k = [stage |-> "ask", file |-> j.file, upsert |-> j.upsert,
             at |-> j.at, ask |-> j.ask, tries |-> j.tries + 1]
    BY <1>3 DEF IsRun, Under, List!Again
  <2>2. /\ k.stage = "ask" /\ k.file = j.file /\ k.upsert = j.upsert
        /\ k.at = j.at /\ k.ask = j.ask /\ k.tries = j.tries + 1
    BY <2>1
  <2> HIDE DEF k
  <2>3. IsRun(k)
    BY <2>1, <2>2 DEF IsRun, Under
  <2>4. Promised(j, w, t) => Promised(k, w, t)
    BY <2>2 DEF Promised, Under
  <2> QED
    BY <1>1, <2>3, <2>4 DEF k, IsRun
<1> QED
  BY <1>2, <1>3

LEMMA GoesOn ==
  ASSUME NEW j, IsRun(j), j.stage = "ask", NEW w, NEW t
  PROVE  /\ IsRun(List!Onwards(j))
         /\ Promised(j, w, t) => Promised(List!Onwards(j), w, List!Execute(t, j.ask))
<1> DEFINE k == List!Onwards(j)
<1>1. /\ k.stage = "entry" /\ k.file = j.file /\ k.upsert = j.upsert /\ k.at = j.at + 1
  BY DEF List!Onwards
<1>2. /\ j.file \in File /\ j.at \in Nat \ {0} /\ j.at <= Len(j.file) /\ Len(j.file) \in Nat
  BY WhitelistAssumption DEF IsRun, Under
<1>3. k.at \in Nat \ {0} /\ k.at <= Len(k.file) + 1 /\ k.at - 1 = j.at
  BY <1>1, <1>2
<1> HIDE DEF k
<1>4. IsRun(k)
  BY <1>1, <1>2, <1>3 DEF IsRun
<1>5. Promised(j, w, t) => Promised(k, w, List!Execute(t, j.ask))
  BY <1>1, <1>3 DEF Promised, Under
<1> QED
  BY <1>4, <1>5 DEF k

LEMMA Ends ==
  ASSUME NEW j, IsRun(j), j.stage = "entry", j.at > Len(j.file), NEW w, NEW t,
         Promised(j, w, t)
  PROVE  List!View(t) = w
<1>1. j.file \in File /\ j.at \in Nat \ {0} /\ j.at <= Len(j.file) + 1 /\ Len(j.file) \in Nat
  BY WhitelistAssumption DEF IsRun, Under
<1>2. j.at - 1 = Len(j.file)
  BY <1>1
<1> QED
  BY <1>2 DEF Promised, Under

(* Nobody else has changed the table: then the promise stands.             *)
ListInv ==
  /\ wl_run = [t \in Tool |-> wl_run[t]] /\ wl_expect = [t \in Tool |-> wl_expect[t]]
  /\ wl_alone = [t \in Tool |-> wl_alone[t]]
  /\ IsTable(wl_rows) /\ \A q \in wl_late : IsRequest(q)
  /\ \A t \in Tool : /\ IsRun(wl_run[t])
                     /\ wl_alone[t] => Promised(wl_run[t], wl_expect[t], wl_rows)

(* What a step does to one invocation.                                     *)
ToolStep(t, j, w) ==
  /\ wl_run' = [wl_run EXCEPT ![t] = j]
  /\ \A u \in Tool \ {t} : wl_expect'[u] = wl_expect[u]
  /\ wl_expect'[t] = w
  /\ wl_expect' = [u \in Tool |-> wl_expect'[u]] /\ wl_alone' = [u \in Tool |-> wl_alone'[u]]

LEMMA ToolKeeps ==
  ASSUME ListInv, NEW t \in Tool, NEW j, NEW w, ToolStep(t, j, w), IsRun(j),
         IsTable(wl_rows'), \A q \in wl_late' : IsRequest(q),
         wl_alone'[t] => Promised(j, w, wl_rows'),
         \A u \in Tool \ {t} : wl_alone'[u] => wl_alone[u] /\ wl_rows' = wl_rows
  PROVE  ListInv'
<1>1. wl_run'[t] = j /\ \A u \in Tool \ {t} : wl_run'[u] = wl_run[u]
  BY DEF ListInv, ToolStep
<1>2. wl_run' = [u \in Tool |-> wl_run'[u]]
  BY DEF ListInv, ToolStep
<1>3. ASSUME NEW u \in Tool
      PROVE  /\ IsRun(wl_run'[u])
             /\ wl_alone'[u] => Promised(wl_run'[u], wl_expect'[u], wl_rows')
  <2>1. CASE u = t
    BY <1>1, <2>1 DEF ToolStep
  <2>2. CASE u # t
    BY <1>1, <2>2 DEF ToolStep, ListInv
  <2> QED
    BY <2>1, <2>2
<1> QED
  BY <1>2, <1>3 DEF ListInv, ToolStep

(* The service executes what an invocation asks.                           *)
LEMMA ServeKeeps ==
  ASSUME ListInv, NEW t \in Tool, wl_run[t].stage = "ask",
         List!Serve(t, wl_run[t].ask), UNCHANGED <<wl_late, wl_expect>>,
         NEW j, wl_run' = [wl_run EXCEPT ![t] = j], IsRun(j),
         wl_alone[t] => Promised(j, wl_expect[t], List!Execute(wl_rows, wl_run[t].ask))
  PROVE  ListInv'
<1>1. /\ IsRequest(wl_run[t].ask) /\ IsTable(wl_rows)
      /\ wl_rows' = List!Execute(wl_rows, wl_run[t].ask)
  BY DEF ListInv, IsRun, Under, List!Serve
<1>2. IsTable(wl_rows')
  BY <1>1, ExecuteTwice
<1>3. /\ wl_alone' = [u \in Tool |-> wl_alone'[u]]
      /\ wl_alone'[t] => wl_alone[t]
      /\ \A u \in Tool \ {t} : wl_alone'[u] => wl_alone[u] /\ wl_rows' = wl_rows
  BY DEF List!Serve
<1>4. ToolStep(t, j, wl_expect[t])
  BY <1>3 DEF ListInv, ToolStep
<1> QED
  BY <1>1, <1>2, <1>3, <1>4, ToolKeeps DEF ListInv

ListStep(t) ==
  \/ List!Entry(t) \/ List!Succeeds(t) \/ List!Answered(t) \/ List!AnswerLost(t)
  \/ List!TimesOut(t) \/ List!Rejected(t) \/ List!Exit(t)

LEMMA StartKeeps ==
  ASSUME ListInv, NEW t \in Tool, NEW f \in File, NEW upsert \in BOOLEAN,
         List!Start(t, f, upsert)
  PROVE  ListInv'
<1> DEFINE j == [stage |-> "entry", file |-> f, upsert |-> upsert, at |-> 1]
           w == List!View(List!Outcome(wl_rows, f, upsert))
<1>1. IsRun(j) /\ Promised(j, w, wl_rows)
  BY Begins
<1>2. /\ wl_run' = [wl_run EXCEPT ![t] = j] /\ wl_expect' = [wl_expect EXCEPT ![t] = w]
      /\ wl_alone' = [wl_alone EXCEPT ![t] = TRUE] /\ UNCHANGED <<wl_rows, wl_late>>
  BY DEF List!Start
<1> HIDE DEF j, w
<1>3. /\ ToolStep(t, j, w) /\ \A u \in Tool \ {t} : wl_alone'[u] = wl_alone[u]
  BY <1>2 DEF ListInv, ToolStep
<1> QED
  BY <1>1, <1>2, <1>3, ToolKeeps DEF ListInv

LEMMA ListStepKeeps ==
  ASSUME ListInv, NEW t \in Tool, ListStep(t)
  PROVE  ListInv'
<1> DEFINE j == wl_run[t]
<1>1. /\ IsRun(j) /\ IsTable(wl_rows)
      /\ wl_alone[t] => Promised(j, wl_expect[t], wl_rows)
  BY DEF ListInv
<1>2. ASSUME NEW k, wl_run' = [wl_run EXCEPT ![t] = k], IsRun(k),
             UNCHANGED <<wl_rows, wl_expect, wl_alone>>,
             \A q \in wl_late' : IsRequest(q),
             wl_alone[t] => Promised(k, wl_expect[t], wl_rows)
      PROVE  ListInv'
  <2>1. ToolStep(t, k, wl_expect[t])
    BY <1>2 DEF ListInv, ToolStep
  <2> QED
    BY <1>2, <2>1, ToolKeeps DEF ListInv
<1>3. ASSUME NEW k, ~Under(k) PROVE IsRun(k) /\ \A w, r : Promised(k, w, r)
  BY <1>3 DEF IsRun, Promised
<1> HIDE DEF j
<1>4. CASE List!Entry(t)
  <2> DEFINE e == j.file[j.at]
             k == [stage |-> "ask", file |-> j.file, upsert |-> j.upsert, at |-> j.at,
                   ask |-> List!Asks(e, j.upsert, List!RowsOf(wl_rows, e.cluster)),
                   tries |-> 1]
  <2>1. /\ j.stage = "entry" /\ j.at <= Len(j.file)
        /\ UNCHANGED <<wl_rows, wl_late, wl_expect, wl_alone>>
        /\ \/ wl_run' = [wl_run EXCEPT ![t] = [stage |-> "failed"]]
           \/ wl_run' = [wl_run EXCEPT ![t] = k]
    BY <1>4 DEF List!Entry, j
  <2>2. ~Under([stage |-> "failed"])
    BY DEF Under
  <2>3. /\ IsRun(k)
        /\ wl_alone[t] => Promised(k, wl_expect[t], wl_rows)
    BY <1>1, <2>1, Looks
  <2> HIDE DEF k
  <2> QED
    BY <1>2, <1>3, <2>1, <2>2, <2>3 DEF ListInv
<1>5. CASE List!Succeeds(t)
  <2>1. ~Under([stage |-> "done"])
    BY DEF Under
  <2> QED
    BY <1>2, <1>3, <1>5, <2>1 DEF ListInv, List!Succeeds
<1>6. CASE List!Answered(t)
  <2>1. /\ j.stage = "ask" /\ List!Serve(t, j.ask) /\ UNCHANGED <<wl_late, wl_expect>>
        /\ \/ wl_run' = [wl_run EXCEPT ![t] = List!AfterError(j)]
           \/ wl_run' = [wl_run EXCEPT ![t] = List!Onwards(j)]
    BY <1>6 DEF List!Answered, j
  <2>2. /\ IsRun(List!AfterError(j)) /\ ~Under(List!AfterError(j))
        /\ IsRun(List!Onwards(j))
        /\ wl_alone[t] => Promised(List!Onwards(j), wl_expect[t], List!Execute(wl_rows, j.ask))
    BY <1>1, <2>1, TriesAgain, GoesOn
  <2> QED
    BY <1>3, <2>1, <2>2, ServeKeeps DEF j
<1>7. CASE List!AnswerLost(t)
  <2>1. /\ j.stage = "ask" /\ List!Serve(t, j.ask) /\ UNCHANGED <<wl_late, wl_expect>>
        /\ wl_run' = [wl_run EXCEPT ![t] = List!Again(j)]
    BY <1>7 DEF List!AnswerLost, j
  <2>2. IsRun(List!Again(j))
    BY <1>1, <2>1, TriesAgain
  <2>3. wl_alone[t] => Promised(List!Again(j), wl_expect[t], List!Execute(wl_rows, j.ask))
    BY <1>1, <2>1, AsksAgain, TriesAgain
  <2> QED
    BY <2>1, <2>2, <2>3, ServeKeeps DEF j
<1>8. CASE List!TimesOut(t)
  <2>1. /\ j.stage = "ask" /\ UNCHANGED <<wl_rows, wl_expect, wl_alone>>
        /\ wl_run' = [wl_run EXCEPT ![t] = List!Again(j)]
        /\ wl_late' = wl_late \/ wl_late' = wl_late \cup {j.ask}
    BY <1>8 DEF List!TimesOut, j
  <2>2. IsRequest(j.ask) /\ \A q \in wl_late' : IsRequest(q)
    BY <1>1, <2>1 DEF ListInv, IsRun, Under
  <2> QED
    BY <1>1, <1>2, <2>1, <2>2, TriesAgain
<1>9. CASE List!Rejected(t)
  <2>1. /\ j.stage = "ask" /\ UNCHANGED <<wl_rows, wl_late, wl_expect, wl_alone>>
        /\ wl_run' = [wl_run EXCEPT ![t] = List!AfterError(j)]
    BY <1>9 DEF List!Rejected, j
  <2>2. ~Under(List!AfterError(j))
    BY <1>1, <2>1, TriesAgain
  <2> QED
    BY <1>2, <1>3, <2>1, <2>2 DEF ListInv
<1>10. CASE List!Exit(t)
  <2>1. /\ UNCHANGED <<wl_rows, wl_late>> /\ wl_run' = [wl_run EXCEPT ![t] = List!Idle]
        /\ wl_expect' = [wl_expect EXCEPT ![t] = {}]
        /\ wl_alone' = [wl_alone EXCEPT ![t] = FALSE]
    BY <1>10 DEF List!Exit
  <2>2. IsRun(List!Idle)
    BY <1>3 DEF List!Idle, Under
  <2>3. ToolStep(t, List!Idle, {})
    BY <2>1 DEF ListInv, ToolStep
  <2> QED
    BY <2>1, <2>2, <2>3, ToolKeeps DEF ListInv
<1> QED
  BY <1>4, <1>5, <1>6, <1>7, <1>8, <1>9, <1>10 DEF ListStep

(* A late request is executed: only who still asks for it may count on     *)
(* being alone.                                                            *)
LEMMA LandKeeps ==
  ASSUME ListInv, NEW q \in wl_late, List!Lands(q)
  PROVE  ListInv'
<1>1. /\ UNCHANGED <<wl_run, wl_expect>> /\ wl_late' \subseteq wl_late
      /\ wl_rows' = List!Execute(wl_rows, q)
      /\ wl_alone' = [u \in Tool |-> wl_alone[u] /\ (wl_rows' = wl_rows \/ List!Asking(u, q))]
  BY DEF List!Lands
<1>2. IsTable(wl_rows')
  BY <1>1, ExecuteTwice DEF ListInv
<1>3. ASSUME NEW u \in Tool, wl_alone'[u]
      PROVE  Promised(wl_run[u], wl_expect[u], wl_rows')
  <2>1. /\ wl_alone[u] /\ Promised(wl_run[u], wl_expect[u], wl_rows) /\ IsRun(wl_run[u])
        /\ IsTable(wl_rows)
        /\ wl_rows' = wl_rows \/ List!Asking(u, q)
    BY <1>1, <1>3 DEF ListInv
  <2> QED
    BY <1>1, <2>1, AsksAgain DEF List!Asking
<1>4. wl_alone' = [u \in Tool |-> wl_alone'[u]]
  BY <1>1
<1> QED
  BY <1>1, <1>2, <1>3, <1>4 DEF ListInv

LEMMA ListAlways == MCSpec => []ListInv
<1>1. MCInit => ListInv
  <2> SUFFICES ASSUME MCInit PROVE ListInv
    OBVIOUS
  <2>1. IsTable(<<>>)
    <3>1. PICK S : S = {}
      OBVIOUS
    <3>2. <<>> \in Seq(S) /\ \A r \in S : IsRow(r)
      BY <3>1
    <3> QED
      BY <3>2 DEF IsTable
  <2>2. ~Under(List!Idle)
    BY DEF Under, List!Idle
  <2> QED
    BY <2>1, <2>2 DEF MCInit, List!Init, ListInv, IsRun
<1>2. ListInv /\ [MCNext]_allVars => ListInv'
  <2> SUFFICES ASSUME ListInv, [MCNext]_allVars PROVE ListInv'
    OBVIOUS
  <2>1. CASE List!Next
    BY <2>1, StartKeeps, ListStepKeeps, LandKeeps DEF List!Next, ListStep
  <2>2. CASE UNCHANGED whitelistVars
    BY <2>2 DEF whitelistVars, ListInv
  <2> QED
    BY <2>1, <2>2 DEF MCNext, allVars
<1> QED
  BY <1>1, <1>2, PTL DEF MCSpec

(* bwmgr says success only when the table is what the entries make of it,  *)
(* whichever answers were lost and requests repeated or late, unless       *)
(* somebody else changed it (import.go, handler.go).                       *)
THEOREM ImportStored == MCSpec => ImportedIsStored
<1>1. ListInv /\ [MCNext]_allVars
      => [\A t \in Tool :
            wl_run[t].stage = "entry" /\ wl_run'[t].stage = "done" /\ wl_alone[t]
              => List!View(wl_rows) = wl_expect[t]]_(List!vars)
  <2> SUFFICES ASSUME ListInv, [MCNext]_allVars, ~UNCHANGED List!vars,
                      NEW t \in Tool, wl_run[t].stage = "entry",
                      wl_run'[t].stage = "done", wl_alone[t]
               PROVE  List!View(wl_rows) = wl_expect[t]
    OBVIOUS
  <2>1. List!Next
    BY DEF MCNext, allVars, whitelistVars, List!vars
  <2>2. ASSUME NEW u \in Tool, NEW k, wl_run' = [wl_run EXCEPT ![u] = k],
               k.stage # "done" \/ wl_run[u].stage # "entry"
        PROVE  FALSE
    BY <2>2 DEF ListInv
  <2>3. PICK u \in Tool : List!Succeeds(u)
    <3>1. ASSUME NEW u \in Tool, NEW f \in File, NEW upsert \in BOOLEAN,
                 List!Start(u, f, upsert)
          PROVE  FALSE
      BY <2>2, <3>1 DEF List!Start
    <3>2. ASSUME NEW u \in Tool, List!Entry(u) PROVE FALSE
      BY <2>2, <3>2 DEF List!Entry
    <3>3. ASSUME NEW u \in Tool,
                 List!Answered(u) \/ List!AnswerLost(u) \/ List!TimesOut(u) \/ List!Rejected(u)
          PROVE  FALSE
      <4>1. wl_run[u].stage = "ask" /\ \E k : wl_run' = [wl_run EXCEPT ![u] = k]
        BY <3>3 DEF List!Answered, List!AnswerLost, List!TimesOut, List!Rejected
      <4> QED
        BY <2>2, <4>1
    <3>4. ASSUME NEW u \in Tool, List!Exit(u) PROVE FALSE
      BY <2>2, <3>4 DEF List!Exit, List!Idle
    <3>5. ASSUME NEW q \in wl_late, List!Lands(q) PROVE FALSE
      BY <3>5 DEF List!Lands
    <3> QED
      BY <2>1, <3>1, <3>2, <3>3, <3>4, <3>5 DEF List!Next
  <2>4. u = t /\ wl_run[t].at > Len(wl_run[t].file)
    BY <2>3 DEF List!Succeeds, ListInv
  <2>5. IsRun(wl_run[t]) /\ Promised(wl_run[t], wl_expect[t], wl_rows)
    BY DEF ListInv
  <2> QED
    BY <2>4, <2>5, Ends
<1> QED
  BY <1>1, ListAlways, PTL DEF MCSpec, ImportedIsStored, List!ImportedIsStored
=============================================================================
