------------------------------ MODULE PopSwitch ------------------------------
(***************************************************************************)
(* From a reported failure to a switch: the sliding windows of the         *)
(* analysis servers (AM), the per-business switch lock, the status that    *)
(* DBM keeps for every instance, and the passes of PopAndSwitch that tie   *)
(* them together.  A pass handles one failure group (one cloud, one        *)
(* database type).  How one instance is switched is not detailed here: a   *)
(* run of DoSwitch is one step.                                            *)
(***************************************************************************)
EXTENDS WindowManager, FiniteSets

CONSTANTS
  AM,        \* analysis servers
  Pass,      \* goroutines of popAndSwitchForBiz
  AMOf,      \* the server a pass runs on
  HostOf,    \* the machine of an instance
  ClusterOf, \* the cluster of an instance
  MaxRuns    \* bound: runs of DoSwitch counted per instance and server

ASSUME PopSwitchAssumption ==
  /\ IsFiniteSet(Pass) /\ AMOf \in [Pass -> AM]
  /\ MaxRuns \in Nat \ {0}

VARIABLES
  mgr,      \* the BizWindowManager of each server
  users,    \* the switch lock: the passes inside, per business
  pc,       \* where each pass is
  biz,      \* the business it works on
  keys,     \* the popped instance keys it still has to MarkDone
  req,      \* the instances of its request, with the status read from DBM
  scope,    \* the action scope of the matched strategy
  todo,     \* instances of the request not attempted yet
  doing,    \* instances it has set unavailable and goes on to switch
  status,   \* DBM: the status of each instance
  runs,     \* history: how often each server ran DoSwitch on an instance
  held,     \* history: how long ago each pass popped its keys
  overrun   \* history: instances that some pass has had for InflightTTL

passVars == <<pc, biz, keys, req, scope, todo, doing>>
vars == <<mgr, users, passVars, status, runs, held, overrun>>

Lock == INSTANCE SwitchLock

Scope == {"dbinstance", "cluster", "host"}
Stage == {"idle", "in", "popped", "queried", "switching", "finish"}

Hosts(S) == {HostOf[i] : i \in S}
OnHosts(H) == {i \in Inst : HostOf[i] \in H}

TypeOK ==
  /\ mgr \in [AM -> Manager]
  /\ users \in [Biz -> SUBSET Pass]
  /\ pc \in [Pass -> Stage]
  /\ biz \in [Pass -> Biz]
  /\ scope \in [Pass -> Scope]
  /\ {keys, req, todo, doing} \subseteq [Pass -> SUBSET Inst]
  /\ status \in [Inst -> {"available", "unavailable"}]
  /\ runs \in [Inst -> [AM -> 0 .. MaxRuns]]
  /\ held \in [Pass -> MarkAge]
  /\ overrun \in SUBSET Inst
  /\ \A p \in Pass : /\ todo[p] \cap doing[p] = {}
                     /\ todo[p] \cup doing[p] \subseteq req[p]

Nothing == [p \in Pass |-> {}]
Never == [a \in AM |-> 0]

Init ==
  /\ mgr = [a \in AM |-> NewBizWindowManager(Inst)]
  /\ Lock!Init
  /\ pc = [p \in Pass |-> "idle"]
  /\ biz \in [Pass -> Biz]
  /\ scope = [p \in Pass |-> "host"]
  /\ keys = Nothing /\ req = Nothing /\ todo = Nothing /\ doing = Nothing
  /\ status = [i \in Inst |-> "available"]
  /\ runs = [i \in Inst |-> Never]
  /\ held = [p \in Pass |-> 0]
  /\ overrun = {}

-----------------------------------------------------------------------------
(* The scan of server a finds the host of i unreachable and pushes i.  One *)
(* check of a host is in flight at a time, on behalf of whichever instance *)
(* of the host came first, so the instances of a host are reported one by  *)
(* one.  Scans of two servers overlap when their views of the ring differ. *)
Report(a, i) ==
  /\ mgr' = [mgr EXCEPT ![a] = Push(@, i, 0)]
  /\ UNCHANGED <<users, passVars, status, runs, held, overrun>>

(* popAndSwitchForBiz *)

(* lockTracker.Acquire; a pass that is refused the lock is skipped. *)
Acquire(p, b) ==
  /\ pc[p] = "idle"
  /\ Lock!Enter(p, b)
  /\ pc' = [pc EXCEPT ![p] = "in"]
  /\ biz' = [biz EXCEPT ![p] = b]
  /\ UNCHANGED <<mgr, keys, req, scope, todo, doing, status, runs, held, overrun>>

PopNothing(p) ==
  /\ pc[p] = "in"
  /\ Mature(mgr[AMOf[p]], biz[p]) = {}
  /\ Lock!Leave(p, biz[p])
  /\ pc' = [pc EXCEPT ![p] = "idle"]
  /\ UNCHANGED <<mgr, biz, keys, req, scope, todo, doing, status, runs, held, overrun>>

Pop(p) ==
  LET m == mgr[AMOf[p]] IN
  /\ pc[p] = "in"
  /\ Mature(m, biz[p]) # {}
  /\ mgr' = [mgr EXCEPT ![AMOf[p]] = PopAndMarkStart(m, biz[p])]
  /\ keys' = [keys EXCEPT ![p] = Mature(m, biz[p])]
  /\ held' = [held EXCEPT ![p] = 0]
  /\ pc' = [pc EXCEPT ![p] = "popped"]
  /\ UNCHANGED <<users, biz, req, scope, todo, doing, status, runs, overrun>>

(* A mistake: to take the unavailable instances along. *)
CreateRequestAll(p) == OnHosts(Hosts(keys[p]))

(* DBM is asked for the hosts of the group, so the request holds every     *)
(* instance of those hosts that DBM has not marked unavailable.            *)
CreateRequest(p) ==
  {i \in OnHosts(Hosts(keys[p])) : status[i] # "unavailable"}

Query(p) ==
  /\ pc[p] = "popped"
  /\ req' = [req EXCEPT ![p] = CreateRequest(p)]
  /\ pc' = [pc EXCEPT ![p] = IF CreateRequest(p) = {} THEN "finish" ELSE "queried"]
  /\ UNCHANGED <<mgr, users, biz, keys, scope, todo, doing, status, runs, held, overrun>>

QueryFails(p) ==
  /\ pc[p] = "popped"
  /\ pc' = [pc EXCEPT ![p] = "finish"]
  /\ UNCHANGED <<mgr, users, biz, keys, req, scope, todo, doing, status, runs,
                 held, overrun>>

(* excludeUnavailableInstances leaves nothing to match, no strategy        *)
(* matches, the action is to notify, the whitelist cannot be read or       *)
(* leaves nothing, switching is disabled.                                  *)
NoSwitch(p) ==
  /\ pc[p] = "queried"
  /\ pc' = [pc EXCEPT ![p] = "finish"]
  /\ UNCHANGED <<mgr, users, biz, keys, req, scope, todo, doing, status, runs,
                 held, overrun>>

(* filterByWhitelistForSwitch: whole clusters of the group's business; all *)
(* when the whitelist is not in use.                                       *)
Whitelisted(p) ==
  {req[p]} \cup
    {{i \in req[p] : BizOf[i] = biz[p] /\ ClusterOf[i] \in C} :
       C \in SUBSET {ClusterOf[i] : i \in Inst}}

(* A strategy with action switch matches instances of the group that DBM   *)
(* still lists; the whitelist keeps W.                                     *)
Switch(p, s, W) ==
  /\ pc[p] = "queried"
  /\ keys[p] \cap req[p] # {}
  /\ W # {} /\ W \in Whitelisted(p)
  /\ req' = [req EXCEPT ![p] = W]
  /\ todo' = [todo EXCEPT ![p] = W]
  /\ scope' = [scope EXCEPT ![p] = s]
  /\ pc' = [pc EXCEPT ![p] = "switching"]
  /\ UNCHANGED <<mgr, users, biz, keys, doing, status, runs, held, overrun>>

-----------------------------------------------------------------------------
(* Mysql.Switch *)

(* The instances of the request that are switched together with i. *)
Unit(p, i) ==
  {j \in req[p] : \/ j = i
                  \/ scope[p] = "cluster" /\ ClusterOf[j] = ClusterOf[i]
                  \/ scope[p] = "host" /\ HostOf[j] = HostOf[i]}

(* checkHostInstanceCompleteness, and a mistake that skips it. *)
AnyPartOfHost(p, U) == TRUE

Complete(p, U) == scope[p] = "host" => U = OnHosts(Hosts(U))

(* A mistake: to go on before DBM is told.                                 *)
SwitchBeforeTelling(p, U) ==
  /\ pc[p] = "switching"
  /\ U \subseteq todo[p]
  /\ Complete(p, U)
  /\ todo' = [todo EXCEPT ![p] = @ \ U]
  /\ doing' = [doing EXCEPT ![p] = @ \cup U]
  /\ UNCHANGED <<mgr, users, pc, biz, keys, req, scope, status, runs, held, overrun>>

(* The pre-status check reads the status in the request, which is never    *)
(* "unavailable"; then DBM is told.                                        *)
SetUnavailable(p, U) ==
  /\ pc[p] = "switching"
  /\ U \subseteq todo[p]
  /\ Complete(p, U)
  /\ status' = [i \in Inst |-> IF i \in U THEN "unavailable" ELSE status[i]]
  /\ todo' = [todo EXCEPT ![p] = @ \ U]
  /\ doing' = [doing EXCEPT ![p] = @ \cup U]
  /\ UNCHANGED <<mgr, users, pc, biz, keys, req, scope, runs, held, overrun>>

(* An error before DBM is told or from DBM itself: the unit is given up.   *)
(* Cluster scope tells DBM instance by instance, the other scopes in one   *)
(* call; an answer can be lost.                                            *)
GiveUp(p, U, told) ==
  /\ pc[p] = "switching"
  /\ U \subseteq todo[p]
  /\ told \subseteq U /\ (scope[p] = "cluster" \/ told \in {{}, U})
  /\ told # {} => Complete(p, U)
  /\ status' = [i \in Inst |-> IF i \in told THEN "unavailable" ELSE status[i]]
  /\ todo' = [todo EXCEPT ![p] = @ \ U]
  /\ UNCHANGED <<mgr, users, pc, biz, keys, req, scope, doing, runs, held, overrun>>

DoSwitch(p, i) ==
  /\ i \in doing[p]
  /\ runs[i][AMOf[p]] < MaxRuns
  /\ runs' = [runs EXCEPT ![i][AMOf[p]] = @ + 1]
  /\ doing' = [doing EXCEPT ![p] = @ \ {i}]
  /\ UNCHANGED <<mgr, users, pc, biz, keys, req, scope, todo, status, held, overrun>>

(* The deadline has passed, the cluster lock is taken, the check before    *)
(* the switch does not pass or finds nothing to do.                        *)
NotSwitched(p, i) ==
  /\ i \in doing[p]
  /\ doing' = [doing EXCEPT ![p] = @ \ {i}]
  /\ UNCHANGED <<mgr, users, pc, biz, keys, req, scope, todo, status, runs,
                 held, overrun>>

SwitchReturns(p) ==
  /\ pc[p] = "switching"
  /\ todo[p] = {} /\ doing[p] = {}
  /\ pc' = [pc EXCEPT ![p] = "finish"]
  /\ UNCHANGED <<mgr, users, biz, keys, req, scope, todo, doing, status, runs,
                 held, overrun>>

(* markDoneAll, then the deferred release of the lock. *)
Finish(p) ==
  /\ pc[p] = "finish"
  /\ mgr' = [mgr EXCEPT ![AMOf[p]].mark =
               [i \in Inst |-> IF i \in keys[p] THEN None ELSE @[i]]]
  /\ overrun' = overrun \ {i \in keys[p] :
                  \A q \in Pass \ {p} : AMOf[q] = AMOf[p] => i \notin keys[q]}
  /\ keys' = [keys EXCEPT ![p] = {}]
  /\ req' = [req EXCEPT ![p] = {}]
  /\ pc' = [pc EXCEPT ![p] = "idle"]
  /\ Lock!Leave(p, biz[p])
  /\ held' = [held EXCEPT ![p] = 0]
  /\ scope' = [scope EXCEPT ![p] = "host"]
  /\ UNCHANGED <<biz, todo, doing, status, runs>>

-----------------------------------------------------------------------------

Tick ==
  /\ mgr' = [a \in AM |-> Elapse(mgr[a])]
  /\ held' = [p \in Pass |-> IF keys[p] = {} THEN held[p]
                             ELSE Older(held[p], InflightTTL)]
  /\ overrun' = overrun \cup
       {i \in Inst : \E p \in Pass : i \in keys[p] /\ held'[p] = InflightTTL}
  /\ UNCHANGED <<users, passVars, status, runs>>

(* A server stops; its windows are empty when it starts again, and the     *)
(* leases of its locks run out.                                            *)
Crash(a) ==
  LET gone(f) == [p \in Pass |-> IF AMOf[p] = a THEN {} ELSE f[p]] IN
  /\ mgr' = [mgr EXCEPT ![a] = NewBizWindowManager(Inst)]
  /\ Lock!Crash(a)
  /\ pc' = [p \in Pass |-> IF AMOf[p] = a THEN "idle" ELSE pc[p]]
  /\ keys' = gone(keys) /\ req' = gone(req)
  /\ todo' = gone(todo) /\ doing' = gone(doing)
  /\ overrun' = overrun \ {i \in Inst : \A p \in Pass : i \notin gone(keys)[p]}
  /\ held' = [p \in Pass |-> IF AMOf[p] = a THEN 0 ELSE held[p]]
  /\ scope' = [p \in Pass |-> IF AMOf[p] = a THEN "host" ELSE scope[p]]
  /\ UNCHANGED <<biz, status, runs>>

Next ==
  \/ \E a \in AM, i \in Inst : Report(a, i)
  \/ \E p \in Pass, b \in Biz : Acquire(p, b)
  \/ \E p \in Pass : \/ PopNothing(p) \/ Pop(p) \/ Query(p) \/ QueryFails(p)
                     \/ NoSwitch(p) \/ SwitchReturns(p) \/ Finish(p)
  \/ \E p \in Pass, s \in Scope, W \in SUBSET Inst : Switch(p, s, W)
  \/ \E p \in Pass : \E i \in todo[p] :
       LET U == Unit(p, i) IN
       SetUnavailable(p, U) \/ \E told \in SUBSET U : GiveUp(p, U, told)
  \/ \E p \in Pass, i \in Inst : DoSwitch(p, i) \/ NotSwitched(p, i)
  \/ Tick
  \/ \E a \in AM : Crash(a)

Spec == Init /\ [][Next]_vars

-----------------------------------------------------------------------------

(* The requests of two passes overlap only if the passes run on one server *)
(* and the host they share was popped twice: through two of its instances, *)
(* or again after a mark on it had expired.                                *)
OverlapExplained ==
  \A p, q \in Pass : \A i \in req[p] \cap req[q] :
    p # q => /\ AMOf[p] = AMOf[q]
             /\ \/ \E j \in keys[p], k \in keys[q] :
                     j # k /\ HostOf[j] = HostOf[i] /\ HostOf[k] = HostOf[i]
                \/ OnHosts({HostOf[i]}) \cap overrun # {}

(* An instance on which one server ran DoSwitch, to the end or not, is     *)
(* never switched by another one, though both may take the business for    *)
(* theirs and have the failure in their windows, and the first may fail    *)
(* half-way or die inside the lock: the second one reads DBM only under    *)
(* the lock, and DBM was told before the first went on.                    *)
SwitchedByOneServer ==
  \A i \in Inst : \A a, b \in AM : a # b => runs[i][a] = 0 \/ runs[i][b] = 0

(* A host-scope switch goes on only after every instance that DBM lists on *)
(* the host has been set unavailable, whatever the whitelist left over and *)
(* whatever earlier switches did to single instances.                      *)
HostScopeIsWhole ==
  \A p \in Pass : \A i \in doing[p] :
    scope[p] = "host" =>
      \A j \in OnHosts({HostOf[i]}) : status[j] = "unavailable"

(* The inflight marks, the lock and the DBM status together keep an        *)
(* instance from being switched twice.                                     *)
NoDuplicateSwitch ==
  SwitchedByOneServer /\ \A i \in Inst : \A a \in AM : runs[i][a] <= 1
=============================================================================
