---------------------------- MODULE SpiderSwitch ----------------------------
(***************************************************************************)
(* How the instances of one TendbCluster are switched: spiders, each       *)
(* spider master with the tdbctl beside it, and the remote masters of the  *)
(* shards.  The primary tdbctl keeps the route table, the others replicate *)
(* it, and FLUSH ROUTING hands the primary's table to the spiders.  When   *)
(* the primary goes with a broken spider, a secondary is elected.  The     *)
(* attempts of an analysis server meet at the cluster lock, which each     *)
(* holds from its check to its end (scopes dbinstance and cluster).        *)
(***************************************************************************)
EXTENDS FiniteSets, SpiderSwitchConstants

(* What can happen to a route table: a spider or its tdbctl is dropped, or *)
(* the name of a shard's master is altered to the address of its standby.  *)
Change == (Spider \X {"spider"}) \cup (Tdbctl \X {"tdbctl"})
            \cup (Shard \X {"master"})

VARIABLES
  down,      \* DBM: spiders and first masters that are unavailable
  swapped,   \* DBM: shards whose standby slave has the master role
  named,     \* the spiders that clients find in the name service
  detached,  \* shards whose standby slave no longer replicates
  alive,     \* the tdbctl nodes that answer
  primaries, \* the tdbctl nodes in role Primary
  follows,   \* the node each tdbctl replicates from
  done,      \* the changes each tdbctl has made to its route table
  gap,       \* changes its replication starts behind
  served,    \* the changes in the routes that the spiders use
  lock,      \* the holder of the cluster lock
  pc,        \* where each attempt is
  unit,      \* the instances it switches
  primary,   \* its primary tdbctl
  others,    \* the secondaries it has to repair: it changed the primary
  base       \* the binlog position of the primary it elected

dbm == <<down, swapped>>
tdbctl == <<primaries, follows, done, gap>>
operator == <<primary, others, base>>
world == <<dbm, named, detached, alive, tdbctl, served>>
vars == <<world, lock, pc, unit, operator>>

Stage == {"idle", "begun", "locking", "names", "find", "reset", "enable",
          "drop", "detach", "alter", "flush", "swap", "final"}

TypeOK ==
  /\ down \subseteq Spider \cup Shard /\ swapped \subseteq Shard
  /\ named \subseteq Spider /\ detached \subseteq Shard
  /\ alive \subseteq Tdbctl /\ primaries \subseteq Tdbctl
  /\ follows \in [Tdbctl -> Tdbctl \cup {Nobody}]
  /\ done \in [Tdbctl -> SUBSET Change] /\ gap \in [Tdbctl -> SUBSET Change]
  /\ served \subseteq Change
  /\ lock \in Attempt \cup {Nobody}
  /\ pc \in [Attempt -> Stage]
  /\ unit \in [Attempt -> SUBSET (Spider \cup Shard)]
  /\ primary \in [Attempt -> Tdbctl \cup {Nobody}]
  /\ others \in [Attempt -> SUBSET Tdbctl]
  /\ base \in [Attempt -> SUBSET Change]

Init ==
  /\ down = {} /\ swapped = {} /\ named = Spider /\ detached = {}
  /\ alive = Tdbctl /\ primaries = {First} /\ served = {}
  /\ follows = [x \in Tdbctl |-> IF x = First THEN Nobody ELSE First]
  /\ done = [x \in Tdbctl |-> {}] /\ gap = [x \in Tdbctl |-> {}]
  /\ lock = Nobody
  /\ pc = [a \in Attempt |-> "idle"]
  /\ unit = [a \in Attempt |-> {}]
  /\ primary = [a \in Attempt |-> Nobody]
  /\ others = [a \in Attempt |-> {}]
  /\ base = [a \in Attempt |-> {}]

-----------------------------------------------------------------------------
(* The frame of an attempt is the one of module MasterSwitch. *)

Broken(a) == unit[a] \cap Spider
RemoteMasters(a) == unit[a] \cap Shard

Goto(a, stage) ==
  /\ pc' = [pc EXCEPT ![a] = stage]
  /\ UNCHANGED <<lock, unit>>

(* The attempt ends; a deferred call releases the lock if it has it.       *)
End(a) ==
  /\ pc' = [pc EXCEPT ![a] = "idle"]
  /\ unit' = [unit EXCEPT ![a] = {}]
  /\ primary' = [primary EXCEPT ![a] = Nobody]
  /\ others' = [others EXCEPT ![a] = {}]
  /\ base' = [base EXCEPT ![a] = {}]
  /\ lock' = IF lock = a THEN Nobody ELSE lock

Begin(a, U) ==
  /\ pc[a] = "idle"
  /\ U \cap down = {}
  /\ pc' = [pc EXCEPT ![a] = "begun"]
  /\ unit' = [unit EXCEPT ![a] = U]
  /\ UNCHANGED <<world, lock, operator>>

SetUnavailable(a, T) ==
  /\ pc[a] = "begun"
  /\ down' = down \cup T
  /\ IF T = unit[a] THEN Goto(a, "locking") /\ UNCHANGED operator ELSE End(a)
  /\ UNCHANGED <<swapped, named, detached, alive, tdbctl, served>>

(* Lock timeout, deadline, or a standby slave the slave checker refuses.   *)
GiveUp(a) ==
  /\ pc[a] \in Stage \ {"idle", "begun"}
  /\ End(a)
  /\ UNCHANGED world

(* CheckRemoteMaster: the standby slave replicates from the master it is   *)
(* to replace.                                                             *)
CheckRemoteMaster(h) == h \notin detached

(* Spiders always pass.                                                    *)
CheckBeforeSwitch(a) ==
  /\ pc[a] = "locking"
  /\ lock = Nobody
  /\ \A h \in RemoteMasters(a) : CheckRemoteMaster(h)
  /\ lock' = a
  /\ pc' = [pc EXCEPT ![a] = "names"]
  /\ UNCHANGED <<world, unit, operator>>

-----------------------------------------------------------------------------
(* DoSwitch.  Each step is written with the set it got done: all of it     *)
(* when the call succeeds, a part when it fails.                           *)

AddressNumber == Cardinality(named)

(* A DNS name with one address keeps it; but the spiders are released at   *)
(* once, and each may have counted the others before they went.            *)
Released(S) ==
  CASE named \ S # {} \/ named = {} -> {named \ S}
    [] AddressNumber = 1 -> {named}
    [] OTHER -> {{}} \cup {{x} : x \in named}

DeleteSpiderNameService(a, S) ==
  /\ pc[a] = "names"
  /\ named' \in Released(S)
  /\ UNCHANGED <<dbm, detached, alive, tdbctl, served>>

(* The rows of TDBCTL_NODES on node t: dropped nodes have none.            *)
Rows(t) == {x \in Tdbctl : <<x, "tdbctl">> \notin done[t]}

(* DBM's spider list is read anew; the first available spider master that  *)
(* answers is asked.                                                       *)
QueryTdbctlNodesOfCluster(t) == t \in alive \ down

(* A node shows its role while it answers, and K has those that show one.  *)
Shows(t, K) == K \subseteq Rows(t) /\ Rows(t) \cap alive \subseteq K

(* The nodes in role Secondary; one that was reset has none of the roles.  *)
Secondary(K) == {x \in K \ primaries : follows[x] # Nobody}

(* FindPrimaryTdbctl: the only Primary, or else the one master of all the  *)
(* secondaries; two of either are an error.                                *)
IsPrimary(p, t, K) ==
  LET Prim == K \cap primaries
      Sources == {follows[x] : x \in Secondary(K)} IN
  /\ Cardinality(Prim) <= 1 /\ Cardinality(Sources) <= 1
  /\ p \in IF Prim # {} THEN Prim ELSE Sources \cap Rows(t)

FindPrimaryTdbctl(a, p, t, K) ==
  /\ QueryTdbctlNodesOfCluster(t) /\ Shows(t, K) /\ IsPrimary(p, t, K)

(* A position in the binlog counts the changes before it.                  *)
ExecPos(x) == Cardinality(done[x] \cup gap[x])

(* ElectNewPrimaryTdbctl: of the secondaries that are not involved and     *)
(* whose SQL thread runs, R, one that has executed most.                   *)
Elected(e, R) == e \in R /\ \A x \in R : ExecPos(x) <= ExecPos(e)

Secondaries(a, p, K) == Secondary(K) \ (Broken(a) \cup {p})

(* A mistake: any broken spider of the cluster is taken for the primary's.  *)
IsInvolvedByCluster(a, p) == Broken(a) # {}

IsInvolved(a, p) == p \in Broken(a)

KeepPrimary(a, p, t, K) ==
  /\ FindPrimaryTdbctl(a, p, t, K)
  /\ ~ IsInvolved(a, p)
  /\ primary' = [primary EXCEPT ![a] = p]
  /\ Goto(a, "drop")
  /\ UNCHANGED <<world, others, base>>

HandleInvolvedPrimaryTdbctl(a, p, t, K, R, e) ==
  /\ FindPrimaryTdbctl(a, p, t, K)
  /\ IsInvolved(a, p)
  /\ R \subseteq Secondaries(a, p, K)
  /\ Elected(e, R)
  /\ primary' = [primary EXCEPT ![a] = e]
  /\ others' = [others EXCEPT ![a] = Secondaries(a, p, K) \ {e}]
  /\ Goto(a, "reset")
  /\ UNCHANGED <<world, base>>

(* STOP SLAVE, SHOW MASTER STATUS, RESET SLAVE ALL on the elected node.    *)
DoResetSlaveWithBinlogPos(a) ==
  /\ pc[a] = "reset"
  /\ primary[a] \in alive
  /\ follows' = [follows EXCEPT ![primary[a]] = Nobody]
  /\ gap' = [gap EXCEPT ![primary[a]] = {}]
  /\ UNCHANGED <<dbm, named, detached, alive, primaries, done, served>>

(* TDBCTL ENABLE PRIMARY FORCE *)
TdbctlEnablePrimary(a) ==
  /\ pc[a] = "enable"
  /\ primary[a] \in alive
  /\ primaries' = primaries \cup {primary[a]}
  /\ UNCHANGED <<dbm, named, detached, alive, follows, done, gap, served>>

Alter(a, D) ==
  /\ primary[a] \in alive
  /\ done' = [done EXCEPT ![primary[a]] = @ \cup D]
  /\ UNCHANGED <<dbm, named, alive, primaries, follows, gap, served>>

(* A spider master goes with its tdbctl, a spider slave alone.             *)
BrokenRoutes(a) == Change \cap (Broken(a) \X {"spider", "tdbctl"})

(* The spider first, then its tdbctl; a route that is not in the table is  *)
(* an error, and the attempt goes no further.                              *)
DropBrokenSpiderRoutes(a, D) ==
  /\ pc[a] = "drop"
  /\ D \cap done[primary[a]] = {}
  /\ \A x \in Tdbctl : <<x, "tdbctl">> \in D =>
       <<x, "spider">> \in D \cup done[primary[a]]
  /\ Alter(a, D)
  /\ UNCHANGED detached

Routed(a, h) == <<h, "master">> \notin done[primary[a]]

(* A mistake: the slaves are left for the operators to reset. *)
ResetStandbySlavesLater(a, H) ==
  /\ pc[a] = "detach"
  /\ \A h \in H : Routed(a, h)
  /\ UNCHANGED <<dbm, named, detached, alive, tdbctl, served>>

(* switchRemoteMasters: for every shard at once, its route is found and    *)
(* its standby slave is reset ...                                          *)
ResetStandbySlaves(a, H) ==
  /\ pc[a] = "detach"
  /\ \A h \in H : Routed(a, h)
  /\ detached' = detached \cup H
  /\ UNCHANGED <<dbm, named, alive, tdbctl, served>>

(* ... and the name of its master is altered to the slave's address.       *)
UpdateMasterRouteToSlave(a, H) ==
  /\ pc[a] = "alter"
  /\ Alter(a, H \X {"master"})
  /\ UNCHANGED detached

(* The worker of one shard fails while others go on.                       *)
SwitchRemoteMastersFails(a, H, G) ==
  /\ pc[a] = "detach"
  /\ G \subseteq H
  /\ \A h \in H : Routed(a, h)
  /\ detached' = detached \cup H
  /\ Alter(a, G \X {"master"})

(* FLUSH ROUTING FORCE on the primary tdbctl. *)
TdbctlFlushRouting(a) ==
  /\ pc[a] = "flush"
  /\ primary[a] \in alive
  /\ served' = done[primary[a]]
  /\ UNCHANGED <<dbm, named, detached, alive, tdbctl>>

(* UpdateMetaInfo: SwapMySQLRole for every remote master. *)
UpdateMetaInfo(a, H) ==
  /\ pc[a] = "swap"
  /\ swapped' = swapped \cup H
  /\ UNCHANGED <<down, named, detached, alive, tdbctl, served>>

(* DoFinal: CHANGE MASTER on each secondary to the position of the elected *)
(* node when it was reset; what it had not executed by then it never will. *)
RepairTdbctlReplication(a, T) ==
  /\ pc[a] = "final"
  /\ T \subseteq alive
  /\ follows' = [x \in Tdbctl |-> IF x \in T THEN primary[a] ELSE follows[x]]
  /\ gap' = [x \in Tdbctl |-> IF x \in T THEN base[a] \ done[x] ELSE gap[x]]
  /\ UNCHANGED <<dbm, named, detached, alive, primaries, done, served>>

-----------------------------------------------------------------------------

(* The steps for the broken spiders. *)
SpiderSteps(a) ==
  \/ /\ DeleteSpiderNameService(a, Broken(a))
     /\ Goto(a, "find") /\ UNCHANGED operator
  \/ /\ pc[a] = "find"
     /\ \E t, p \in Tdbctl, K \in SUBSET Tdbctl :
          \/ KeepPrimary(a, p, t, K)
          \/ \E e \in Tdbctl, R \in SUBSET Tdbctl :
               HandleInvolvedPrimaryTdbctl(a, p, t, K, R, e)
  \/ /\ DoResetSlaveWithBinlogPos(a)
     /\ base' = [base EXCEPT ![a] = done[primary[a]]]
     /\ Goto(a, "enable") /\ UNCHANGED <<primary, others>>
  \/ TdbctlEnablePrimary(a) /\ Goto(a, "drop") /\ UNCHANGED operator
  \/ /\ DropBrokenSpiderRoutes(a, BrokenRoutes(a))
     /\ Goto(a, "detach") /\ UNCHANGED operator

(* The steps for the broken remote masters. *)
RemoteSteps(a) ==
  \/ /\ ResetStandbySlaves(a, RemoteMasters(a))
     /\ Goto(a, "alter") /\ UNCHANGED operator
  \/ /\ UpdateMasterRouteToSlave(a, RemoteMasters(a))
     /\ Goto(a, "flush") /\ UNCHANGED operator
  \/ TdbctlFlushRouting(a) /\ Goto(a, "swap") /\ UNCHANGED operator

Success(a) ==
  \/ CheckBeforeSwitch(a)
  \/ SpiderSteps(a) \/ RemoteSteps(a)
  \/ /\ UpdateMetaInfo(a, RemoteMasters(a))
     /\ Goto(a, "final") /\ UNCHANGED operator
  \/ RepairTdbctlReplication(a, others[a]) /\ End(a)

(* A call fails, perhaps after it took effect; nothing is rolled back and  *)
(* the steps that follow are not run, the repair included.                 *)
Failure(a) ==
  \/ GiveUp(a)
  \/ /\ End(a)
     /\ \/ \E S \in SUBSET Broken(a) : DeleteSpiderNameService(a, S)
        \/ DoResetSlaveWithBinlogPos(a)
        \/ TdbctlEnablePrimary(a)
        \/ \E D \in SUBSET BrokenRoutes(a) : DropBrokenSpiderRoutes(a, D)
        \/ \E H, G \in SUBSET RemoteMasters(a) : SwitchRemoteMastersFails(a, H, G)
        \/ \E H \in SUBSET RemoteMasters(a) : UpdateMasterRouteToSlave(a, H)
        \/ TdbctlFlushRouting(a)
        \/ \E H \in SUBSET RemoteMasters(a) : UpdateMetaInfo(a, H)
        \/ \E T \in SUBSET others[a] : RepairTdbctlReplication(a, T)

(* A secondary executes what its source has. *)
Replicate(x) ==
  /\ x \in alive /\ follows[x] \in alive
  /\ ~ (done[follows[x]] \ gap[x] \subseteq done[x])
  /\ done' = [done EXCEPT ![x] = @ \cup (done[follows[x]] \ gap[x])]
  /\ UNCHANGED <<dbm, named, detached, alive, primaries, follows, gap, served,
                 lock, pc, unit, operator>>

(* A host stops answering: a tdbctl goes with its spider.                  *)
Die(x) ==
  /\ x \in alive /\ Cardinality(Tdbctl \ alive) < MaxDead
  /\ alive' = alive \ {x}
  /\ UNCHANGED <<dbm, named, detached, tdbctl, served, lock, pc, unit, operator>>

(* The analysis server stops: its attempts and its lock are gone.          *)
Crash ==
  /\ lock' = Nobody
  /\ pc' = [a \in Attempt |-> "idle"]
  /\ unit' = [a \in Attempt |-> {}]
  /\ primary' = [a \in Attempt |-> Nobody]
  /\ others' = [a \in Attempt |-> {}]
  /\ base' = [a \in Attempt |-> {}]
  /\ UNCHANGED world

Next ==
  \/ \E a \in Attempt, U \in SameHostUnits : Begin(a, U)
  \/ \E a \in Attempt : \E T \in SUBSET unit[a] : SetUnavailable(a, T)
  \/ \E a \in Attempt : Success(a) \/ Failure(a)
  \/ \E x \in Tdbctl : Replicate(x) \/ Die(x)
  \/ Crash

Spec == Init /\ [][Next]_vars

-----------------------------------------------------------------------------

(* Two tdbctl nodes are never primary on spiders that DBM lists as         *)
(* available: a new primary is enabled only when the old one is involved.  *)
OnePrimary == Cardinality((primaries \cap alive) \ down) <= 1

(* The spiders write to a standby slave only when it no longer replicates. *)
DetachedBeforeRouted ==
  \A h \in Shard : <<h, "master">> \in served => h \in detached

=============================================================================
