---------------------------- MODULE ClusterReset ----------------------------
(***************************************************************************)
(* The operator's tool "cluster" (tools/cmd/cluster): "reset" brings a     *)
(* TendbHA or a TenDBCluster back to the state its configuration file      *)
(* describes, step by step, over DBM, the proxies, the storage nodes and   *)
(* the tdbctl nodes; "show" reports what it finds.  Any request may fail,  *)
(* the operator may interrupt a reset, and a reset may be run again from   *)
(* whatever state the last one left, while clients keep writing.           *)
(*                                                                         *)
(* A request that takes effect and whose answer is lost is the effect      *)
(* followed by StepFails in the next operation.                            *)
(***************************************************************************)
EXTENDS Naturals, Sequences, FiniteSets, ClusterResetConstants

VARIABLES
    kind,       \* the --type flag
    pc,         \* the step under way, or "idle", "failed", "done"
    work,       \* how far the step is with each node it works on
    runs,       \* resets started
    status,     \* DBM: the instances with status running
    role,       \* DBM: the storage nodes with the role of a master
    source,     \* the node each storage node replicates from
    io,         \* the storage nodes whose replication threads run
    written,    \* writes in each storage node's binlog
    pos,        \* binlog position the reset has read on each master
    route,      \* where each front sends the writes of a shard
    servers,    \* mysql.servers of the tdbctl master: shard -> node, or None when empty
    ctlSource,  \* the node each tdbctl replicates from
    primary,    \* tdbctl nodes that act as primary
    domain,     \* instances bound to the domains
    clb,        \* instances bound to the CLB listener
    clbRead     \* the listing of the listener the tool works from

store == <<source, io, written, pos>>
dbm   == <<status, role, domain>>
ctl   == <<servers, ctlSource, primary>>
bal   == <<clb, clbRead>>
vars  == <<kind, pc, work, runs, store, dbm, route, ctl, bal>>

Shards == {Follows[kind][s] : s \in Slaves}
Storage == Shards \cup Slaves

(* Instances whose DBM status the tool sets: tdbctl nodes are not among them. *)
InstanceList == Frontend \cup Storage

(* What belongs in the domains: the fronts and, in a TendbHA, the slaves. *)
DomainMembers == Frontend \cup (IF kind = "tendbha" THEN Slaves ELSE {})

StepsOf(k) ==
    IF k = "tendbha"
    THEN <<"unavailable", "blackhole", "stop", "change", "role",
           "backends", "running", "domain", "clb">>
    ELSE <<"unavailable", "stop", "change", "role", "ctlstop", "ctlchange", "ctldisable",
           "ctlenable", "delete", "insert", "flush", "running", "domain", "clb">>

Steps == {StepsOf(kind)[i] : i \in DOMAIN StepsOf(kind)}

Fresh == [n \in Frontend \cup Masters \cup Slaves \cup Ctl |-> "todo"]

(* The step is over: the next one starts, or the reset has succeeded. *)
StepDone ==
    LET i == CHOOSE j \in DOMAIN StepsOf(kind) : StepsOf(kind)[j] = pc
    IN  /\ pc' = IF i = Len(StepsOf(kind)) THEN "done" ELSE StepsOf(kind)[i + 1]
        /\ work' = Fresh

(* A node of the step is done with; the step itself once all of them are. *)
NodeDone(n, N) ==
    IF \A o \in N \ {n} : work[o] = "done" THEN StepDone
    ELSE /\ work' = [work EXCEPT ![n] = "done"]
         /\ UNCHANGED pc

Moves(n, to) == work' = [work EXCEPT ![n] = to] /\ UNCHANGED pc

(***************************************************************************)
(* A TendbHA is worked through node by node and the first error ends the   *)
(* step; in a TenDBCluster a goroutine per remote node works on its own    *)
(* and the step waits for all of them before it looks at their errors.     *)
(***************************************************************************)
MayWork(n, N) ==
    \/ kind = "tendbcluster" /\ work[n] # "failed"
    \/ /\ kind = "tendbha"
       /\ \A o \in N \ {n} : work[o] \in {"todo", "started", "done"}

-----------------------------------------------------------------------------

(* A cluster as the failover left it: each shard is held by its configured   *)
(* master or by a slave that took over from it.                              *)
Init ==
    /\ kind \in Kind
    /\ pc = "idle" /\ work = Fresh /\ runs = 0
    /\ \E held \in {h \in [Shards -> Storage] :
                      \A m \in Shards : h[m] \in {m} \cup {s \in Slaves : Follows[kind][s] = m}} :
          /\ role = {held[m] : m \in Shards}
          /\ status = InstanceList \ {m \in Shards : held[m] # m}
          /\ source = [n \in Storage |->
                         IF n \in Slaves /\ n \notin role THEN Follows[kind][n] ELSE None]
          /\ io = {n \in Slaves \ role : held[Follows[kind][n]] = Follows[kind][n]}
          /\ route = [f \in Frontend |-> held]
          /\ servers = held
    /\ written = [n \in Storage |-> 0] /\ pos = [m \in Shards |-> 0]
    /\ \E c \in Ctl : /\ primary = {c}
                      /\ ctlSource = [d \in Ctl |-> IF d = c THEN None ELSE c]
    /\ domain \in {DomainMembers, {}}
    /\ clb \in (SUBSET Frontend) \ {{}} /\ clbRead = {}

(* The operator runs "cluster reset"; the handler starts with its first step. *)
ResetSingleCluster ==
    /\ pc \in {"idle", "failed", "done"}
    /\ runs < MaxRuns
    /\ runs' = runs + 1
    /\ pc' = "unavailable" /\ work' = Fresh
    /\ UNCHANGED <<kind, store, dbm, route, ctl, bal>>

(* An operation returns an error, or the operator interrupts the tool. *)
StepFails ==
    /\ pc \in Steps
    /\ pc' = "failed" /\ work' = Fresh
    /\ UNCHANGED <<kind, runs, store, dbm, route, ctl, bal>>

(* One goroutine of a step fails: its error is looked at after the others end. *)
WorkerFails(n) ==
    /\ kind = "tendbcluster"
    /\ \/ pc = "stop" /\ n \in Shards
       \/ pc = "change" /\ n \in Slaves
    /\ work[n] \notin {"done", "failed"}
    /\ Moves(n, "failed")
    /\ UNCHANGED <<kind, runs, store, dbm, route, ctl, bal>>

(* wg.Wait has returned and an error is found. *)
WorkersJoin ==
    LET N == IF pc = "stop" THEN Shards ELSE Slaves
    IN  /\ pc \in {"stop", "change"}
        /\ \A n \in N : work[n] \in {"done", "failed"}
        /\ \E n \in N : work[n] = "failed"
        /\ pc' = "failed" /\ work' = Fresh
        /\ UNCHANGED <<kind, runs, store, dbm, route, ctl, bal>>

(* A mistake: to go on after a refused batch. *)
UpdateAllInstancesStatusUnchecked ==
    /\ pc \in {"unavailable", "running"}
    /\ \E sent \in SUBSET InstanceList :
          /\ status' = IF pc = "running" THEN status \cup sent ELSE status \ sent
          /\ StepDone
    /\ UNCHANGED <<kind, runs, store, role, domain, route, ctl, bal>>

(* DBM is told of the instances batch by batch; a refused batch ends it. *)
UpdateAllInstancesStatus ==
    /\ pc \in {"unavailable", "running"}
    /\ \E sent \in SUBSET InstanceList :
          /\ status' = IF pc = "running" THEN status \cup sent ELSE status \ sent
          /\ IF sent = InstanceList THEN StepDone ELSE pc' = "failed" /\ work' = Fresh
    /\ UNCHANGED <<kind, runs, store, role, domain, route, ctl, bal>>

(* refresh_backends on one proxy: away from every storage node before the      *)
(* replication is touched, to the master afterwards.                           *)
SwitchProxyBackend(f) ==
    /\ pc \in {"blackhole", "backends"}
    /\ work[f] = "todo"
    /\ route' = [route EXCEPT ![f] =
                   [m \in Shards |-> IF pc = "blackhole" THEN Blackhole ELSE m]]
    /\ NodeDone(f, Frontend)
    /\ UNCHANGED <<kind, runs, store, dbm, ctl, bal>>

-----------------------------------------------------------------------------

(* stopSlaveForMaster: stop slave, show master status, reset slave. *)
StopSlaveForMaster(m) ==
    /\ pc = "stop" /\ m \in Shards
    /\ work[m] = "todo" /\ MayWork(m, Shards)
    /\ io' = io \ {m}
    /\ Moves(m, "stopped")
    /\ UNCHANGED <<kind, runs, source, written, pos, dbm, route, ctl, bal>>

ShowMasterStatus(m) ==
    /\ pc = "stop" /\ m \in Shards
    /\ work[m] = "stopped"
    /\ pos' = [pos EXCEPT ![m] = written[m]]
    /\ Moves(m, "read")
    /\ UNCHANGED <<kind, runs, source, io, written, dbm, route, ctl, bal>>

ResetSlave(m) ==
    /\ pc = "stop" /\ m \in Shards
    /\ work[m] = "read"
    /\ source' = [source EXCEPT ![m] = None]
    /\ NodeDone(m, Shards)
    /\ UNCHANGED <<kind, runs, io, written, pos, dbm, route, ctl, bal>>

(* changeMasterForSlave: stop slave, CHANGE MASTER, start slave.  Whether the  *)
(* threads then run is MySQL's affair.  A TenDBCluster looks its slaves up by   *)
(* their masters, of which each has one (ResetAssumption).                     *)
ChangeMasterForSlave(s) ==
    /\ pc = "change" /\ s \in Slaves
    /\ work[s] = "todo" /\ MayWork(s, Slaves)
    /\ source' = [source EXCEPT ![s] = Follows[kind][s]]
    /\ io' = io \ {s}
    /\ Moves(s, "changed")
    /\ UNCHANGED <<kind, runs, written, pos, dbm, route, ctl, bal>>

StartSlave(s) ==
    /\ pc = "change" /\ s \in Slaves
    /\ work[s] = "changed"
    /\ io' \in {io, io \cup {s}}
    /\ Moves(s, "started")
    /\ UNCHANGED <<kind, runs, source, written, pos, dbm, route, ctl, bal>>

(* A mistake: not to look at the threads. *)
CheckSlaveStatusSkipped(s) ==
    /\ pc = "change" /\ s \in Slaves
    /\ work[s] = "started"
    /\ NodeDone(s, Slaves)
    /\ UNCHANGED <<kind, runs, store, dbm, route, ctl, bal>>

(* checkSlaveStatus, three seconds later: a TendbHA checks its slaves together  *)
(* once all are started; a slave that does not replicate fails the step.        *)
CheckSlaveStatus(s) ==
    /\ pc = "change" /\ s \in Slaves
    /\ work[s] = "started"
    /\ kind = "tendbha" => \A o \in Slaves : work[o] \in {"started", "done"}
    /\ s \in io /\ source[s] = Follows[kind][s]
    /\ NodeDone(s, Slaves)
    /\ UNCHANGED <<kind, runs, store, dbm, route, ctl, bal>>

(* SwapMySQLRole: DBM gives each of two instances the role of the other. *)
Swapped(R, a, b) == {n \in Storage : \/ n = a /\ b \in R
                                     \/ n = b /\ a \in R
                                     \/ n \notin {a, b} /\ n \in R}

(* QueryInstanceRole *)
IsMaster(n) == n \in role

(* correctBackendRole: the slave that DBM calls the master swaps roles with the *)
(* configured one; every slave must then have the role of a slave.              *)
CorrectBackendRole ==
    /\ pc = "role" /\ kind = "tendbha"
    /\ \E m \in Shards :
          \/ IsMaster(m) /\ UNCHANGED role
          \/ /\ ~IsMaster(m)
             /\ \E s \in Slaves : IsMaster(s) /\ role' = Swapped(role, s, m)
    /\ role' \cap Slaves = {}
    /\ StepDone
    /\ UNCHANGED <<kind, runs, status, domain, store, route, ctl, bal>>

(* correctRemoteDBRole: the same for each pair of a TenDBCluster. *)
CorrectRemoteDBRole(s) ==
    LET m == Follows[kind][s]
    IN  /\ pc = "role" /\ kind = "tendbcluster"
        /\ work[s] = "todo"
        /\ role' = IF IsMaster(m) THEN role ELSE Swapped(role, s, m)
        /\ s \notin role'
        /\ NodeDone(s, Slaves)
        /\ UNCHANGED <<kind, runs, status, domain, store, route, ctl, bal>>

-----------------------------------------------------------------------------

StopSlaveForTdbCtlMaster ==
    /\ pc = "ctlstop"
    /\ ctlSource' = [ctlSource EXCEPT ![CtlMaster] = None]
    /\ StepDone
    /\ UNCHANGED <<kind, runs, store, dbm, route, servers, primary, bal>>

(* changeTdbCtlMasterForAllTdbCtlSlave, with its check; the slaves read from *)
(* the master by GTID, so they need no position.                             *)
ChangeMasterForTdbctlSlave(c) ==
    /\ pc = "ctlchange" /\ c \in Ctl \ {CtlMaster}
    /\ work[c] = "todo"
    /\ ctlSource' = [ctlSource EXCEPT ![c] = CtlMaster]
    /\ NodeDone(c, Ctl \ {CtlMaster})
    /\ UNCHANGED <<kind, runs, store, dbm, route, servers, primary, bal>>

DisablePrimary(c) ==
    /\ pc = "ctldisable" /\ c \in Ctl \ {CtlMaster}
    /\ work[c] = "todo"
    /\ primary' = primary \ {c}
    /\ NodeDone(c, Ctl \ {CtlMaster})
    /\ UNCHANGED <<kind, runs, store, dbm, route, servers, ctlSource, bal>>

EnablePrimary ==
    /\ pc = "ctlenable"
    /\ primary' = primary \cup {CtlMaster}
    /\ StepDone
    /\ UNCHANGED <<kind, runs, store, dbm, route, servers, ctlSource, bal>>

(* resetMysqlServersTableForTdbCtlMaster: no transaction spans the two. *)
DeleteMysqlServersTable ==
    /\ pc = "delete"
    /\ servers' = None
    /\ StepDone
    /\ UNCHANGED <<kind, runs, store, dbm, route, ctlSource, primary, bal>>

CollectServerRecords == [m \in Shards |-> m]

InsertMysqlServersTable ==
    /\ pc = "insert"
    /\ servers' = CollectServerRecords
    /\ StepDone
    /\ UNCHANGED <<kind, runs, store, dbm, route, ctlSource, primary, bal>>

(* tdbctl pushes its table to the spiders; it may reach only some of them and fail. *)
FlushRouting ==
    /\ pc = "flush"
    /\ \E F \in SUBSET Frontend :
          /\ route' = [f \in Frontend |-> IF f \in F THEN servers ELSE route[f]]
          /\ IF F = Frontend THEN StepDone ELSE pc' = "failed" /\ work' = Fresh
    /\ UNCHANGED <<kind, runs, store, dbm, ctl, bal>>

-----------------------------------------------------------------------------

(* GetAllInstancesOfDomain *)
IsInDomain(n) == n \in domain

(* The listing of the domain is read, then what it misses is added. *)
AddNodesToDomain(n) ==
    /\ pc = "domain" /\ n \in DomainMembers
    /\ work[n] = "todo"
    /\ domain' = IF IsInDomain(n) THEN domain ELSE domain \cup {n}
    /\ NodeDone(n, DomainMembers)
    /\ UNCHANGED <<kind, runs, status, role, store, route, ctl, bal>>

(* diffClbIPPortSets *)
Missing == ClbWanted \ clbRead
Extra   == clbRead \ ClbWanted

(* syncClbBinding: the current targets, then what is missing, then what is extra. *)
GetClbTargetPrivateIps ==
    /\ pc = "clb" /\ \A f \in Frontend : work[f] = "todo"
    /\ clbRead' = clb
    /\ work' = [work EXCEPT ![CHOOSE f \in Frontend : TRUE] = "listed"]
    /\ UNCHANGED <<kind, pc, runs, store, dbm, route, ctl, clb>>

RegisterClbPartTarget ==
    /\ pc = "clb" /\ \E f \in Frontend : work[f] = "listed"
    /\ clb' = clb \cup Missing
    /\ work' = [work EXCEPT ![CHOOSE f \in Frontend : TRUE] = "registered"]
    /\ UNCHANGED <<kind, pc, runs, store, dbm, route, ctl, clbRead>>

DeregisterClbPartTarget ==
    /\ pc = "clb" /\ \E f \in Frontend : work[f] = "registered"
    /\ clb' = clb \ Extra
    /\ clbRead' = {}
    /\ StepDone
    /\ UNCHANGED <<kind, runs, store, dbm, route, ctl>>

(* A client writes through a front to wherever the front sends its shard. *)
Write(f, m) ==
    /\ m \in Shards /\ route[f][m] \in Storage
    /\ written[route[f][m]] < MaxWrites
    /\ written' = [written EXCEPT ![route[f][m]] = @ + 1]
    /\ UNCHANGED <<kind, pc, work, runs, source, io, pos, dbm, route, ctl, bal>>

Next ==
    \/ ResetSingleCluster \/ StepFails \/ WorkersJoin \/ UpdateAllInstancesStatus
    \/ \E n \in Masters \cup Slaves :
          WorkerFails(n) \/ StopSlaveForMaster(n) \/ ShowMasterStatus(n) \/ ResetSlave(n)
    \/ \E s \in Slaves : ChangeMasterForSlave(s) \/ StartSlave(s) \/ CheckSlaveStatus(s)
                         \/ CorrectRemoteDBRole(s)
    \/ CorrectBackendRole \/ StopSlaveForTdbCtlMaster \/ EnablePrimary
    \/ \E c \in Ctl : ChangeMasterForTdbctlSlave(c) \/ DisablePrimary(c)
    \/ DeleteMysqlServersTable \/ InsertMysqlServersTable \/ FlushRouting
    \/ \E f \in Frontend : SwitchProxyBackend(f)
    \/ \E n \in Frontend \cup Slaves : AddNodesToDomain(n)
    \/ GetClbTargetPrivateIps \/ RegisterClbPartTarget \/ DeregisterClbPartTarget
    \/ \E f \in Frontend, m \in Masters : Write(f, m)

Spec == Init /\ [][Next]_vars

-----------------------------------------------------------------------------
(* What the "show" commands report. *)

ShowDomain == domain
ShowClb    == clb
ShowNodes  == [n \in InstanceList |->
                 [running |-> n \in status,
                  master  |-> n \in role]]
ReplicationOf(n) == [from |-> source[n], threads |-> n \in io]
ShowReplication == [n \in Storage |-> ReplicationOf(n)]

(* The tdbctl node the tool asks is reached through a running spider and names *)
(* the primary; a cluster with no running spider, or no primary, is an error.   *)
PrimaryTdbctl == IF Frontend \cap status # {} /\ primary # {}
                 THEN CHOOSE c \in primary : TRUE ELSE None

(* Proxies that are not running are left out of the report. *)
ProxyRouting == [f \in Frontend \cap status |-> route[f]]

(* mysql.servers as the primary has it. *)
ServersRouting == [c \in {PrimaryTdbctl} |-> IF c = CtlMaster THEN servers ELSE None]

ShowRouting == IF kind = "tendbha" THEN ProxyRouting ELSE ServersRouting

-----------------------------------------------------------------------------

TypeOK ==
    /\ kind \in Kind /\ pc \in Steps \cup {"idle", "failed", "done"} /\ runs \in 0 .. MaxRuns
    /\ work \in [DOMAIN Fresh -> {"todo", "stopped", "read", "changed", "started", "done",
                                  "failed", "listed", "registered"}]
    /\ status \subseteq InstanceList /\ role \subseteq Storage
    /\ source \in [Storage -> Storage \cup {None}] /\ io \subseteq Storage
    /\ written \in [Storage -> 0 .. MaxWrites] /\ pos \in [Shards -> 0 .. MaxWrites]
    /\ route \in [Frontend -> [Shards -> Storage \cup {Blackhole}]]
    /\ servers \in [Shards -> Storage] \cup {None}
    /\ ctlSource \in [Ctl -> Ctl \cup {None}] /\ primary \subseteq Ctl
    /\ domain \subseteq DomainMembers /\ clb \subseteq Frontend /\ clbRead \subseteq Frontend

(***************************************************************************)
(* DBM says running only of an instance of a cluster that is consistent,   *)
(* whatever step failed and however often the reset was run: the scan only *)
(* looks at running instances and a failover starts from their roles       *)
(* (UpdateAllInstancesStatus is the first step and the last but two).      *)
(***************************************************************************)
RunningIsConsistent ==
    status # {} =>
        /\ \A f \in Frontend, m \in Shards : route[f][m] \in role
        /\ \A n \in role : source[n] = None
        /\ Cardinality(primary) = 1

(***************************************************************************)
(* A reset that reports success leaves the configured cluster, and "show"  *)
(* says so: masters replicate from no one and slaves from their masters    *)
(* with running threads, roles, routes, domains and listener as configured.*)
(***************************************************************************)
DoneMeansReset ==
    pc = "done" =>
        /\ \A n \in InstanceList :
              ShowNodes[n] = [running |-> TRUE, master |-> n \in Shards]
        /\ \A m \in Shards : ShowReplication[m].from = None
        /\ \A s \in Slaves : ShowReplication[s] = [from |-> Follows[kind][s], threads |-> TRUE]
        /\ \A f \in DOMAIN ShowRouting : ShowRouting[f] = CollectServerRecords
        /\ ShowDomain = DomainMembers
        /\ ShowClb = ClbWanted

=============================================================================
