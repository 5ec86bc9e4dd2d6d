---------------------------- MODULE MasterSwitch ----------------------------
(***************************************************************************)
(* How the instances of one TendbHA cluster are switched: a master, its    *)
(* standby slave and the proxies in front of them.  Several attempts of    *)
(* one analysis server can be under way at once, for different failed      *)
(* instances or twice for one; they meet at the cluster lock of package    *)
(* switchmutex.  Every instance is on a machine of its own.                *)
(***************************************************************************)
EXTENDS FiniteSets, SwitchAttempts

CONSTANTS
  Proxy,           \* the proxies of the cluster
  Old, New,        \* the first master and its standby slave
  Scope            \* action scopes in use

Node == {Old, New}
Member == Node \cup Proxy

ASSUME MasterSwitchAssumption ==
  /\ Old # New
  /\ Nobody \notin Attempt \cup Member
  /\ Node \cap Proxy = {}
  /\ Scope \subseteq {"dbinstance", "cluster", "host"}

VARIABLES
  master,   \* DBM: the node in role backend_master
  status,   \* DBM: the status of each instance
  source,   \* the node each node replicates from
  backend,  \* the node each proxy sends its traffic to
  named,    \* the proxies that the DNS name of the cluster has
  dumper,   \* the node the binlog dumpers read from
  lock,     \* the holder of the cluster lock
  pc,       \* where each attempt is
  scope,    \* its action scope
  unit,     \* the instances it switches
  seen,     \* what its request read from DBM
  left      \* proxies it still has to refresh in this round

world == <<master, status, source, backend, named, dumper>>
vars == <<world, lock, pc, scope, unit, seen, left>>

Other(n) == IF n = Old THEN New ELSE Old

Stage == {"idle", "begun", "locking", "checked",
          "names", "cut", "reset", "point", "swap", "final"}
Locked == {"names", "cut", "reset", "point", "swap", "final"}

TypeOK ==
  /\ master \in Node
  /\ status \in [Member -> {"available", "unavailable"}]
  /\ source \in [Node -> Node \cup {Nobody}]
  /\ backend \in [Proxy -> Node \cup {Nobody}]
  /\ named \in SUBSET Proxy
  /\ dumper \in Node
  /\ lock \in Attempt \cup {Nobody}
  /\ pc \in [Attempt -> Stage]
  /\ scope \in [Attempt -> Scope]
  /\ unit \in [Attempt -> SUBSET Member]
  /\ seen \in [Attempt -> [master : Node, up : SUBSET Member]]
  /\ left \in [Attempt -> SUBSET Proxy]

Init ==
  /\ master = Old
  /\ status = [x \in Member |-> "available"]
  /\ source = [n \in Node |-> IF n = New THEN Old ELSE Nobody]
  /\ backend = [p \in Proxy |-> Old]
  /\ named = Proxy
  /\ dumper = Old
  /\ lock = Nobody
  /\ pc = [a \in Attempt |-> "idle"]
  /\ scope \in [Attempt -> Scope]
  /\ unit = [a \in Attempt |-> {}]
  /\ seen = [a \in Attempt |-> [master |-> Old, up |-> {}]]
  /\ left = [a \in Attempt |-> {}]

-----------------------------------------------------------------------------
(* What an attempt reads of the cluster, once. *)
Metadata ==
  [master |-> master, up |-> {x \in Member : status[x] = "available"}]

(* The standby slave of the master it read. *)
Standby(a) == Other(seen[a].master)
SwitchesMaster(a) == seen[a].master \in unit[a]

(* Proxies listed as unavailable are skipped; a switch of the cluster also *)
(* skips those it is switching.                                            *)
Available(a) == (Proxy \cap seen[a].up) \ unit[a]

(* The attempt ends; a deferred call releases the lock if it has it. *)
End(a) ==
  /\ pc' = [pc EXCEPT ![a] = "idle"]
  /\ unit' = [unit EXCEPT ![a] = {}]
  /\ seen' = [seen EXCEPT ![a].up = {}]
  /\ left' = [left EXCEPT ![a] = {}]
  /\ lock' = IF lock = a THEN Nobody ELSE lock
  /\ UNCHANGED scope

Advance(a, stage) ==
  /\ pc' = [pc EXCEPT ![a] = stage]
  /\ UNCHANGED <<scope, unit, seen>>

(* A request has read the metadata of U; none of U is unavailable. *)
Begin(a, U, s) ==
  /\ pc[a] = "idle"
  /\ \A x \in U : status[x] = "available"
  /\ U # {} /\ (s = "cluster" \/ Cardinality(U) = 1)
  /\ pc' = [pc EXCEPT ![a] = "begun"]
  /\ scope' = [scope EXCEPT ![a] = s]
  /\ unit' = [unit EXCEPT ![a] = U]
  /\ seen' = [seen EXCEPT ![a] = Metadata]
  /\ UNCHANGED <<world, lock, left>>

Mark(T) == [x \in Member |-> IF x \in T THEN "unavailable" ELSE status[x]]

SetUnavailable(a) ==
  /\ pc[a] = "begun"
  /\ status' = Mark(unit[a])
  /\ Advance(a, "locking")
  /\ UNCHANGED <<master, source, backend, named, dumper, lock, left>>

SetUnavailableFails(a, T) ==
  /\ pc[a] = "begun"
  /\ T \subseteq unit[a]
  /\ status' = Mark(T)
  /\ End(a)
  /\ UNCHANGED <<master, source, backend, named, dumper>>

(* LockClusterWithTimeout times out, the deadline of the request has       *)
(* passed, or the check before the switch finds a delay, a bad checksum    *)
(* or a standby slave out of reach.                                        *)
GiveUp(a) ==
  /\ pc[a] \in {"locking", "checked"}
  /\ End(a)
  /\ UNCHANGED world

CheckMySQLStorageMaster(a) ==
  /\ Standby(a) \in seen[a].up
  /\ source[Standby(a)] = seen[a].master

(* CheckBeforeSwitch: slaves and proxies always pass. *)
Passes(a) ==
  SwitchesMaster(a) =>
    /\ CheckMySQLStorageMaster(a)
    /\ scope[a] = "cluster" => Available(a) # {}

(* A mistake: to check before the lock is taken. *)
CheckFirst(a) ==
  /\ pc[a] = "locking"
  /\ Passes(a)
  /\ Advance(a, "checked")
  /\ UNCHANGED <<world, lock, left>>

(* In one instance and one cluster the check and the switch share a lock.  *)
Check(a) ==
  /\ pc[a] = "locking"
  /\ scope[a] # "host"
  /\ lock = Nobody
  /\ Passes(a)
  /\ lock' = a
  /\ Advance(a, "names")
  /\ UNCHANGED <<world, left>>

(* On one host the lock is released after the check.  Whether the clusters *)
(* of the other instances on the host pass too is not known here.          *)
CheckOnSameHost(a) ==
  /\ pc[a] = "locking"
  /\ scope[a] = "host"
  /\ lock = Nobody
  /\ Passes(a)
  /\ Advance(a, "checked")
  /\ UNCHANGED <<world, lock, left>>

ProcessOnSameHost(a) ==
  /\ pc[a] = "checked"
  /\ lock = Nobody
  /\ lock' = a
  /\ Advance(a, "names")
  /\ UNCHANGED <<world, left>>

-----------------------------------------------------------------------------
(* DoSwitch, UpdateMetaInfo and DoFinal, all under the lock *)

(* releaseDNSEntry: failed proxies leave the name one after the other, but *)
(* the name keeps its last address.                                        *)
Released(P) ==
  IF named # {} /\ named \subseteq P THEN {{p} : p \in named}
  ELSE {named \ P}

(* For a standby slave there is nothing to do.                             *)
DeleteNameService(a) ==
  /\ pc[a] = "names"
  /\ named' \in Released(unit[a])
  /\ IF SwitchesMaster(a) /\ Available(a) # {}
     THEN /\ Advance(a, "cut")
          /\ left' = [left EXCEPT ![a] = Available(a)]
          /\ UNCHANGED lock
     ELSE End(a)
  /\ UNCHANGED <<master, status, source, backend, dumper>>

DeleteNameServiceFails(a, P) ==
  /\ pc[a] = "names"
  /\ P \subseteq unit[a]
  /\ named' \in Released(P)
  /\ End(a)
  /\ UNCHANGED <<master, status, source, backend, dumper>>

(* One proxy has taken its new backend; after the last comes stage next. *)
Refresh(a, p, address, next, round) ==
  /\ p \in left[a]
  /\ backend' = [backend EXCEPT ![p] = address]
  /\ left' = [left EXCEPT ![a] = IF @ = {p} THEN round ELSE @ \ {p}]
  /\ Advance(a, IF left[a] = {p} THEN next ELSE pc[a])
  /\ UNCHANGED <<master, status, source, named, dumper, lock>>

(* A mistake: to pass over a proxy that cannot be reached. *)
CutSkipsProxy(a, p) ==
  /\ pc[a] = "cut"
  /\ \E address \in {Nobody, backend[p]} : Refresh(a, p, address, "reset", {})

(* Step 1: no traffic while the standby slave is detached. *)
CutTraffic(a, p) ==
  pc[a] = "cut" /\ Refresh(a, p, Nobody, "reset", {})

(* Step 2: STOP SLAVE, SHOW MASTER STATUS, RESET SLAVE. *)
ResetSlave(a) ==
  /\ pc[a] = "reset"
  /\ source' = [source EXCEPT ![Standby(a)] = Nobody]
  /\ Advance(a, "point")
  /\ left' = [left EXCEPT ![a] = Available(a)]
  /\ UNCHANGED <<master, status, backend, named, dumper, lock>>

(* Step 3: the traffic goes to the new master. *)
PointTraffic(a, p) ==
  pc[a] = "point" /\ Refresh(a, p, Standby(a), "swap", {})

(* A mistake: to exchange the roles, whichever node has them. *)
BlindToggle(a) ==
  /\ pc[a] = "swap"
  /\ master' = Other(master)
  /\ Advance(a, "final")
  /\ UNCHANGED <<status, source, backend, named, dumper, lock, left>>

(* UpdateMetaInfo: the request names the old and the new master; roles     *)
(* that are already as asked are left alone.                               *)
SwapMySQLRole(a) ==
  /\ pc[a] = "swap"
  /\ master' = Standby(a)
  /\ Advance(a, "final")
  /\ UNCHANGED <<status, source, backend, named, dumper, lock, left>>

(* DoFinal: the binlog dumpers of the old master go on from the position   *)
(* that SHOW MASTER STATUS gave before the traffic came.                   *)
SwitchBinlogDumper(a) ==
  /\ pc[a] = "final"
  /\ dumper' = Standby(a)
  /\ End(a)
  /\ UNCHANGED <<master, status, source, backend, named>>

(* An error ends the attempt, nothing is rolled back; the call that failed *)
(* may have taken effect.                                                  *)
RefreshFails(a, p, address) ==
  /\ pc[a] \in {"cut", "point"}
  /\ p \in left[a]
  /\ address \in {backend[p], IF pc[a] = "cut" THEN Nobody ELSE Standby(a)}
  /\ backend' = [backend EXCEPT ![p] = address]
  /\ End(a)
  /\ UNCHANGED <<master, status, source, named, dumper>>

ResetSlaveFails(a, from) ==
  /\ pc[a] = "reset"
  /\ from \in {source[Standby(a)], Nobody}
  /\ source' = [source EXCEPT ![Standby(a)] = from]
  /\ End(a)
  /\ UNCHANGED <<master, status, backend, named, dumper>>

SwapMySQLRoleFails(a, node) ==
  /\ pc[a] = "swap"
  /\ node \in {master, Standby(a)}
  /\ master' = node
  /\ End(a)
  /\ UNCHANGED <<status, source, backend, named, dumper>>

SwitchBinlogDumperFails(a, node) ==
  /\ pc[a] = "final"
  /\ node \in {dumper, Standby(a)}
  /\ dumper' = node
  /\ End(a)
  /\ UNCHANGED <<master, status, source, backend, named>>

(* The server stops: its attempts and its in-memory lock are gone. *)
Crash ==
  /\ lock' = Nobody
  /\ pc' = [a \in Attempt |-> "idle"]
  /\ unit' = [a \in Attempt |-> {}]
  /\ seen' = [a \in Attempt |-> [seen[a] EXCEPT !.up = {}]]
  /\ left' = [a \in Attempt |-> {}]
  /\ UNCHANGED <<world, scope>>

-----------------------------------------------------------------------------

Failure(a) ==
  \/ \E T \in SUBSET Member : SetUnavailableFails(a, T)
  \/ GiveUp(a)
  \/ \E P \in SUBSET Proxy : DeleteNameServiceFails(a, P)
  \/ \E p \in Proxy, x \in Node \cup {Nobody} : RefreshFails(a, p, x)
  \/ \E x \in Node \cup {Nobody} : ResetSlaveFails(a, x)
  \/ \E n \in Node : SwapMySQLRoleFails(a, n) \/ SwitchBinlogDumperFails(a, n)

Success(a) ==
  \/ SetUnavailable(a)
  \/ Check(a)
  \/ CheckOnSameHost(a)
  \/ ProcessOnSameHost(a)
  \/ DeleteNameService(a)
  \/ \E p \in Proxy : CutTraffic(a, p) \/ PointTraffic(a, p)
  \/ ResetSlave(a)
  \/ SwapMySQLRole(a)
  \/ SwitchBinlogDumper(a)

Next ==
  \/ \E a \in Attempt, U \in SUBSET Member, s \in Scope : Begin(a, U, s)
  \/ \E a \in Attempt : Success(a) \/ Failure(a)
  \/ Crash

Spec == Init /\ [][Next]_vars

-----------------------------------------------------------------------------

(* Two nodes never take traffic at once: while one proxy sends its clients *)
(* to the new master, only proxies that DBM lists as unavailable still     *)
(* send theirs to the old one.                                             *)
OneWritable ==
  \A p, q \in Proxy :
    backend[p] = Old /\ backend[q] = New => status[p] = "unavailable"

(* A node that takes traffic does not replicate from the other one. *)
DetachedBeforeTraffic ==
  \A p \in Proxy : backend[p] \in Node => source[backend[p]] = Nobody

(* When an attempt starts to move the traffic, what its check established  *)
(* still holds: the standby slave replicates from the master it replaces.  *)
CheckHoldsIn(S) ==
  \A a \in Attempt : scope[a] \in S /\ pc[a] \in {"cut", "reset"} =>
    source[Standby(a)] = seen[a].master

(* It does for an attempt that checks and switches under one lock, however *)
(* the attempts of other scopes interleave,                                *)
CheckStillHolds == CheckHoldsIn({"dbinstance", "cluster"})

(* and it would have to for one that lets the lock go in between.          *)
HostCheckStillHolds == CheckHoldsIn({"host"})

(* When DBM takes the new master for the master, every proxy that is not   *)
(* unavailable already sends its traffic there, whichever earlier attempts *)
(* stopped half-way and wherever they stopped.                             *)
RolesFollowTraffic ==
  [][master = Old /\ master' = New =>
       \A p \in Proxy : status[p] = "available" => backend[p] = New]_vars

(* The role that a failover gave to the new master is never given back: a  *)
(* second attempt, or a retry after a lost answer, does not undo it.       *)
FailoverNotUndone == [][master = New => master' = New]_vars

(* Whichever call fails, an attempt that ends leaves the cluster lock: it  *)
(* belongs to an attempt in the middle of its switch, whose calls all have *)
(* timeouts.                                                               *)
LockInUse == lock # Nobody => pc[lock] \in Locked
=============================================================================
