------------------------------ MODULE Membership ------------------------------
(***************************************************************************)
(* How the analysis servers (AM) agree on who watches which business.  A   *)
(* server registers itself in etcd under a lease (pkg/discovery Registry), *)
(* watches the keys of the others (Discovery) and builds a hash ring of    *)
(* the servers it finds (workflow InstanceDiscovery).  A server that is    *)
(* started again registers under a fresh id, so an id starts once.  A      *)
(* graceful stop does not revoke the lease and is a crash here.            *)
(***************************************************************************)
EXTENDS HashRing, FiniteSets

CONSTANTS
  Solid,      \* servers that never lose their lease or their watch
  MaxEvents   \* bound: watch events told apart while they wait

ASSUME MembershipAssumption ==
  /\ Solid \subseteq AM
  /\ MaxEvents \in Nat \ {0}

VARIABLES
  phase,   \* "new", "up" or "dead"
  cli,     \* Registry.client: nil, open or closed
  lease,   \* Registry.leaseID: none, kept alive, no longer kept, or gone
  key,     \* the server's key in etcd: absent, empty, or its service info
  rpc,     \* where Registry.SetService is
  watch,   \* the watch of the server's Discovery
  events,  \* watch events not received yet
  dpc,     \* where InstanceDiscovery.RunWatch is
  got,     \* the servers that the last GetWithPrefix found
  fell,    \* history: the last GetWithPrefix failed
  ring     \* the servers on the hash ring

registry == <<cli, lease, rpc>>
discovery == <<watch, dpc, got, fell, ring>>
vars == <<phase, registry, key, events, discovery>>

Up == {a \in AM : phase[a] = "up"}
Listed == {a \in AM : key[a] = "info"}

TypeOK ==
  /\ phase \in [AM -> {"new", "up", "dead"}]
  /\ cli \in [AM -> {"nil", "open", "closed"}]
  /\ lease \in [AM -> {"none", "kept", "unkept", "gone"}]
  /\ key \in [AM -> {"absent", "empty", "info"}]
  /\ rpc \in [AM -> {"idle", "set", "put"}]
  /\ watch \in [AM -> {"off", "on", "broken"}]
  /\ events \in [AM -> 0 .. MaxEvents]
  /\ dpc \in [AM -> {"none", "list", "rebuild", "loop", "gone"}]
  /\ got \in [AM -> SUBSET AM]
  /\ fell \in [AM -> BOOLEAN]
  /\ ring \in [AM -> SUBSET AM]
  \* a key never outlives its lease
  /\ \A a \in AM : key[a] # "absent" => lease[a] \in {"kept", "unkept"}

Init ==
  /\ phase = [a \in AM |-> "new"]
  /\ cli = [a \in AM |-> "nil"] /\ lease = [a \in AM |-> "none"]
  /\ key = [a \in AM |-> "absent"]
  /\ rpc = [a \in AM |-> "idle"]
  /\ watch = [a \in AM |-> "off"] /\ events = [a \in AM |-> 0]
  /\ dpc = [a \in AM |-> "none"]
  /\ got = [a \in AM |-> {}] /\ fell = [a \in AM |-> FALSE]
  /\ ring = [a \in AM |-> {}]

-----------------------------------------------------------------------------
(* AssignedBizIDs: a ring without nodes assigns every business. *)
Assigned(a) == {b \in Biz : ring[a] = {} \/ Owner(ring[a], b) = a}

-----------------------------------------------------------------------------
(* Registry *)

(* The key of a changes to v: everyone who watches is sent an event. *)
SetKey(a, v) ==
  /\ key' = [key EXCEPT ![a] = v]
  /\ events' = [c \in AM |->
       IF watch[c] = "on" /\ ~(v = "absent" /\ key[a] = "absent")
          /\ events[c] < MaxEvents
       THEN events[c] + 1 ELSE events[c]]

Start(a) ==
  /\ phase[a] = "new"
  /\ phase' = [phase EXCEPT ![a] = "up"]
  /\ rpc' = [rpc EXCEPT ![a] = "set"]
  /\ UNCHANGED <<cli, lease, key, events, discovery>>

(* A mistake: to leave it at that once the server is registered. *)
UpdateOnce(a) ==
  /\ a \in Up /\ rpc[a] = "idle" /\ dpc[a] # "none" /\ key[a] # "info"
  /\ rpc' = [rpc EXCEPT ![a] = "set"]
  /\ UNCHANGED <<phase, cli, lease, key, events, discovery>>

(* Service.Run: updateInfo on every tick, once the workflow runs. *)
UpdateInfo(a) ==
  /\ a \in Up /\ rpc[a] = "idle" /\ dpc[a] # "none"
  /\ rpc' = [rpc EXCEPT ![a] = "set"]
  /\ UNCHANGED <<phase, cli, lease, key, events, discovery>>

InvalidClient(a) == cli[a] = "nil" \/ lease[a] = "none"

(* grant: a client, a lease, an empty key under it, and the keep-alive. *)
Grant(a) ==
  /\ rpc[a] = "set" /\ InvalidClient(a)
  /\ cli' = [cli EXCEPT ![a] = "open"]
  /\ lease' = [lease EXCEPT ![a] = "kept"]
  /\ SetKey(a, "empty")
  /\ rpc' = [rpc EXCEPT ![a] = "put"]
  /\ UNCHANGED <<phase, discovery>>

(* No client, or a client without a lease. *)
GrantFails(a, c) ==
  /\ rpc[a] = "set" /\ InvalidClient(a)
  /\ c \in {cli[a], "open"}
  /\ cli' = [cli EXCEPT ![a] = c]
  /\ rpc' = [rpc EXCEPT ![a] = "idle"]
  /\ UNCHANGED <<phase, lease, key, events, discovery>>

(* The Put or the KeepAlive fails: the client is closed and stays in       *)
(* place, and so does the lease id.  The Put may have taken effect.        *)
GrantPutFails(a, v) ==
  /\ rpc[a] = "set" /\ InvalidClient(a)
  /\ v \in {"absent", "empty"}
  /\ cli' = [cli EXCEPT ![a] = "closed"]
  /\ lease' = [lease EXCEPT ![a] = "unkept"]
  /\ SetKey(a, v)
  /\ rpc' = [rpc EXCEPT ![a] = "idle"]
  /\ UNCHANGED <<phase, discovery>>

SetService(a) == rpc[a] = "put" \/ (rpc[a] = "set" /\ ~InvalidClient(a))

PutInfo(a) ==
  /\ SetService(a)
  /\ cli[a] = "open" /\ lease[a] = "kept"
  /\ SetKey(a, "info")
  /\ rpc' = [rpc EXCEPT ![a] = "idle"]
  /\ UNCHANGED <<phase, cli, lease, discovery>>

PutInfoFails(a) ==
  /\ SetService(a)
  /\ rpc' = [rpc EXCEPT ![a] = "idle"]
  /\ UNCHANGED <<phase, cli, lease, key, events, discovery>>

(* etcd ends a lease: of a running server that it has not heard from, or   *)
(* one that nobody keeps.  The keep-alive channel is closed, which ends    *)
(* handleKeepalive without recoverConnection.                              *)
LoseLease(a) ==
  /\ a \in Up \ Solid
  /\ lease[a] = "kept"
  /\ lease' = [lease EXCEPT ![a] = "gone"]
  /\ SetKey(a, "absent")
  /\ UNCHANGED <<phase, cli, rpc, discovery>>

ExpireLease(a) ==
  /\ lease[a] = "unkept"
  /\ lease' = [lease EXCEPT ![a] = "gone"]
  /\ SetKey(a, "absent")
  /\ UNCHANGED <<phase, cli, rpc, discovery>>

-----------------------------------------------------------------------------
(* InstanceDiscovery.RunWatch over Discovery *)

(* A mistake: to read the list before the watch stands. *)
ListBeforeWatch(a) ==
  /\ a \in Up /\ rpc[a] = "idle"
  /\ \/ dpc[a] = "none" /\ watch[a] = "off" /\ dpc' = [dpc EXCEPT ![a] = "list"]
        /\ watch' = watch
     \/ dpc[a] = "loop" /\ watch[a] = "off" /\ dpc' = dpc
        /\ watch' = [watch EXCEPT ![a] = "on"]
  /\ UNCHANGED <<phase, registry, key, events, got, fell, ring>>

(* The workflow starts after the first SetService has returned. *)
WatchWithPrefix(a) ==
  /\ a \in Up /\ rpc[a] = "idle" /\ dpc[a] = "none"
  /\ watch' = [watch EXCEPT ![a] = "on"]
  /\ dpc' = [dpc EXCEPT ![a] = "list"]
  /\ UNCHANGED <<phase, registry, key, events, got, fell, ring>>

(* RunWatch returns, the ring stays empty. *)
WatchWithPrefixFails(a) ==
  /\ a \in Up \ Solid /\ rpc[a] = "idle" /\ dpc[a] = "none"
  /\ dpc' = [dpc EXCEPT ![a] = "gone"]
  /\ UNCHANGED <<phase, registry, key, events, watch, got, fell, ring>>

(* RefreshList *)
GetWithPrefix(a) ==
  /\ dpc[a] = "list" /\ watch[a] # "broken"
  /\ got' = [got EXCEPT ![a] = Listed]
  /\ dpc' = [dpc EXCEPT ![a] = "rebuild"]
  /\ UNCHANGED <<phase, registry, key, events, watch, fell, ring>>

GetWithPrefixFails(a) ==
  /\ dpc[a] = "list" /\ watch[a] # "broken"
  /\ ring' = [ring EXCEPT ![a] = {a}]
  /\ fell' = [fell EXCEPT ![a] = TRUE]
  /\ dpc' = [dpc EXCEPT ![a] = "loop"]
  /\ UNCHANGED <<phase, registry, key, events, watch, got>>

Rebuild(a) ==
  /\ dpc[a] = "rebuild"
  /\ ring' = [ring EXCEPT ![a] = IF got[a] = {} THEN {a} ELSE got[a]]
  /\ got' = [got EXCEPT ![a] = {}]
  /\ fell' = [fell EXCEPT ![a] = FALSE]
  /\ dpc' = [dpc EXCEPT ![a] = "loop"]
  /\ UNCHANGED <<phase, registry, key, events, watch>>

Receive(a) ==
  /\ dpc[a] = "loop" /\ events[a] > 0
  /\ events' = [events EXCEPT ![a] = @ - 1]
  /\ dpc' = [dpc EXCEPT ![a] = "list"]
  /\ UNCHANGED <<phase, registry, key, watch, got, fell, ring>>

(* The watch ends with an error, say because its revision was compacted    *)
(* during a disconnection: the shared client is closed and set to nil.     *)
WatchBreaks(a) ==
  /\ a \in Up \ Solid /\ watch[a] = "on"
  /\ watch' = [watch EXCEPT ![a] = "broken"]
  /\ UNCHANGED <<phase, registry, key, events, dpc, got, fell, ring>>

(* The event channel is closed and drained. *)
WatchReturns(a) ==
  /\ dpc[a] = "loop" /\ watch[a] = "broken" /\ events[a] = 0
  /\ dpc' = [dpc EXCEPT ![a] = "gone"]
  /\ UNCHANGED <<phase, registry, key, events, watch, got, fell, ring>>

Halt(a) ==
  /\ phase' = [phase EXCEPT ![a] = "dead"]
  /\ cli' = [cli EXCEPT ![a] = "nil"]
  /\ lease' = [lease EXCEPT ![a] = IF @ = "kept" THEN "unkept" ELSE @]
  /\ rpc' = [rpc EXCEPT ![a] = "idle"]
  /\ watch' = [watch EXCEPT ![a] = "off"]
  /\ events' = [events EXCEPT ![a] = 0]
  /\ dpc' = [dpc EXCEPT ![a] = "gone"]
  /\ got' = [got EXCEPT ![a] = {}]
  /\ fell' = [fell EXCEPT ![a] = FALSE]
  /\ ring' = [ring EXCEPT ![a] = {}]
  /\ UNCHANGED key

Crash(a) == a \in Up /\ Halt(a)

(* An event that was waiting when the watch broke makes RefreshList use    *)
(* the client that is nil.                                                 *)
NilClientPanic(a) == dpc[a] = "list" /\ watch[a] = "broken" /\ Halt(a)

RegistryStep(a) ==
  \/ UpdateInfo(a)
  \/ Grant(a) \/ \E c \in {"nil", "open"} : GrantFails(a, c)
  \/ \E v \in {"absent", "empty"} : GrantPutFails(a, v)
  \/ PutInfo(a) \/ PutInfoFails(a)

WatchStep(a) ==
  \/ WatchWithPrefix(a) \/ WatchWithPrefixFails(a)
  \/ GetWithPrefix(a) \/ GetWithPrefixFails(a)
  \/ Rebuild(a) \/ Receive(a) \/ WatchReturns(a) \/ NilClientPanic(a)

Next ==
  \E a \in AM : \/ Start(a) \/ Crash(a)
                \/ RegistryStep(a) \/ WatchStep(a)
                \/ LoseLease(a) \/ ExpireLease(a) \/ WatchBreaks(a)

Spec == Init /\ [][Next]_vars

(* The goroutines of a running server go on, etcd ends the leases that are *)
(* not kept, and a call that is made again and again succeeds in the end.  *)
(* Servers need not start, nor fail.                                       *)
Fairness ==
  \A a \in AM : /\ WF_vars(RegistryStep(a)) /\ WF_vars(WatchStep(a))
                /\ WF_vars(ExpireLease(a))
                /\ SF_vars(Grant(a) \/ PutInfo(a))
                /\ SF_vars(GetWithPrefix(a))

FairSpec == Spec /\ Fairness

-----------------------------------------------------------------------------

(* What the ring of a should be. *)
Target(a) == IF Listed = {} THEN {a} ELSE Listed

(* The server has seen every event and its last read succeeded. *)
Caught(a) ==
  a \in Up /\ dpc[a] = "loop" /\ watch[a] = "on" /\ events[a] = 0 /\ ~fell[a]

(* No change of the registry is missed between the first reading of the    *)
(* list, the watch and the rebuilding of the ring: a server with nothing   *)
(* left to receive has the registry's servers on its ring.                 *)
RingCurrent == \A a \in AM : Caught(a) => ring[a] = Target(a)

(* The ring of a running server catches up with the registry, also after a *)
(* failed read made it fall back to itself: registered servers write their *)
(* keys again and again, and every write is an event.                      *)
SolidCatchUp ==
  \A a \in Solid : a \in Up ~> a \notin Up \/ ring[a] = Target(a)

(* While some server runs, no business stays without a server that watches *)
(* it: the businesses of a server that died are taken over.                *)
EveryBusinessWatched ==
  \A b \in Biz : Up # {} ~> Up = {} \/ \E a \in Up : b \in Assigned(a)
=============================================================================
