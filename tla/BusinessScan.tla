---------------------------- MODULE BusinessScan ----------------------------
(***************************************************************************)
(* From DBM's list of instances to a reported failure, for one business.   *)
(* One analysis server is elected to copy DBM's list, bucket by bucket,    *)
(* into the metadata cache.  The servers scan the business: they page      *)
(* through the recent rows of the cache, look for instances without a      *)
(* recent status or with a bad event, and double-check their hosts with    *)
(* SSH.  Times are ages in ticks.                                          *)
(***************************************************************************)
EXTENDS Naturals, FiniteSets

CONSTANTS
  Server,     \* the analysis servers
  Scanner,    \* those that believe the business is theirs
  Inst,       \* the instances of the business
  HostOf,     \* the host of each
  BucketOf,   \* the bucket of each, hash_value of DBM's interface
  Buckets,    \* DbmApiMetadataHashCnt
  Skipped,    \* instances in the skip table
  White,      \* instances of whitelisted clusters
  BatchCount, \* readBatchCount
  Offset,     \* ReadDbMetaOffsetDuration: older rows are not read
  Nobody,     \* no server
  MaxChanges  \* bound: changes of the world, and failures

ASSUME BusinessScanAssumption ==
  /\ Scanner \subseteq Server
  /\ Buckets \in Nat /\ BatchCount \in Nat \ {0} /\ Offset \in Nat \ {0}
  /\ BucketOf \in [Inst -> 1..Buckets]
  /\ Skipped \subseteq Inst /\ White \subseteq Inst
  /\ Nobody \notin Server /\ MaxChanges \in Nat

Host == {HostOf[i] : i \in Inst}

VARIABLES
  listed,   \* instances that DBM lists as running or available
  age,      \* age of each row of the cache; Offset: too old, or no row
  healthy,  \* instances with a recent status and no event
  bad,      \* instances with a recent status and an event
  up,       \* the hosts that take an SSH session
  changes,  \* changes so far
  leader,   \* the server whose election key is first
  sync,     \* for each server, where its synchronizer is
  bucket,   \* the bucket it asks for, 0 between two rounds
  answer,   \* DBM's answer that it has not saved yet
  lock,     \* the holder of the scan lock of the business
  scan,     \* where the scan of each server is
  cursor,   \* age of the last row it read
  metas,    \* the instances it read
  passed,   \* history: the ages of the last rows of its batches
  tasks,    \* the double checks under way, as <<check, instance>>
  reported  \* instances pushed into the window

world == <<listed, healthy, bad, up>>
synchronizer == <<leader, sync, bucket, answer>>
scanner == <<lock, scan, cursor, metas, passed, tasks>>
vars == <<world, age, changes, synchronizer, scanner, reported>>

Checks == {"missed", "event"}

TypeOK ==
  /\ listed \subseteq Inst /\ healthy \subseteq Inst /\ bad \subseteq Inst
  /\ up \subseteq Host /\ changes \in 0..MaxChanges
  /\ age \in [Inst -> 0..Offset]
  /\ leader \in Server \cup {Nobody}
  /\ sync \in [Server -> {"none", "campaign", "lead"}]
  /\ bucket \in [Server -> 0..Buckets]
  /\ answer \in [Server -> SUBSET Inst]
  /\ lock \in Scanner \cup {Nobody}
  /\ scan \in [Scanner -> {"idle", "meta", "status", "check"}]
  /\ cursor \in [Scanner -> 0..Offset]
  /\ metas \in [Scanner -> SUBSET Inst]
  /\ passed \in [Scanner -> SUBSET (0..Offset)]
  /\ tasks \in [Scanner -> SUBSET (Checks \X Inst)]
  /\ reported \subseteq Inst

Init ==
  /\ listed = Inst /\ age = [i \in Inst |-> Offset]
  /\ healthy = Inst /\ bad = {} /\ up = Host /\ changes = 0
  /\ leader = Nobody
  /\ sync = [s \in Server |-> "campaign"]
  /\ bucket = [s \in Server |-> 0]
  /\ answer = [s \in Server |-> {}]
  /\ lock = Nobody
  /\ scan = [s \in Scanner |-> "idle"]
  /\ cursor = [s \in Scanner |-> Offset]
  /\ metas = [s \in Scanner |-> {}]
  /\ passed = [s \in Scanner |-> {}]
  /\ tasks = [s \in Scanner |-> {}]
  /\ reported = {}

-----------------------------------------------------------------------------
(* The synchronizer: updateCache.                                          *)

(* Campaign returns when the key of this server is the first.              *)
Campaign(s) ==
  /\ sync[s] = "campaign" /\ leader = Nobody
  /\ sync' = [sync EXCEPT ![s] = "lead"]
  /\ leader' = s
  /\ UNCHANGED <<world, age, changes, bucket, answer, scanner, reported>>

(* The campaign of a server fails, and its election is closed.             *)
CampaignFails(s) ==
  /\ sync[s] = "campaign" /\ changes < MaxChanges
  /\ changes' = changes + 1
  /\ sync' = [sync EXCEPT ![s] = "none"]
  /\ UNCHANGED <<world, age, leader, bucket, answer, scanner, reported>>

(* Without an election a new one is created, every 100 ms.                 *)
CreateElection(s) ==
  /\ sync[s] = "none"
  /\ sync' = [sync EXCEPT ![s] = "campaign"]
  /\ UNCHANGED <<world, age, changes, leader, bucket, answer, scanner, reported>>

(* The lease of the leader is lost: etcd lets another server lead at once, *)
(* the old leader looks at Done() when its round is over.                  *)
LoseLease ==
  /\ leader # Nobody /\ changes < MaxChanges
  /\ changes' = changes + 1
  /\ leader' = Nobody
  /\ UNCHANGED <<world, age, sync, bucket, answer, scanner, reported>>

(* A mistake: the loop ends with the lost election. *)
ElectionDoneReturns(s) ==
  /\ sync[s] = "lead" /\ leader # s /\ bucket[s] = 0
  /\ sync' = [sync EXCEPT ![s] = "ended"]
  /\ UNCHANGED <<world, age, changes, leader, bucket, answer, scanner, reported>>

ElectionDone(s) ==
  /\ sync[s] = "lead" /\ leader # s /\ bucket[s] = 0
  /\ sync' = [sync EXCEPT ![s] = "none"]
  /\ UNCHANGED <<world, age, changes, leader, bucket, answer, scanner, reported>>

(* A mistake: the request names no statuses, and DBM answers with all.     *)
RequestAllStatuses(s) ==
  /\ sync[s] = "lead" /\ answer[s] = {} /\ bucket[s] < Buckets
  /\ bucket' = [bucket EXCEPT ![s] = @ + 1]
  /\ answer' = [answer EXCEPT ![s] = {i \in Inst : BucketOf[i] = bucket'[s]}]
  /\ UNCHANGED <<world, age, changes, leader, sync, scanner, reported>>

(* The timer fires and syncMetadataFromDbm asks for the first bucket ...   *)
RequestMetadata(s) ==
  /\ sync[s] = "lead" /\ answer[s] = {} /\ bucket[s] < Buckets
  /\ bucket' = [bucket EXCEPT ![s] = @ + 1]
  /\ answer' = [answer EXCEPT ![s] = {i \in listed : BucketOf[i] = bucket'[s]}]
  /\ UNCHANGED <<world, age, changes, leader, sync, scanner, reported>>

(* ... or the request fails, and the bucket is left out of this round.     *)
RequestMetadataFails(s) ==
  /\ sync[s] = "lead" /\ answer[s] = {} /\ bucket[s] < Buckets
  /\ changes < MaxChanges
  /\ changes' = changes + 1
  /\ bucket' = [bucket EXCEPT ![s] = @ + 1]
  /\ UNCHANGED <<world, age, leader, sync, answer, scanner, reported>>

(* saveRespond: one upsert, whose rows get one time.  Rows of instances    *)
(* that DBM does not list any more stay.                                   *)
SaveRespond(s) ==
  /\ answer[s] # {}
  /\ age' = [i \in Inst |-> IF i \in answer[s] THEN 0 ELSE age[i]]
  /\ answer' = [answer EXCEPT ![s] = {}]
  /\ UNCHANGED <<world, changes, leader, sync, bucket, scanner, reported>>

EndRound(s) ==
  /\ answer[s] = {} /\ bucket[s] = Buckets
  /\ bucket' = [bucket EXCEPT ![s] = 0]
  /\ UNCHANGED <<world, age, changes, leader, sync, answer, scanner, reported>>

-----------------------------------------------------------------------------
(* The scan: CheckBusinessWithBizID.                                       *)

(* TryLock; the read starts at the oldest time it asks for.                *)
AcquireScanLock(s) ==
  /\ scan[s] = "idle" /\ lock = Nobody
  /\ lock' = s
  /\ scan' = [scan EXCEPT ![s] = "meta"]
  /\ cursor' = [cursor EXCEPT ![s] = Offset]
  /\ metas' = [metas EXCEPT ![s] = {}]
  /\ UNCHANGED <<world, age, changes, synchronizer, passed, tasks, reported>>

Later(s) == {i \in Inst : age[i] < cursor[s]}

(* A mistake: the rows of a batch come in any order. *)
BatchUnordered(s, B) ==
  /\ B \subseteq Later(s)
  /\ Cardinality(B) = IF Cardinality(Later(s)) < BatchCount
                      THEN Cardinality(Later(s)) ELSE BatchCount

(* ORDER BY updated_at LIMIT: the oldest, and any of those of one time.    *)
Batch(s, B) ==
  /\ B \subseteq Later(s)
  /\ Cardinality(B) = IF Cardinality(Later(s)) < BatchCount
                      THEN Cardinality(Later(s)) ELSE BatchCount
  /\ \A i \in B, j \in Later(s) \ B : age[i] >= age[j]

ReadMetadataCache(s, B) ==
  /\ scan[s] = "meta" /\ Later(s) # {}
  /\ Batch(s, B)
  /\ metas' = [metas EXCEPT ![s] = @ \cup B]
  /\ \E i \in B : /\ \A j \in B : age[i] <= age[j]
                  /\ cursor' = [cursor EXCEPT ![s] = age[i]]
                  /\ passed' = [passed EXCEPT ![s] = @ \cup {age[i]}]
  /\ UNCHANGED <<world, age, changes, synchronizer, lock, scan, tasks, reported>>

Ends(s) ==
  /\ scan' = [scan EXCEPT ![s] = "idle"]
  /\ metas' = [metas EXCEPT ![s] = {}]
  /\ passed' = [passed EXCEPT ![s] = {}]
  /\ tasks' = [tasks EXCEPT ![s] = {}]
  /\ lock' = IF lock = s THEN Nobody ELSE lock
  /\ UNCHANGED <<world, age, synchronizer, cursor, reported>>

Whitelisted(I) == I \cap White

(* An empty batch ends the read, and the whitelist filters it.             *)
FilterByWhitelistForScan(s) ==
  /\ scan[s] = "meta" /\ Later(s) = {}
  /\ IF Whitelisted(metas[s]) = {}
     THEN Ends(s) /\ UNCHANGED changes
     ELSE /\ metas' = [metas EXCEPT ![s] = Whitelisted(@)]
          /\ passed' = [passed EXCEPT ![s] = {}]
          /\ scan' = [scan EXCEPT ![s] = "status"]
          /\ UNCHANGED <<world, age, changes, synchronizer, lock, cursor, tasks,
                         reported>>

(* A read, or all attempts at the whitelist, fail: the scan is given up.   *)
ScanFails(s) ==
  /\ scan[s] \in {"meta", "status"} /\ changes < MaxChanges
  /\ changes' = changes + 1
  /\ Ends(s)

NotSkipped(s) == metas[s] \ Skipped

(* Instances without a status row, and instances whose row has an event.   *)
MissedProbe(s) == NotSkipped(s) \ (healthy \cup bad)
Events(s) == NotSkipped(s) \cap bad

(* A detector checks a host once, for the first of its instances.          *)
Representatives(s, C, T) ==
  /\ T \subseteq C
  /\ {HostOf[i] : i \in T} = {HostOf[i] : i \in C}
  /\ \A i, j \in T : HostOf[i] = HostOf[j] => i = j

(* The checks run at once, each with a detector of its own.                *)
RunBusinessChecks(s, M, E) ==
  /\ scan[s] = "status"
  /\ Representatives(s, MissedProbe(s), M) /\ Representatives(s, Events(s), E)
  /\ tasks' = [tasks EXCEPT ![s] = ({"missed"} \X M) \cup ({"event"} \X E)]
  /\ scan' = [scan EXCEPT ![s] = "check"]
  /\ UNCHANGED <<world, age, changes, synchronizer, lock, cursor, metas, passed,
                 reported>>

SessionRefused(i) == HostOf[i] \notin up

(* Only a session that cannot be had is a failure; a command that fails or *)
(* an answer of the probe is an alarm.                                     *)
IsFailure(i) == SessionRefused(i)

LivenessDoubleCheck(s, t) ==
  /\ t \in tasks[s]
  /\ tasks' = [tasks EXCEPT ![s] = @ \ {t}]
  /\ reported' = IF IsFailure(t[2]) THEN reported \cup {t[2]} ELSE reported
  /\ UNCHANGED <<world, age, changes, synchronizer, lock, scan, cursor, metas,
                 passed>>

ChecksDone(s) ==
  /\ scan[s] = "check" /\ tasks[s] = {}
  /\ Ends(s) /\ UNCHANGED changes

-----------------------------------------------------------------------------

(* An instance comes or goes in DBM, a host fails or returns, its probe    *)
(* reports nothing or an event.                                            *)
Change ==
  /\ changes < MaxChanges
  /\ changes' = changes + 1
  /\ \/ \E i \in Inst :
          /\ listed' = IF i \in listed THEN listed \ {i} ELSE listed \cup {i}
          /\ UNCHANGED <<healthy, bad, up>>
     \/ \E h \in Host :
          /\ up' = IF h \in up THEN up \ {h} ELSE up \cup {h}
          /\ UNCHANGED <<listed, healthy, bad>>
     \/ \E i \in Inst, A, B \in BOOLEAN :
          /\ healthy' = IF A /\ ~ B THEN healthy \cup {i} ELSE healthy \ {i}
          /\ bad' = IF A /\ B THEN bad \cup {i} ELSE bad \ {i}
          /\ UNCHANGED <<listed, up>>
  /\ UNCHANGED <<age, synchronizer, scanner, reported>>

(* The pop loop takes what was reported. *)
PopAndMarkStart ==
  /\ reported # {}
  /\ reported' = {}
  /\ UNCHANGED <<world, age, changes, synchronizer, scanner>>

Older(a) == IF a < Offset THEN a + 1 ELSE Offset

Tick ==
  /\ \E i \in Inst : age[i] < Offset
  /\ age' = [i \in Inst |-> Older(age[i])]
  /\ cursor' = [s \in Scanner |-> Older(cursor[s])]
  /\ passed' = [s \in Scanner |-> {Older(a) : a \in passed[s]}]
  /\ UNCHANGED <<world, changes, synchronizer, lock, scan, metas, tasks, reported>>

SyncStep(s) ==
  \/ Campaign(s) \/ CreateElection(s) \/ ElectionDone(s)
  \/ RequestMetadata(s) \/ SaveRespond(s) \/ EndRound(s)

ReadStep(s) ==
  \/ AcquireScanLock(s)
  \/ \E B \in SUBSET Inst : ReadMetadataCache(s, B)
  \/ FilterByWhitelistForScan(s)

CheckStep(s) ==
  \/ \E M, E \in SUBSET Inst : RunBusinessChecks(s, M, E)
  \/ \E t \in tasks[s] : LivenessDoubleCheck(s, t)
  \/ ChecksDone(s)

Next ==
  \/ \E s \in Server : SyncStep(s) \/ CampaignFails(s) \/ RequestMetadataFails(s)
  \/ \E s \in Scanner : ReadStep(s) \/ CheckStep(s) \/ ScanFails(s)
  \/ LoseLease \/ Change \/ PopAndMarkStart \/ Tick

(* The loops of a server go on: its timers fire and its calls return.      *)
Fairness ==
  /\ \A s \in Server : WF_vars(SyncStep(s))
  /\ \A s \in Scanner : WF_vars(ReadStep(s)) /\ WF_vars(CheckStep(s))
  /\ WF_vars(PopAndMarkStart) /\ WF_vars(Tick)

Spec == Init /\ [][Next]_vars /\ Fairness

-----------------------------------------------------------------------------

(* The row of an instance that DBM goes on listing is saved again and      *)
(* again, by whichever server leads, though leases are lost, campaigns and *)
(* requests fail, and two servers believe for a while that they lead.      *)
ListedIsKept ==
  \A i \in Inst : <>[](i \in listed) => []<>(age[i] = 0)

(* Scans end: a read takes much less time than a round of the synchronizer *)
(* and does not run after the rows that are saved for ever.                *)
ScansEnd == \A s \in Scanner : []<>(scan[s] = "idle")

(* An instance that DBM has taken off its list is no longer scanned some   *)
(* time later, although nobody deletes its row and an answer that still    *)
(* holds it may be saved after it went.                                    *)
RemovedFades ==
  \A i \in Inst : ScansEnd /\ <>[](i \notin listed) => <>[](\A s \in Scanner : i \notin metas[s])

(* While a scan reads, every recent row is still ahead of it, or read, or  *)
(* has one time with the last row of one of its batches: whatever the      *)
(* synchronizer saves between the batches, nothing else is passed over.    *)
MissedOnlyByTie ==
  \A s \in Scanner : scan[s] = "meta" =>
    \A i \in Inst : age[i] < Offset =>
      i \in Later(s) \/ i \in metas[s] \/ age[i] \in passed[s]

Dead(i) ==
  /\ i \in listed \cap White /\ i \notin Skipped \cup healthy
  /\ HostOf[i] \notin up
  /\ age[i] < Offset

(* No other row has been saved at the same time.                           *)
Alone(i) == \A j \in Inst \ {i} : age[j] # age[i] \/ age[j] = Offset

(* A host that stays dead is reported again and again until it is handled, *)
(* for one of its instances at least, whichever of them stand for it in a  *)
(* double check - as long as its row shares its time with no other row,    *)
(* for of rows with one time a scan may lose some every time.              *)
DeadIsReported ==
  \A i \in Inst : ScansEnd /\ <>[](Dead(i) /\ Alone(i)) =>
    []<>(\E j \in reported : HostOf[j] = HostOf[i])

(* "ReadBusinessMetadata reads all metadata for a business": whoever is    *)
(* dead, listed and recent is reported.                                    *)
EveryRowIsRead ==
  \A i \in Inst : ScansEnd /\ <>[]Dead(i) =>
    []<>(\E j \in reported : HostOf[j] = HostOf[i])
=============================================================================
