--------------------------- MODULE MembershipProofs ---------------------------
(***************************************************************************)
(* Proofs about Membership and its hash ring, for any number of servers    *)
(* and businesses, any placement on the ring and any bound of the events,  *)
(* whoever loses a lease or a watch; and about the scan of the businesses  *)
(* that a server watches, for any number of rows and any size of batches.  *)
(***************************************************************************)
EXTENDS Membership, WellFoundedInduction, TLAPS

-----------------------------------------------------------------------------
(* The hash ring: every business has exactly one owner on a ring with      *)
(* servers.                                                                *)

LEMMA HasLowest ==
  ASSUME NEW P \in SUBSET Nat, P # {}
  PROVE  Lowest(P) \in P /\ \A m \in P : Lowest(P) <= m
<1>1. PICK n \in P : \A m \in P : <<m, n>> \notin OpToRel(<, Nat)
  BY NatLessThanWellFounded, WFMin
<1>2. ASSUME NEW m \in Nat, m < n PROVE <<m, n>> \in OpToRel(<, Nat)
  BY <1>2, Zenon DEF OpToRel
<1>3. ASSUME NEW m \in P PROVE ~(m < n)
  BY <1>1, <1>2, Zenon
<1>4. \A m \in P : n <= m
  BY <1>3
<1>5. QED
  BY <1>4 DEF Lowest

LEMMA LowestIs ==
  ASSUME NEW P \in SUBSET Nat, NEW n \in P, \A m \in P : n <= m
  PROVE  Lowest(P) = n
<1>1. Lowest(P) \in P /\ \A m \in P : Lowest(P) <= m
  BY HasLowest
<1>2. Lowest(P) <= n /\ n <= Lowest(P) /\ n \in Nat /\ Lowest(P) \in Nat
  BY <1>1
<1>3. QED
  BY <1>2

(* Where the search of get ends.                                           *)
After(S, b) == {n \in Nodes(S) : n >= At[b]}
Candidates(S, b) == IF After(S, b) = {} THEN Nodes(S) ELSE After(S, b)
Hit(S, b) == Lowest(Candidates(S, b))

LEMMA OwnerOnRing ==
  ASSUME NEW S \in SUBSET AM, S # {}, NEW b \in Biz
  PROVE  /\ Owner(S, b) \in S /\ Hit(S, b) \in Points[Owner(S, b)]
         /\ Candidates(S, b) \in SUBSET Nat /\ Hit(S, b) \in Candidates(S, b)
         /\ \A n \in Candidates(S, b) : Hit(S, b) <= n
<1>1. Nodes(S) \in SUBSET Nat /\ Nodes(S) # {}
  BY RingAssumption DEF Nodes
<1>2. Candidates(S, b) \in SUBSET Nodes(S) /\ Candidates(S, b) # {}
  BY <1>1 DEF Candidates, After
<1>3. /\ Hit(S, b) \in Candidates(S, b)
      /\ \A n \in Candidates(S, b) : Hit(S, b) <= n
  BY <1>1, <1>2, HasLowest DEF Hit
<1>4. \E a \in S : Hit(S, b) \in Points[a]
  BY <1>2, <1>3 DEF Nodes
<1>5. Owner(S, b) \in S /\ Hit(S, b) \in Points[Owner(S, b)]
  BY <1>4 DEF Owner, Hit, Candidates, After
<1>6. QED
  BY <1>1, <1>2, <1>3, <1>5

(* Consistent hashing: a server that joins a ring takes businesses only    *)
(* for itself, and one that leaves hands out only its own; all others stay *)
(* with who had them (consistentHash.get).                                 *)
THEOREM JoinTakesForItself ==
  ASSUME NEW S \in SUBSET AM, S # {}, NEW a \in AM, NEW b \in Biz
  PROVE  Owner(S \cup {a}, b) \in {a, Owner(S, b)}
<1> DEFINE T == S \cup {a}
<1>1. T \in SUBSET AM /\ T # {}
  OBVIOUS
<1>2. /\ Owner(T, b) \in T /\ Hit(T, b) \in Points[Owner(T, b)]
      /\ Hit(T, b) \in Candidates(T, b) /\ \A n \in Candidates(T, b) : Hit(T, b) <= n
  BY <1>1, OwnerOnRing
<1>3. /\ Owner(S, b) \in S /\ Hit(S, b) \in Points[Owner(S, b)]
      /\ Candidates(S, b) \in SUBSET Nat
  BY OwnerOnRing
<1>4. Nodes(S) \subseteq Nodes(T) /\ After(S, b) \subseteq After(T, b)
  BY DEF Nodes, After
<1> HIDE DEF T
<1>5. ASSUME Owner(T, b) # a
      PROVE  Owner(T, b) = Owner(S, b)
  <2>1. Owner(T, b) \in S /\ Hit(T, b) \in Nodes(S)
    BY <1>2, <1>5 DEF T, Nodes
  <2>2. Hit(T, b) \in Candidates(S, b) /\ Candidates(S, b) \subseteq Candidates(T, b)
    <3>1. CASE After(T, b) = {}
      BY <1>4, <2>1, <3>1 DEF Candidates
    <3>2. CASE After(T, b) # {}
      BY <1>2, <1>4, <2>1, <3>2 DEF Candidates, After
    <3>3. QED
      BY <3>1, <3>2
  <2>3. Hit(S, b) = Hit(T, b)
    <3>1. \A n \in Candidates(S, b) : Hit(T, b) <= n
      BY <1>2, <2>2
    <3>2. QED
      BY <1>3, <2>2, <3>1, LowestIs DEF Hit
  <2>4. Points[Owner(T, b)] \cap Points[Owner(S, b)] # {}
    BY <1>2, <1>3, <2>3
  <2>5. QED
    BY <1>3, <2>1, <2>4, RingAssumption
<1>6. QED
  BY <1>5 DEF T

-----------------------------------------------------------------------------
(* The registry: what a write does to the list and to the events.          *)

(* Whoever watches has something to receive once the list has changed:     *)
(* only the deletion of a key that is not there is silent, and an event is *)
(* left out of the count only where others wait already.                   *)
LEMMA SetKeyEffect ==
  ASSUME TypeOK, NEW a \in AM, NEW v \in {"absent", "empty", "info"}, SetKey(a, v)
  PROVE  /\ key' \in [AM -> {"absent", "empty", "info"}]
         /\ key'[a] = v /\ \A c \in AM \ {a} : key'[c] = key[c]
         /\ events' \in [AM -> 0 .. MaxEvents]
         /\ \A c \in AM : watch[c] = "on" /\ events'[c] = 0 =>
              events[c] = 0 /\ Listed' = Listed
<1>1. /\ key' \in [AM -> {"absent", "empty", "info"}]
      /\ key'[a] = v /\ \A c \in AM \ {a} : key'[c] = key[c]
  BY DEF SetKey, TypeOK
<1>2. events' \in [AM -> 0 .. MaxEvents]
  BY MembershipAssumption DEF SetKey, TypeOK
<1>3. ASSUME NEW c \in AM, watch[c] = "on", events'[c] = 0
      PROVE  events[c] = 0 /\ v = "absent" /\ key[a] = "absent"
  <2>1. /\ events'[c] = IF ~(v = "absent" /\ key[a] = "absent")
                           /\ events[c] < MaxEvents
                        THEN events[c] + 1 ELSE events[c]
        /\ events[c] \in Nat
    BY <1>3 DEF SetKey, TypeOK
  <2>2. QED
    BY <1>3, <2>1, MembershipAssumption
<1>4. ASSUME v = "absent", key[a] = "absent" PROVE Listed' = Listed
  BY <1>1, <1>4 DEF Listed
<1>5. QED
  BY <1>1, <1>2, <1>3, <1>4

-----------------------------------------------------------------------------
(* Type correctness.  A key is written under a lease only, and deleted     *)
(* when its lease ends.                                                    *)

LEMMA TypeRegistry ==
  ASSUME TypeOK, NEW a \in AM, RegistryStep(a) PROVE TypeOK'
<1>1. CASE UpdateInfo(a)
  BY <1>1 DEF UpdateInfo, TypeOK, discovery
<1>2. CASE Grant(a)
  <2>1. SetKey(a, "empty")
    BY <1>2 DEF Grant
  <2>2. QED
    BY <1>2, <2>1, SetKeyEffect DEF Grant, TypeOK, discovery
<1>3. ASSUME NEW c \in {"nil", "open"}, GrantFails(a, c) PROVE TypeOK'
  BY <1>3 DEF GrantFails, TypeOK, discovery
<1>4. ASSUME NEW v \in {"absent", "empty"}, GrantPutFails(a, v) PROVE TypeOK'
  <2>1. SetKey(a, v)
    BY <1>4 DEF GrantPutFails
  <2>2. QED
    BY <1>4, <2>1, SetKeyEffect DEF GrantPutFails, TypeOK, discovery
<1>5. CASE PutInfo(a)
  <2>1. SetKey(a, "info")
    BY <1>5 DEF PutInfo
  <2>2. QED
    BY <1>5, <2>1, SetKeyEffect DEF PutInfo, TypeOK, discovery
<1>6. CASE PutInfoFails(a)
  BY <1>6 DEF PutInfoFails, TypeOK, discovery
<1>7. QED
  BY <1>1, <1>2, <1>3, <1>4, <1>5, <1>6 DEF RegistryStep

LEMMA TypeWatch ==
  ASSUME TypeOK, NEW a \in AM, WatchStep(a) \/ WatchBreaks(a) PROVE TypeOK'
<1>1. CASE WatchWithPrefix(a)
  BY <1>1 DEF WatchWithPrefix, TypeOK, registry
<1>2. CASE WatchWithPrefixFails(a)
  BY <1>2 DEF WatchWithPrefixFails, TypeOK, registry
<1>3. CASE GetWithPrefix(a)
  BY <1>3 DEF GetWithPrefix, TypeOK, registry, Listed
<1>4. CASE GetWithPrefixFails(a)
  BY <1>4 DEF GetWithPrefixFails, TypeOK, registry
<1>5. CASE Rebuild(a)
  BY <1>5 DEF Rebuild, TypeOK, registry
<1>6. CASE Receive(a)
  BY <1>6, MembershipAssumption DEF Receive, TypeOK, registry
<1>7. CASE WatchReturns(a)
  BY <1>7 DEF WatchReturns, TypeOK, registry
<1>8. CASE NilClientPanic(a)
  BY <1>8, MembershipAssumption DEF NilClientPanic, Halt, TypeOK
<1>9. CASE WatchBreaks(a)
  BY <1>9 DEF WatchBreaks, TypeOK, registry
<1>10. QED
  BY <1>1, <1>2, <1>3, <1>4, <1>5, <1>6, <1>7, <1>8, <1>9 DEF WatchStep

LEMMA TypeStep == TypeOK /\ [Next]_vars => TypeOK'
<1> SUFFICES ASSUME TypeOK, [Next]_vars PROVE TypeOK'
  OBVIOUS
<1>1. ASSUME NEW a \in AM, Start(a) PROVE TypeOK'
  BY <1>1 DEF Start, TypeOK, discovery
<1>2. ASSUME NEW a \in AM, Crash(a) PROVE TypeOK'
  BY <1>2, MembershipAssumption DEF Crash, Halt, TypeOK
<1>3. ASSUME NEW a \in AM, LoseLease(a) \/ ExpireLease(a) PROVE TypeOK'
  <2>1. /\ SetKey(a, "absent")
        /\ lease' = [lease EXCEPT ![a] = "gone"]
        /\ UNCHANGED <<phase, cli, rpc, discovery>>
    BY <1>3 DEF LoseLease, ExpireLease
  <2>2. QED
    BY <2>1, SetKeyEffect DEF TypeOK, discovery
<1>4. CASE UNCHANGED vars
  BY <1>4 DEF vars, registry, discovery, TypeOK
<1>5. QED
  BY <1>1, <1>2, <1>3, <1>4, TypeRegistry, TypeWatch DEF Next

(* Every reachable state is well typed, and a key is there only under a    *)
(* lease that still runs.                                                  *)
THEOREM TypeCorrect == Spec => []TypeOK
<1>1. Init => TypeOK
  BY MembershipAssumption DEF Init, TypeOK
<1>2. QED
  BY <1>1, TypeStep, PTL DEF Spec

-----------------------------------------------------------------------------
(* The inductive invariant.  A server that watches and has nothing left to *)
(* receive has read the present list, be the ring rebuilt from it or not:  *)
(* every change of the list since then would have left it an event.        *)

Quiet(a) == watch[a] = "on" /\ events[a] = 0

ListCurrent ==
  \A a \in AM : Quiet(a) /\ dpc[a] = "rebuild" => got[a] = Listed

RebuiltCurrent ==
  \A a \in AM : Quiet(a) /\ dpc[a] = "loop" /\ ~fell[a] => ring[a] = Target(a)

IInv == TypeOK /\ ListCurrent /\ RebuiltCurrent

(* Whatever writes or deletes a key and leaves the readers alone.          *)
LEMMA KeyChange ==
  ASSUME IInv, NEW a \in AM, NEW v \in {"absent", "empty", "info"},
         SetKey(a, v), UNCHANGED discovery
  PROVE  ListCurrent' /\ RebuiltCurrent'
<1>1. \A c \in AM : Quiet(c)' => Quiet(c) /\ Listed' = Listed
  BY SetKeyEffect DEF IInv, Quiet, discovery
<1>2. QED
  BY <1>1 DEF IInv, ListCurrent, RebuiltCurrent, Target, discovery

(* Whatever leaves the registry alone, when it touches the reader a only.  *)
LEMMA OthersKeep ==
  ASSUME IInv, NEW a \in AM, key' = key,
         \A c \in AM \ {a} : /\ watch'[c] = watch[c] /\ events'[c] = events[c]
                             /\ dpc'[c] = dpc[c] /\ got'[c] = got[c]
                             /\ fell'[c] = fell[c] /\ ring'[c] = ring[c],
         Quiet(a)' /\ dpc'[a] = "rebuild" => got'[a] = Listed',
         Quiet(a)' /\ dpc'[a] = "loop" /\ ~fell'[a] => ring'[a] = Target(a)'
  PROVE  ListCurrent' /\ RebuiltCurrent'
<1>1. Listed' = Listed
  BY DEF Listed
<1>2. QED
  BY <1>1 DEF IInv, ListCurrent, RebuiltCurrent, Target, Quiet

LEMMA HaltKeeps ==
  ASSUME IInv, NEW a \in AM, Halt(a)
  PROVE  ListCurrent' /\ RebuiltCurrent'
<1>1. /\ watch'[a] = "off" /\ key' = key
      /\ \A c \in AM \ {a} : /\ watch'[c] = watch[c] /\ events'[c] = events[c]
                             /\ dpc'[c] = dpc[c] /\ got'[c] = got[c]
                             /\ fell'[c] = fell[c] /\ ring'[c] = ring[c]
  BY DEF Halt, IInv, TypeOK
<1>2. ~Quiet(a)'
  BY <1>1 DEF Quiet
<1>3. QED
  BY <1>1, <1>2, OthersKeep

LEMMA RegistryKeeps ==
  ASSUME IInv, NEW a \in AM,
         Start(a) \/ RegistryStep(a) \/ LoseLease(a) \/ ExpireLease(a)
  PROVE  ListCurrent' /\ RebuiltCurrent'
<1>1. UNCHANGED discovery
  BY DEF Start, RegistryStep, UpdateInfo, Grant, GrantFails, GrantPutFails,
         PutInfo, PutInfoFails, LoseLease, ExpireLease
<1>2. CASE UNCHANGED <<key, events>>
  BY <1>1, <1>2
     DEF IInv, ListCurrent, RebuiltCurrent, Target, Listed, Quiet, discovery
<1>3. CASE \E v \in {"absent", "empty", "info"} : SetKey(a, v)
  BY <1>1, <1>3, KeyChange
<1>4. QED
  BY <1>2, <1>3
     DEF Start, RegistryStep, UpdateInfo, Grant, GrantFails, GrantPutFails,
         PutInfo, PutInfoFails, LoseLease, ExpireLease

LEMMA WatchKeeps ==
  ASSUME IInv, NEW a \in AM, WatchStep(a) \/ WatchBreaks(a)
  PROVE  ListCurrent' /\ RebuiltCurrent'
<1> USE DEF IInv, TypeOK
<1>1. CASE NilClientPanic(a)
  BY <1>1, HaltKeeps DEF NilClientPanic
<1>2. ASSUME ~NilClientPanic(a)
      PROVE  /\ key' = key
             /\ \A c \in AM \ {a} :
                  /\ watch'[c] = watch[c] /\ events'[c] = events[c]
                  /\ dpc'[c] = dpc[c] /\ got'[c] = got[c]
                  /\ fell'[c] = fell[c] /\ ring'[c] = ring[c]
  BY <1>2 DEF WatchStep, WatchWithPrefix, WatchWithPrefixFails, GetWithPrefix,
         GetWithPrefixFails, Rebuild, Receive, WatchReturns, WatchBreaks, registry
<1>3. CASE GetWithPrefix(a)
  <2>1. dpc'[a] = "rebuild" /\ got'[a] = Listed /\ key' = key
    BY <1>3 DEF GetWithPrefix
  <2>2. Listed' = Listed
    BY <2>1 DEF Listed
  <2>3. ~NilClientPanic(a)
    BY <1>3 DEF GetWithPrefix, NilClientPanic
  <2>4. QED
    BY <2>1, <2>2, <2>3, <1>2, OthersKeep
<1>4. CASE Rebuild(a)
  <2>1. /\ dpc'[a] = "loop" /\ key' = key /\ UNCHANGED <<watch, events>>
        /\ ring'[a] = (IF got[a] = {} THEN {a} ELSE got[a])
    BY <1>4 DEF Rebuild
  <2>2. Listed' = Listed
    BY <2>1 DEF Listed
  <2>3. Quiet(a)' => ring'[a] = Target(a)'
    BY <1>4, <2>1, <2>2 DEF Rebuild, ListCurrent, Quiet, Target
  <2>4. ~NilClientPanic(a)
    BY <1>4 DEF Rebuild, NilClientPanic
  <2>5. QED
    BY <2>1, <2>3, <2>4, <1>2, OthersKeep
<1>5. CASE GetWithPrefixFails(a)
  <2>1. dpc'[a] = "loop" /\ fell'[a]
    BY <1>5 DEF GetWithPrefixFails
  <2>2. ~NilClientPanic(a)
    BY <1>5 DEF GetWithPrefixFails, NilClientPanic
  <2>3. QED
    BY <2>1, <2>2, <1>2, OthersKeep
<1>6. CASE WatchWithPrefix(a) \/ WatchWithPrefixFails(a) \/ Receive(a) \/ WatchReturns(a)
  <2>1. dpc'[a] \in {"list", "gone"}
    BY <1>6 DEF WatchWithPrefix, WatchWithPrefixFails, Receive, WatchReturns
  <2>2. ~NilClientPanic(a)
    BY <1>6 DEF WatchWithPrefix, WatchWithPrefixFails, Receive, WatchReturns,
           NilClientPanic
  <2>3. QED
    BY <2>1, <2>2, <1>2, OthersKeep
<1>7. CASE WatchBreaks(a)
  <2>1. ~Quiet(a)' /\ ~NilClientPanic(a)
    BY <1>7 DEF WatchBreaks, NilClientPanic, Quiet
  <2>2. QED
    BY <2>1, <1>2, OthersKeep
<1>8. QED
  BY <1>1, <1>3, <1>4, <1>5, <1>6, <1>7 DEF WatchStep

LEMMA IInvStep == IInv /\ [Next]_vars => IInv'
<1> SUFFICES ASSUME IInv, [Next]_vars PROVE IInv'
  OBVIOUS
<1>t. TypeOK'
  BY TypeStep DEF IInv
<1>1. ASSUME NEW a \in AM, Crash(a) PROVE ListCurrent' /\ RebuiltCurrent'
  BY <1>1, HaltKeeps DEF Crash
<1>2. CASE UNCHANGED vars
  BY <1>2, <1>t DEF IInv, ListCurrent, RebuiltCurrent, Target, Listed, Quiet, vars,
              registry, discovery
<1>3. QED
  BY <1>t, <1>1, <1>2, RegistryKeeps, WatchKeeps DEF Next, IInv

LEMMA IInvAlways == Spec => []IInv
<1>1. Init => IInv
  BY MembershipAssumption
     DEF Init, IInv, TypeOK, ListCurrent, RebuiltCurrent
<1>2. QED
  BY <1>1, IInvStep, PTL DEF Spec

(* No change of the registry is missed between the reading of the list,    *)
(* the watch and the rebuilding of the ring, whoever registers, dies or    *)
(* loses a lease meanwhile, however many events are folded into one.       *)
THEOREM NothingMissed == Spec => []RingCurrent
<1>1. IInv => RingCurrent
  BY DEF IInv, RebuiltCurrent, RingCurrent, Caught, Quiet
<1>2. QED
  BY <1>1, IInvAlways, PTL

(* Servers that have caught up agree on who watches what: no two of them   *)
(* assign themselves the same business, and when all the registered ones   *)
(* have, each business is assigned to one.                                 *)
OneWatcher ==
  Listed # {} =>
    \A b \in Biz :
      /\ \A a, c \in AM :
           /\ Caught(a) /\ Caught(c)
           /\ b \in Assigned(a) /\ b \in Assigned(c)
           => a = c
      /\ (\A a \in Listed : Caught(a)) => \E a \in Listed : b \in Assigned(a)

(* Sharding is exact once the news has spread: rings that agree give each  *)
(* business one owner.                                                     *)
THEOREM SharedExactly == Spec => []OneWatcher
<1>1. RingCurrent => OneWatcher
  <2> SUFFICES ASSUME RingCurrent, Listed # {}, NEW b \in Biz
      PROVE  /\ \A a, c \in AM :
                  /\ Caught(a) /\ Caught(c)
                  /\ b \in Assigned(a) /\ b \in Assigned(c)
                  => a = c
             /\ (\A a \in Listed : Caught(a)) => \E a \in Listed : b \in Assigned(a)
    BY DEF OneWatcher
  <2>1. \A a \in AM : Caught(a) => (b \in Assigned(a) <=> Owner(Listed, b) = a)
    BY DEF RingCurrent, Target, Assigned
  <2>2. Listed \in SUBSET AM
    BY DEF Listed
  <2>3. Owner(Listed, b) \in Listed
    BY <2>2, OwnerOnRing
  <2>4. QED
    BY <2>1, <2>2, <2>3
<1>2. QED
  BY <1>1, NothingMissed, PTL

-----------------------------------------------------------------------------
(* The scan of a business that a server watches. *)

CONSTANTS
  Server, Scanner, Inst, HostOf, BucketOf, Buckets, Skipped, White, BatchCount,
  Offset, Nobody, MaxChanges

VARIABLES
  listed, age, healthy, bad, up, changes, leader, sync, bucket, answer, lock,
  scan, cursor, metas, passed, tasks, reported

Scan == INSTANCE BusinessScan

Ages == 0 .. Offset

(* The cursor is the time of the last row of some batch.                   *)
ReadInv ==
  /\ age \in [Inst -> Ages] /\ cursor \in [Scanner -> Ages]
  /\ scan \in [Scanner -> {"idle", "meta", "status", "check"}]
  /\ metas \in [Scanner -> SUBSET Inst] /\ passed \in [Scanner -> SUBSET Ages]
  /\ \A s \in Scanner : scan[s] = "meta" => cursor[s] = Offset \/ cursor[s] \in passed[s]

LEMMA OlderAge ==
  ASSUME Offset \in Nat \ {0}, NEW a \in Ages
  PROVE  /\ Scan!Older(a) \in Ages
         /\ Scan!Older(a) = Offset \/ (a < Offset /\ Scan!Older(a) = a + 1)
  BY DEF Scan!Older, Ages

LEMMA BatchRead ==
  ASSUME Offset \in Nat \ {0}, ReadInv, Scan!MissedOnlyByTie,
         NEW s \in Scanner, NEW B, Scan!ReadMetadataCache(s, B)
  PROVE  ReadInv' /\ Scan!MissedOnlyByTie'
<1>1. PICK l \in B : /\ \A j \in B : age[l] <= age[j]
                     /\ cursor' = [cursor EXCEPT ![s] = age[l]]
                     /\ passed' = [passed EXCEPT ![s] = @ \cup {age[l]}]
  BY DEF Scan!ReadMetadataCache
<1>2. /\ UNCHANGED <<age, scan>> /\ metas' = [metas EXCEPT ![s] = @ \cup B]
      /\ B \subseteq Scan!Later(s) /\ scan[s] = "meta"
      /\ \A i \in B, j \in Scan!Later(s) \ B : age[i] >= age[j]
  BY DEF Scan!ReadMetadataCache, Scan!Batch
<1>3. Scan!Later(s) \subseteq Inst /\ l \in Inst /\ age[l] \in Ages /\ age[l] < cursor[s]
  BY <1>1, <1>2 DEF Scan!Later, ReadInv
<1>4. ReadInv'
  BY <1>1, <1>2, <1>3 DEF ReadInv
<1>5. ASSUME NEW i \in Inst, age[i] < Offset
      PROVE  age[i] < age[l] \/ i \in metas'[s] \/ age[i] \in passed'[s]
  <2>1. metas'[s] = metas[s] \cup B /\ passed'[s] = passed[s] \cup {age[l]}
    BY <1>1, <1>2 DEF ReadInv
  <2>2. i \in Scan!Later(s) \/ i \in metas[s] \/ age[i] \in passed[s]
    BY <1>2, <1>5 DEF Scan!MissedOnlyByTie
  <2>3. CASE i \in Scan!Later(s) \ B
    <3>1. age[l] >= age[i] /\ age[i] \in Ages
      BY <1>2, <2>3 DEF ReadInv
    <3>2. age[i] < age[l] \/ age[i] = age[l]
      BY <1>3, <3>1 DEF Ages
    <3>3. QED
      BY <2>1, <3>2
  <2>4. QED
    BY <2>1, <2>2, <2>3
<1>6. ASSUME NEW t \in Scanner, t # s
      PROVE  UNCHANGED <<scan[t], cursor[t], metas[t], passed[t]>>
  BY <1>1, <1>2, <1>6 DEF ReadInv
<1>7. cursor'[s] = age[l]
  BY <1>1 DEF ReadInv
<1>8. QED
  BY <1>2, <1>4, <1>5, <1>6, <1>7 DEF Scan!MissedOnlyByTie, Scan!Later

(* A row that is saved gets the newest time: ahead of every cursor, but of *)
(* one that has come to rows of this very time.                            *)
LEMMA RowsSaved ==
  ASSUME Offset \in Nat \ {0}, ReadInv, Scan!MissedOnlyByTie,
         NEW a \in Server, Scan!SaveRespond(a)
  PROVE  ReadInv' /\ Scan!MissedOnlyByTie'
<1>1. /\ age' = [i \in Inst |-> IF i \in answer[a] THEN 0 ELSE age[i]]
      /\ UNCHANGED <<scan, cursor, metas, passed>>
  BY DEF Scan!SaveRespond, Scan!scanner
<1>2. ReadInv'
  BY <1>1 DEF ReadInv, Ages
<1>3. ASSUME NEW s \in Scanner, scan[s] = "meta", NEW i \in Inst, age'[i] < Offset
      PROVE  age'[i] < cursor[s] \/ i \in metas[s] \/ age'[i] \in passed[s]
  <2>1. CASE i \in answer[a]
    <3>1. age'[i] = 0 /\ cursor[s] \in Ages
      BY <1>1, <2>1 DEF ReadInv
    <3>2. 0 < cursor[s] \/ cursor[s] = 0
      BY <3>1 DEF Ages
    <3>3. QED
      BY <1>3, <3>1, <3>2 DEF ReadInv
  <2>2. CASE i \notin answer[a]
    BY <1>1, <1>3, <2>2 DEF Scan!MissedOnlyByTie, Scan!Later
  <2>3. QED
    BY <2>1, <2>2
<1>4. QED
  BY <1>1, <1>2, <1>3 DEF Scan!MissedOnlyByTie, Scan!Later

LEMMA TimePasses ==
  ASSUME Offset \in Nat \ {0}, ReadInv, Scan!MissedOnlyByTie, Scan!Tick
  PROVE  ReadInv' /\ Scan!MissedOnlyByTie'
<1>1. /\ age' = [i \in Inst |-> Scan!Older(age[i])]
      /\ cursor' = [s \in Scanner |-> Scan!Older(cursor[s])]
      /\ passed' = [s \in Scanner |-> {Scan!Older(a) : a \in passed[s]}]
      /\ UNCHANGED <<scan, metas>>
  BY DEF Scan!Tick
<1>2. age' \in [Inst -> Ages] /\ cursor' \in [Scanner -> Ages]
  BY <1>1, OlderAge DEF ReadInv
<1>3. passed' \in [Scanner -> SUBSET Ages]
  <2>1. ASSUME NEW s \in Scanner PROVE {Scan!Older(a) : a \in passed[s]} \in SUBSET Ages
    BY OlderAge DEF ReadInv
  <2>2. QED
    BY <1>1, <2>1
<1>4. ASSUME NEW s \in Scanner, scan[s] = "meta"
      PROVE  cursor'[s] = Offset \/ cursor'[s] \in passed'[s]
  <2>1. cursor'[s] = Scan!Older(cursor[s]) /\ passed'[s] = {Scan!Older(a) : a \in passed[s]}
    BY <1>1
  <2>2. Scan!Older(Offset) = Offset
    BY DEF Scan!Older
  <2>3. QED
    BY <1>4, <2>1, <2>2 DEF ReadInv
<1>5. ReadInv'
  BY <1>1, <1>2, <1>3, <1>4 DEF ReadInv
<1>6. ASSUME NEW s \in Scanner, scan[s] = "meta", NEW i \in Inst, age'[i] < Offset
      PROVE  age'[i] < cursor'[s] \/ i \in metas[s] \/ age'[i] \in passed'[s]
  <2>1. /\ age'[i] = Scan!Older(age[i]) /\ cursor'[s] = Scan!Older(cursor[s])
        /\ passed'[s] = {Scan!Older(a) : a \in passed[s]}
    BY <1>1
  <2>2. age[i] \in Ages /\ cursor[s] \in Ages
    BY DEF ReadInv
  <2>3. age[i] < Offset /\ age'[i] = age[i] + 1
    BY <1>6, <2>1, <2>2, OlderAge DEF Ages
  <2>4. age[i] < cursor[s] \/ i \in metas[s] \/ age[i] \in passed[s]
    BY <1>6, <2>3 DEF Scan!MissedOnlyByTie, Scan!Later
  <2>5. ASSUME age[i] < cursor[s] PROVE age'[i] < cursor'[s]
    <3>1. cursor'[s] = Offset \/ cursor'[s] = cursor[s] + 1
      BY <2>1, <2>2, OlderAge
    <3>2. QED
      BY <1>6, <2>2, <2>3, <2>5, <3>1 DEF Ages
  <2>6. QED
    BY <2>1, <2>4, <2>5
<1>7. QED
  BY <1>1, <1>5, <1>6 DEF Scan!MissedOnlyByTie, Scan!Later

(* Steps that leave the rows alone, and of each scan either all that it    *)
(* has read, or the fact that it is reading.                               *)
LEMMA ScanElsewhere ==
  ASSUME ReadInv, Scan!MissedOnlyByTie, ReadInv', age' = age,
         \A s \in Scanner : scan'[s] = "meta" =>
           scan[s] = "meta" /\ UNCHANGED <<cursor[s], metas[s], passed[s]>>
  PROVE  Scan!MissedOnlyByTie'
  BY DEF Scan!MissedOnlyByTie, Scan!Later

LEMMA ScanEnds ==
  ASSUME ReadInv, Scan!MissedOnlyByTie, NEW s \in Scanner, Scan!Ends(s)
  PROVE  ReadInv' /\ Scan!MissedOnlyByTie'
<1>1. /\ scan' = [scan EXCEPT ![s] = "idle"] /\ metas' = [metas EXCEPT ![s] = {}]
      /\ passed' = [passed EXCEPT ![s] = {}] /\ UNCHANGED <<age, cursor>>
  BY DEF Scan!Ends
<1>2. ReadInv'
  BY <1>1 DEF ReadInv
<1>3. QED
  BY <1>1, <1>2, ScanElsewhere DEF ReadInv

LEMMA ScanStep ==
  ASSUME Offset \in Nat \ {0}, ReadInv, Scan!MissedOnlyByTie, [Scan!Next]_(Scan!vars)
  PROVE  ReadInv' /\ Scan!MissedOnlyByTie'
<1>1. ASSUME UNCHANGED <<age, scan, cursor, metas, passed>>
      PROVE  ReadInv' /\ Scan!MissedOnlyByTie'
  BY <1>1 DEF ReadInv, Scan!MissedOnlyByTie, Scan!Later
<1>2. ASSUME NEW s \in Scanner, Scan!AcquireScanLock(s)
      PROVE  ReadInv' /\ Scan!MissedOnlyByTie'
  <2>1. /\ scan' = [scan EXCEPT ![s] = "meta"] /\ cursor' = [cursor EXCEPT ![s] = Offset]
        /\ metas' = [metas EXCEPT ![s] = {}] /\ UNCHANGED <<age, passed>>
    BY <1>2 DEF Scan!AcquireScanLock
  <2>2. ReadInv'
    BY <2>1 DEF ReadInv, Ages
  <2>3. ASSUME NEW t \in Scanner, t # s
        PROVE  UNCHANGED <<scan[t], cursor[t], metas[t], passed[t]>>
    BY <2>1, <2>3 DEF ReadInv
  <2>4. cursor'[s] = Offset
    BY <2>1 DEF ReadInv
  <2>5. QED
    BY <2>1, <2>2, <2>3, <2>4 DEF Scan!MissedOnlyByTie, Scan!Later
<1>3. ASSUME NEW s \in Scanner, Scan!FilterByWhitelistForScan(s)
      PROVE  ReadInv' /\ Scan!MissedOnlyByTie'
  <2>1. CASE Scan!Ends(s)
    BY <2>1, ScanEnds
  <2>2. CASE ~Scan!Ends(s)
    <3>1. /\ scan' = [scan EXCEPT ![s] = "status"] /\ passed' = [passed EXCEPT ![s] = {}]
          /\ metas' = [metas EXCEPT ![s] = Scan!Whitelisted(@)] /\ UNCHANGED <<age, cursor>>
      BY <1>3, <2>2 DEF Scan!FilterByWhitelistForScan
    <3>2. Scan!Whitelisted(metas[s]) \in SUBSET Inst
      BY DEF Scan!Whitelisted, ReadInv
    <3>3. ReadInv'
      BY <3>1, <3>2 DEF ReadInv
    <3>4. QED
      BY <3>1, <3>3, ScanElsewhere DEF ReadInv
  <2>3. QED
    BY <2>1, <2>2
<1>4. ASSUME NEW s \in Scanner, NEW M, NEW E, Scan!RunBusinessChecks(s, M, E)
      PROVE  ReadInv' /\ Scan!MissedOnlyByTie'
  <2>1. /\ scan' = [scan EXCEPT ![s] = "check"] /\ UNCHANGED <<age, cursor, metas, passed>>
    BY <1>4 DEF Scan!RunBusinessChecks
  <2>2. ReadInv'
    BY <1>4, <2>1 DEF ReadInv, Scan!RunBusinessChecks
  <2>3. QED
    BY <2>1, <2>2, ScanElsewhere DEF ReadInv
<1>5. ASSUME NEW s \in Scanner, Scan!ScanFails(s) \/ Scan!ChecksDone(s)
      PROVE  ReadInv' /\ Scan!MissedOnlyByTie'
  BY <1>5, ScanEnds DEF Scan!ScanFails, Scan!ChecksDone
<1>6. ASSUME NEW s \in Scanner, NEW t, Scan!LivenessDoubleCheck(s, t)
      PROVE  ReadInv' /\ Scan!MissedOnlyByTie'
  BY <1>1, <1>6 DEF Scan!LivenessDoubleCheck
<1>7. ASSUME NEW a \in Server,
             \/ Scan!Campaign(a) \/ Scan!CampaignFails(a) \/ Scan!CreateElection(a)
             \/ Scan!ElectionDone(a) \/ Scan!RequestMetadata(a)
             \/ Scan!RequestMetadataFails(a) \/ Scan!EndRound(a)
      PROVE  ReadInv' /\ Scan!MissedOnlyByTie'
  BY <1>1, <1>7
     DEF Scan!Campaign, Scan!CampaignFails, Scan!CreateElection, Scan!ElectionDone,
         Scan!RequestMetadata, Scan!RequestMetadataFails, Scan!EndRound, Scan!scanner
<1>8. CASE Scan!LoseLease \/ Scan!Change \/ Scan!PopAndMarkStart \/ UNCHANGED Scan!vars
  BY <1>1, <1>8
     DEF Scan!LoseLease, Scan!Change, Scan!PopAndMarkStart, Scan!vars, Scan!scanner
<1>9. QED
  BY <1>2, <1>3, <1>4, <1>5, <1>6, <1>7, <1>8, BatchRead, RowsSaved, TimePasses
     DEF Scan!Next, Scan!SyncStep, Scan!ReadStep, Scan!CheckStep

(* ReadBusinessMetadata passes over no recent row but those that have one  *)
(* time with the last row of a batch, for any number of rows, servers that *)
(* save them and sizes of batches (dbha_data.go).                          *)
THEOREM OnlyTiesAreMissed ==
  ASSUME Offset \in Nat \ {0}
  PROVE  Scan!Spec => []Scan!MissedOnlyByTie
<1>1. Scan!Init => ReadInv /\ Scan!MissedOnlyByTie
  BY DEF Scan!Init, ReadInv, Ages, Scan!MissedOnlyByTie
<1>2. ReadInv /\ Scan!MissedOnlyByTie /\ [Scan!Next]_(Scan!vars)
      => ReadInv' /\ Scan!MissedOnlyByTie'
  BY ScanStep
<1>3. QED
  BY <1>1, <1>2, PTL DEF Scan!Spec
=============================================================================
