-------------------------- MODULE LockTrackerProofs --------------------------
(***************************************************************************)
(* Proofs about LockTracker, for any number of servers, passes, businesses *)
(* and sessions, and whichever servers keep their leases.                  *)
(***************************************************************************)
EXTENDS LockTracker, FiniteSetTheorems, TLAPS

(* A pass that has etcd's answer, or the tracker's last reference, in hand. *)
Using(p) == pc[p] \in {"won", "unlock"}

(* A pass has a session in hand exactly while it is between etcd and the   *)
(* tracker.                                                                *)
SidInHand == \A p \in Pass : Using(p) <=> sid[p] # None

KeptOrNot == \A s \in Session : keeper[s] # None <=> sess[s] \in {"live", "lost"}

TypeInv == TypeOK /\ SidInHand /\ KeptOrNot

(* A session is claimed by the server that has it in a hold and by the     *)
(* pass that has it in hand.  A session has one claim at most,             *)
OneClaim ==
  /\ \A p, q \in Pass : Using(p) /\ Using(q) /\ sid[p] = sid[q] => p = q
  /\ \A p \in Pass, a \in AM, b \in Biz :
       Using(p) /\ Held(a, b) => sid[p] # holds[a][b].sid
  /\ \A a, c \in AM, b, d \in Biz :
       Held(a, b) /\ Held(c, d) /\ holds[a][b].sid = holds[c][d].sid
         => a = c /\ b = d

(* and is kept by the server that claims it,                               *)
ClaimKept ==
  /\ \A a \in AM, b \in Biz : Held(a, b) => keeper[holds[a][b].sid] = a
  /\ \A p \in Pass : Using(p) => keeper[sid[p]] = AMOf[p]

(* each etcd key belongs to a session that etcd has not dropped,           *)
OwnersDistinct ==
  /\ \A b \in Biz : owner[b] # None => sess[owner[b]] \in {"live", "orphan"}
  /\ \A b, c \in Biz : owner[b] = owner[c] /\ owner[b] # None => b = c

(* and the claims of servers that keep their leases are backed by etcd.    *)
Backed ==
  /\ \A a \in Steady, b \in Biz :
       Held(a, b) => /\ sess[holds[a][b].sid] = "live"
                     /\ owner[b] = holds[a][b].sid
  /\ \A p \in Pass :
       Using(p) /\ AMOf[p] \in Steady =>
         sess[sid[p]] = "live" /\ owner[biz[p]] = sid[p]

Claims == OneClaim /\ ClaimKept /\ OwnersDistinct /\ Backed

IInv == TypeInv /\ Claims /\ RefCountExact

-----------------------------------------------------------------------------
(* Types. *)

(* A hold is a record with a positive count. *)
LEMMA HoldTyped ==
  ASSUME TypeOK, NEW a \in AM, NEW b \in Biz
  PROVE  /\ Held(a, b) => holds[a][b] \in Hold
         /\ Held(a, b) <=> holds[a][b].ref # 0
         /\ holds[a][b].ref \in Nat
         /\ ~Held(a, b) => holds[a][b].sid = None /\ holds[a][b].ref = 0
BY DEF TypeOK, Held, Hold, NoHold

LEMMA InitTypes == Init => TypeInv
BY LockAssumption DEF Init, TypeInv, TypeOK, SidInHand, KeptOrNot, Using,
                      SessionState, Hold, NoHold

LEMMA NextTypes == TypeInv /\ [Next]_vars => TypeInv'
<1> SUFFICES ASSUME TypeInv, [Next]_vars PROVE TypeInv'
  OBVIOUS
<1> USE LockAssumption
<1>1. ASSUME NEW p \in Pass, NEW b \in Biz, FastPath(p, b) PROVE TypeInv'
  <2> DEFINE a == AMOf[p]
  <2>1. a \in AM /\ holds[a][b] \in Hold
    BY <1>1, HoldTyped DEF FastPath, TypeInv
  <2>2. [holds[a][b] EXCEPT !.ref = @ + 1] \in Hold
    BY <2>1 DEF Hold
  <2>3. holds' \in [AM -> [Biz -> Hold \cup {NoHold}]]
    BY <1>1, <2>1, <2>2 DEF FastPath, TypeInv, TypeOK
  <2> QED
    BY <1>1, <2>3 DEF FastPath, TypeInv, TypeOK, SidInHand, KeptOrNot, Using
<1>2. ASSUME NEW p \in Pass, NEW b \in Biz, MissFastPath(p, b) PROVE TypeInv'
  BY <1>2 DEF MissFastPath, TypeInv, TypeOK, SidInHand, KeptOrNot, Using
<1>3. ASSUME NEW p \in Pass, NEW s \in Session, TryLock(p, s) PROVE TypeInv'
  <2>1. TypeOK'
    BY <1>3 DEF TryLock, TypeInv, TypeOK, SessionState
  <2>2. SidInHand'
    BY <1>3 DEF TryLock, TypeInv, TypeOK, SidInHand, Using
  <2>3. KeptOrNot'
    <3>1. AMOf[p] \in AM /\ AMOf[p] # None
      OBVIOUS
    <3> QED
      BY <1>3, <3>1 DEF TryLock, TypeInv, TypeOK, KeptOrNot
  <2> QED
    BY <2>1, <2>2, <2>3 DEF TypeInv
<1>4. ASSUME NEW p \in Pass, TryLockFails(p) PROVE TypeInv'
  BY <1>4 DEF TryLockFails, TypeInv, TypeOK, SidInHand, KeptOrNot, Using
<1>5. ASSUME NEW p \in Pass, NEW s \in Session, TryLockReplyLost(p, s)
      PROVE  TypeInv'
  BY <1>5 DEF TryLockReplyLost, TypeInv, TypeOK, SidInHand, KeptOrNot,
         Using, SessionState
<1>6. ASSUME NEW p \in Pass, RecordHold(p) PROVE TypeInv'
  <2>1. AMOf[p] \in AM /\ [ref |-> 1, sid |-> sid[p]] \in Hold
    BY <1>6 DEF RecordHold, TypeInv, TypeOK, SidInHand, KeptOrNot,
         Using, Hold
  <2>2. holds' \in [AM -> [Biz -> Hold \cup {NoHold}]]
    BY <1>6, <2>1 DEF RecordHold, TypeInv, TypeOK
  <2> QED
    BY <1>6, <2>2 DEF RecordHold, TypeInv, TypeOK, SidInHand, KeptOrNot, Using
<1>7. ASSUME NEW p \in Pass, ReleaseShared(p) PROVE TypeInv'
  <2> DEFINE a == AMOf[p]
             b == biz[p]
  <2>1. a \in AM /\ b \in Biz /\ holds[a][b] \in Hold
    <3>1. a \in AM /\ b \in Biz
      BY DEF TypeInv, TypeOK
    <3> QED
      BY <1>7, <3>1, HoldTyped DEF ReleaseShared, TypeInv
  <2>2. [holds[a][b] EXCEPT !.ref = @ - 1] \in Hold
    BY <1>7, <2>1 DEF ReleaseShared, Hold
  <2>3. holds' \in [AM -> [Biz -> Hold \cup {NoHold}]]
    BY <1>7, <2>1, <2>2 DEF ReleaseShared, TypeInv, TypeOK
  <2> QED
    BY <1>7, <2>3 DEF ReleaseShared, TypeInv, TypeOK, SidInHand, KeptOrNot, Using
<1>8. ASSUME NEW p \in Pass, ReleaseLast(p) PROVE TypeInv'
  <2> DEFINE a == AMOf[p]
             b == biz[p]
  <2>1. a \in AM /\ b \in Biz
    BY DEF TypeInv, TypeOK
  <2>2. holds[a][b].sid \in Session
    BY <1>8, <2>1, HoldTyped DEF ReleaseLast, TypeInv, Hold
  <2>3. holds' \in [AM -> [Biz -> Hold \cup {NoHold}]]
    BY <1>8, <2>1 DEF ReleaseLast, TypeInv, TypeOK
  <2> QED
    BY <1>8, <2>2, <2>3 DEF ReleaseLast, TypeInv, TypeOK, SidInHand,
       KeptOrNot, Using
<1>9. ASSUME NEW p \in Pass, ReleaseNothing(p) PROVE TypeInv'
  BY <1>9 DEF ReleaseNothing, TypeInv, TypeOK, SidInHand, KeptOrNot, Using
<1>10. ASSUME NEW p \in Pass, Unlock(p) PROVE TypeInv'
  BY <1>10 DEF Unlock, DropKey, TypeInv, TypeOK, SidInHand, KeptOrNot,
         Using, SessionState
<1>11. ASSUME NEW p \in Pass, UnlockFails(p) PROVE TypeInv'
  BY <1>11 DEF UnlockFails, TypeInv, TypeOK, SidInHand, KeptOrNot,
         Using, SessionState
<1>12. ASSUME NEW s \in Session, LapseOrphan(s) \/ LoseLease(s) PROVE TypeInv'
  <2>1. owner' \in [Biz -> Session \cup {None}]
    BY <1>12 DEF LapseOrphan, LoseLease, DropKey, TypeInv, TypeOK
  <2>3. sess' \in [Session -> SessionState]
    BY <1>12 DEF LapseOrphan, LoseLease, TypeInv, TypeOK, SessionState
  <2>4. UNCHANGED <<keeper, holds, pc, biz, sid>>
    BY <1>12 DEF LapseOrphan, LoseLease
  <2>2. KeptOrNot'
    BY <1>12 DEF LapseOrphan, LoseLease, TypeInv, TypeOK, KeptOrNot
  <2> QED
    BY <2>1, <2>2, <2>3, <2>4 DEF TypeInv, TypeOK, SidInHand, Using
<1>13. ASSUME NEW a \in AM, Crash(a) PROVE TypeInv'
  <2>1. holds' \in [AM -> [Biz -> Hold \cup {NoHold}]]
    BY <1>13 DEF Crash, TypeInv, TypeOK
  <2>2. sess' \in [Session -> SessionState]
    BY <1>13 DEF Crash, TypeInv, TypeOK, SessionState
  <2> QED
    BY <1>13, <2>1, <2>2 DEF Crash, TypeInv, TypeOK, SidInHand, KeptOrNot, Using
<1>14. ASSUME UNCHANGED vars PROVE TypeInv'
  BY <1>14 DEF vars, TypeInv, TypeOK, SidInHand, KeptOrNot, Using
<1> QED
  BY <1>1, <1>2, <1>3, <1>4, <1>5, <1>6, <1>7, <1>8, <1>9, <1>10, <1>11,
     <1>12, <1>13, <1>14 DEF Next, PassStep

(* TypeOK holds in every reachable state, leases lost or not.              *)
THEOREM TypeCorrect == Spec => []TypeOK
<1>1. TypeInv => TypeOK
  BY DEF TypeInv
<1> QED
  BY <1>1, InitTypes, NextTypes, PTL DEF Spec

-----------------------------------------------------------------------------
(* The lock. *)

(* Counting the passes inside. *)
LEMMA InsideFinite ==
  ASSUME NEW a, NEW b PROVE IsFiniteSet(Inside(a, b))
<1>1. Inside(a, b) \subseteq Pass
  BY DEF Inside
<1> QED
  BY <1>1, FS_Subset, LockAssumption

(* No pass is inside a lock its server does not hold, and a hold has one.  *)
LEMMA InsideHeld ==
  ASSUME TypeOK, RefCountExact, NEW a \in Steady, NEW b \in Biz
  PROVE  Held(a, b) <=> Inside(a, b) # {}
<1>1. IsFiniteSet(Inside(a, b)) /\ holds[a][b].ref = Cardinality(Inside(a, b))
  BY InsideFinite DEF RefCountExact
<1>2. Cardinality(Inside(a, b)) = 0 <=> Inside(a, b) = {}
  BY <1>1, FS_EmptySet
<1>3. a \in AM
  BY LockAssumption
<1> QED
  BY <1>1, <1>2, <1>3, HoldTyped

LEMMA InitLock == Init => IInv
<1> SUFFICES ASSUME Init PROVE IInv
  OBVIOUS
<1>1. TypeInv
  BY InitTypes
<1>2. Claims
  BY LockAssumption DEF Init, Claims, OneClaim, ClaimKept, OwnersDistinct, Backed,
                        Held, NoHold, Using
<1>3. ASSUME NEW a \in Steady, NEW b \in Biz
      PROVE  holds[a][b].ref = Cardinality(Inside(a, b))
  <2>1. Inside(a, b) = {} /\ holds[a][b].ref = 0
    BY LockAssumption DEF Init, Inside, NoHold
  <2> QED
    BY <2>1, FS_EmptySet
<1> QED
  BY <1>1, <1>2, <1>3 DEF IInv, RefCountExact

(* What a claimed session is, and a claim's place. *)
LEMMA ClaimTyped ==
  ASSUME TypeInv, Claims
  PROVE  /\ \A p \in Pass : Using(p) =>
              /\ sid[p] \in Session /\ sid[p] # None
              /\ keeper[sid[p]] = AMOf[p]
              /\ sess[sid[p]] \in {"live", "lost"}
         /\ \A a \in AM, b \in Biz : Held(a, b) =>
              /\ holds[a][b] \in Hold
              /\ holds[a][b].sid \in Session /\ holds[a][b].sid # None
              /\ keeper[holds[a][b].sid] = a
              /\ sess[holds[a][b].sid] \in {"live", "lost"}
<1>1. ASSUME NEW p \in Pass, Using(p)
      PROVE  /\ sid[p] \in Session /\ sid[p] # None
             /\ keeper[sid[p]] = AMOf[p]
             /\ sess[sid[p]] \in {"live", "lost"}
  <2>1. sid[p] \in Session /\ sid[p] # None /\ keeper[sid[p]] = AMOf[p]
    BY <1>1 DEF TypeInv, TypeOK, SidInHand, Claims, ClaimKept
  <2>2. AMOf[p] # None
    BY LockAssumption
  <2> QED
    BY <2>1, <2>2 DEF TypeInv, KeptOrNot
<1>2. ASSUME NEW a \in AM, NEW b \in Biz, Held(a, b)
      PROVE  /\ holds[a][b] \in Hold
             /\ holds[a][b].sid \in Session /\ holds[a][b].sid # None
             /\ keeper[holds[a][b].sid] = a
             /\ sess[holds[a][b].sid] \in {"live", "lost"}
  <2>1. holds[a][b] \in Hold /\ keeper[holds[a][b].sid] = a
    BY <1>2, HoldTyped DEF TypeInv, Claims, ClaimKept
  <2>2. a # None /\ holds[a][b].sid \in Session /\ holds[a][b].sid # None
    BY <2>1, LockAssumption DEF Hold
  <2> QED
    BY <2>1, <2>2 DEF TypeInv, KeptOrNot
<1> QED
  BY <1>1, <1>2

(* Claims survive a step that does no more than count, share or move on a  *)
(* pass without a session.                                                 *)
LEMMA ClaimsKept ==
  ASSUME TypeOK, Claims, UNCHANGED <<owner, sess, keeper, sid>>,
         \A c \in AM, d \in Biz :
           /\ holds'[c][d] # NoHold <=> holds[c][d] # NoHold
           /\ holds'[c][d].sid = holds[c][d].sid,
         \A q \in Pass :
           pc'[q] \in {"won", "unlock"} =>
             pc[q] \in {"won", "unlock"} /\ biz'[q] = biz[q]
  PROVE  Claims'
<1>1. OneClaim'
  BY DEF Claims, OneClaim, Using, Held
<1>2. ClaimKept'
  BY DEF Claims, ClaimKept, Using, Held
<1>3. OwnersDistinct'
  BY DEF Claims, OwnersDistinct
<1>4. Backed'
  BY LockAssumption DEF Claims, Backed, Using, Held
<1> QED
  BY <1>1, <1>2, <1>3, <1>4 DEF Claims

(* Steps outside the tracker: no hold, no membership changes. *)
LEMMA CountKept ==
  ASSUME TypeOK, RefCountExact, UNCHANGED holds,
         \A q \in Pass : /\ pc'[q] = "in" <=> pc[q] = "in"
                         /\ pc[q] = "in" => biz'[q] = biz[q]
  PROVE  RefCountExact'
<1>1. \A c \in AM, d \in Biz : Inside(c, d)' = Inside(c, d)
  BY DEF Inside
<1> QED
  BY <1>1, LockAssumption DEF RefCountExact

LEMMA FastPathLock ==
  ASSUME IInv, NEW p \in Pass, NEW b \in Biz, FastPath(p, b)
  PROVE  Claims' /\ RefCountExact'
<1> DEFINE a == AMOf[p]
<1>1. a \in AM /\ holds[a][b] \in Hold /\ pc[p] = "idle"
  BY HoldTyped, LockAssumption DEF FastPath, IInv, TypeInv
<1>2. holds' = [holds EXCEPT ![a][b].ref = @ + 1] /\ pc' = [pc EXCEPT ![p] = "in"]
        /\ biz' = [biz EXCEPT ![p] = b] /\ UNCHANGED <<owner, sess, keeper, sid>>
  BY DEF FastPath
<1>3. \A c \in AM, d \in Biz :
        /\ holds'[c][d] # NoHold <=> holds[c][d] # NoHold
        /\ holds'[c][d].sid = holds[c][d].sid
  BY <1>1, <1>2 DEF Hold, NoHold, IInv, TypeInv, TypeOK
<1>4. \A q \in Pass :
        pc'[q] \in {"won", "unlock"} =>
          pc[q] \in {"won", "unlock"} /\ biz'[q] = biz[q]
  BY <1>1, <1>2 DEF IInv, TypeInv, TypeOK
<1>6. Claims'
  BY <1>2, <1>3, <1>4, ClaimsKept DEF IInv, TypeInv
<1>7. ASSUME NEW c \in Steady, NEW d \in Biz
      PROVE  holds'[c][d].ref = Cardinality(Inside(c, d)')
  <2>0. c \in AM
    BY LockAssumption
  <2>1. CASE c = a /\ d = b
    <3>1. Inside(c, d)' = Inside(c, d) \cup {p} /\ p \notin Inside(c, d)
      BY <1>1, <1>2, <2>0, <2>1 DEF Inside, IInv, TypeInv, TypeOK
    <3>2. Cardinality(Inside(c, d)') = Cardinality(Inside(c, d)) + 1
      BY <3>1, InsideFinite, FS_AddElement
    <3>3. holds'[c][d].ref = holds[c][d].ref + 1
      BY <1>1, <1>2, <2>0, <2>1 DEF Hold, IInv, TypeInv, TypeOK
    <3> QED
      BY <3>2, <3>3 DEF IInv, RefCountExact
  <2>2. CASE ~(c = a /\ d = b)
    <3>1. Inside(c, d)' = Inside(c, d)
      BY <1>1, <1>2, <2>0, <2>2 DEF Inside, IInv, TypeInv, TypeOK
    <3>2. holds'[c][d] = holds[c][d]
      BY <1>1, <1>2, <2>0, <2>2 DEF IInv, TypeInv, TypeOK
    <3> QED
      BY <3>1, <3>2 DEF IInv, RefCountExact
  <2> QED
    BY <2>1, <2>2
<1> QED
  BY <1>6, <1>7 DEF RefCountExact

LEMMA MissFastPathLock ==
  ASSUME IInv, NEW p \in Pass, NEW b \in Biz, MissFastPath(p, b)
  PROVE  Claims' /\ RefCountExact'
<1>1. /\ UNCHANGED <<owner, sess, keeper, holds, sid>>
      /\ pc[p] = "idle" /\ pc' = [pc EXCEPT ![p] = "slow"]
      /\ biz' = [biz EXCEPT ![p] = b]
  BY DEF MissFastPath
<1>2. \A q \in Pass :
        /\ pc'[q] \in {"won", "unlock"} =>
             pc[q] \in {"won", "unlock"} /\ biz'[q] = biz[q]
        /\ pc'[q] = "in" <=> pc[q] = "in"
        /\ pc[q] = "in" => biz'[q] = biz[q]
  BY <1>1 DEF IInv, TypeInv, TypeOK
<1>4. Claims'
  BY <1>1, <1>2, ClaimsKept DEF IInv, TypeInv
<1> QED
  BY <1>1, <1>2, <1>4, CountKept DEF IInv, TypeInv

LEMMA TryLockFailsLock ==
  ASSUME IInv, NEW p \in Pass, TryLockFails(p)
  PROVE  Claims' /\ RefCountExact'
<1>1. /\ UNCHANGED <<owner, sess, keeper, holds, biz, sid>>
      /\ pc[p] = "slow" /\ pc' = [pc EXCEPT ![p] = "idle"]
  BY DEF TryLockFails
<1>2. \A q \in Pass :
        /\ pc'[q] \in {"won", "unlock"} => pc[q] \in {"won", "unlock"}
        /\ pc'[q] = "in" <=> pc[q] = "in"
  BY <1>1 DEF IInv, TypeInv, TypeOK
<1>4. Claims'
  BY <1>1, <1>2, ClaimsKept DEF IInv, TypeInv
<1> QED
  BY <1>1, <1>2, <1>4, CountKept DEF IInv, TypeInv

LEMMA ReleaseSharedLock ==
  ASSUME IInv, NEW p \in Pass, ReleaseShared(p)
  PROVE  Claims' /\ RefCountExact'
<1> DEFINE a == AMOf[p]
           b == biz[p]
<1>1. /\ pc[p] = "in" /\ pc' = [pc EXCEPT ![p] = "idle"]
      /\ holds[a][b].ref > 1 /\ holds' = [holds EXCEPT ![a][b].ref = @ - 1]
      /\ UNCHANGED <<owner, sess, keeper, biz, sid>>
  BY DEF ReleaseShared
<1>2. a \in AM /\ b \in Biz /\ TypeOK
  BY LockAssumption DEF IInv, TypeInv, TypeOK
<1>3. holds[a][b] \in Hold
  BY <1>1, <1>2, HoldTyped
<1>4. \A c \in AM, d \in Biz :
        /\ holds'[c][d] # NoHold <=> holds[c][d] # NoHold
        /\ holds'[c][d].sid = holds[c][d].sid
  BY <1>1, <1>2, <1>3 DEF Hold, NoHold, TypeOK
<1>5. Claims'
  BY <1>1, <1>2, <1>4, ClaimsKept DEF IInv, TypeOK
<1>6. ASSUME NEW c \in Steady, NEW d \in Biz
      PROVE  holds'[c][d].ref = Cardinality(Inside(c, d)')
  <2>0. c \in AM
    BY LockAssumption
  <2>1. CASE c = a /\ d = b
    <3>1. Inside(c, d)' = Inside(c, d) \ {p} /\ p \in Inside(c, d)
      BY <1>1, <1>2, <2>0, <2>1 DEF Inside, TypeOK
    <3>2. Cardinality(Inside(c, d)') = Cardinality(Inside(c, d)) - 1
      BY <3>1, InsideFinite, FS_RemoveElement
    <3>3. holds'[c][d].ref = holds[c][d].ref - 1
      BY <1>1, <1>2, <1>3, <2>0, <2>1 DEF Hold, TypeOK
    <3> QED
      BY <3>2, <3>3 DEF IInv, RefCountExact
  <2>2. CASE ~(c = a /\ d = b)
    <3>1. Inside(c, d)' = Inside(c, d)
      BY <1>1, <1>2, <2>0, <2>2 DEF Inside, TypeOK
    <3>2. holds'[c][d] = holds[c][d]
      BY <1>1, <1>2, <2>0, <2>2 DEF TypeOK
    <3> QED
      BY <3>1, <3>2 DEF IInv, RefCountExact
  <2> QED
    BY <2>1, <2>2
<1> QED
  BY <1>5, <1>6 DEF RefCountExact

LEMMA TryLockLock ==
  ASSUME IInv, NEW p \in Pass, NEW s \in Session, TryLock(p, s)
  PROVE  Claims' /\ RefCountExact'
<1> DEFINE b == biz[p]
<1>1. /\ pc[p] = "slow" /\ sess[s] = "free" /\ owner[b] = None
      /\ sess' = [sess EXCEPT ![s] = "live"] /\ owner' = [owner EXCEPT ![b] = s]
      /\ keeper' = [keeper EXCEPT ![s] = AMOf[p]]
      /\ sid' = [sid EXCEPT ![p] = s] /\ pc' = [pc EXCEPT ![p] = "won"]
      /\ UNCHANGED <<holds, biz>>
  BY DEF TryLock
<1>2. b \in Biz /\ s # None /\ AMOf[p] \in AM /\ TypeOK
  BY LockAssumption DEF IInv, TypeInv, TypeOK
<1>3. \A q \in Pass : /\ pc'[q] \in {"won", "unlock"} <=> Using(q) \/ q = p
                      /\ pc'[q] = "in" <=> pc[q] = "in"
                      /\ sid'[q] = IF q = p THEN s ELSE sid[q]
  BY <1>1, <1>2 DEF Using, TypeOK
<1>4. ~Using(p)
  BY <1>1 DEF Using
<1>5. /\ \A q \in Pass : Using(q) => sid[q] \in Session \ {s} /\ sid[q] # None
      /\ \A c \in AM, d \in Biz : holds[c][d] # NoHold =>
           holds[c][d].sid \in Session \ {s} /\ holds[c][d].sid # None
  BY <1>1, ClaimTyped DEF IInv, Held
<1>6. /\ \A d \in Biz : owner'[d] = IF d = b THEN s ELSE owner[d]
      /\ \A t \in Session : /\ sess'[t] = IF t = s THEN "live" ELSE sess[t]
                            /\ keeper'[t] = IF t = s THEN AMOf[p] ELSE keeper[t]
  BY <1>1, <1>2 DEF TypeOK
<1>7. OneClaim'
  BY <1>1, <1>3, <1>4, <1>5 DEF IInv, Claims, OneClaim, Held, Using
<1>8. ClaimKept'
  BY <1>1, <1>3, <1>5, <1>6 DEF IInv, Claims, ClaimKept, Held, Using
<1>9. OwnersDistinct'
  <2>1. \A d \in Biz : owner[d] # s /\ owner[d] \in Session \cup {None}
    BY <1>1, <1>2 DEF IInv, Claims, OwnersDistinct, TypeOK
  <2> QED
    BY <1>2, <1>6, <2>1 DEF IInv, Claims, OwnersDistinct
<1>10. Backed'
  <2>1. ASSUME NEW c \in Steady, NEW d \in Biz, holds[c][d] # NoHold
        PROVE  sess'[holds[c][d].sid] = "live" /\ owner'[d] = holds[c][d].sid
    <3>1. c \in AM /\ sess[holds[c][d].sid] = "live" /\ owner[d] = holds[c][d].sid
      BY <2>1, LockAssumption DEF IInv, Claims, Backed, Held
    <3> QED
      BY <1>1, <1>5, <1>6, <2>1, <3>1
  <2>2. ASSUME NEW q \in Pass, AMOf[q] \in Steady, Using(q)
        PROVE  sess'[sid[q]] = "live" /\ owner'[biz[q]] = sid[q]
    <3>1. sess[sid[q]] = "live" /\ owner[biz[q]] = sid[q] /\ biz[q] \in Biz
      BY <1>2, <2>2 DEF IInv, Claims, Backed, TypeOK
    <3> QED
      BY <1>1, <1>5, <1>6, <2>2, <3>1
  <2> QED
    BY <1>1, <1>2, <1>3, <1>4, <1>6, <2>1, <2>2 DEF Backed, Held, Using
<1>11. RefCountExact'
  BY <1>1, <1>2, <1>3, CountKept DEF IInv
<1> QED
  BY <1>7, <1>8, <1>9, <1>10, <1>11 DEF Claims

(* Steps of etcd and lost replies: no claim changes, and no session that   *)
(* has a claim of a steady server is touched.                              *)
LEMMA EtcdStep ==
  ASSUME IInv, UNCHANGED <<keeper, holds, biz, sid>>,
         \A q \in Pass : /\ pc'[q] \in {"won", "unlock"} <=> Using(q)
                         /\ pc'[q] = "in" <=> pc[q] = "in",
         OwnersDistinct',
         \A b \in Biz, t \in Session :
           owner[b] = t /\ sess[t] = "live" /\ keeper[t] \in Steady =>
             owner'[b] = t /\ sess'[t] = "live"
  PROVE  Claims' /\ RefCountExact'
<1>1. OneClaim' /\ ClaimKept'
  BY DEF IInv, Claims, OneClaim, ClaimKept, Held, Using
<1>2. ASSUME NEW c \in Steady, NEW d \in Biz, holds[c][d] # NoHold
      PROVE  sess'[holds[c][d].sid] = "live" /\ owner'[d] = holds[c][d].sid
  <2>1. c \in AM /\ sess[holds[c][d].sid] = "live" /\ owner[d] = holds[c][d].sid
    BY <1>2, LockAssumption DEF IInv, Claims, Backed, Held
  <2>2. holds[c][d].sid \in Session /\ keeper[holds[c][d].sid] \in Steady
    BY <1>2, <2>1, ClaimTyped DEF IInv, Held
  <2> QED
    BY <2>1, <2>2
<1>3. ASSUME NEW q \in Pass, AMOf[q] \in Steady, Using(q)
      PROVE  sess'[sid[q]] = "live" /\ owner'[biz[q]] = sid[q]
  <2>1. sess[sid[q]] = "live" /\ owner[biz[q]] = sid[q] /\ biz[q] \in Biz
    BY <1>3 DEF IInv, Claims, Backed, TypeInv, TypeOK
  <2>2. sid[q] \in Session /\ keeper[sid[q]] \in Steady
    BY <1>3, ClaimTyped DEF IInv
  <2> QED
    BY <2>1, <2>2
<1>4. Backed'
  BY <1>2, <1>3 DEF Backed, Held, Using
<1>5. RefCountExact'
  BY CountKept DEF IInv, TypeInv
<1> QED
  BY <1>1, <1>4, <1>5 DEF Claims

LEMMA TryLockReplyLostLock ==
  ASSUME IInv, NEW p \in Pass, NEW s \in Session, TryLockReplyLost(p, s)
  PROVE  Claims' /\ RefCountExact'
<1>1. /\ pc[p] = "slow" /\ sess[s] = "free" /\ owner[biz[p]] = None
      /\ sess' = [sess EXCEPT ![s] = "orphan"]
      /\ owner' = [owner EXCEPT ![biz[p]] = s]
      /\ pc' = [pc EXCEPT ![p] = "idle"] /\ UNCHANGED <<keeper, holds, biz, sid>>
  BY DEF TryLockReplyLost
<1>2. biz[p] \in Biz /\ s # None /\ TypeOK
  BY LockAssumption DEF IInv, TypeInv, TypeOK
<1>3. \A q \in Pass : /\ pc'[q] \in {"won", "unlock"} <=> Using(q)
                      /\ pc'[q] = "in" <=> pc[q] = "in"
  BY <1>1, <1>2 DEF Using, TypeOK
<1>4. /\ \A d \in Biz : owner'[d] = IF d = biz[p] THEN s ELSE owner[d]
      /\ \A t \in Session : sess'[t] = IF t = s THEN "orphan" ELSE sess[t]
  BY <1>1, <1>2 DEF TypeOK
<1>5. OwnersDistinct'
  <2>1. \A d \in Biz : owner[d] # s /\ owner[d] \in Session \cup {None}
    BY <1>1, <1>2 DEF IInv, Claims, OwnersDistinct, TypeOK
  <2> QED
    BY <1>2, <1>4, <2>1 DEF IInv, Claims, OwnersDistinct
<1>6. \A b \in Biz, t \in Session :
        owner[b] = t /\ sess[t] = "live" => owner'[b] = t /\ sess'[t] = "live"
  BY <1>1, <1>4, LockAssumption
<1> QED
  BY <1>1, <1>3, <1>5, <1>6, EtcdStep

LEMMA LapseOrphanLock ==
  ASSUME IInv, NEW s \in Session, LapseOrphan(s) \/ LoseLease(s)
  PROVE  Claims' /\ RefCountExact'
<1>1. /\ owner' = DropKey(s) /\ UNCHANGED <<keeper, holds, pc, biz, sid>>
      /\ sess[s] = "live" => keeper[s] \notin Steady
      /\ sess' = [sess EXCEPT ![s] = sess'[s]]
  BY DEF LapseOrphan, LoseLease, IInv, TypeInv, TypeOK
<1>2. TypeOK
  BY DEF IInv, TypeInv
<1>3. /\ \A d \in Biz : owner'[d] = IF owner[d] = s THEN None ELSE owner[d]
      /\ \A t \in Session : t # s => sess'[t] = sess[t]
  BY <1>1, <1>2 DEF DropKey, TypeOK
<1>4. OwnersDistinct'
  BY <1>2, <1>3 DEF IInv, Claims, OwnersDistinct, TypeOK
<1> QED
  BY <1>1, <1>3, <1>4, EtcdStep DEF Using

LEMMA RecordHoldLock ==
  ASSUME IInv, NEW p \in Pass, RecordHold(p)
  PROVE  Claims' /\ RefCountExact'
<1> DEFINE a == AMOf[p]
           b == biz[p]
<1>1. /\ pc[p] = "won" /\ pc' = [pc EXCEPT ![p] = "in"]
      /\ holds' = [holds EXCEPT ![a][b] = [ref |-> 1, sid |-> sid[p]]]
      /\ sid' = [sid EXCEPT ![p] = None] /\ UNCHANGED <<owner, sess, keeper, biz>>
  BY DEF RecordHold
<1>2. a \in AM /\ b \in Biz /\ sid[p] \in Session /\ sid[p] # None /\ TypeOK
  BY <1>1, LockAssumption DEF IInv, TypeInv, TypeOK, SidInHand, Using
<1>3. Using(p)
  BY <1>1 DEF Using
<1>4. \A q \in Pass : /\ pc'[q] \in {"won", "unlock"} <=> Using(q) /\ q # p
                      /\ q # p => sid'[q] = sid[q]
  BY <1>1, <1>2 DEF Using, TypeOK
<1>5. \A c \in AM, d \in Biz :
        holds'[c][d] = IF c = a /\ d = b THEN [ref |-> 1, sid |-> sid[p]]
                       ELSE holds[c][d]
  BY <1>1, <1>2 DEF TypeOK
<1>6. OneClaim'
  <2>1. ASSUME NEW q \in Pass, NEW r \in Pass, sid'[q] = sid'[r],
               pc'[q] \in {"won", "unlock"}, pc'[r] \in {"won", "unlock"}
        PROVE  q = r
    <3>1. Using(q) /\ Using(r) /\ sid[q] = sid[r]
      BY <1>4, <2>1
    <3> QED
      BY <3>1 DEF IInv, Claims, OneClaim
  <2>2. \A q \in Pass, c \in AM, d \in Biz :
          pc'[q] \in {"won", "unlock"} /\ holds'[c][d] # NoHold
            => sid'[q] # holds'[c][d].sid
    BY <1>3, <1>4, <1>5 DEF IInv, Claims, OneClaim, Held
  <2>3. \A c, e \in AM, d, f \in Biz :
          holds'[c][d] # NoHold /\ holds'[e][f] # NoHold
            /\ holds'[c][d].sid = holds'[e][f].sid => c = e /\ d = f
    BY <1>3, <1>5 DEF IInv, Claims, OneClaim, Held
  <2> QED
    BY <2>1, <2>2, <2>3 DEF OneClaim, Held, Using
<1>7. ClaimKept'
  BY <1>1, <1>3, <1>4, <1>5 DEF IInv, Claims, ClaimKept, Held, Using
<1>8. OwnersDistinct'
  BY <1>1 DEF IInv, Claims, OwnersDistinct
<1>9. Backed'
  BY <1>1, <1>3, <1>4, <1>5, LockAssumption DEF IInv, Claims, Backed, Held, Using
<1>10. ASSUME NEW c \in Steady, NEW d \in Biz
       PROVE  holds'[c][d].ref = Cardinality(Inside(c, d)')
  <2>0. c \in AM
    BY LockAssumption
  <2>1. CASE c = a /\ d = b
    <3>0. ~Held(a, b)
      BY <1>2, <1>3, <2>1 DEF IInv, Claims, Backed, OneClaim
    <3>1. Inside(a, b) = {}
      BY <1>2, <2>1, <3>0, InsideHeld DEF IInv
    <3>2. Inside(c, d)' = {p}
      BY <1>1, <1>2, <2>1, <3>1 DEF Inside, TypeOK
    <3>3. Cardinality({p}) = 1
      BY FS_Singleton
    <3>4. holds'[c][d].ref = 1
      BY <1>5, <2>0, <2>1
    <3> QED
      BY <3>2, <3>3, <3>4
  <2>2. CASE ~(c = a /\ d = b)
    <3>1. Inside(c, d)' = Inside(c, d)
      BY <1>1, <1>2, <2>2 DEF Inside, TypeOK
    <3> QED
      BY <1>5, <2>0, <2>2, <3>1 DEF IInv, RefCountExact
  <2> QED
    BY <2>1, <2>2
<1> QED
  BY <1>6, <1>7, <1>8, <1>9, <1>10 DEF Claims, RefCountExact

LEMMA ReleaseLastLock ==
  ASSUME IInv, NEW p \in Pass, ReleaseLast(p)
  PROVE  Claims' /\ RefCountExact'
<1> DEFINE a == AMOf[p]
           b == biz[p]
<1>1. /\ pc[p] = "in" /\ pc' = [pc EXCEPT ![p] = "unlock"]
      /\ holds[a][b].ref = 1 /\ holds' = [holds EXCEPT ![a][b] = NoHold]
      /\ sid' = [sid EXCEPT ![p] = holds[a][b].sid]
      /\ UNCHANGED <<owner, sess, keeper, biz>>
  BY DEF ReleaseLast
<1>2. a \in AM /\ b \in Biz /\ TypeOK
  BY LockAssumption DEF IInv, TypeInv, TypeOK
<1>3. Held(a, b)
  BY <1>1, <1>2, HoldTyped
<1>4. ~Using(p)
  BY <1>1 DEF Using
<1>5. \A q \in Pass : /\ pc'[q] \in {"won", "unlock"} <=> Using(q) \/ q = p
                      /\ sid'[q] = IF q = p THEN holds[a][b].sid ELSE sid[q]
  BY <1>1, <1>2 DEF Using, TypeOK
<1>6. \A c \in AM, d \in Biz :
        holds'[c][d] = IF c = a /\ d = b THEN NoHold ELSE holds[c][d]
  BY <1>1, <1>2 DEF TypeOK
<1>7. OneClaim'
  <2>1. ASSUME NEW q \in Pass, NEW r \in Pass, sid'[q] = sid'[r],
               pc'[q] \in {"won", "unlock"}, pc'[r] \in {"won", "unlock"}
        PROVE  q = r
    <3>1. CASE q # p /\ r # p
      <4>1. Using(q) /\ Using(r) /\ sid[q] = sid[r]
        BY <1>5, <2>1, <3>1
      <4> QED
        BY <4>1 DEF IInv, Claims, OneClaim
    <3>2. ASSUME NEW t \in Pass, t # p, Using(t) PROVE sid'[t] # sid'[p]
      BY <1>2, <1>3, <1>5, <3>2 DEF IInv, Claims, OneClaim
    <3> QED
      BY <1>5, <2>1, <3>1, <3>2
  <2>2. \A q \in Pass, c \in AM, d \in Biz :
          pc'[q] \in {"won", "unlock"} /\ holds'[c][d] # NoHold
            => sid'[q] # holds'[c][d].sid
    BY <1>2, <1>3, <1>5, <1>6 DEF IInv, Claims, OneClaim, Held
  <2>3. \A c, e \in AM, d, f \in Biz :
          holds'[c][d] # NoHold /\ holds'[e][f] # NoHold
            /\ holds'[c][d].sid = holds'[e][f].sid => c = e /\ d = f
    BY <1>6 DEF IInv, Claims, OneClaim, Held
  <2> QED
    BY <2>1, <2>2, <2>3 DEF OneClaim, Held, Using
<1>8. ClaimKept'
  BY <1>1, <1>2, <1>3, <1>5, <1>6 DEF IInv, Claims, ClaimKept, Held, Using
<1>9. OwnersDistinct'
  BY <1>1 DEF IInv, Claims, OwnersDistinct
<1>10. Backed'
  BY <1>1, <1>2, <1>3, <1>5, <1>6, LockAssumption
     DEF IInv, Claims, Backed, Held, Using
<1>11. ASSUME NEW c \in Steady, NEW d \in Biz
       PROVE  holds'[c][d].ref = Cardinality(Inside(c, d)')
  <2>0. c \in AM
    BY LockAssumption
  <2>1. CASE c = a /\ d = b
    <3>1. Inside(c, d)' = Inside(c, d) \ {p} /\ p \in Inside(c, d)
      BY <1>1, <1>2, <2>1 DEF Inside, TypeOK
    <3>2. Cardinality(Inside(c, d)') = Cardinality(Inside(c, d)) - 1
      BY <3>1, InsideFinite, FS_RemoveElement
    <3>3. Cardinality(Inside(c, d)) = 1
      BY <1>1, <2>1 DEF IInv, RefCountExact
    <3> QED
      BY <1>6, <2>0, <2>1, <3>2, <3>3 DEF NoHold
  <2>2. CASE ~(c = a /\ d = b)
    <3>1. Inside(c, d)' = Inside(c, d)
      BY <1>1, <1>2, <2>2 DEF Inside, TypeOK
    <3> QED
      BY <1>6, <2>0, <2>2, <3>1 DEF IInv, RefCountExact
  <2> QED
    BY <2>1, <2>2
<1> QED
  BY <1>7, <1>8, <1>9, <1>10, <1>11 DEF Claims, RefCountExact

(* "release called but no lock held" is for servers that lost a lease. *)
LEMMA ReleaseNothingLock ==
  ASSUME IInv, NEW p \in Pass, ReleaseNothing(p)
  PROVE  AMOf[p] \notin Steady /\ Claims' /\ RefCountExact'
<1>1. /\ UNCHANGED <<owner, sess, keeper, holds, biz, sid>>
      /\ pc[p] = "in" /\ pc' = [pc EXCEPT ![p] = "idle"] /\ ~Held(AMOf[p], biz[p])
  BY DEF ReleaseNothing
<1>2. TypeOK /\ biz[p] \in Biz
  BY DEF IInv, TypeInv, TypeOK
<1>3. AMOf[p] \notin Steady
  <2> SUFFICES ASSUME AMOf[p] \in Steady PROVE FALSE
    OBVIOUS
  <2>1. p \in Inside(AMOf[p], biz[p])
    BY <1>1 DEF Inside
  <2> QED
    BY <1>1, <1>2, <2>1, InsideHeld DEF IInv
<1>4. \A q \in Pass :
        pc'[q] \in {"won", "unlock"} => pc[q] \in {"won", "unlock"}
  BY <1>1, <1>2 DEF TypeOK
<1>5. Claims'
  BY <1>1, <1>2, <1>4, ClaimsKept DEF IInv
<1>6. \A c \in Steady, d \in Biz : Inside(c, d)' = Inside(c, d)
  BY <1>1, <1>2, <1>3 DEF Inside, TypeOK
<1> QED
  BY <1>1, <1>3, <1>5, <1>6 DEF IInv, RefCountExact

LEMMA UnlockLock ==
  ASSUME IInv, NEW p \in Pass, Unlock(p) \/ UnlockFails(p)
  PROVE  Claims' /\ RefCountExact'
<1> DEFINE s == sid[p]
<1>1. /\ pc[p] = "unlock" /\ pc' = [pc EXCEPT ![p] = "idle"]
      /\ sid' = [sid EXCEPT ![p] = None] /\ keeper' = [keeper EXCEPT ![s] = None]
      /\ UNCHANGED <<holds, biz>>
  BY DEF Unlock, UnlockFails
<1>2. Using(p) /\ TypeOK
  BY <1>1 DEF Using, IInv, TypeInv
<1>3. s \in Session /\ s # None /\ sess[s] \in {"live", "lost"}
  BY <1>2, ClaimTyped DEF IInv
<1>4. \A q \in Pass : /\ pc'[q] \in {"won", "unlock"} <=> Using(q) /\ q # p
                      /\ pc'[q] = "in" <=> pc[q] = "in"
                      /\ q # p => sid'[q] = sid[q]
  BY <1>1, <1>2 DEF Using, TypeOK
<1>5. /\ \A d \in Biz : owner[d] # s => owner'[d] = owner[d]
      /\ \A t \in Session \ {s} : sess'[t] = sess[t] /\ keeper'[t] = keeper[t]
  BY <1>1, <1>2, <1>3 DEF Unlock, UnlockFails, DropKey, TypeOK
<1>6. /\ \A q \in Pass : Using(q) /\ q # p => sid[q] \in Session \ {s}
      /\ \A c \in AM, d \in Biz :
           holds[c][d] # NoHold => holds[c][d].sid \in Session \ {s}
  BY <1>2, ClaimTyped DEF IInv, Claims, OneClaim, Held
<1>7. OneClaim'
  BY <1>1, <1>4 DEF IInv, Claims, OneClaim, Held, Using
<1>8. ClaimKept'
  BY <1>1, <1>4, <1>5, <1>6 DEF IInv, Claims, ClaimKept, Held, Using
<1>9. OwnersDistinct'
  <2>1. ASSUME NEW d \in Biz, owner[d] = s
        PROVE  owner'[d] # None => owner'[d] = s /\ sess'[s] = "orphan"
    <3>1. CASE Unlock(p)
      <4>1. owner' = [e \in Biz |-> IF owner[e] = s THEN None ELSE owner[e]]
        BY <3>1 DEF Unlock, DropKey
      <4> QED
        BY <2>1, <4>1
    <3>2. CASE UnlockFails(p)
      <4>1. sess[s] = "live"
        BY <1>3, <2>1 DEF IInv, Claims, OwnersDistinct
      <4> QED
        BY <1>2, <1>3, <2>1, <3>2, <4>1 DEF UnlockFails, TypeOK
    <3> QED
      BY <3>1, <3>2
  <2>2. \A d \in Biz : owner[d] \in Session \cup {None}
    BY <1>2 DEF TypeOK
  <2> QED
    BY <1>5, <2>1, <2>2 DEF IInv, Claims, OwnersDistinct
<1>10. Backed'
  BY <1>1, <1>2, <1>4, <1>5, <1>6, LockAssumption
     DEF IInv, Claims, Backed, Held, Using, TypeOK
<1>11. RefCountExact'
  BY <1>1, <1>2, <1>4, CountKept DEF IInv
<1> QED
  BY <1>7, <1>8, <1>9, <1>10, <1>11 DEF Claims

LEMMA CrashLock ==
  ASSUME IInv, NEW a \in AM, Crash(a)
  PROVE  Claims' /\ RefCountExact'
<1>1. /\ pc' = [p \in Pass |-> IF AMOf[p] = a THEN "idle" ELSE pc[p]]
      /\ sid' = [p \in Pass |-> IF AMOf[p] = a THEN None ELSE sid[p]]
      /\ holds' = [holds EXCEPT ![a] = [b \in Biz |-> NoHold]]
      /\ UNCHANGED <<owner, biz>>
  BY DEF Crash
<1>2. TypeOK
  BY DEF IInv, TypeInv
<1>3. \A s \in Session :
        /\ keeper[s] # a => sess'[s] = sess[s] /\ keeper'[s] = keeper[s]
        /\ sess[s] \in {"live", "orphan"} => sess'[s] \in {"live", "orphan"}
  BY DEF Crash, IInv, TypeInv, KeptOrNot
<1>4. \A c \in AM, d \in Biz :
        holds'[c][d] = IF c = a THEN NoHold ELSE holds[c][d]
  BY <1>1, <1>2 DEF TypeOK
<1>5. \A q \in Pass : /\ pc'[q] \in {"won", "unlock"} <=> Using(q) /\ AMOf[q] # a
                      /\ AMOf[q] # a => sid'[q] = sid[q]
  BY <1>1 DEF Using
<1>6. /\ \A q \in Pass : Using(q) /\ AMOf[q] # a =>
           sid[q] \in Session /\ keeper[sid[q]] # a
      /\ \A c \in AM, d \in Biz : holds[c][d] # NoHold /\ c # a =>
           holds[c][d].sid \in Session /\ keeper[holds[c][d].sid] # a
  BY ClaimTyped DEF IInv, Held
<1>7. OneClaim'
  BY <1>4, <1>5 DEF IInv, Claims, OneClaim, Held, Using
<1>8. ClaimKept'
  BY <1>3, <1>4, <1>5, <1>6 DEF IInv, Claims, ClaimKept, Held, Using
<1>9. OwnersDistinct'
  BY <1>1, <1>2, <1>3 DEF IInv, Claims, OwnersDistinct, TypeOK
<1>10. Backed'
  BY <1>1, <1>3, <1>4, <1>5, <1>6, LockAssumption
     DEF IInv, Claims, Backed, Held, Using
<1>11. ASSUME NEW c \in Steady, NEW d \in Biz
       PROVE  holds'[c][d].ref = Cardinality(Inside(c, d)')
  <2>0. c \in AM
    BY LockAssumption
  <2>1. CASE c = a
    <3>1. Inside(c, d)' = {}
      BY <1>1, <2>1 DEF Inside
    <3> QED
      BY <1>4, <2>0, <2>1, <3>1, FS_EmptySet DEF NoHold
  <2>2. CASE c # a
    <3>1. Inside(c, d)' = Inside(c, d)
      BY <1>1, <2>2 DEF Inside
    <3> QED
      BY <1>4, <2>0, <2>2, <3>1 DEF IInv, RefCountExact
  <2> QED
    BY <2>1, <2>2
<1> QED
  BY <1>7, <1>8, <1>9, <1>10, <1>11 DEF Claims, RefCountExact

LEMMA NextLock == IInv /\ [Next]_vars => IInv'
<1> SUFFICES ASSUME IInv, [Next]_vars PROVE Claims' /\ RefCountExact'
  BY NextTypes DEF IInv
<1>1. ASSUME UNCHANGED vars PROVE Claims' /\ RefCountExact'
  <2>1. UNCHANGED <<owner, sess, keeper, holds, pc, biz, sid>>
    BY <1>1 DEF vars
  <2>2. RefCountExact'
    BY <2>1, CountKept DEF IInv, TypeInv
  <2> QED
    BY <2>1, <2>2, ClaimsKept DEF IInv, TypeInv
<1> QED
  BY <1>1, FastPathLock, MissFastPathLock, TryLockLock, TryLockFailsLock,
     TryLockReplyLostLock, RecordHoldLock, ReleaseSharedLock, ReleaseLastLock,
     ReleaseNothingLock, UnlockLock, LapseOrphanLock, CrashLock
     DEF Next, PassStep

LEMMA LockInvariant == Spec => []IInv
BY InitLock, NextLock, PTL DEF Spec

(* Two servers that keep their leases do not hold the lock of a business   *)
(* at once: etcd has one first key, and a session has one claim.           *)
LEMMA OneSteadyHolder ==
  ASSUME IInv, NEW a \in Steady, NEW c \in Steady, NEW b \in Biz,
         Held(a, b), Held(c, b)
  PROVE  a = c
<1>1. a \in AM /\ c \in AM
  BY LockAssumption
<1>2. owner[b] = holds[a][b].sid /\ owner[b] = holds[c][b].sid
  BY DEF IInv, Claims, Backed
<1> QED
  BY <1>1, <1>2 DEF IInv, Claims, OneClaim

LEMMA SteadyExcludes == IInv => SteadyExclusion
<1> SUFFICES ASSUME IInv, NEW p \in Pass, NEW q \in Pass,
                    pc[p] = "in", pc[q] = "in", biz[p] = biz[q],
                    AMOf[p] \in Steady, AMOf[q] \in Steady
             PROVE  AMOf[p] = AMOf[q]
  BY DEF SteadyExclusion, ExclusiveAmong
<1>1. biz[p] \in Biz /\ TypeOK
  BY DEF IInv, TypeInv, TypeOK
<1>2. p \in Inside(AMOf[p], biz[p]) /\ q \in Inside(AMOf[q], biz[p])
  BY DEF Inside
<1>3. Held(AMOf[p], biz[p]) /\ Held(AMOf[q], biz[p])
  BY <1>1, <1>2, InsideHeld DEF IInv
<1> QED
  BY <1>1, <1>3, OneSteadyHolder

(* Servers that keep their leases never have passes inside the lock of a   *)
(* business together, whatever the other servers do.                       *)
THEOREM LockExcludes == Spec => []SteadyExclusion
BY LockInvariant, SteadyExcludes, PTL

(* When every server keeps its leases, no two servers share a business.    *)
THEOREM AllSteadyExcludes ==
  ASSUME Steady = AM PROVE Spec => []MutualExclusion
<1>1. SteadyExclusion => MutualExclusion
  BY DEF SteadyExclusion, MutualExclusion
<1> QED
  BY <1>1, LockExcludes, PTL

(* On such servers the reference counts are exact and every hold is backed *)
(* by etcd.                                                                *)
THEOREM HoldsAreExact == Spec => [](RefCountExact /\ HoldBacked)
<1>1. IInv => RefCountExact /\ HoldBacked
  BY DEF IInv, Claims, Backed, HoldBacked
<1> QED
  BY <1>1, LockInvariant, PTL

(* No step takes the key of a business from a session that stays alive.    *)
THEOREM LiveLocksAreKept == Spec => LiveLockKept
<1> DEFINE Kept == \A b \in Biz, s \in Session :
                     owner[b] = s /\ sess[s] = "live" /\ sess'[s] = "live"
                       => owner'[b] = s
<1>1. TypeInv /\ [Next]_vars => Kept
  <2> SUFFICES ASSUME TypeInv, [Next]_vars, NEW b \in Biz, NEW s \in Session,
                      owner[b] = s, sess[s] = "live", sess'[s] = "live"
               PROVE  owner'[b] = s
    OBVIOUS
  <2> USE LockAssumption
  <2>1. ASSUME NEW p \in Pass, NEW t \in Session,
               TryLock(p, t) \/ TryLockReplyLost(p, t)
        PROVE  owner'[b] = s
    BY <2>1 DEF TryLock, TryLockReplyLost, TypeInv, TypeOK
  <2>2. ASSUME NEW p \in Pass, Unlock(p) PROVE owner'[b] = s
    BY <2>2 DEF Unlock, DropKey, TypeInv, TypeOK
  <2>3. ASSUME NEW t \in Session, LapseOrphan(t) \/ LoseLease(t)
        PROVE  owner'[b] = s
    BY <2>3 DEF LapseOrphan, LoseLease, DropKey, TypeInv, TypeOK
  <2>4. ASSUME UNCHANGED owner PROVE owner'[b] = s
    BY <2>4
  <2> QED
    BY <2>1, <2>2, <2>3, <2>4 DEF Next, PassStep, FastPath, MissFastPath,
       TryLockFails, RecordHold, ReleaseShared, ReleaseLast, ReleaseNothing,
       UnlockFails, Crash, vars
<1>2. Spec => [][Kept]_vars
  BY <1>1, InitTypes, NextTypes, PTL DEF Spec
<1> QED
  BY <1>2 DEF LiveLockKept

-----------------------------------------------------------------------------
(* Refinement. *)

Users == [b \in Biz |-> {p \in SteadyPass : pc[p] = "in" /\ biz[p] = b}]

LEMMA UsersInit == Init => Abstract!Init
<1> SUFFICES ASSUME Init PROVE Abstract!Init
  OBVIOUS
<1>1. \A p \in SteadyPass : pc[p] # "in"
  BY DEF Init, SteadyPass
<1> QED
  BY <1>1 DEF Abstract!Init

(* The passes that are in with a pass of a are passes of a. *)
LEMMA UsersOfOneServer ==
  ASSUME IInv, NEW a \in Steady, NEW b \in Biz, NEW q \in Users[b], Held(a, b)
  PROVE  AMOf[q] = a
<1>1. q \in Pass /\ AMOf[q] \in Steady /\ pc[q] = "in" /\ biz[q] = b
  BY DEF Users, SteadyPass
<1>2. q \in Inside(AMOf[q], b) /\ TypeOK
  BY <1>1 DEF Inside, IInv, TypeInv
<1>3. Held(AMOf[q], b)
  BY <1>1, <1>2, InsideHeld DEF IInv
<1> QED
  BY <1>1, <1>3, OneSteadyHolder

(* A pass of a server that keeps its leases goes in, *)
LEMMA EnterStep ==
  ASSUME IInv, NEW p \in SteadyPass, NEW b \in Biz,
         pc[p] # "in", pc' = [pc EXCEPT ![p] = "in"], biz'[p] = b,
         \A q \in Pass \ {p} : biz'[q] = biz[q],
         \A q \in Users[b] : AMOf[q] = AMOf[p]
  PROVE  Abstract!Next
<1>1. \A c \in Biz : p \notin Users[c]
  BY DEF Users
<1>2. TypeOK /\ p \in Pass
  BY DEF IInv, TypeInv, SteadyPass
<1>3. Users' = [Users EXCEPT ![b] = @ \cup {p}]
  <2>1. /\ pc'[p] = "in"
        /\ \A q \in Pass \ {p} : pc'[q] = pc[q] /\ biz'[q] = biz[q]
    BY <1>2 DEF TypeOK
  <2>2. \A q \in SteadyPass : q \in Pass
    BY DEF SteadyPass
  <2>3. \A c \in Biz : Users'[c] = IF c = b THEN Users[b] \cup {p} ELSE Users[c]
    BY <2>1, <2>2 DEF Users, SteadyPass
  <2> QED
    BY <2>3 DEF Users
<1>4. \A q \in Users[b] : q \in SteadyPass
  BY DEF Users
<1>5. Abstract!Enter(p, b)
  BY <1>1, <1>3, <1>4 DEF Abstract!Enter, Users
<1> QED
  BY <1>5 DEF Abstract!Next

(* or comes out. *)
LEMMA LeaveStep ==
  ASSUME IInv, NEW p \in SteadyPass, NEW b \in Biz, biz[p] = b, UNCHANGED biz,
         NEW x, x # "in", pc[p] = "in", pc' = [pc EXCEPT ![p] = x]
  PROVE  Abstract!Next
<1>1. TypeOK /\ p \in Pass
  BY DEF IInv, TypeInv, SteadyPass
<1>2. p \in Users[b]
  BY DEF Users
<1>3. Users' = [Users EXCEPT ![b] = @ \ {p}]
  BY <1>1 DEF Users, TypeOK, SteadyPass
<1>4. Abstract!Leave(p, b)
  BY <1>2, <1>3 DEF Abstract!Leave, Users
<1> QED
  BY <1>4 DEF Abstract!Next

LEMMA StutterStep ==
  ASSUME \A q \in SteadyPass : /\ pc'[q] = "in" <=> pc[q] = "in"
                               /\ pc[q] = "in" => biz'[q] = biz[q]
  PROVE  Users' = Users
BY DEF Users, SteadyPass

LEMMA UsersNext == IInv /\ [Next]_vars => [Abstract!Next]_Users
<1> SUFFICES ASSUME IInv, [Next]_vars
             PROVE  Abstract!Next \/ Users' = Users
  OBVIOUS
<1>0. TypeOK
  BY DEF IInv, TypeInv
<1>1. ASSUME NEW p \in SteadyPass, NEW b \in Biz, FastPath(p, b)
      PROVE  Abstract!Next
  <2>1. \A q \in Users[b] : AMOf[q] = AMOf[p]
    BY <1>1, UsersOfOneServer DEF FastPath, SteadyPass
  <2>2. /\ pc[p] # "in" /\ pc' = [pc EXCEPT ![p] = "in"]
        /\ biz'[p] = b /\ \A q \in Pass \ {p} : biz'[q] = biz[q]
    BY <1>0, <1>1 DEF FastPath, TypeOK, SteadyPass
  <2> QED
    BY <2>1, <2>2, EnterStep
<1>2. ASSUME NEW p \in SteadyPass, RecordHold(p) PROVE Abstract!Next
  <2>1. p \in Pass /\ AMOf[p] \in Steady /\ biz[p] \in Biz
    BY <1>0 DEF TypeOK, SteadyPass
  <2>2. Users[biz[p]] = {}
    <3> SUFFICES ASSUME NEW q \in Users[biz[p]] PROVE FALSE
      OBVIOUS
    <3>1. q \in Pass /\ AMOf[q] \in Steady /\ pc[q] = "in" /\ biz[q] = biz[p]
      BY <2>1 DEF Users, SteadyPass
    <3>2. AMOf[q] \in AM /\ Held(AMOf[q], biz[p])
      BY <1>0, <2>1, <3>1, InsideHeld, LockAssumption DEF Inside, IInv
    <3>3. Using(p)
      BY <1>2 DEF RecordHold, Using
    <3> QED
      BY <2>1, <3>1, <3>2, <3>3 DEF IInv, Claims, Backed, OneClaim
  <2>3. /\ pc[p] # "in" /\ pc' = [pc EXCEPT ![p] = "in"]
        /\ biz'[p] = biz[p] /\ \A q \in Pass \ {p} : biz'[q] = biz[q]
        /\ \A q \in Users[biz[p]] : AMOf[q] = AMOf[p]
    BY <1>2, <2>2 DEF RecordHold
  <2> QED
    BY <2>1, <2>3, EnterStep
<1>3. ASSUME NEW p \in SteadyPass, ReleaseShared(p) \/ ReleaseLast(p)
      PROVE  Abstract!Next
  <2>1. biz[p] \in Biz
    BY <1>0 DEF TypeOK, SteadyPass
  <2> QED
    BY <1>3, <2>1, LeaveStep DEF ReleaseShared, ReleaseLast
<1>4. ASSUME NEW a \in Steady, Crash(a) PROVE Abstract!Next
  <2>1. Users' = [b \in Biz |-> {p \in Users[b] : AMOf[p] # a}]
    BY <1>4 DEF Crash, Users, SteadyPass
  <2>2. \A b \in Biz : Users[b] \subseteq SteadyPass
    BY DEF Users
  <2>3. Abstract!Crash(a)
    BY <2>1, <2>2 DEF Abstract!Crash, Users
  <2> QED
    BY <2>3 DEF Abstract!Next
(* A pass of another server is not among the users, whatever it does. *)
<1>5. ASSUME NEW p \in Pass, p \notin SteadyPass,
             \E x, y : /\ pc' = [pc EXCEPT ![p] = x]
                       /\ biz' = [biz EXCEPT ![p] = y]
      PROVE  Users' = Users
  BY <1>0, <1>5, StutterStep DEF TypeOK, SteadyPass
<1>6. ASSUME NEW p \in Pass, p \notin SteadyPass, NEW b \in Biz, FastPath(p, b)
      PROVE  Users' = Users
  BY <1>5, <1>6 DEF FastPath
<1>7. ASSUME NEW p \in Pass, p \notin SteadyPass,
             RecordHold(p) \/ ReleaseShared(p) \/ ReleaseLast(p)
      PROVE  Users' = Users
  <2>1. biz' = [biz EXCEPT ![p] = biz[p]]
    BY <1>0, <1>7 DEF RecordHold, ReleaseShared, ReleaseLast, TypeOK
  <2>2. \E x : pc' = [pc EXCEPT ![p] = x]
    BY <1>7 DEF RecordHold, ReleaseShared, ReleaseLast
  <2> QED
    BY <1>5, <1>7, <2>1, <2>2
<1>8. ASSUME NEW p \in Pass, ReleaseNothing(p) PROVE Users' = Users
  <2>1. p \notin SteadyPass
    BY <1>8, ReleaseNothingLock DEF SteadyPass
  <2>2. biz' = [biz EXCEPT ![p] = biz[p]] /\ pc' = [pc EXCEPT ![p] = "idle"]
    BY <1>0, <1>8 DEF ReleaseNothing, TypeOK
  <2> QED
    BY <1>5, <2>1, <2>2
<1>9. ASSUME NEW a \in AM, a \notin Steady, Crash(a) PROVE Users' = Users
  BY <1>9, StutterStep DEF Crash, SteadyPass
<1>10. ASSUME NEW p \in Pass, NEW b \in Biz, MissFastPath(p, b)
       PROVE  Users' = Users
  BY <1>0, <1>10, StutterStep DEF MissFastPath, TypeOK, SteadyPass
<1>11. ASSUME NEW p \in Pass, NEW s \in Session,
              TryLock(p, s) \/ TryLockReplyLost(p, s)
       PROVE  Users' = Users
  BY <1>0, <1>11, StutterStep DEF TryLock, TryLockReplyLost, TypeOK, SteadyPass
<1>12. ASSUME NEW p \in Pass, TryLockFails(p) \/ Unlock(p) \/ UnlockFails(p)
       PROVE  Users' = Users
  BY <1>0, <1>12, StutterStep
     DEF TryLockFails, Unlock, UnlockFails, TypeOK, SteadyPass
<1>13. ASSUME UNCHANGED <<pc, biz>> PROVE Users' = Users
  BY <1>13 DEF Users
<1>14. \A s \in Session : LapseOrphan(s) \/ LoseLease(s) => UNCHANGED <<pc, biz>>
  BY DEF LapseOrphan, LoseLease
<1>15. UNCHANGED vars => UNCHANGED <<pc, biz>>
  BY DEF vars
<1>16. \A p \in Pass : p \in SteadyPass \/ p \notin SteadyPass
  OBVIOUS
<1> QED
  BY <1>1, <1>2, <1>3, <1>4, <1>6, <1>7, <1>8, <1>9, <1>10, <1>11, <1>12,
     <1>13, <1>14, <1>15, <1>16 DEF Next, PassStep

(* For the servers that keep their leases, the tracker over etcd           *)
(* implements the lock whose users are always passes of one server.        *)
THEOREM TrackerImplementsLock == Spec => ImplementsSwitchLock
<1>1. Spec => [][Abstract!Next]_Users
  BY LockInvariant, UsersNext, PTL DEF Spec
<1> QED
  BY <1>1, UsersInit, PTL DEF Spec, ImplementsSwitchLock, Abstract!Spec, Users
=============================================================================
