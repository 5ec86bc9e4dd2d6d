----------------------------- MODULE LockTracker -----------------------------
(***************************************************************************)
(* The switch lock of a business: InProcessLockTracker, which lets the     *)
(* passes of one analysis server (AM) share a lock by reference counting,  *)
(* over the etcd mutex that excludes the other servers.  Every slow-path   *)
(* attempt creates its own etcd client, session and mutex; TryLock does    *)
(* not wait.  The steps between two lines that another goroutine or server *)
(* can observe are separate actions.                                       *)
(***************************************************************************)
EXTENDS Naturals, FiniteSets

CONSTANTS
  AM,          \* analysis servers
  Biz,         \* the businesses they share out
  Pass,        \* goroutines of PopAndSwitch
  AMOf,        \* the server a pass runs on
  Session,     \* etcd sessions (bound: sessions in existence at a time)
  Steady,      \* servers whose sessions never expire while they run
  None

ASSUME LockAssumption ==
  /\ IsFiniteSet(Pass)
  /\ AMOf \in [Pass -> AM]
  /\ Steady \subseteq AM
  /\ None \notin Session \cup AM

VARIABLES
  owner,   \* per business, the session whose key is first under the mutex
  sess,    \* state of each session
  keeper,  \* the server that keeps its lease alive, or believes it does
  holds,   \* InProcessLockTracker.holds of each server
  pc,      \* where each pass is
  biz,     \* the business it works on
  sid      \* the session in its hands between two steps

vars == <<owner, sess, keeper, holds, pc, biz, sid>>

(* "live"  : the lease is kept alive by the server that created it;        *)
(* "orphan": nobody keeps it alive any more, etcd has not dropped it yet;  *)
(* "lost"  : etcd dropped it, the server does not know.                    *)
SessionState == {"free", "live", "orphan", "lost"}

Hold == [ref : Nat \ {0}, sid : Session]
NoHold == [ref |-> 0, sid |-> None]

TypeOK ==
  /\ owner \in [Biz -> Session \cup {None}]
  /\ sess \in [Session -> SessionState]
  /\ keeper \in [Session -> AM \cup {None}]
  /\ holds \in [AM -> [Biz -> Hold \cup {NoHold}]]
  /\ pc \in [Pass -> {"idle", "slow", "won", "in", "unlock"}]
  /\ biz \in [Pass -> Biz]
  /\ sid \in [Pass -> Session \cup {None}]

Held(a, b) == holds[a][b] # NoHold

(* The passes of server a that were given the lock of b. *)
Inside(a, b) == {p \in Pass : pc[p] = "in" /\ biz[p] = b /\ AMOf[p] = a}

Init ==
  /\ owner = [b \in Biz |-> None]
  /\ sess = [s \in Session |-> "free"]
  /\ keeper = [s \in Session |-> None]
  /\ holds = [a \in AM |-> [b \in Biz |-> NoHold]]
  /\ pc = [p \in Pass |-> "idle"]
  /\ biz \in [Pass -> Biz]
  /\ sid = [p \in Pass |-> None]

-----------------------------------------------------------------------------
(* acquireWith *)

FastPath(p, b) ==
  /\ pc[p] = "idle"
  /\ Held(AMOf[p], b)
  /\ holds' = [holds EXCEPT ![AMOf[p]][b].ref = @ + 1]
  /\ pc' = [pc EXCEPT ![p] = "in"]
  /\ biz' = [biz EXCEPT ![p] = b]
  /\ UNCHANGED <<owner, sess, keeper, sid>>

(* No hold: the tracker's mutex is released before etcd is asked. *)
MissFastPath(p, b) ==
  /\ pc[p] = "idle"
  /\ ~Held(AMOf[p], b)
  /\ pc' = [pc EXCEPT ![p] = "slow"]
  /\ biz' = [biz EXCEPT ![p] = b]
  /\ UNCHANGED <<owner, sess, keeper, holds, sid>>

(* CreateMutex and a TryLock that succeeds. *)
TryLock(p, s) ==
  /\ pc[p] = "slow"
  /\ sess[s] = "free"
  /\ owner[biz[p]] = None
  /\ sess' = [sess EXCEPT ![s] = "live"]
  /\ keeper' = [keeper EXCEPT ![s] = AMOf[p]]
  /\ owner' = [owner EXCEPT ![biz[p]] = s]
  /\ sid' = [sid EXCEPT ![p] = s]
  /\ pc' = [pc EXCEPT ![p] = "won"]
  /\ UNCHANGED <<holds, biz>>

(* CreateMutex or TryLock returns an error: the key is taken, or etcd      *)
(* cannot be reached.  The session is closed and the pass is skipped.      *)
TryLockFails(p) ==
  /\ pc[p] = "slow"
  /\ pc' = [pc EXCEPT ![p] = "idle"]
  /\ UNCHANGED <<owner, sess, keeper, holds, biz, sid>>

(* etcd carries out the TryLock but the reply is lost, and so is the       *)
(* revocation that mu.Close() sends.                                       *)
TryLockReplyLost(p, s) ==
  /\ pc[p] = "slow"
  /\ sess[s] = "free"
  /\ owner[biz[p]] = None
  /\ sess' = [sess EXCEPT ![s] = "orphan"]
  /\ owner' = [owner EXCEPT ![biz[p]] = s]
  /\ pc' = [pc EXCEPT ![p] = "idle"]
  /\ UNCHANGED <<keeper, holds, biz, sid>>

(* The new hold replaces whatever is there, and the session in it is not   *)
(* closed.                                                                 *)
RecordHold(p) ==
  /\ pc[p] = "won"
  /\ holds' = [holds EXCEPT ![AMOf[p]][biz[p]] = [ref |-> 1, sid |-> sid[p]]]
  /\ pc' = [pc EXCEPT ![p] = "in"]
  /\ sid' = [sid EXCEPT ![p] = None]
  /\ UNCHANGED <<owner, sess, keeper, biz>>

-----------------------------------------------------------------------------
(* release *)

ReleaseShared(p) ==
  /\ pc[p] = "in"
  /\ holds[AMOf[p]][biz[p]].ref > 1
  /\ holds' = [holds EXCEPT ![AMOf[p]][biz[p]].ref = @ - 1]
  /\ pc' = [pc EXCEPT ![p] = "idle"]
  /\ UNCHANGED <<owner, sess, keeper, biz, sid>>

(* A mistake: to unlock on every release. *)
ReleaseEveryTime(p) ==
  /\ pc[p] = "in"
  /\ Held(AMOf[p], biz[p])
  /\ sid' = [sid EXCEPT ![p] = holds[AMOf[p]][biz[p]].sid]
  /\ holds' = [holds EXCEPT ![AMOf[p]][biz[p]] = NoHold]
  /\ pc' = [pc EXCEPT ![p] = "unlock"]
  /\ UNCHANGED <<owner, sess, keeper, biz>>

(* The last reference: the entry goes first, etcd is told afterwards. *)
ReleaseLast(p) ==
  /\ pc[p] = "in"
  /\ holds[AMOf[p]][biz[p]].ref = 1
  /\ sid' = [sid EXCEPT ![p] = holds[AMOf[p]][biz[p]].sid]
  /\ holds' = [holds EXCEPT ![AMOf[p]][biz[p]] = NoHold]
  /\ pc' = [pc EXCEPT ![p] = "unlock"]
  /\ UNCHANGED <<owner, sess, keeper, biz>>

(* "release called but no lock held" *)
ReleaseNothing(p) ==
  /\ pc[p] = "in"
  /\ ~Held(AMOf[p], biz[p])
  /\ pc' = [pc EXCEPT ![p] = "idle"]
  /\ UNCHANGED <<owner, sess, keeper, holds, biz, sid>>

DropKey(s) == [b \in Biz |-> IF owner[b] = s THEN None ELSE owner[b]]

(* A mistake: to forget the etcd side. *)
UnlockForgotten(p) ==
  /\ pc[p] = "unlock"
  /\ sid' = [sid EXCEPT ![p] = None]
  /\ pc' = [pc EXCEPT ![p] = "idle"]
  /\ UNCHANGED <<owner, sess, keeper, holds, biz>>

(* mu.Unlock deletes this session's key only; mu.Close revokes the lease. *)
Unlock(p) ==
  /\ pc[p] = "unlock"
  /\ owner' = DropKey(sid[p])
  /\ sess' = [sess EXCEPT ![sid[p]] = "free"]
  /\ keeper' = [keeper EXCEPT ![sid[p]] = None]
  /\ sid' = [sid EXCEPT ![p] = None]
  /\ pc' = [pc EXCEPT ![p] = "idle"]
  /\ UNCHANGED <<holds, biz>>

(* Both calls fail: errors are logged, the key stays until the lease ends. *)
UnlockFails(p) ==
  /\ pc[p] = "unlock"
  /\ sess' = [sess EXCEPT ![sid[p]] = IF @ = "live" THEN "orphan" ELSE "free"]
  /\ keeper' = [keeper EXCEPT ![sid[p]] = None]
  /\ sid' = [sid EXCEPT ![p] = None]
  /\ pc' = [pc EXCEPT ![p] = "idle"]
  /\ UNCHANGED <<owner, holds, biz>>

-----------------------------------------------------------------------------
(* etcd and the servers themselves *)

(* etcd drops the lease of a session that nobody keeps alive. *)
LapseOrphan(s) ==
  /\ sess[s] = "orphan"
  /\ owner' = DropKey(s)
  /\ sess' = [sess EXCEPT ![s] = "free"]
  /\ UNCHANGED <<keeper, holds, pc, biz, sid>>

(* The keep-alives of a running server are lost for the length of the      *)
(* lease.  Nothing reads session.Done(), so the server goes on.            *)
LoseLease(s) ==
  /\ sess[s] = "live"
  /\ keeper[s] \notin Steady
  /\ owner' = DropKey(s)
  /\ sess' = [sess EXCEPT ![s] = "lost"]
  /\ UNCHANGED <<keeper, holds, pc, biz, sid>>

(* A server dies and restarts empty; its leases are no longer kept alive. *)
Crash(a) ==
  /\ pc' = [p \in Pass |-> IF AMOf[p] = a THEN "idle" ELSE pc[p]]
  /\ sid' = [p \in Pass |-> IF AMOf[p] = a THEN None ELSE sid[p]]
  /\ holds' = [holds EXCEPT ![a] = [b \in Biz |-> NoHold]]
  /\ sess' = [s \in Session |->
                IF keeper[s] # a THEN sess[s]
                ELSE IF sess[s] = "lost" THEN "free" ELSE "orphan"]
  /\ keeper' = [s \in Session |-> IF keeper[s] = a THEN None ELSE keeper[s]]
  /\ UNCHANGED <<owner, biz>>

PassStep(p) ==
  \/ \E s \in Session : TryLock(p, s)
  \/ TryLockFails(p)
  \/ RecordHold(p)
  \/ ReleaseShared(p)
  \/ ReleaseLast(p)
  \/ ReleaseNothing(p)
  \/ Unlock(p)

Next ==
  \/ \E p \in Pass, b \in Biz : FastPath(p, b) \/ MissFastPath(p, b)
  \/ \E p \in Pass : PassStep(p) \/ UnlockFails(p)
  \/ \E p \in Pass, s \in Session : TryLockReplyLost(p, s)
  \/ \E s \in Session : LapseOrphan(s) \/ LoseLease(s)
  \/ \E a \in AM : Crash(a)

Spec == Init /\ [][Next]_vars

(* A pass that has begun goes on to its release (its switch runs under a   *)
(* deadline), and etcd drops orphans.                                      *)
Fairness ==
  /\ \A p \in Pass : WF_vars(PassStep(p))
  /\ \A s \in Session : WF_vars(LapseOrphan(s))

FairSpec == Spec /\ Fairness

-----------------------------------------------------------------------------

(* Passes of two servers are never inside the lock of a business together, *)
(* though the tracker and etcd are updated in separate steps.              *)
ExclusiveAmong(S) ==
  \A p, q \in Pass :
    pc[p] = "in" /\ pc[q] = "in" /\ biz[p] = biz[q]
      /\ AMOf[p] \in S /\ AMOf[q] \in S => AMOf[p] = AMOf[q]

MutualExclusion == ExclusiveAmong(AM)

(* A server that keeps its leases shares the lock with no other such       *)
(* server, even while a third one goes on with a lease it has lost.        *)
SteadyExclusion == ExclusiveAmong(Steady)

(* The reference count of a hold is the number of passes inside, so the    *)
(* etcd lock is dropped by the last of them and by no other.               *)
RefCountExact ==
  \A a \in Steady, b \in Biz : holds[a][b].ref = Cardinality(Inside(a, b))

(* A hold in memory is backed by the first key under the etcd mutex: late  *)
(* unlocks of another server do not take it away.                          *)
HoldBacked ==
  \A a \in Steady, b \in Biz : Held(a, b) => owner[b] = holds[a][b].sid

(* The etcd lock of a business does not stay behind when no pass uses it,  *)
(* whatever replies are lost and whichever servers die.  (A server that    *)
(* lost a lease can leave it behind: a pass that won the lock, lost it and *)
(* records its hold only then replaces the hold of the pass that won after *)
(* it, and nobody unlocks that one.)                                       *)
LockNotLeaked ==
  \A b \in Biz :
    owner[b] # None ~>
      \/ owner[b] = None
      \/ keeper[owner[b]] \in AM \ Steady
      \/ \E p \in Pass : pc[p] \in {"won", "in"} /\ biz[p] = b

(* A server that released late, or lost its lease without noticing, never  *)
(* takes the lock away from a session that is still alive.                 *)
LiveLockKept ==
  [][\A b \in Biz, s \in Session :
       owner[b] = s /\ sess[s] = "live" /\ sess'[s] = "live"
         => owner'[b] = s]_vars

(* For the servers that keep their leases, the tracker over etcd           *)
(* implements the lock the passes rely on.                                 *)
SteadyPass == {p \in Pass : AMOf[p] \in Steady}

Abstract == INSTANCE SwitchLock WITH
  AM <- Steady,
  Pass <- SteadyPass,
  AMOf <- [p \in SteadyPass |-> AMOf[p]],
  users <- [b \in Biz |-> {p \in SteadyPass : pc[p] = "in" /\ biz[p] = b}]

ImplementsSwitchLock == Abstract!Spec
=============================================================================
