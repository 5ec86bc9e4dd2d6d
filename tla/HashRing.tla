------------------------------- MODULE HashRing -------------------------------
(***************************************************************************)
(* consistentHash: which analysis server (AM) of a set is responsible for  *)
(* a business.  A server has many virtual nodes on the ring; the hashes of *)
(* two servers are assumed not to collide.                                 *)
(***************************************************************************)
EXTENDS Naturals

CONSTANTS
  AM,      \* analysis servers
  Biz,     \* the businesses they share out
  Points,  \* the virtual nodes of a server on the ring
  At       \* where a business is on the ring

ASSUME RingAssumption ==
  /\ Points \in [AM -> SUBSET Nat] /\ At \in [Biz -> Nat]
  /\ \A a \in AM : Points[a] # {}
  /\ \A a, c \in AM : a # c => Points[a] \cap Points[c] = {}

Nodes(S) == UNION {Points[a] : a \in S}
Lowest(P) == CHOOSE n \in P : \A m \in P : n <= m

(* get: the first virtual node at or after the business, or the first of   *)
(* all when there is none.                                                 *)
Owner(S, b) ==
  LET after == {n \in Nodes(S) : n >= At[b]} IN
  CHOOSE a \in S :
    Lowest(IF after = {} THEN Nodes(S) ELSE after) \in Points[a]
=============================================================================
