------------------------ MODULE StrategiesConstants ------------------------
(***************************************************************************)
(* What Strategies is about: the contents that strategies may have and the *)
(* instances whose failures they react to.                                 *)
(***************************************************************************)
EXTENDS Naturals, FiniteSets

CONSTANTS
  Request,  \* requests to the admin service that may overlap
  Content,  \* contents of a strategy, see ContentType
  MaxIds,   \* bound: strategies ever created
  Failed    \* what a failing instance is: [event, cluster, part]

Global == 0  \* the BkBizID of the strategies of every business

(* A strategy reacts to count instances that report its event, or, when    *)
(* its event is "pair", to count clusters that lost an instance of both    *)
(* parts.                                                                  *)
ContentType == [name : {"n1", "n2"}, biz : Nat, event : {"down", "full", "pair"},
                count : Nat, prio : Nat]

ASSUME StrategiesAssumption ==
  /\ IsFiniteSet(Request) /\ IsFiniteSet(Failed)
  /\ Content \subseteq ContentType
  /\ MaxIds \in Nat \ {0}
=============================================================================
