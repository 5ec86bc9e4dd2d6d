------------------------- MODULE HeartbeatConstants -------------------------
(* The parameters of Heartbeat. *)
EXTENDS Naturals

CONSTANTS
  Kinds,        \* machine types of the instance
  MaxAttempts   \* heartbeatWriteMaxAttempts

ASSUME HeartbeatAssumption ==
  /\ Kinds \subseteq {"storage", "spider", "tdbctl"} /\ Kinds # {}
  /\ MaxAttempts \in Nat \ {0}
=============================================================================
