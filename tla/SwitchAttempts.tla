--------------------------- MODULE SwitchAttempts ---------------------------
(* What the switch procedures share. *)
CONSTANTS
  Attempt,   \* runs of a switch procedure
  Nobody     \* no attempt, no replication source, the address 1.1.1.1
=============================================================================
