----------------------- MODULE ProcessGuardConstants -----------------------
(* The parameters of ProcessGuard. *)
EXTENDS Naturals

CONSTANTS
  Proc,       \* slots for processes, a dead one is used again
  Cmd,        \* slots for commands
  Nobody,
  MaxManual,  \* bound: commands that operators give
  MaxKills    \* bound: processes that die on their own or are killed, and
              \* launches that fail

ASSUME ProcessAssumption ==
  /\ Nobody \notin Proc /\ Nobody \notin Cmd
  /\ {MaxManual, MaxKills} \subseteq Nat
=============================================================================
