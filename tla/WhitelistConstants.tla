------------------------- MODULE WhitelistConstants -------------------------
(***************************************************************************)
(* The commands that Whitelist is about.  An entry is a record of its      *)
(* action, "add", "update" or "delete", the cluster it names, and in set   *)
(* the values it gives to some of the fields.  The cluster "gone" stands   *)
(* for a deleted row, no entry names it.                                   *)
(***************************************************************************)
EXTENDS Naturals, FiniteSets, Sequences

CONSTANTS
  Tool,      \* invocations of the tool that may overlap
  File,      \* what they are asked to do: sequences of entries
  MaxTries,  \* maxRetries of the client
  MaxRows,   \* bound: rows ever inserted
  MaxLate    \* bound: given up requests that the service still has

ASSUME WhitelistAssumption ==
  /\ MaxTries \in Nat \ {0} /\ {MaxRows, MaxLate} \subseteq Nat
  /\ \A f \in File : /\ Len(f) \in Nat
                    /\ \A k \in 1..Len(f) : /\ f[k].act \in {"add", "update", "delete"}
                                           /\ f[k].cluster # "gone"
=============================================================================
