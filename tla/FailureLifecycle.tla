--------------------------- MODULE FailureLifecycle ---------------------------
(***************************************************************************)
(* What the sliding window promises about one instance, without clocks,    *)
(* marks or jobs: a reported failure stays pending until it is taken,      *)
(* taking a batch is atomic, and an instance being switched is either      *)
(* released or reported again.                                             *)
(***************************************************************************)
CONSTANT Inst

VARIABLE phase

Init == phase = [i \in Inst |-> "quiet"]

(* A failure is reported; a pending one absorbs it. *)
Report(i) ==
  /\ phase[i] \in {"quiet", "switching"}
  /\ phase' = [phase EXCEPT ![i] = "pending"]

(* A batch of pending failures is taken. *)
Take(S) ==
  /\ S # {}
  /\ \A i \in S : phase[i] = "pending"
  /\ phase' = [i \in Inst |-> IF i \in S THEN "switching" ELSE phase[i]]

(* The switching of an instance ends. *)
Release(i) ==
  /\ phase[i] = "switching"
  /\ phase' = [phase EXCEPT ![i] = "quiet"]

Next ==
  \/ \E i \in Inst : Report(i) \/ Release(i)
  \/ \E S \in SUBSET Inst : Take(S)

Spec == Init /\ [][Next]_phase
=============================================================================
