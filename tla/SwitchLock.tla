------------------------------ MODULE SwitchLock ------------------------------
(***************************************************************************)
(* What the per-business switch lock promises to the passes of the         *)
(* analysis servers: any number of passes of one server may work on a      *)
(* business together, passes of two servers never do.                      *)
(***************************************************************************)
CONSTANTS AM, Pass, AMOf, Biz

VARIABLE users   \* the passes inside the lock, per business

Init == users = [b \in Biz |-> {}]

Enter(p, b) ==
  /\ \A c \in Biz : p \notin users[c]
  /\ \A q \in users[b] : AMOf[q] = AMOf[p]
  /\ users' = [users EXCEPT ![b] = @ \cup {p}]

Leave(p, b) ==
  /\ p \in users[b]
  /\ users' = [users EXCEPT ![b] = @ \ {p}]

(* A server stops and its passes with it. *)
Crash(a) ==
  users' = [b \in Biz |-> {p \in users[b] : AMOf[p] # a}]

Next ==
  \/ \E p \in Pass, b \in Biz : Enter(p, b) \/ Leave(p, b)
  \/ \E a \in AM : Crash(a)

Spec == Init /\ [][Next]_users
=============================================================================
