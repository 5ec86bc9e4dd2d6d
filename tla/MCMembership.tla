----------------------------- MODULE MCMembership -----------------------------
EXTENDS Membership

CONSTANTS a1, a2, b1, b2, b3

MCPoints == [a \in AM |-> IF a = a1 THEN {1, 6} ELSE {3, 4}]
MCAt == [b \in Biz |-> IF b = b1 THEN 2 ELSE IF b = b2 THEN 5 ELSE 7]
=============================================================================
