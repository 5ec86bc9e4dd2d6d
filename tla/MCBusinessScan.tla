---------------------------- MODULE MCBusinessScan ----------------------------
EXTENDS BusinessScan

CONSTANTS a1, a2, i1, i2, i3, h1, h2

(* i1 and i2 share a host, i1 and i3 a bucket. *)
MCHostOf == [i \in Inst |-> IF i = i3 THEN h2 ELSE h1]
MCBucketOf == [i \in Inst |-> IF i = i2 THEN 2 ELSE 1]
=============================================================================
