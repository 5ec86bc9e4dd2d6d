----------------------- MODULE SpiderSwitchConstants -----------------------
(* The parameters of SpiderSwitch. *)
EXTENDS Naturals, SwitchAttempts

CONSTANTS
  Spider,          \* the spiders of the cluster
  SpiderSlave,     \* those in role spider_slave, which have no tdbctl
  First,           \* the spider whose tdbctl is primary at first
  Shard,           \* the shards, each a remote master with a standby slave
  SameHostUnits,   \* the sets of instances a request may bring together
  MaxDead          \* bound: how many tdbctl nodes stop answering

Tdbctl == Spider \ SpiderSlave

ASSUME SpiderSwitchAssumption ==
  /\ SpiderSlave \subseteq Spider /\ First \in Tdbctl
  /\ Nobody \notin Attempt \cup Spider
  /\ Spider \cap Shard = {}
  /\ SameHostUnits \subseteq (SUBSET (Spider \cup Shard)) \ {{}}
  /\ MaxDead \in Nat
=============================================================================
