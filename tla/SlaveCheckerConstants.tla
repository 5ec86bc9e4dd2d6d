----------------------- MODULE SlaveCheckerConstants -----------------------
(* The parameters of SlaveChecker. *)
EXTENDS Naturals

CONSTANTS
  K,                \* bytes in a kilobyte: 1024
  Width,            \* the values of an unsigned integer: 2^64
  MasterBinlogSize, \* max_binlog_size of the master, where it starts a new file
  MaxBinlogSize,    \* max_binlog_size of the slave, which the check reads
  MaxTransaction,   \* bound: bytes of one transaction
  MaxFiles,         \* bound: files of the binlog
  Loops,            \* readings of a slave that is delayed: 10
  AllowedSlow,      \* slaveAllowedSlowBytes, compared with kilobytes
  MaxBehind,        \* slaveAllowedMaxSecondsBehindMaster
  MaxFailures       \* slaveAllowedMaxChecksumFailCnt

ASSUME SlaveCheckerAssumption ==
  /\ {K, MaxTransaction, MaxFiles, Loops, MasterBinlogSize, MaxBinlogSize} \subseteq Nat \ {0}
  /\ {AllowedSlow, MaxBehind, MaxFailures} \subseteq Nat
  /\ MaxBinlogSize % K = 0
  /\ Width \in Nat /\ Width > MaxFiles * (MaxBinlogSize + MaxTransaction)
=============================================================================
