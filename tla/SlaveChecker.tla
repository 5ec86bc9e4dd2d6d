---------------------------- MODULE SlaveChecker ----------------------------
(***************************************************************************)
(* The check of a standby slave before it takes over: it replicates from   *)
(* the master that failed, has executed what it received but for an        *)
(* allowed rest, and its checksums and Seconds_Behind_Master are good.     *)
(* The slave goes on receiving and executing while it is checked.          *)
(***************************************************************************)
EXTENDS Integers, Sequences, SlaveCheckerConstants

Null == -1

VARIABLES
  log,     \* bytes received of each file of the master's binlog
  relay,   \* index of the file that the SQL thread executes
  exec,    \* bytes of it executed
  facts,   \* the rest of what the checker reads
  pc,      \* where the check is
  rounds   \* readings so far

slave == <<log, relay, exec>>
vars == <<slave, facts, pc, rounds>>

(* behind is Seconds_Behind_Master, databases says whether users created   *)
(* any, and ignore are the two switches of the configuration.              *)
Facts == [ source : BOOLEAN, running : BOOLEAN, behind : {Null, 0, MaxBehind},
           databases : BOOLEAN, checksums : {0, 1},
           failures : {MaxFailures, MaxFailures + 1},
           ignore : SUBSET {"delay", "checksum"} ]

TypeOK ==
  /\ log \in Seq(0..(MasterBinlogSize + MaxTransaction)) /\ log # <<>>
  /\ relay \in DOMAIN log /\ exec \in 0..log[relay]
  /\ facts \in Facts
  /\ pc \in {"idle", "waiting", "passed", "refused"}
  /\ rounds \in 0..Loops

Init ==
  /\ log = <<0>> /\ relay = 1 /\ exec = 0
  /\ facts \in Facts
  /\ pc = "idle" /\ rounds = 0

-----------------------------------------------------------------------------
(* The slave: transactions arrive, a file may exceed its size by the last  *)
(* of them, and the SQL thread follows.                                    *)

Received == Len(log)

Receive(bytes) ==
  /\ log[Received] < MasterBinlogSize
  /\ log' = [log EXCEPT ![Received] = @ + bytes]
  /\ UNCHANGED <<relay, exec, facts, pc, rounds>>

Rotate ==
  /\ log[Received] > 0 /\ Received < MaxFiles
  /\ log' = Append(log, 0)
  /\ UNCHANGED <<relay, exec, facts, pc, rounds>>

Execute ==
  /\ facts.running
  /\ IF exec < log[relay]
     THEN exec' = exec + 1 /\ UNCHANGED relay
     ELSE /\ relay < Received
          /\ relay' = relay + 1 /\ exec' = 0
  /\ UNCHANGED <<log, facts, pc, rounds>>

-----------------------------------------------------------------------------
(* The checker *)

(* A mistake: the files in between are forgotten. *)
CalSlowSameFile == ((log[Received] \div K) - (exec \div K)) % Width

(* Unsigned: kilobytes are counted before the subtraction.  The slave's    *)
(* max_binlog_size is taken for the size of the master's files.            *)
CalSlowBytes ==
  ((Received - relay) * (MaxBinlogSize \div K)
     - (exec \div K) + (log[Received] \div K)) % Width

Ignores(check) == check \in facts.ignore

(* An instance without databases of users is not covered by checksum jobs. *)
RunSlaveCheckSum ==
  facts.databases => facts.checksums >= 1 /\ facts.failures <= MaxFailures

(* NULL is no signal of lag and passes.                                    *)
CheckSecondsBehindMaster == facts.behind = Null \/ facts.behind < MaxBehind

(* GetSlaveStatusPartialInfo: no status of a slave whose SQL thread stands *)
SlaveStatus == facts.running

(* The checks that follow the wait; their facts do not change meanwhile.   *)
Verdict ==
  IF /\ Ignores("checksum") \/ RunSlaveCheckSum
     /\ Ignores("delay") \/ CheckSecondsBehindMaster
  THEN "passed" ELSE "refused"

InStep == Ignores("delay") \/ CalSlowBytes <= AllowedSlow

(* The first reading. *)
Check ==
  /\ pc = "idle" /\ SlaveStatus /\ facts.source
  /\ pc' = IF InStep THEN Verdict ELSE "waiting"
  /\ UNCHANGED <<slave, facts, rounds>>

(* The connection or a query fails, or the status is that of a slave to    *)
(* refuse.                                                                 *)
CheckFails ==
  /\ pc \in {"idle", "waiting"}
  /\ pc' = "refused"
  /\ UNCHANGED <<slave, facts, rounds>>

(* WaitReplPosDelay: three seconds later, as often as Loops.               *)
WaitReplPosDelay ==
  /\ pc = "waiting" /\ SlaveStatus
  /\ rounds' = rounds + 1
  /\ pc' = IF InStep THEN Verdict
           ELSE IF rounds' = Loops THEN "refused" ELSE "waiting"
  /\ UNCHANGED <<slave, facts>>

Next ==
  \/ \E bytes \in 1..MaxTransaction : Receive(bytes)
  \/ Rotate \/ Execute
  \/ Check \/ CheckFails \/ WaitReplPosDelay

Spec == Init /\ [][Next]_vars

-----------------------------------------------------------------------------

(* What the slave has received and not executed, in bytes. *)
Sum[i \in 0..Received] == IF i = 0 THEN 0 ELSE Sum[i - 1] + log[i]
Rest == Sum[Received] - Sum[relay - 1] - exec

Refused == pc' = "refused" /\ pc # "refused"
Passed == pc' = "passed" /\ pc # "passed"

(* Unless the delay is ignored, a slave that passes has less to execute    *)
(* than the allowed kilobytes and one more, whose fractions the division   *)
(* loses, if no file is larger than the slave's max_binlog_size.           *)
PassedIsInStep ==
  [][Passed /\ ~ Ignores("delay") /\ (\A i \in 1..Received : log[i] <= MaxBinlogSize)
       => Rest < (AllowedSlow + 1) * K]_vars

=============================================================================
