----------------------------- MODULE Heartbeat -----------------------------
(***************************************************************************)
(* The write heartbeat of the MySQL harvester: every round opens one       *)
(* connection to the instance, switches forwarding and the binlog off for  *)
(* its session, makes sure the heartbeat table exists, replaces the row of *)
(* the instance, reads its age and reports.  The pool holds one connection *)
(* and replaces it silently: a statement that is late may have been        *)
(* executed and may cost the connection, and the server may close it       *)
(* between two statements.  A new session has the defaults of the server.  *)
(***************************************************************************)
EXTENDS Integers, HeartbeatConstants

VARIABLES
  kind,     \* what is probed
  db,       \* the instance: session, table, row and what left it in this round
  pc,       \* next statement of the round, "idle" between rounds
  attempt,  \* of writing
  cut,      \* the server has closed the connection in this attempt
  status    \* what the round will report

vars == <<kind, db, pc, attempt, cut, status>>

NewSession == [log |-> TRUE, forward |-> kind # "storage"]

Statements == {"forward", "logOff", "lookup", "createDb", "createTable", "logAsAsked",
               "serverId", "replace", "delay"}

TypeOK ==
  /\ kind \in Kinds
  /\ db \in [ session : [log : BOOLEAN, forward : BOOLEAN],
              schema : {"none", "db", "table"}, row : {"none", "old", "now"},
              sent : SUBSET {"ddl", "row"} ]
  /\ pc \in Statements \cup {"idle", "decide", "report"}
  /\ attempt \in 0..MaxAttempts /\ cut \in BOOLEAN
  /\ status \in [ok : BOOLEAN, delay : {"fallback", "old", "now"}, event : {"none", "open", "write"}]

Silent == [ok |-> FALSE, delay |-> "fallback", event |-> "none"]

Init ==
  /\ kind \in Kinds
  /\ db = [session |-> NewSession, schema |-> "none", row |-> "none", sent |-> {}]
  /\ pc = "idle" /\ attempt = 0 /\ cut = FALSE /\ status = Silent

-----------------------------------------------------------------------------
(* The statements.                                                         *)

(* What is written under sql_log_bin=ON goes to the replicas, CREATE ...   *)
(* IF NOT EXISTS of what exists included.                                  *)
Sent(what) == IF db.session.log THEN db.sent \cup {what} ELSE db.sent

Effect(s) ==
  CASE s = "forward"    -> [db EXCEPT !.session.forward = FALSE]
    [] s = "logOff"     -> [db EXCEPT !.session.log = FALSE]
    [] s = "logAsAsked" -> [db EXCEPT !.session.log = FALSE]  \* writeBinlog is false
    [] s = "createDb"   -> [db EXCEPT !.schema = IF @ = "none" THEN "db" ELSE @, !.sent = Sent("ddl")]
    [] s = "createTable" -> [db EXCEPT !.schema = "table", !.sent = Sent("ddl")]
    [] s = "replace"    -> [db EXCEPT !.row = "now", !.sent = Sent("row")]
    [] OTHER            -> db

(* Succeeds only where what it names exists.                               *)
Possible(s) ==
  CASE s = "createTable" -> db.schema # "none"
    [] s \in {"replace", "delay"} -> db.schema = "table"
    [] OTHER -> TRUE

(* heartbeatExec, heartbeatScan: done, refused, or late.                   *)
Done(s)    == Possible(s) /\ db' = Effect(s)
Refused(s) == db' = db
Late(s)    ==
  \E d \in {db} \cup {Effect(t) : t \in {u \in {s} : Possible(u)}} :
     db' \in {d, [d EXCEPT !.session = NewSession]}

Fails(s, stage) == (Refused(s) \/ Late(s)) /\ pc' = stage

(* database/sql takes a new connection when the server has closed the old. *)
ServerCloses ==
  /\ pc \in Statements
  /\ db' = [db EXCEPT !.session = NewSession]
  /\ cut' = TRUE
  /\ UNCHANGED <<kind, pc, attempt, status>>

-----------------------------------------------------------------------------
(* A round: collectHeartbeat through emitDbStatus.                         *)

(* open, adoptOpenedDB: a connection of its own for every round.           *)
Open ==
  /\ pc = "idle"
  /\ db' = [db EXCEPT !.session = NewSession, !.sent = {},
                      !.row = IF @ = "now" THEN "old" ELSE @]
  /\ status' = Silent /\ attempt' = 1 /\ cut' = FALSE
  /\ pc' = "forward"
  /\ UNCHANGED kind

OpenFails ==
  /\ pc = "idle"
  /\ status' = [Silent EXCEPT !.event = "open"]
  /\ pc' = "report"
  /\ UNCHANGED <<kind, db, attempt, cut>>

(* Only spider and tdbctl forward; storage issues no statement.            *)
DisableSpiderSessionForwarding ==
  /\ pc = "forward"
  /\ \/ kind = "storage" /\ db' = db /\ pc' = "logOff"
     \/ kind # "storage" /\ Done("forward") /\ pc' = "logOff"
     \/ kind # "storage" /\ Fails("forward", "decide")
  /\ UNCHANGED <<kind, attempt, cut, status>>

SetLogBinOff ==
  /\ pc = "logOff"
  /\ \/ Done("logOff") /\ pc' = "lookup"
     \/ Fails("logOff", "decide")
  /\ UNCHANGED <<kind, attempt, cut, status>>

(* A lookup that fails counts as a missing table.                          *)
LookUpTable ==
  /\ pc = "lookup"
  /\ \/ Done("lookup") /\ pc' = (IF db.schema = "table" THEN "logAsAsked" ELSE "createDb")
     \/ Fails("lookup", "createDb")
  /\ UNCHANGED <<kind, attempt, cut, status>>

ConfirmHeartbeatTable ==
  /\ \/ pc = "createDb" /\ Done("createDb") /\ pc' = "createTable"
     \/ pc = "createTable" /\ Done("createTable") /\ pc' = "logAsAsked"
     \/ pc \in {"createDb", "createTable"} /\ Fails(pc, "decide")
  /\ UNCHANGED <<kind, attempt, cut, status>>

(* Mistake: trust the first SET of the attempt. *)
SetLogBinOnce ==
  /\ pc = "logAsAsked"
  /\ db' = db /\ pc' = "serverId"
  /\ UNCHANGED <<kind, attempt, cut, status>>

SetLogBinAsAsked ==
  /\ pc = "logAsAsked"
  /\ \/ Done("logAsAsked") /\ pc' = "serverId"
     \/ Fails("logAsAsked", "decide")
  /\ UNCHANGED <<kind, attempt, cut, status>>

ReadServerId ==
  /\ pc = "serverId"
  /\ \/ Done("serverId") /\ pc' = "replace"
     \/ Fails("serverId", "decide")
  /\ UNCHANGED <<kind, attempt, cut, status>>

ReplaceRow ==
  /\ pc = "replace"
  /\ \/ Done("replace") /\ pc' = "delay" /\ status' = [status EXCEPT !.ok = TRUE]
     \/ Fails("replace", "decide") /\ UNCHANGED status
  /\ UNCHANGED <<kind, attempt, cut>>

(* The next attempt, the last one failed, or the deadline of the round is  *)
(* over while waiting for the next: then the delay is not read.            *)
AfterFailure ==
  /\ pc = "decide"
  /\ \/ attempt < MaxAttempts /\ attempt' = attempt + 1 /\ cut' = FALSE /\ pc' = "forward"
     \/ attempt = MaxAttempts /\ pc' = "delay" /\ UNCHANGED <<attempt, cut>>
     \/ attempt < MaxAttempts /\ pc' = "report" /\ UNCHANGED <<attempt, cut>>
  /\ UNCHANGED <<kind, db, status>>

(* A missing row and a failed query keep the fallback.                     *)
ReadDbhaHeartbeatDelay ==
  /\ pc = "delay"
  /\ \/ /\ Done("delay") /\ pc' = "report"
        /\ status' = [status EXCEPT !.delay = IF db.row = "none" THEN "fallback" ELSE db.row]
     \/ Fails("delay", "report") /\ UNCHANGED status
  /\ UNCHANGED <<kind, attempt, cut>>

(* One report per round, whatever failed; the connection is closed.        *)
EmitDbStatus ==
  /\ pc = "report"
  /\ status' = [status EXCEPT !.event = IF status.event = "none" /\ ~status.ok THEN "write" ELSE @]
  /\ pc' = "idle"
  /\ UNCHANGED <<kind, db, attempt, cut>>

Next ==
  \/ ServerCloses \/ Open \/ OpenFails
  \/ DisableSpiderSessionForwarding \/ SetLogBinOff \/ LookUpTable
  \/ ConfirmHeartbeatTable \/ SetLogBinAsAsked \/ ReadServerId \/ ReplaceRow
  \/ AfterFailure \/ ReadDbhaHeartbeatDelay \/ EmitDbStatus

Spec == Init /\ [][Next]_vars

-----------------------------------------------------------------------------
(* The heartbeat row never reaches a replica, whichever statements of      *)
(* whichever attempts were late: replicated rows of a former master would  *)
(* collide after a switchover.  The only way out is a server that closes   *)
(* the session between SET sql_log_bin and REPLACE (collector.go:427-489). *)
RowsStayLocal == [][("row" \in db'.sent /\ "row" \notin db.sent) => cut]_vars

(* What the comment on writeDbhaHeartbeat promises (collector.go:427-429): *)
(* the DDL is executed with sql_log_bin=OFF.                               *)
DDLStaysLocal == [][("ddl" \in db'.sent /\ "ddl" \notin db.sent) => cut]_vars
=============================================================================
