------------------------------ MODULE Whitelist ------------------------------
(***************************************************************************)
(* The tool that edits the list of the clusters DBHA may switch.  A        *)
(* command is a file of entries (add, update and delete are files of one), *)
(* executed one after the other by requests to an HTTP service, which owns *)
(* the table.  A request that is not answered is sent again, although the  *)
(* service may have executed it or may execute it later.  The business and *)
(* the cloud are fixed.                                                    *)
(***************************************************************************)
EXTENDS WhitelistConstants, Sequences

VARIABLES
  rows,    \* the table: a row, or Gone, for every id ever given out
  run,     \* each invocation: its file, where it is, what it asks now
  late,    \* requests that the tool has given up and the service has not
  expect,  \* history: what the file makes of the table as it was found
  alone    \* history: nothing else has changed the table since then

vars == <<rows, run, late, expect, alone>>

Idle == [stage |-> "idle"]
Gone == [cluster |-> "gone"]
NoId == 0

Rows(t) == {i \in DOMAIN t : t[i] # Gone}
RowsOf(t, c) == {i \in DOMAIN t : t[i].cluster = c}

TypeOK ==
  /\ Len(rows) <= MaxRows
  /\ \A t \in Tool : run[t].stage \in {"idle", "entry", "ask", "done", "failed"}
  /\ alone \in [Tool -> BOOLEAN]

Init ==
  /\ rows = <<>>
  /\ run = [t \in Tool |-> Idle]
  /\ late = {}
  /\ expect = [t \in Tool |-> {}]
  /\ alone = [t \in Tool |-> FALSE]

-----------------------------------------------------------------------------
(* The service, request by request: a request is [op, id, cluster, set].   *)

(* The values of a row after those of s have been put in. *)
Put(old, s) == [f \in DOMAIN old \cup DOMAIN s |-> IF f \in DOMAIN s THEN s[f] ELSE old[f]]

(* The unique index of the table refuses a second row for a cluster. *)
Refuses(t, q) == q.op = "insert" /\ RowsOf(t, q.cluster) # {}

Execute(t, q) ==
  CASE q.op = "insert" ->
         IF Refuses(t, q) THEN t ELSE Append(t, [cluster |-> q.cluster, set |-> q.set])
    [] q.op = "update" ->
         [i \in DOMAIN t |-> IF t[i].cluster = q.cluster /\ q.id \in {NoId, i}
                             THEN [t[i] EXCEPT !.set = Put(@, q.set)] ELSE t[i]]
    [] q.op = "delete" ->
         [i \in DOMAIN t |-> IF t[i].cluster = q.cluster THEN Gone ELSE t[i]]

-----------------------------------------------------------------------------
(* The tool. *)

(* The Validate functions: an added cluster needs a switch version, an     *)
(* update something to set.                                                *)
ValidEntry(e) ==
  /\ e.act = "add" => "version" \in DOMAIN e.set
  /\ e.act = "update" => DOMAIN e.set # {}

(* validateImportEntries *)
Valid(f) == \A k \in DOMAIN f : ValidEntry(f[k])

(* The requests for an entry; matches are the rows that the query of an    *)
(* upsert has found.                                                       *)
Ask(e, op, id) == [op |-> op, id |-> id, cluster |-> e.cluster, set |-> e.set]

InsertRequest(e) == Ask(e, "insert", NoId)
UpsertRequest(e, matches) ==
  IF matches = {} THEN InsertRequest(e) ELSE Ask(e, "update", CHOOSE i \in matches : TRUE)
UpdateRequest(e) == Ask(e, "update", NoId)
DeleteRequest(e) == Ask(e, "delete", NoId)

Asks(e, upsert, matches) ==
  CASE e.act = "add"    -> IF upsert THEN UpsertRequest(e, matches) ELSE InsertRequest(e)
    [] e.act = "update" -> UpdateRequest(e)
    [] e.act = "delete" -> DeleteRequest(e)

(* What a file should make of a table, entry by entry: as if it were alone *)
(* and every request answered.                                             *)
Made(t, e, upsert) == Execute(t, Asks(e, upsert, RowsOf(t, e.cluster)))

Steps(t, f, upsert) ==
  LET table[k \in 0..Len(f)] == IF k = 0 THEN t ELSE Made(table[k - 1], f[k], upsert)
  IN  table

Outcome(t, f, upsert) == Steps(t, f, upsert)[Len(f)]

View(t) == {t[i] : i \in Rows(t)}

(* Import, Add, Update, Delete, once the operator has confirmed. *)
Start(t, f, upsert) ==
  /\ run[t] = Idle
  /\ Valid(f)
  /\ run' = [run EXCEPT ![t] =
       [stage |-> "entry", file |-> f, upsert |-> upsert, at |-> 1]]
  /\ expect' = [expect EXCEPT ![t] = View(Outcome(rows, f, upsert))]
  /\ alone' = [alone EXCEPT ![t] = TRUE]
  /\ UNCHANGED <<rows, late>>

(* executeImportEntry, up to the request that changes the table; an upsert *)
(* looks the cluster up first and is refused when two rows match.          *)
Entry(t) ==
  LET j == run[t]  e == j.file[j.at] IN
  /\ j.stage = "entry" /\ j.at <= Len(j.file)
  /\ run' = [run EXCEPT ![t] =
       IF j.upsert /\ e.act = "add" /\ Cardinality(RowsOf(rows, e.cluster)) > 1
       THEN [stage |-> "failed"]
       ELSE [stage |-> "ask", file |-> j.file, upsert |-> j.upsert, at |-> j.at,
             ask |-> Asks(e, j.upsert, RowsOf(rows, e.cluster)), tries |-> 1]]
  /\ UNCHANGED <<rows, late, expect, alone>>

Succeeds(t) ==
  /\ run[t].stage = "entry" /\ run[t].at > Len(run[t].file)
  /\ run' = [run EXCEPT ![t] = [stage |-> "done"]]
  /\ UNCHANGED <<rows, late, expect, alone>>

Onwards(j) == [stage |-> "entry", file |-> j.file, upsert |-> j.upsert, at |-> j.at + 1]

(* A mistake: to go on with the next entry. *)
AfterErrorGoesOn(j) == Onwards(j)

AfterError(j) == [stage |-> "failed"]

(* doRequest: after an attempt without an answer. *)
Again(j) == IF j.tries < MaxTries THEN [j EXCEPT !.tries = @ + 1] ELSE AfterError(j)

(* The service executes q: the other invocations are not alone any more. *)
Serve(t, q) ==
  /\ q.op = "insert" /\ ~Refuses(rows, q) => Len(rows) < MaxRows
  /\ rows' = Execute(rows, q)
  /\ alone' = [u \in Tool |-> alone[u] /\ (u = t \/ rows' = rows)]

Answered(t) ==
  LET j == run[t] IN
  /\ j.stage = "ask"
  /\ Serve(t, j.ask)
  /\ run' = [run EXCEPT ![t] = IF Refuses(rows, j.ask) THEN AfterError(j) ELSE Onwards(j)]
  /\ UNCHANGED <<late, expect>>

(* The answer is lost, or it is an error of the server. *)
AnswerLost(t) ==
  LET j == run[t] IN
  /\ j.stage = "ask"
  /\ Serve(t, j.ask)
  /\ run' = [run EXCEPT ![t] = Again(j)]
  /\ UNCHANGED <<late, expect>>

(* The attempt times out: the service never gets it, or gets to it later. *)
TimesOut(t) ==
  LET j == run[t] IN
  /\ j.stage = "ask"
  /\ run' = [run EXCEPT ![t] = Again(j)]
  /\ \/ late' = late
     \/ Cardinality(late) < MaxLate /\ late' = late \cup {j.ask}
  /\ UNCHANGED <<rows, expect, alone>>

(* shouldNotRetry: the request is wrong, or may not be made. *)
Rejected(t) ==
  /\ run[t].stage = "ask"
  /\ run' = [run EXCEPT ![t] = AfterError(run[t])]
  /\ UNCHANGED <<rows, late, expect, alone>>

Asking(t, q) == run[t].stage = "ask" /\ run[t].ask = q

(* An attempt that timed out is executed after all.  An invocation that is *)
(* still asking for the same thing cannot tell it from its own attempt.    *)
Lands(q) ==
  /\ q \in late
  /\ q.op = "insert" /\ ~Refuses(rows, q) => Len(rows) < MaxRows
  /\ late' = late \ {q}
  /\ rows' = Execute(rows, q)
  /\ alone' = [u \in Tool |-> alone[u] /\ (rows' = rows \/ Asking(u, q))]
  /\ UNCHANGED <<run, expect>>

(* The process of the tool ends. *)
Exit(t) ==
  /\ run[t].stage \in {"done", "failed"}
  /\ run' = [run EXCEPT ![t] = Idle]
  /\ expect' = [expect EXCEPT ![t] = {}]
  /\ alone' = [alone EXCEPT ![t] = FALSE]
  /\ UNCHANGED <<rows, late>>

Next ==
  \/ \E t \in Tool, f \in File, upsert \in BOOLEAN : Start(t, f, upsert)
  \/ \E t \in Tool : \/ Entry(t) \/ Succeeds(t) \/ Answered(t) \/ AnswerLost(t)
                     \/ TimesOut(t) \/ Rejected(t) \/ Exit(t)
  \/ \E q \in late : Lands(q)

Spec == Init /\ [][Next]_vars

-----------------------------------------------------------------------------

(* A command that reports success has made of the table what its entries   *)
(* say, whatever was asked twice, unless somebody else changed the table,  *)
(* or a request that was given up and belonged to an earlier entry did.    *)
ImportedIsStored ==
  [][\A t \in Tool :
       run[t].stage = "entry" /\ run'[t].stage = "done" /\ alone[t]
         => View(rows) = expect[t]]_vars
=============================================================================
