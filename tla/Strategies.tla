----------------------------- MODULE Strategies -----------------------------
(***************************************************************************)
(* The strategies that decide whether failures are switched: the table as  *)
(* the overlapping requests of the admin service change it, each check and *)
(* each write a statement of its own, and the choice a pass of the         *)
(* analysis makes from it.                                                 *)
(***************************************************************************)
EXTENDS StrategiesConstants, SequencesExt

VARIABLES
  rows,  \* the table: a strategy with its status, per id
  job    \* what each request has still to do, Idle when it has answered

vars == <<rows, job>>

Id == 1 .. MaxIds
Idle == [op |-> "idle"]
Live == {"enabled", "disabled"}
Status == Live \cup {"deleted"}

Row == [name : {"n1", "n2"}, biz : Nat, event : {"down", "full", "pair"},
        count : Nat, prio : Nat, status : Status]
Job == [op : {"create"}, stage : {"check", "write"}, biz : Nat, items : Seq(Content)]
  \cup [op : {"update"}, stage : {"look", "check", "write"}, biz : Nat,
        items : Seq(Content), ids : Seq(Id)]
  \cup [op : {"mark"}, stage : {"look", "write"}, biz : Nat, ids : Seq(Id), status : Status]

TypeOK ==
  /\ rows \in Seq(Row)
  /\ job \in [Request -> {Idle} \cup Job]

Init ==
  /\ rows = <<>>
  /\ job = [r \in Request |-> Idle]

-----------------------------------------------------------------------------
(* The requests.  The items of a batch name their own business, which may  *)
(* be another one than the request's, and even Global.                     *)

Own == {c \in Content : c.biz # Global}
Shared == Content \ Own
Businesses == {c.biz : c \in Own}

Batches(S) == {<<x>> : x \in S} \cup {<<x, y>> : x, y \in S}
NamesDiffer(s) == Len(s) = 2 => s[1].name # s[2].name

Creation(b, s) == [op |-> "create", stage |-> "check", biz |-> b, items |-> s]
Alteration(stage, b, s, is) ==
  [op |-> "update", stage |-> stage, biz |-> b, items |-> s, ids |-> is]
Mark(stage, b, is, status) ==
  [op |-> "mark", stage |-> stage, biz |-> b, ids |-> is, status |-> status]

Create == {Creation(c.biz, <<c>>) : c \in Own}
GlobalCreate == {Creation(Global, <<c>>) : c \in Shared}
BatchCreate ==
  {Creation(b, s) : b \in Businesses, s \in {t \in Batches(Content) : NamesDiffer(t)}}

Update == {Alteration("look", c.biz, <<c>>, <<i>>) : c \in Own, i \in Id}
GlobalUpdate == {Alteration("look", Global, <<c>>, <<i>>) : c \in Shared, i \in Id}
BatchUpdate ==
  {j \in {Alteration("check", b, s, is) :
            b \in Businesses, s \in {t \in Batches(Content) : NamesDiffer(t)},
            is \in Batches(Id)} : Len(j.items) = Len(j.ids)}

StatusUpdate == {Mark("look", b, <<i>>, s) : b \in Businesses, i \in Id, s \in Live}
GlobalStatusUpdate == {Mark("look", Global, <<i>>, s) : i \in Id, s \in Live}
Delete == {Mark("look", b, <<i>>, "deleted") : b \in Businesses, i \in Id}
GlobalDelete == {Mark("look", Global, <<i>>, "deleted") : i \in Id}
BatchUpdateStatus ==
  {Mark("write", b, is, s) : b \in Businesses, is \in Batches(Id), s \in Live}
BatchDelete == {Mark("write", b, is, "deleted") : b \in Businesses, is \in Batches(Id)}

Ask(r) ==
  /\ job[r] = Idle
  /\ \E j \in Create \cup GlobalCreate \cup BatchCreate
              \cup Update \cup GlobalUpdate \cup BatchUpdate
              \cup StatusUpdate \cup GlobalStatusUpdate \cup Delete \cup GlobalDelete
              \cup BatchUpdateStatus \cup BatchDelete :
       job' = [job EXCEPT ![r] = j]
  /\ UNCHANGED rows

Answer(r) == job' = [job EXCEPT ![r] = Idle]

(* GetStrategy: a strategy that is deleted, or of another business, is not *)
(* found.                                                                  *)
Look(r) ==
  LET j == job[r] IN
  /\ j.op # "idle" /\ j.stage = "look"
  /\ IF /\ j.ids[1] \in DOMAIN rows
        /\ rows[j.ids[1]].biz = j.biz /\ rows[j.ids[1]].status \in Live
     THEN job' = [job EXCEPT ![r].stage = IF j.op = "update" THEN "check" ELSE "write"]
     ELSE Answer(r)
  /\ UNCHANGED rows

(* CheckDuplicatedName and its batches: the names are looked up in the     *)
(* business of the request, deleted strategies included.                   *)
Duplicated(j) ==
  \E k \in DOMAIN j.items, i \in DOMAIN rows :
    /\ rows[i].biz = j.biz /\ rows[i].name = j.items[k].name
    /\ j.op = "update" => i # j.ids[k]

CheckNames(r) ==
  /\ job[r].op # "idle" /\ job[r].stage = "check"
  /\ IF Duplicated(job[r]) THEN Answer(r)
     ELSE job' = [job EXCEPT ![r].stage = "write"]
  /\ UNCHANGED rows

-----------------------------------------------------------------------------
(* The writes.  A table that would break the unique index on the name and  *)
(* the business is refused, and with it the whole statement or             *)
(* transaction.                                                            *)

Clash(t) ==
  \E i, k \in DOMAIN t : i # k /\ t[i].name = t[k].name /\ t[i].biz = t[k].biz

With(c, status) == [name |-> c.name, biz |-> c.biz, event |-> c.event,
                    count |-> c.count, prio |-> c.prio, status |-> status]

Created(t, s) == t \o [k \in DOMAIN s |-> With(s[k], "enabled")]

CreateStrategy(j) ==
  LET new == Created(rows, j.items) IN IF Clash(new) THEN rows ELSE new

Changed(i, c) == rows[i].biz = c.biz /\ rows[i].status # "deleted"

(* The statements of one transaction, in the order of the items: the table *)
(* after the first n of them.  None changes the business or the status.    *)
After(j, n) ==
  [i \in DOMAIN rows |->
     LET K == {k \in 1 .. n : j.ids[k] = i /\ Changed(i, j.items[k])} IN
     IF K = {} THEN rows[i] ELSE With(j.items[Max(K)], rows[i].status)]

UpdateStrategy(j) ==
  IF \E n \in DOMAIN j.items : Clash(After(j, n)) THEN rows ELSE After(j, Len(j.items))

(* A mistake: to enable or to disable what has been deleted meanwhile. *)
MarkedAnyway(j, i) == i \in Range(j.ids) /\ rows[i].biz = j.biz

Marked(j, i) ==
  /\ i \in Range(j.ids) /\ rows[i].biz = j.biz
  /\ j.status # "deleted" => rows[i].status # "deleted"

UpdateStrategyStatus(j) ==
  [i \in DOMAIN rows |-> IF Marked(j, i) THEN [rows[i] EXCEPT !.status = j.status]
                         ELSE rows[i]]

Write(r) ==
  LET j == job[r] IN
  /\ j.op # "idle" /\ j.stage = "write"
  /\ j.op = "create" => Len(rows) + Len(j.items) <= MaxIds
  /\ rows' = CASE j.op = "create" -> CreateStrategy(j)
               [] j.op = "update" -> UpdateStrategy(j)
               [] j.op = "mark"   -> UpdateStrategyStatus(j)
  /\ Answer(r)

(* The database cannot be reached, or the client has gone. *)
Fails(r) ==
  /\ job[r] # Idle
  /\ Answer(r)
  /\ UNCHANGED rows

Next == \E r \in Request : Ask(r) \/ Look(r) \/ CheckNames(r) \/ Write(r) \/ Fails(r)

Spec == Init /\ [][Next]_vars

-----------------------------------------------------------------------------
(* MatchStrategyForGroup: the choice for the group G of failures of        *)
(* business b, when DBM lists the instances L as available.                *)

(* ReadSwitchingStrategyWithBkBizId *)
ReadSwitchingStrategy(b) ==
  {i \in DOMAIN rows : rows[i].biz \in {b, Global} /\ rows[i].status = "enabled"}

(* excludeUnavailableInstances *)
SwitchGroup(G, L) == G \cap L

(* CountInstancesByEventName and the functions of specialStrategyRegistry  *)
(* (the proxy and the master of a TendbHA, the spider and the master of a  *)
(* shard of a TendbCluster).                                               *)
Count(event, S) ==
  IF event = "pair"
  THEN Cardinality({x.cluster : x \in {y \in S : \E z \in S :
         y.cluster = z.cluster /\ y.part = "front" /\ z.part = "master"}})
  ELSE Cardinality({x \in S : x.event = event})

Threshold(s) == IF s.count = 0 THEN 1 ELSE s.count

(* The order of SortCandidates, and one that looks at priorities first. *)
BeforeByPriority(s, t) ==
  IF s.prio # t.prio THEN s.prio < t.prio ELSE s.biz # Global /\ t.biz = Global

Before(s, t) ==
  IF (s.biz # Global) # (t.biz # Global) THEN s.biz # Global ELSE s.prio < t.prio

(* The strategies that may be chosen: the sort is not stable. *)
MatchStrategyForGroup(b, G, L) ==
  LET Candidates == {i \in ReadSwitchingStrategy(b) :
        Count(rows[i].event, SwitchGroup(G, L)) >= Threshold(rows[i])}
  IN {i \in Candidates : \A k \in Candidates : ~Before(rows[k], rows[i])}

-----------------------------------------------------------------------------

(* A deleted strategy stays deleted and as it was, even when requests that *)
(* had found it alive finish after it was deleted.                         *)
DeletedForGood ==
  [][\A i \in DOMAIN rows : rows[i].status = "deleted" => rows'[i] = rows[i]]_vars

(* A strategy triggers only on instances that are failing now and that DBM *)
(* still lists, never on what was switched before; and the global ones,    *)
(* whatever their priority, only when none of the business does.           *)
OwnStrategiesFirst ==
  \A c \in Content \ {d \in Content : d.biz = Global},
     G \in SUBSET Failed, L \in SUBSET Failed :
    \A i \in MatchStrategyForGroup(c.biz, G, L) :
      /\ rows[i].event # "pair" =>
           \E x \in G \cap L : x.event = rows[i].event
      /\ rows[i].event = "pair" =>
           \E x, y \in G \cap L : x.cluster = y.cluster /\ x.part # y.part
      /\ rows[i].biz = Global =>
           \A k \in DOMAIN rows :
             rows[k].biz = c.biz /\ rows[k].status = "enabled" /\ rows[k].event # "pair"
               => Cardinality({x \in G \cap L : x.event = rows[k].event}) < Threshold(rows[k])
=============================================================================
