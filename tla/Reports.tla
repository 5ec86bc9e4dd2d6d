------------------------------ MODULE Reports ------------------------------
(***************************************************************************)
(* How a report travels: every harvest group of a probe runs its own loop  *)
(* and writes into the channel of its generation; runPlugin takes reports  *)
(* from it one at a time and posts them; gRPC spreads the posts over the   *)
(* receivers; a receiver queues what it accepts and hands it to its sinks, *)
(* which replace the row of the instance and group whatever it holds.      *)
(*                                                                         *)
(* A hot reload cancels a generation and waits for runPlugin, not for the  *)
(* loops behind it.  A broken connection ends the call of the client, not  *)
(* the handler that has begun.  A receiver that is told to stop closes its *)
(* sources and its sinks at the same time.                                 *)
(***************************************************************************)
EXTENDS Integers, Sequences

CONSTANTS
  Group,        \* harvest groups with a collector: default, heartbeat
  Receiver,
  DataCap,      \* capacity of the channel of a generation
  QueueCap,     \* capacity of the queue of a receiver
  MaxReports,   \* bound: reports made
  MaxGens,      \* bound: generations, the reloads and one
  MaxFaults     \* bound: broken connections, receiver stops and kills, failed writes

ASSUME ReportsAssumption ==
  /\ Group # {} /\ Receiver # {}
  /\ DataCap \in Nat \ {0} /\ QueueCap \in Nat \ {0}
  /\ MaxReports \in Nat /\ MaxGens \in Nat \ {0} /\ MaxFaults \in Nat

VARIABLES
  clock,     \* ReportTimestamp of the last report
  gen, live, \* the generation that runs, and whether its context is not cancelled
  loop,      \* of every generation and group: where it is, and the report it sends
  data,      \* channel of every generation
  consumer,  \* runPlugin of every generation and the report it posts
  flight,    \* posted reports whose handler has not put them into a queue
  receiver,  \* at up, stopping, draining or gone; its queue, sinks and current connection
  row,       \* of every group, the report the database holds
  faults

vars == <<clock, gen, live, loop, data, consumer, flight, receiver, row, faults>>

Gens == 1..MaxGens
Via == [to : Receiver, conn : 0..MaxFaults]
Report == [n : 1..MaxReports, gen : Gens, group : Group]
Posted == [n : 1..MaxReports, gen : Gens, group : Group, via : Via]

TypeOK ==
  /\ clock \in 0..MaxReports /\ gen \in Gens /\ live \in BOOLEAN
  /\ \A k \in Gens :
       /\ \A g \in Group : /\ loop[k][g].at \in {"unborn", "waiting", "sending", "ended"}
                           /\ loop[k][g].rep \subseteq Report
       /\ data[k] \in Seq(Report) /\ Len(data[k]) <= DataCap
       /\ consumer[k].at \in {"unborn", "taking", "posting", "ended"}
       /\ consumer[k].rep \subseteq Posted
  /\ flight \subseteq Posted
  /\ \A r \in Receiver :
       /\ receiver[r].at \in {"up", "stopping", "draining", "gone"}
       /\ receiver[r].sink \in BOOLEAN /\ receiver[r].conn \in 0..MaxFaults
       /\ receiver[r].queue \in Seq(Posted) /\ Len(receiver[r].queue) <= QueueCap
  /\ \A g \in Group : row[g] \subseteq Posted
  /\ faults \in 0..MaxFaults

(* Somewhere, without and with a report in hand.                           *)
No(at)      == [at |-> at, rep |-> {}]
With(at, f) == [at |-> at, rep |-> {f}]

Init ==
  /\ clock = 0 /\ gen = 1 /\ live = TRUE
  /\ loop = [k \in Gens |-> [g \in Group |-> No(IF k = 1 THEN "waiting" ELSE "unborn")]]
  /\ data = [k \in Gens |-> <<>>]
  /\ consumer = [k \in Gens |-> No(IF k = 1 THEN "taking" ELSE "unborn")]
  /\ flight = {}
  /\ receiver = [r \in Receiver |-> [at |-> "up", queue |-> <<>>, sink |-> TRUE, conn |-> 0]]
  /\ row = [g \in Group |-> {}] /\ faults = 0

Cancelled(k) == k < gen \/ ~live


-----------------------------------------------------------------------------
(* The harvest loops.                                                      *)

(* One round of a group: the deferred function stamps the report before    *)
(* it sends it, however the collection ended.                              *)
CollectRound(k, g) ==
  /\ loop[k][g].at = "waiting" /\ clock < MaxReports
  /\ clock' = clock + 1
  /\ loop' = [loop EXCEPT ![k][g] = With("sending", [n |-> clock', gen |-> k, group |-> g])]
  /\ UNCHANGED <<gen, live, data, consumer, flight, receiver, row, faults>>

(* dataC <- data, without a look at the context.                           *)
Send(k, g) ==
  /\ Len(data[k]) < DataCap
  /\ \E rep \in loop[k][g].rep : data' = [data EXCEPT ![k] = Append(@, rep)]
  /\ loop' = [loop EXCEPT ![k][g] = No("waiting")]
  /\ UNCHANGED <<clock, gen, live, consumer, flight, receiver, row, faults>>

ReturnsIf(stop, k, g) ==
  /\ loop[k][g].at = "waiting" /\ stop
  /\ loop' = [loop EXCEPT ![k][g] = No("ended")]
  /\ UNCHANGED <<clock, gen, live, data, consumer, flight, receiver, row, faults>>

LoopReturns(k, g) == ReturnsIf(Cancelled(k), k, g)

-----------------------------------------------------------------------------
(* runPlugin and the client of the receivers.                              *)

(* Skipped: no reporter, what JSON cannot encode, a context that is        *)
(* cancelled before the call, and no receiver that can be reached.         *)
Skipped(k) ==
  /\ consumer[k].at = "taking" /\ data[k] # <<>>
  /\ data' = [data EXCEPT ![k] = Tail(@)]
  /\ UNCHANGED <<clock, gen, live, loop, consumer, flight, receiver, row, faults>>

Post(k) ==
  /\ consumer[k].at = "taking" /\ data[k] # <<>> /\ ~Cancelled(k)
  /\ \E r \in {s \in Receiver : receiver[s].at = "up"}, rep \in {Head(data[k])} :
       LET posted == [n |-> rep.n, gen |-> rep.gen, group |-> rep.group, via |-> [to |-> r, conn |-> receiver[r].conn]]
       IN /\ consumer' = [consumer EXCEPT ![k] = With("posting", posted)]
          /\ flight' = flight \cup {posted}
  /\ data' = [data EXCEPT ![k] = Tail(@)]
  /\ UNCHANGED <<clock, gen, live, loop, receiver, row, faults>>

Broken(via) == via.conn # receiver[via.to].conn \/ receiver[via.to].at # "up"

(* The call ends with an error; the handler is on its own.                 *)
PostFails(k) ==
  /\ \E f \in consumer[k].rep : Cancelled(k) \/ Broken(f.via)
  /\ consumer' = [consumer EXCEPT ![k] = No("taking")]
  /\ UNCHANGED <<clock, gen, live, loop, data, flight, receiver, row, faults>>

RunPluginReturns(k) ==
  /\ consumer[k].at = "taking"
  /\ Cancelled(k) \/ (data[k] = <<>> /\ \A g \in Group : loop[k][g].at = "ended")
  /\ consumer' = [consumer EXCEPT ![k] = No("ended")]
  /\ UNCHANGED <<clock, gen, live, loop, data, flight, receiver, row, faults>>

(* stop: the next generation starts when runPlugin has returned.           *)
Cancel ==
  /\ live /\ live' = FALSE
  /\ UNCHANGED <<clock, gen, loop, data, consumer, flight, receiver, row, faults>>

StartRuntime ==
  /\ ~live /\ consumer[gen].at = "ended" /\ gen < MaxGens
  /\ gen' = gen + 1 /\ live' = TRUE
  /\ loop' = [loop EXCEPT ![gen'] = [g \in Group |-> No("waiting")]]
  /\ consumer' = [consumer EXCEPT ![gen'] = No("taking")]
  /\ UNCHANGED <<clock, data, flight, receiver, row, faults>>

-----------------------------------------------------------------------------
(* A receiver.                                                             *)

Answered(f) == [k \in Gens |-> IF f \in consumer[k].rep /\ ~Broken(f.via) THEN No("taking") ELSE consumer[k]]

(* PushDataUnary and postEvent.  "queue is full" is an answer without a    *)
(* gRPC error, which the client takes for success.  A handler that meets   *)
(* the closed channel panics, and the process is gone.                     *)
PushDataUnary(f) ==
  LET r == f.via.to IN
  /\ f \in flight /\ consumer' = Answered(f)
  /\ CASE receiver[r].at = "draining" ->
            /\ receiver' = [receiver EXCEPT ![r].at = "gone", ![r].queue = <<>>]
            /\ flight' = {e \in flight : e.via.to # r}
       [] Len(receiver[r].queue) < QueueCap ->
            /\ receiver' = [receiver EXCEPT ![r].queue = Append(@, f)]
            /\ flight' = flight \ {f}
       [] OTHER -> receiver' = receiver /\ flight' = flight \ {f}
  /\ UNCHANGED <<clock, gen, live, loop, data, row, faults>>

(* A request that the broken connection never delivered.                   *)
Undelivered(f) ==
  /\ f \in flight /\ Broken(f.via)
  /\ flight' = flight \ {f}
  /\ UNCHANGED <<clock, gen, live, loop, data, consumer, receiver, row, faults>>

(* Save: the whole row, on conflict UpdateAll.                             *)
Save(f) == row' = [row EXCEPT ![f.group] = {f}]

SaveFails(r) ==
  /\ row' = row
  /\ IF receiver[r].sink THEN faults < MaxFaults /\ faults' = faults + 1 ELSE faults' = faults

(* A mistake: a goroutine for every report.                                *)
ReadEventAny(r) ==
  \E i \in 1..Len(receiver[r].queue) :
    /\ receiver[r].at # "gone" /\ receiver[r].sink /\ Save(receiver[r].queue[i])
    /\ receiver' = [receiver EXCEPT ![r].queue =
                      SubSeq(@, 1, i - 1) \o SubSeq(@, i + 1, Len(@))]
    /\ UNCHANGED <<clock, gen, live, loop, data, consumer, flight, faults>>

(* readEvent: an error of a sink is logged.                                *)
ReadEvent(r) ==
  /\ receiver[r].at # "gone" /\ receiver[r].queue # <<>>
  /\ LET f == Head(receiver[r].queue) IN
       \/ receiver[r].sink /\ Save(f) /\ faults' = faults
       \/ SaveFails(r)
  /\ receiver' = [receiver EXCEPT ![r].queue = Tail(@)]
  /\ UNCHANGED <<clock, gen, live, loop, data, consumer, flight>>

Fault == faults < MaxFaults /\ faults' = faults + 1

(* SIGTERM: Close stops the gRPC server, which closes the connections and  *)
(* waits for no handler; then the channel is closed and its reader waited  *)
(* for.  The sinks are closed beside.                                      *)
StopServer(r) ==
  /\ Fault /\ receiver[r].at = "up"
  /\ receiver' = [receiver EXCEPT ![r].at = "stopping", ![r].conn = @ + 1]
  /\ UNCHANGED <<clock, gen, live, loop, data, consumer, flight, row>>

CloseConnHandler(r) ==
  /\ receiver[r].at = "stopping"
  /\ receiver' = [receiver EXCEPT ![r].at = "draining"]
  /\ UNCHANGED <<clock, gen, live, loop, data, consumer, flight, row, faults>>

CloseSink(r) ==
  /\ receiver[r].at \in {"stopping", "draining"} /\ receiver[r].sink
  /\ receiver' = [receiver EXCEPT ![r].sink = FALSE]
  /\ UNCHANGED <<clock, gen, live, loop, data, consumer, flight, row, faults>>

Exits(r) ==
  /\ receiver[r].at = "draining" /\ ~receiver[r].sink /\ receiver[r].queue = <<>>
  /\ receiver' = [receiver EXCEPT ![r].at = "gone"]
  /\ flight' = {e \in flight : e.via.to # r}
  /\ UNCHANGED <<clock, gen, live, loop, data, consumer, row, faults>>

Killed(r) ==
  /\ Fault /\ receiver[r].at # "gone"
  /\ receiver' = [receiver EXCEPT ![r].at = "gone", ![r].queue = <<>>, ![r].conn = @ + 1]
  /\ flight' = {e \in flight : e.via.to # r}
  /\ UNCHANGED <<clock, gen, live, loop, data, consumer, row>>

Run(r) ==
  /\ receiver[r].at = "gone"
  /\ receiver' = [receiver EXCEPT ![r].at = "up", ![r].sink = TRUE]
  /\ UNCHANGED <<clock, gen, live, loop, data, consumer, flight, row, faults>>

Breaks(r) ==
  /\ Fault /\ receiver[r].at = "up"
  /\ receiver' = [receiver EXCEPT ![r].conn = @ + 1]
  /\ UNCHANGED <<clock, gen, live, loop, data, consumer, flight, row>>

-----------------------------------------------------------------------------
ProbeStep ==
  \/ \E k \in Gens, g \in Group : CollectRound(k, g) \/ Send(k, g) \/ LoopReturns(k, g)
  \/ \E k \in Gens : Skipped(k) \/ Post(k) \/ PostFails(k) \/ RunPluginReturns(k)
  \/ Cancel \/ StartRuntime

ReceiverStep ==
  \/ \E f \in flight : PushDataUnary(f) \/ Undelivered(f)
  \/ \E r \in Receiver :
       \/ ReadEvent(r) \/ StopServer(r) \/ CloseConnHandler(r) \/ CloseSink(r) \/ Exits(r)
       \/ Killed(r) \/ Run(r) \/ Breaks(r)

Next == ProbeStep \/ ReceiverStep

(* Goroutines that can run do; a timer's next round comes after a look at  *)
(* the context (the timer is only reset when a round has ended).           *)
Fairness ==
  \A k \in Gens, g \in Group : WF_vars(Send(k, g)) /\ WF_vars(LoopReturns(k, g))
  
Spec == Init /\ [][Next]_vars /\ Fairness

-----------------------------------------------------------------------------
(* Properties.                                                             *)

(* A row goes back in time only when the two reports were made by two      *)
(* generations or travelled over two connections: within one, the loop,    *)
(* the channel, the posts and the queue keep the order (Save has no guard  *)
(* on the timestamp).                                                      *)
RowGoesBackOnlyAcross ==
  [][\A g \in Group : \A old \in row[g], new \in row'[g] :
       new.n < old.n => new.gen # old.gen \/ new.via # old.via]_vars

=============================================================================
