# A TLA+ verification of DBHA v2

DBHA watches the MySQL and Redis instances of a database platform (DBM) and
fails them over.  This directory holds TLA+ modules of the parts of DBHA v2
that decide *who* may switch *what*, *when* and *in which order*, of what a
switch does and leaves behind, and of the way its probes are configured, kept
running and heard; TLC configurations that check them on small instances; and
proofs that TLAPS checks for every instance.

All source paths below are relative to `src/dbm-services/common/dbha-v2/`
unless they start with `src/`.

1. [The system](#1-the-system)
2. [Modules and how they correspond to the code](#2-modules-and-how-they-correspond-to-the-code)
3. [Runs](#3-runs)
4. [Fairness](#4-fairness)
5. [What the models show about the code](#5-what-the-models-show-about-the-code)
6. [Proofs](#6-proofs)
7. [Not modelled](#7-not-modelled)
8. [Plan](#8-plan)

## 1. The system

Four services and a set of tools share one Go module:

```
 database machine        receiver               analysis (n servers)           DBM
 +-------+   gRPC    +-------------+   MySQL   +---------------------+  HTTP  +-----+
 | probe | --------> | source|sink | --------> | sync  scan  check   | -----> | API |
 +-------+  (Kafka)  +-------------+           | window  pop  switch |        +-----+
     ^                                         +---------------------+
   guard, cron, admin                             |        |      \
                                                 etcd     SSH      MySQL, proxies
```

| component | state it keeps | operations | hard behaviours | what makes it correct |
|---|---|---|---|---|
| **metadata sync** `internal/analysis/workflow/synchronizer.go` | election, bucket, cached metadata | campaign, ask DBM, save, resign | lost leadership, failed requests, answers saved late | what DBM lists stays in the cache, what it removed fades |
| **registration and sharding** `pkg/discovery`, `workflow/instance_discovery.go` | lease, key, watch, hash ring | register, refresh, watch, rebuild | lost leases, broken watches, failed reads, death | every business is watched by one server once the view is settled |
| **scan and SSH double check** `workflow/workflow.go`, `checker.go`, `failure_collector.go`, `detector_handler.go`, `detector/`, `storage/dbha_data.go` | read cursor, tasks | read batches, check hosts, push | rows that move or share a timestamp while they are paged through | an instance that stays dead is reported |
| **sliding window** `workflow/sliding_window.go` | queue and inflight marks per instance | `Push`, `PopAndMarkStart`, `MarkDone` | overlapping passes, marks that expire | a reported failure is handled, and by one pass at a time |
| **switch lock** `workflow/lock_tracker.go`, `metadata.go`, `pkg/discovery/concurrency_mutex.go`, `factory.go` | reference-counted holds, etcd keys and sessions | acquire, release | leases that expire, replies that are lost, crashes | servers exclude each other per business; no key is left behind |
| **pop and switch passes** `workflow/workflow.go`, `switch_flow.go`, `switcher/mysql.go` | passes, requests | pop, query DBM, match, switch, mark done | overlapping passes, stale status, crash between steps | an instance is not switched twice |
| **strategies** `internal/admin/api/open`, `internal/admin/strategy`, `workflow/strategy.go` | rows of the strategy table | create, update, delete, match | requests that check and write in two steps, batches | deleted strategies stay deleted; the right one wins |
| **whitelist** `tools/internal/bwmgr` | rows of the DBM service | add, update, delete, import | retries of what was executed, imports that stop | an import that reports success is stored |
| **switch procedures** `switcher/switchcore`, `switcher/mysql` | cluster lock, state of the databases, proxies, route tables, name service | check, refresh, reset slave, elect, route, swap roles | a step that fails half-way, two attempts on one cluster | one writable node; roles follow the traffic |
| **slave checker** `switcher/mysql/mysql_slave_checker.go` | none | read slave and master status, compare | unsigned arithmetic on positions that move | a slave that passes is in step |
| **switch record** `switcher/switcher.go`, `switcher/mysql.go`, `snapshotlogger` | snapshot row, log lines, alarms | insert, update, log, alarm | parallel workers, lost answers, panics | readers are told what happened |
| **service loops** `internal/analysis/run.go`, `service.go`, `workflow/workflow.go` | loops, semaphores, channels | start, tick, close | full semaphores and channels, signals, panics | a server that is told to stop does; no business starves |
| **receiver** `internal/receiver` | queues between sources and sinks | receive, save, close | full queues, failed saves, shutdown under load | rows do not go back in time on one path |
| **probe harvesters and clients** `internal/probe/harvester`, `client` | connections, channels | collect, heartbeat, post, reconnect | connections replaced under a session, blocked channels | heartbeats stay local; reports keep their order |
| **probe configuration** `internal/probe/adminsync.go`, `cmds/genconfig.go`, `config/genconfig.go`, `pkg/process/filelock.go` | the configuration file, its lock, the applied configuration | sync with admin, `gen-config`, edit, render, reload | two writers and operators on one file, crashes between temporary file and rename | nobody's settings are reverted; the file settles on what admin says; no reload is lost |
| **probe hot reload** `internal/probe/probe.go`, `reload.go` | a generation of plugins, the reporter and the goroutine that creates it | reload, post, create, close | a reload while plugins post and a reporter is being made | posts go through an open reporter of the applied configuration |
| **process guard** `pkg/process`, `internal/probe/cmds` | pid file, processes | start, stop, restart, ensure | look first and act later, kills, reused numbers | one guard; cron brings it back |
| **cluster reset** `tools/cmd/cluster`, `tools/internal/cluster` | state of a cluster | reset, show | a dozen steps with parallel workers, repeated after any failure | what DBM calls running is consistent; done means reset |
| **DBM client, standalone metadata** `internal/analysis/dbm`, `tools/cmd/standalone-metadata` | status and role of instances | query, update status, swap roles | lost answers, repeated calls | calls that are repeated change nothing |
| **admin start and migration, sandbox mock, libraries** | | | | |

How they interact.  Inside one analysis server, a *synchronizer* copies DBM's
list of instances into a cache when it leads; a *scan loop* reads the
businesses that the ring assigns to this server, hands the hosts of instances
without a recent status to the SSH double check, and `Push`es confirmed
failures into the sliding window of the business.  A *pop loop* starts, every
`popInterval`, a goroutine per pass (`PopAndSwitch`) that takes the switch lock
of each business, pops what is mature, asks DBM for the instances on the failed
hosts, drops clusters outside the whitelist, matches a strategy, and runs the
switch in the scope the strategy names (one instance, one cluster, one host).
A switch writes a snapshot row, sets instances unavailable in DBM *before* it
acts on the databases, takes an in-memory lock of the cluster, checks, and then
moves the proxies or the routes and swaps the roles.  Passes do not wait for
each other; the only things that keep them apart are the inflight marks, the
switch lock, the DBM status and the cluster lock.  Servers share only etcd
(registration, scan lock, switch lock, election), the cache and DBM.

On a database machine, the probe runs one goroutine per harvester plugin, loops
behind each of them, one goroutine that creates the reporter, a reload worker,
a sync loop and a signal goroutine.  The sync loop and `gen-config` commands
fetch from admin and rewrite the configuration file under a file lock; the
worker reads the file and replaces the plugins and, where it must, the
reporter.  A guard restarts the probe, and cron the guard.

The hazards this leads to, each at its line of code, are listed in
`PROJECT.json` under `hazards`, with the properties that would catch them.

## 2. Modules and how they correspond to the code

```
 FailureLifecycle <--refines-- SlidingWindow --EXTENDS--> WindowManager
                                                              ^
 SwitchLock <--refines-- LockTracker                          | EXTENDS
     ^                                                        |
     +------------------- INSTANCE ----------------------- PopSwitch
 HashRing <--EXTENDS-- Membership       SwitchAttempts <--EXTENDS-- MasterSwitch, SpiderSwitch

 ConfigSync   HotReload   BusinessScan   ServiceClose   SwitchRecord   SlaveChecker
 ClusterReset  Strategies  Whitelist  Reports  Heartbeat  ProcessGuard  ProbeYAML
```

Every definition's source lines are in `PROJECT.json` under `map`.  Operators
and actions introduced by the words "a mistake" are plausible bugs of the code
that the project uses to see that its properties can be violated; no behaviour
of a specification uses them.  The modules called `...Constants`, and
`SwitchAttempts`, declare parameters and assumptions apart from the behaviour, so
that an MC module can extend several of them, and TLC evaluate the assumptions,
while it instantiates the behaviours.

### From a dead instance to a pass

**BusinessScan** is the way of one business from DBM's list to the window.
Each server's synchronizer (`updateCache`) campaigns, leads, asks DBM for one
bucket at a time, and saves the answer in a second step; the lease of a leader
may be lost in between, so two may believe they lead.  A scan takes the scan
lock, reads batches by the age of the last row (`ReadMetadataCache`: keyset pagination
with a cursor on `updated_at`), drops what is skipped or outside the whitelist,
picks representatives of hosts, and double-checks them.  Rows are saved while
they are paged through.  Times are ages that saturate at the limit after which
a row is not read.  `passed` is a history variable: the times of the last rows
of the batches a scan has read.

**WindowManager** is the `BizWindowManager` as a value: per instance key the
age of the queue entry and of the inflight mark, with `Push`,
`PopAndMarkStart`, `MarkDone` as functions on it, each one critical section of
the code's mutex.  Clock readings are ages that saturate past the duration they
are compared with, so time is unbounded and the state finite.

**SlidingWindow** puts that value between scans (`ReportFailure`, with a lag
between the clock reading and the `Push`) and jobs.  A job is a failure group
in the hands of a pass: `StartJob` is `PopAndMarkStart`, `FinishKey` one step of
`markDoneAll`.  `overrun` is a history variable: the instances some job has
kept for `inflightTTL` or longer.  **FailureLifecycle** is what the window
promises about one instance, with no clocks and no marks: quiet, pending,
switching.

**PopSwitch** composes the windows of the servers, the switch lock (by its
abstract specification) and the status in DBM with the passes of
`popAndSwitchForBiz` and `handleFailureGroup`: `Acquire`, `Pop`, `Query`
(`CreateRequestWithGroup`), `Switch` (a strategy matched; `Whitelisted` keeps
whole clusters), `SetUnavailable` per unit of the action scope, `DoSwitch` per
instance, `Finish` (`markDoneAll` and the deferred release).  Lost answers of
DBM (`GiveUp`) and crashes are actions.  Reports enter on any server: two
servers may both believe that a business is theirs, which `Membership` shows to
happen.  `runs` counts, for the properties, how often each server has begun
`DoSwitch` on an instance.  The lock here is that of servers which keep their
leases; what a lost lease does to it is `LockTracker`'s subject.

**Strategies** is the table that admin's requests edit and that a pass reads.
A request checks (`CheckNames`, `Look`) and writes (`Marked`, `CreateStrategy`,
`UpdateStrategy`) in two steps with other requests in between, single, batch or
global; a batch is a transaction.  `MatchStrategyForGroup` is the choice a pass
makes from the rows it finds.  **Whitelist** is the tool `bwmgr` over the
service that keeps the table: an entry of a file becomes requests, a request
that is not answered in time is sent again, and the service may execute it
later.

### Who may act

**LockTracker** is `InProcessLockTracker` over etcd.  `FastPath`,
`MissFastPath`, `TryLock`, `RecordHold` are the four observable steps of
`acquireWith`; the tracker's mutex is released between the second and the
fourth, so several passes can be in the slow path.  `ReleaseLast` removes the
entry and `Unlock` tells etcd afterwards, as the code does.  A session is
`live` (its lease is kept alive), `orphan` (nobody keeps it, etcd has not yet
dropped it) or `lost` (etcd dropped it, the server does not know: no code
reads `session.Done()`).  Replies that are lost, leases that end under a
running server and crashes are actions.  `Steady` is the set of servers whose
leases do not end while they run.  **SwitchLock** is what the passes rely on:
any number of passes of one server inside, never of two.

**HashRing** is `consistentHash.get`.  **Membership** is the registration of a
server (`Registry.SetService`, `grant`, the keep-alive), its `Discovery` watch,
and `InstanceDiscovery.RunWatch` with `RefreshList` in two steps (read the
list, rebuild the ring), including the code's fallbacks to a ring of the server
alone, the client that is set to nil by a broken watch, and the panic this can
lead to.

**ServiceClose** is the life of the loops around all this: the scan loop with
its slots and its join, the pop loop with `popSwitchSem`, the statistics loop,
the goroutine that feeds registry events into a channel and the one that reads
them, and `Service.Close` with the order in which it ends them.  Passes may
panic; `safe.Run` swallows that and the slot is given back.

### What a switch does

**MasterSwitch** details one TendbHA cluster: a master, its standby slave, the
proxies, the name service, the cluster lock and the DBM metadata, with attempts
in the three scopes.  In the scopes `dbinstance` and `cluster` the check and
the switch share the cluster lock (`Check`); in scope `host` the lock is taken
twice (`CheckOnSameHost`, `ProcessOnSameHost`).  The steps of `DoMasterSwitch`
are one action per proxy and one for the slave; each can fail before or after
it took effect, and nothing is rolled back.  The last address of a name is kept
(`releaseDNSEntry`), binlog dumpers are moved at the end.  `SwapMySQLRole` is
the effect of the role swap in the store of the standalone metadata service.

**SpiderSwitch** is the same for a TendbCluster: spiders with their tdbctl
beside them, and remote masters of shards.  An attempt finds the primary
tdbctl, elects and enables a secondary when the primary goes with a spider,
drops broken spiders and their tdbctl from the route table, detaches the
standby slaves, alters the routes, flushes them, swaps the roles, and repairs
the remaining secondaries last.  The route table of a node is the set of
changes made to it; `gap` is what a secondary's replication starts behind;
`served` is what the spiders have been handed by the flush.

**SlaveChecker** is the check that both rely on: `CalSlowBytes` over the files
of a binlog whose sizes and positions move while it waits
(`WaitReplPosDelay`), in unsigned arithmetic with `Width` values, beside the
checksum rows and `Seconds_Behind_Master`.  The master starts a new file at its
own `max_binlog_size` (`MasterBinlogSize`); the check reads the slave's
(`MaxBinlogSize`) and takes it for both.

**SwitchRecord** is `TriggerSwitching` around it: the snapshot row inserted
before and updated after, a worker per host or cluster that puts its outcome
into the response they share, the two logs, the alarms.  The procedure itself
is one step here that ends well or badly.

**ClusterReset** is the tool that brings a cluster back to its configuration:
one action per step of `Reset`, one per node where the step has parallel
workers, a failure at any of them, and a second run from what the first has
left, while clients write.  `Show...` are what `show` reports.  The tool looks up
the slave of a TenDBCluster's remote master in a map by master, and so keeps one
slave for each; the model is of configurations like `etc/cluster.yaml`, where each
has one (`ResetAssumption`).

### The probe's machine

**Reports** follows a report from the loop of a harvest group over the channel
of its generation, `runPlugin`, the gRPC connection it is sent over, the queue
of a receiver and its sink to the row.  A reload cancels a generation and waits
for `runPlugin`, not for the loops; a broken connection does not end the
handler that has begun.

**Heartbeat** is one round of `writeDbhaHeartbeat`, statement by statement,
over a connection that the pool replaces silently: after a statement that was
late, or because the server closed it.  A session has its own `sql_log_bin` and
forwarding; a new one has the defaults.

**ConfigSync** is the configuration file of a probe with its writers.  Admin's
sections in the file are one value: the pull parameters they were fetched with,
the version of admin's metadata and the ports that were cut.  What the probe
owns is the admin block (pull parameters, and whether periodic sync is on) and
`clearPorts`.  A writer fetches (`Fetch`), takes the lock (`AcquireFileLock`),
decides from the file as it is then, and writes in two steps (`WriteTempFile`,
`Rename`); the sync loop decides by `ParamsDiffer`, `Reconcile` or `SelfHeal`,
`gen-config` by `BaselineChanged` or `CommitGenConfigFile` against what
`ReadGenConfigFile` saw before the fetch.  `EditFile` is an operator, who takes
no lock.  Two history variables serve the properties: `unseen`, the writers
whose last write asks for a reload and has not been parsed, and `raced` in a
writer's data, set when an edit bypassed the lock while it was writing.

**ProbeYAML** opens what ConfigSync keeps closed: how the endpoints of the
three blocks come out of admin's metadata and credentials
(`buildEndpointsFromMetadata`), and what the cleared ports take from them.

**HotReload** is the inside of a reload: `ReloadOnce`, `StopRuntime`,
`Abandon` or `ApplyReload`, `ReplaceReporter`, `StartRuntime` of the worker;
`NewReporter`, `LoopEnds`, `Publish` of the goroutine that creates the reporter;
`Harvested`, `Posted`, `PluginEnds`, `PluginFails` of each plugin.  Its file
changes at will, which is what `ConfigSync` details.

**ProcessGuard** is the processes of a service on a host: guards (`RunWithGuard`)
and workers, the pid file, cron's `ensure` under its file lock, and the commands
an operator gives, each of which looks at the pid file or the process list in
one step and acts in another.  Anything may be killed in between, a guard may
fail to launch its worker (`SpawnFails`), and process numbers are given again,
also while a command still goes by one.  Only the number that the pid file names,
and that of a child its guard has not waited for, are not given again.

## 3. Runs

| run | module, configuration | distinct states | shows |
|---|---|---|---|
| `workflow` | `MCWorkflow` | 114 776 | marks and queue entries are consistent; one job per instance unless one outlives `inflightTTL`; every queued failure is handled; refinement of `FailureLifecycle`; what one server has begun to switch no other server switches |
| `server` | `MCServer` | 31 289 | servers that keep their leases exclude each other, and no key is left behind; a server that is told to stop ends; every business gets its pass |
| `passes` | `MCPasses` | 2 176 714 | passes overlap only through a sibling on the host or an expired mark, a host-scope switch has the whole host; deleted strategies stay deleted and the right one matches; an import that reports success is stored |
| `pop_twice` | `MCPasses`, `MCPassesTwice.cfg` | violation | `NoDuplicateSwitch` fails, see section 5 |
| `membership` | `MCMembership` | 192 883 | a ring that has caught up equals the registry; a server whose watch survives catches up |
| `membership_frozen` | `MCMembership`, `MCMembershipFrozen.cfg` | violation | `EveryBusinessWatched` fails, see section 5 |
| `config_sync` | `ConfigSync` | 569 650 | no writer reverts local fields or mixes sections and parameters, no requested reload is lost; the file settles |
| `hot_reload` | `HotReload` | 856 752 | posts are current; reloads are taken |
| `procedures` | `MCProcedures` | 1 616 686 | one writable node, checks hold, no failover undone; one primary tdbctl, slaves detached before they are routed to; a slave that passes is in step; a reset that is done is one, whoever reads a record is told what happened |
| `scan` | `MCBusinessScan` | 517 491 | a read passes over no recent row but one that ties with the end of a batch; what DBM lists stays in the cache, what it removed fades, what is dead is reported |
| `probe_host` | `MCProbeHost` | 715 665 | cron alone keeps one guard and restores it; heartbeat rows stay local; rows go back only across generations or connections; a cleared port is as if it were not there |
| `heartbeat_ddl` | `Heartbeat`, `HeartbeatDDL.cfg` | violation | `DDLStaysLocal` fails, see section 5 |

The runs `workflow`, `server`, `passes`, `procedures` and `probe_host` each hold
several systems that share no state.  A variable `which` is chosen at the start
of a behaviour; one system runs and the variables of the others stay at their
initial values.  The states of such a run are the sum, not the product, and a
property of one system says nothing about the others.  Their instances:

- `workflow`: the window has 3 instances of 2 businesses and 2 overlapping
  jobs; the passes are one of each of 2 servers, on 2 hosts of one cluster.
- `server`: the lock has 3 servers, one of which may lose its leases, with 5
  passes and 3 sessions; the loops have 2 businesses.
- `passes`: one server with 2 passes, a host with 2 instances of a cluster each;
  2 requests on the strategies of one business and the global ones; 2
  invocations of `bwmgr` on one cluster.
- `procedures`: a TendbHA with 2 proxies and 2 attempts in any scopes; a
  TendbCluster with 3 spiders that are masters, one shard, and 2 attempts whose
  units are a spider, the shard's master, or both; one slave; a cluster of 2
  frontends, 2 masters, 2 slaves and 2 tdbctl nodes of either kind; a request
  of 3 instances on 2 hosts and in 2 clusters.
- `scan`: 2 servers that synchronize, one that scans, 2 instances on one host in
  2 buckets.
- `probe_host`: one harvest group and 2 receivers; the three machine types of a
  heartbeat; 4 process numbers and 2 commands at a time; items of a proxy, a
  database and a redis with 3 ports.

Bounds, and why they are enough to reach the interesting cases:

- `MaxLag` 1 (window): the time between a scan's clock reading and its push may
  exceed the whole window duration, so an entry can be mature when it is
  pushed.
- `inflightTTL` 2 with `windowDuration` 1 lets a mark expire while a job runs,
  the instance be pushed and popped again, and both jobs end in either order.
  The passes have `windowDuration` 0, the default of the configuration.
- `MaxRuns` (passes): `DoSwitch` is counted up to the bound, 2 in the run that
  asks whether it happens twice.
- `Session` (lock): etcd sessions in existence at a time.  Three let one server
  hold the lock, a second be in between `TryLock` and `RecordHold`, and an
  orphan of a crash remain; a freed session can be used again.  Two passes of
  one server and one pass of each other server: sharing needs two passes,
  exclusion needs two servers, and the third server is the one that misbehaves.
- `ScanSlots`, `PopSlots`, `Capacity` 1 (loops): with two businesses every
  semaphore and channel is full at some time.
- `MaxIds` 2 (strategies): a strategy and a second one that clashes with it.
  `MaxTries` 2, `MaxLate` 1, `MaxRows` 2 (whitelist): a request that is asked
  again, one that is executed after it was given up, and the row of another
  invocation.
- Two proxies: the least number for which "some are moved, some are not" is a
  state.  `MaxDead` 1 (spiders): one tdbctl that stops answering by itself,
  beside those that go with their spiders.
- `K` 2, `MasterBinlogSize` 5, `MaxBinlogSize` 4, `MaxTransaction` 2, `MaxFiles`
  2, `Loops` 2 (slave): a kilobyte of 2 bytes, so that division loses something;
  the master's files may be larger than the slave's size, or smaller; a file may
  exceed its size by a transaction, and the slave may be a file ahead between two
  readings.  `Width`, the number of values of an unsigned integer, is 64 in
  place of 2^64: no position reaches it, and a difference below zero wraps.
- `MaxRuns` 2, `MaxWrites` 1 (reset): a second reset from what a failed one
  left, and a write between the reading of a position and its use.
- `MaxWorkers` 1 (record): fewer workers than groups.
- `MaxEvents` 1 (membership): watch events that wait are told apart up to 1.
  Further ones are merged; the reader re-reads the whole list for each event,
  so an event more or less changes how often it reads, not what it finds.
  Virtual nodes are interleaved on the ring and one business is past the last
  of them, so the wrap-around of `get` occurs.
- `BatchCount` 1, `Offset` 3, `MaxChanges` 2 (scan): every row is a batch of its
  own, a row may be renewed, pass the cursor or grow old while the other is
  read, and two things change or fail.
- `MaxReports` 3, `MaxGens` 2, `MaxFaults` 1, `DataCap` 1, `QueueCap` 2: a
  report in the channel of a cancelled generation, one of the next generation,
  and one over a connection that was exchanged.
- `MaxAttempts` 3 is the code's constant; `MaxKills` 2, `MaxManual` 1: guard and
  worker are killed, one while somebody acts on what he saw of it.
- `MaxItems` 3 (rendering): a proxy's data and admin ports come from two items,
  and a third shares one of them.
- `MaxOps` 2 (config_sync): edits, commands, failures, kills and crashes
  counted together.  Two are what each hazard takes: a command and an edit, an
  edit before the fetch and one after it, a command and a crash.  `MaxVersion`
  2: metadata that changes once, so a payload can be older than admin's answer
  to another writer.
- `MaxWrites` 2 (hot_reload): with the first configuration, three: a reload can
  interrupt the consequences of the one before.  Two reporters: one in use, one
  being made.

Deadlock is checked in `workflow`, `passes` and `scan`.  In the others the
system may really stop: all servers dead (`membership`), a process that has
ended (`server`, `hot_reload`), a probe that is down over a file that does not
parse (`config_sync`), attempts, checks and resets that are over
(`procedures`), reports that are all made (`probe_host`, `heartbeat_ddl`).

Symmetry is used in runs without liveness only: over the passes, requests and
invocations of `passes`, which share their names, and over the attempts and the
proxies of `procedures`.

The type invariant of a module is its `TypeOK`; it is proved where section 6 says
so, and not repeated among the runs' properties.  (In `ServiceClose` and
`SwitchRecord`, whose variables are stages and flags, there is none.)

## 4. Fairness

- *Window.*  Time passes; the pop loop visits each business every `popInterval`
  (strong fairness on starting a job for a business: the loop comes back, and
  between visits an entry may be momentarily out of reach of a free job); a job
  ends, because `handleFailureGroup` defers `markDoneAll` and runs the switch
  under `SwitchTimeout`.  Nothing makes an instance fail.
- *Lock.*  A pass that has begun goes on to its release (deferred in
  `popAndSwitchForBiz`), and etcd ends leases that are not kept.
- *Loops.*  A loop goes on, scans and passes end (both have timeouts), and a
  `select` that finds the end of its context or channel ready, time and again,
  takes it at some time: strong fairness, since Go chooses among ready cases.
  Nobody need send a signal, and no event need come from etcd.
- *Membership.*  The goroutines of a running server go on, etcd ends leases that
  are not kept, and a call that is repeated for ever (registration on every
  tick, reading the list on every event) succeeds in the end (strong fairness).
  Servers need not start and need not fail.
- *BusinessScan.*  The goroutines of a server go on, the pop loop takes what is
  reported, and time passes; that a scan ends is not a matter of fairness but a
  premise of the properties that need it (`ScansEnd`), because a scan that is
  slower than the rows that are renewed would read for ever.
- *ConfigSync.*  The goroutines of a running probe go on and a command ends (its
  fetch and its wait for the lock have timeouts).  Disturbances are bounded, so
  `SyncSettles` says what happens once they are over; a probe that is down need
  not be started.
- *HotReload.*  The goroutines go on, and a post ends (weak fairness); a plugin
  whose select finds both the end of its generation and an event ready takes
  the former at some time (strong fairness of `PluginEnds`).  A reporter need
  never be made.
- *ProcessGuard.*  Guards and commands go on, and cron runs `ensure` again and
  again.  *Reports.*  A loop that can send does, and a loop whose generation is
  over returns.
- The other modules state safety only.

## 5. What the models show about the code

Three runs end in a violation of something that the repository says of itself:

1. **`pop_twice`.**  The inflight marks are per instance; the request that a
   pass builds holds every instance of the failed hosts.  A sibling reported
   later has no mark and is popped by a second pass of the same server, which
   shares the lock, and both requests hold both instances.
2. **`membership_frozen`.**  After a watch error `RunWatch` returns and nothing
   starts it again: the ring is frozen, and businesses of a server that dies
   later are watched by nobody.
3. **`heartbeat_ddl`.**  A look-up of the heartbeat table that times out is taken
   for a missing table, and may have cost the connection: the table is created
   on a new session, whose `sql_log_bin` is on.

Also reachable in the models; each is what a definition with this name shows
when it is checked as an invariant or property, or an action that can be taken:

- *Exclusion under lost leases* (`LockTracker!MutualExclusion`).  etcd keeps
  servers apart only while the session's lease lives, and nothing reads
  `session.Done()`: the fast path keeps handing out a hold whose lease is gone
  while another server takes the lock.  `SteadyExclusion` is the other side:
  servers that keep their leases exclude each other even then.  A server that
  lost a lease can leave an etcd key behind (comment of `LockNotLeaked`).
- *Host scope* (`MasterSwitch!HostCheckStillHolds`).  The cluster lock is
  released after the check and taken again for the switch without a new check,
  so an attempt can start to cut traffic after another has completed the
  failover.  That this does not make two nodes writable is `OneWritable`.
- *Last address of a name.*  `releaseDNSEntry` keeps the last address, one call
  at a time (`instance_name_service.go:91`).  That is enough for the proxies of
  a TendbHA; the spiders of a TendbCluster are released concurrently
  (`tendbcluster_switch_cluster.go:332`), and the name may end up empty.
- *Rows with one timestamp* (`BusinessScan!EveryRowIsRead`).  The comment
  "ReadBusinessMetadata reads all metadata for a business" holds up to rows that
  share `updated_at` with the last of a batch: `MissedOnlyByTie` says that these
  are all that a scan can miss, and `DeadIsReported` makes their absence a
  premise.
- *Shutdown* (`ServiceClose`).  A signal that arrives before `createWorkflow`
  makes `Close` dereference a workflow that is nil (`service.go:146`).  `Close`
  does not wait for passes: a switch may end half-way, its snapshot row stays
  "doing" and its lock is left to the lease.  A watch goroutine that waits for
  room in a channel nobody reads any more holds `Close` for ever
  (`discovery.go:202`); `CloseReturns` names it (`Stuck`) as the only case.
- *Membership.*  A server that lost its lease never registers again
  (`LoseLease`); a `Put` that fails in `grant` leaves a closed client that every
  later `SetService` uses; an event that was buffered when the watch broke makes
  `RefreshList` use a nil client (`NilClientPanic`).
- *Harvest loops.*  A loop that waits for room in the channel of a generation
  that is over stays behind (`Reports`; `harvester/mysql/mysql.go:157`).
- *Two guards.*  With a `daemon-start` by hand beside cron, both look before
  either has written the pid file, and two guards run (`CronKeepsOneGuard` is
  about cron alone).
- *Healing.*  A sync round that heals a file which does not parse writes the
  sections it fetched with old pull parameters beside an admin block that was
  applied meanwhile, against `docs/flows/config-sync.md:91` (the exception in
  `SameSourceUnlessHealing`; the next rounds repair it, as `SyncSettles` shows).

## 6. Proofs

Eight modules hold the proofs.  They hold for all values of the constants that
satisfy the assumptions named in the modules they are about (`...Assumption`),
which TLC evaluates in the runs; each says no more than what the code's types
and configuration give.  `PassesProofs`, `ProceduresProofs` and `ProbeHostProofs`
are about several systems, as the compositions of section 3 run them side by
side: `MCSpec` below is the composition.

| theorem | says |
|---|---|
| `SlidingWindowProofs!TypeCorrect` | `Spec => []TypeOK` |
| `SlidingWindowProofs!MarksAreBacked` | no mark without a job, no queue entry under a mark |
| `SlidingWindowProofs!ExclusiveHandling` | one job per instance unless a job outlived `inflightTTL` |
| `SlidingWindowProofs!WindowImplementsLifecycle` | the window implements `FailureLifecycle` |
| `LockTrackerProofs!TypeCorrect` | `Spec => []TypeOK` |
| `LockTrackerProofs!LockExcludes` | servers that keep their leases exclude each other |
| `LockTrackerProofs!AllSteadyExcludes` | if every server keeps its leases, nobody shares a lock across servers |
| `LockTrackerProofs!HoldsAreExact` | reference counts are exact and holds are backed by the etcd key |
| `LockTrackerProofs!LiveLocksAreKept` | no step takes the key from a live session |
| `LockTrackerProofs!TrackerImplementsLock` | for those servers, the tracker implements `SwitchLock` |
| `PassesProofs!TypeCorrect` | `Spec => []TypeOK` of `PopSwitch` |
| `PassesProofs!OverlapsExplained` | requests overlap only on one server, through a sibling of the host or an expired mark |
| `PassesProofs!HostScopeWhole` | a host-scope pass that switches has every instance of the host listed as unavailable |
| `PassesProofs!OneServerSwitches` | an instance is switched by one server only, whatever crashes and fails half-way |
| `PassesProofs!TwiceOnlyByOverlap` | without overlapping requests nothing is switched twice |
| `PassesProofs!OnceOnSingleHosts` | nor where a machine has one instance and no pass outlives `inflightTTL` |
| `PassesProofs!StrategiesTypeCorrect` | `MCSpec => []Table!TypeOK` |
| `PassesProofs!DeletedStays` | a deleted strategy stays deleted and as it was |
| `PassesProofs!OwnBeforeGlobal` | an own strategy wins over a global one |
| `PassesProofs!ImportStored` | an import that reports success is stored |
| `MembershipProofs!JoinTakesForItself` | a server that joins a ring takes businesses only for itself |
| `MembershipProofs!TypeCorrect` | `Spec => []TypeOK` |
| `MembershipProofs!NothingMissed` | a watch that has nothing left to read has the ring of the registry |
| `MembershipProofs!SharedExactly` | then every business has one owner |
| `MembershipProofs!OnlyTiesAreMissed` | a scan passes over a recent row only if it ties with the end of a batch |
| `ProceduresProofs!TypeCorrect` | `Spec => []TypeOK` of `MasterSwitch` |
| `ProceduresProofs!OneMaster` | available proxies never send traffic to two nodes, nor to one that replicates |
| `ProceduresProofs!LockNotLeaked` | the cluster lock is with an attempt that is still to release it |
| `ProceduresProofs!ChecksHold` | outside host scope, what was checked holds when the switch begins |
| `ProceduresProofs!RolesFollow` | roles are swapped only when the traffic has moved |
| `ProceduresProofs!FailoverStands` | no attempt gives the master role back |
| `ProceduresProofs!ReportsAreTrue` | rows, logs and alarms of a switch are what happened |
| `ProceduresProofs!OutcomeIsFinal` | no worker is at work once a row has an outcome |
| `ProceduresProofs!SpidersTypeCorrect` | `MCSpec => []Spiders!TypeOK` |
| `ProceduresProofs!OnePrimaryAlways` | at most one available tdbctl is primary |
| `ProceduresProofs!DetachedFirst` | no spider uses a standby slave that still replicates |
| `ProceduresProofs!OneAttemptSwitches` | one attempt on a TendbCluster at a time |
| `ProceduresProofs!RunningStaysConsistent` | what DBM lists as running during and after any resets is consistent |
| `ProceduresProofs!DoneIsReset` | a reset that succeeds leaves the configured cluster |
| `ProceduresProofs!ResetsInTheDark` | nothing is listed as running while a reset changes it |
| `ProceduresProofs!CheckerTypeCorrect` | `MCSpec => []Checker!TypeOK` |
| `ProceduresProofs!PassedInStep` | a slave that passes is as close as the limit says |
| `ConfigSyncProofs!TypeCorrect` | `Spec => []TypeOK` |
| `ConfigSyncProofs!TempFilesAreKept` | no writer loses the temporary file it is about to rename |
| `ConfigSyncProofs!EditsAreKept` | no writer is about to revert a local field of the file |
| `ConfigSyncProofs!SourcesAgree` | sections and pull parameters written together belong together |
| `ConfigSyncProofs!ReloadsArePromised` | no reload that somebody asked for is lost |
| `HotReloadProofs!TypeCorrect` | `Spec => []TypeOK` |
| `HotReloadProofs!PostsCurrent` | posts are of the applied configuration, through an open reporter made from it |
| `HotReloadProofs!ReporterStays` | no reload loses the reporter or leaks one |
| `ProbeHostProofs!GuardTypeCorrect` | `MCSpec => []Guard!TypeOK` |
| `ProbeHostProofs!OneGuard` | cron alone keeps one guard at most |
| `ProbeHostProofs!BeatTypeCorrect` | `MCSpec => []Beat!TypeOK` |
| `ProbeHostProofs!RowsStay` | heartbeat rows stay local unless the server closes the session |
| `ProbeHostProofs!ClearedIsAbsent` | a cleared port is as if it were not there |
| `ProbeHostProofs!ReportsTypeCorrect` | `MCSpec => []TypeOK` of `Reports` |
| `ProbeHostProofs!RowsInOrder` | rows go back only across generations or connections |

Every invariant and action property that a passing run checks is stated by one of
these for all instances; `SwitchedByOneServer` of the run `workflow`, with its two
servers, is that of `PopSwitch`, which `OneServerSwitches` proves for any number
of them, and `MissedOnlyByTie` of the run `scan` is that of `OnlyTiesAreMissed`.
`TrackerImplementsLock` is no run's property: on an instance it comes to
`SteadyExclusion`, but it is what lets `PopSwitch` use the abstract lock.

*The window.*  `ExclusiveUnlessOverrun` is not inductive: whether a second job
can take an instance depends on the mark, and whether the mark is still fresh
depends on how long the first job has run.  `IInv` adds to the type invariant
`JobsInStepWithMark`: for an instance that no job has overrun `inflightTTL` on,
each job that holds it is exactly as old as its mark, and younger than
`inflightTTL`.  Then a `Push` that gets past a mark does so only for an instance
in `overrun`, and a job that starts on an instance finds nobody else there.  The
refinement needs `MarkedIsNotQueued`, without which a pop could take a
"switching" instance.

*The lock.*  `SteadyExclusion` depends on what the server, its goroutines
between two steps, and etcd each believe.  `IInv` is `TypeInv`, `Claims` and
`RefCountExact`.  `Claims` says who claims a session: a hold of a server, or a pass that
has it in hand between `TryLock` and its release.  A session is claimed once
(`OneClaim`), kept by the server that claims it (`ClaimKept`), a key in etcd is
of a session that etcd has not dropped (`OwnersDistinct`), and the claims of
servers that keep their leases are live and have the key (`Backed`).  With the
count exact, `ReleaseLast` leaves nobody inside, which is what the refinement's
`Leave` and `Enter` need.  Each action has a lemma of its own that preserves
`IInv`.

*The passes.*  Why two requests hold one instance is a question about the lock,
the marks and the hosts together.  `IInv` has a part for each: passes of
different servers are not in one business (`LockInv`, from `SwitchLock`); a pass
works on keys of its business and asks for their hosts (`HandInv`); the mark of
an instance that is not in `overrun` is as old as the pass that has it, so that
nobody else has it (`MarkInv`).  `OverlapsExplained` then needs one hypothesis,
`HostsOfOneBiz`: the instances of a host are of one business, which is how DBM
assigns machines.  Without it two servers, each inside the lock of its own
business, could ask for one host.  `OneServerSwitches` rests on it too: what a
pass has in hand is known to no pass of another server, and whatever some server
has run `DoSwitch` on was set unavailable before, so the request of another
server, which reads DBM inside the lock, leaves it out; that the first server
died or failed half-way makes no difference.  `TwiceOnlyByOverlap` is the
converse of the run `pop_twice`: `NoDuplicateSwitch` fails there because requests
overlap, and where they do not, it holds.  Its invariant, `RunInv`, keeps the
status in step with the count: what a pass has not attempted is available and
was never switched.

*Strategies and the whitelist.*  `DeletedForGood` and `OwnStrategiesFirst` follow
from the type invariant of the table alone: a write marks or alters only rows
that are live in it, and the choice is the last of a non-empty set of
positions.  For the whitelist, `ListInv` says of an invocation that is alone
what its history variable promises (`Promised`): there is a table from which
the file's entries before the current one lead to the table as it is, and all of
them to the expected view.  While a request is asked for, it is its execution
that leads to the table after the entry; that stays so when the request is
executed, because executing it again changes nothing.  So it does not matter how
often it is asked or which answers were lost.

*The ring and the registry.*  `JoinTakesForItself` is about the operator `Owner`
alone: the lowest point at or past a key, or the lowest of all, changes only if
the new server's points come before it.  That there is a lowest point comes from
the well-foundedness of the natural numbers.  `RingCurrent` is not inductive: the
ring is rebuilt from a list that was read earlier.  `IInv` adds that this list is
the present one whenever the watch lives and no event waits (`ListCurrent`); every
change of the list leaves such a server an event, and merging loses none, since a
merged event still waits (`SetKeyEffect`).  `SharedExactly` is `RingCurrent` for
two servers.

*The scan's batches.*  `OnlyTiesAreMissed` (in the module of the sharding proofs,
about `BusinessScan`, with a limit of at least one unit of time) needs `ReadInv`
beside itself, types and that the cursor is in `passed`: a batch is the rows next
after the cursor, so what it leaves out is ahead of the new cursor or ties with
it; time moves rows, cursor and history alike; and a row that is saved again
becomes the newest, ahead of every cursor.

*The master switch.*  `OneWritable` depends on what every attempt, at whatever
stage it is and whatever it has failed to do, has left behind.  `IInv` adds the
lock (`LockHeld`: an attempt in the middle of its switch holds it), the
replication sources (`Sources`: the old master never becomes a slave), and for
each attempt: what it skips is unavailable and stays so, since nothing resets
the status (`SkippedAreDown`); only the first master is ever switched, since the
check of an attempt on the new one fails (`MovesFromOld`); where its proxies
point at each stage (`Rounds`); and that what it checked holds until the slave
is reset (`CheckFresh`).  Two attempts cannot both be in the middle of a switch,
so a step of one leaves these facts about the others alone.  The two action
properties follow from one lemma (`MasterChanges`): only a swap changes the
master, only to the new one, and then every available proxy points there.

*The spiders.*  As above, with a route table per tdbctl in place of the proxies.
`DropInv` and `RouteInv` say when a change may be in a table, or in what the
spiders were handed: a tdbctl is dropped only when DBM lists its spider as
unavailable, a shard is routed to a standby slave only when that is detached.
`AttemptInv` says of an attempt past the lock that it has it, that its unit is
unavailable, that no primary counts when it is about to enable one, and that the
shards it is about to route are detached.  Other attempts cannot disturb the last
two, since they are not past the lock (`OneAttemptSwitches`).

*The record.*  `RecordInv` describes the request at each stage, each instance
beside its worker (what it did, what it collected, what is in the response), and
the row: a row that says "doing" has a handler, or its update got no answer, or
there was a panic.  A row that has an outcome has no worker at work (`Quiet`), so
the response it was made from is final.  The only assumption is that a request
has instances, since one without ends before there is anything to record.

*The reset.*  `ResetInv` has the types, `DarkInv` (from the first status update
to the last nothing is listed, and what is listed is consistent), and one part
per group of steps for what they have established by then: `StorageDone`,
`RoutesDone`, `NamesDone`, `WorkDone`, `ListenerDone`.  A second reset starts from
whatever these leave of a first one that failed; `DarkInv` holds of that as well.
`ResetAssumption` says that masters and slaves are different nodes and that some
frontend is bound to the CLB; with a single tdbctl the model stops at
"ctlchange", so there the theorem speaks of clusters with a secondary.

*The slave check.*  What is received and not executed is a sum over files,
defined by recursion; `SumExists` shows that there is such a function and
`SumBound` that d files no larger than the size the check reads hold at most d
times as much.
Both are inductions, through the lemma `Induction`: a set that contains 0 and the
successor of each of its elements contains every natural number, since the least
one outside it would have a predecessor.  `NoWrap` shows that the unsigned
difference does not wrap, and `RestBound` what the divisions lose.

*The configuration file.*  What a writer is about to write was rendered from a
file that others may have changed since.  `IInv` says why they have not:
whoever is past the lock has it (`LockHeld`), so a rename in between is the
writer's own, and an edit that bypasses the lock marks the writers it races
with.  A gen-config command resolves its parameters before it has the lock;
`Inherited` keeps what its flags leave open equal to the baseline it compares
with the file under the lock, so that `CommitEffect` finds the fields of the
file in the rendering.  `EveryStep` sorts the steps once by what they do to one
writer, and the four invariants on writers are read off that list.
`ReloadPromised` needs that somebody is unseen only while the probe runs
(`UnseenByRunning`): then the command that asks does send its signal.  The
assumption on `Missing` and `Broken` is that they are neither a configuration
nor a baseline.

*The rendering.*  `ClearedIsAbsent` is a fact about operators, for any set of
items, any cleared ports and any accounts (`DropIsLess`): the endpoints of each
kind after filtering are the endpoints of the filtered items, and a proxy keeps
its data ports in one if and only if it does in the other, because the owners of
admin ports are the same.

*The hot reload.*  A plugin holds what it harvested and a reporter while the
worker may be anywhere in `ReloadOnce`.  `UnitInv` says which reporter is in use or
being made and from which sections, unless the worker is about to replace it;
`GenerationInv` that a generation of plugins has the applied sections, and is
over before the worker touches them; `MakingInv` that a reporter that is not
there yet is being made by a loop nobody has told to stop.  `PostsAreCurrent`
follows from the first two, `ReporterKept` from the first and the last.

*The guard.*  `OnlyCron` is the core: while no operator has acted, every command
is an `ensure`, at most one has the file lock, and from the moment it has listed
no guard there is none; so the fork it ends in makes the only one.  Kills and
exits make no guard (`MakesNoGuard`).

*The heartbeat.*  `LogIsOff`: between the SET and the REPLACE the session does
not log, unless the server has closed it in this attempt.  A session that the
pool replaces after a late statement starts the round anew.

*The reports.*  A row is compared only with rows that came the same way: one
generation, one connection.  `ReportsInv` says that on one way everything is in
order from end to end: what a loop has in hand is newer than what is in the
channel, that newer than what was posted (`HandInv`, `ChannelInv`,
`ConsumerInv`), a receiver's queue is in order, older than what is in flight and
newer than the row (`QueueInv`, `RowInv`); and a handler whose call nobody waits
for is of a generation that is over or of a connection that is gone, so nothing
on its way can overtake it (`FlightInv`).  TLC has checked `ReportsInv` on the run's
instance.

Checked by TLC only: every liveness property (`QueuedIsHandled`,
`LockNotLeaked` of `LockTracker`, `CloseReturns`, `EveryBizGetsItsPass`,
`SolidCatchUp`, `ListedIsKept`, `RemovedFades`, `DeadIsReported`, `SyncSettles`,
`ReloadTaken`, `CronRestores`), since neither fairness nor `ENABLED` is within
the prover's reach; and the type invariants of `ClusterReset` (whose proof
carries the part it needs, `ResetType`), `Whitelist`, `ProbeYAML` and
`BusinessScan`.

## 7. Not modelled

- *HTTP, SSH, SQL and gRPC themselves.*  A call is its effect and its outcome:
  done, not done, or done with the answer lost.  Which output of an SSH session
  counts as healthy, and how status strings are parsed, are choices.
- *How the parts follow each other across runs.*  An entry that waits in a window
  while its business moves to another server would need sharding, scan and
  window in one model; `PopSwitch` lets reports enter on any server instead.
- *Requests of several cluster types.*  A group in `PopSwitch` is one type of
  cluster.  *Several instances of one cluster on one host* and *non-standby
  slaves* are not in `MasterSwitch`.
- *Host scope of a TendbCluster*: its second lock and the check under it are in
  `MasterSwitch` only.
- *CLB and Polaris* addresses have no rule for the last one and are released
  with the proxy.
- *Reads with no caller*: `GetSlaveTimeDelay` and `CheckSlaveTimeDelay`,
  `Registry.Set` and `Discovery.Get`, the plain `Pop`.
- *The Kafka source* of the receiver and its commits.
- *Host metrics and the Redis queries* of the probe: I/O without state of their
  own.
- *The order and duplicates of ports* in a rendered configuration, its text, and
  `gen-config` to standard output.
- *Collisions of the CRC of virtual nodes* of two servers.
- *Graceful stop* in `Membership` is a crash, which is what the registry sees of
  it: `Service.Close` does not revoke the lease.  What it is to the loops is in
  `ServiceClose`.
- *The text of the configuration file*: comments, formatting and each single
  field.  Local fields other than the pull parameters, the sync interval and
  `clearPorts` are carried over by the same list of options (`LocalFields`).  A
  file that is empty parses, to the defaults, and is not among the states.
- *Aging of admin's answer*: in `ConfigSync` a payload may be older than another
  writer's; the file then holds the older one until the next round, which
  `SyncSettles` allows.
- *Windows* in the process guard.
- Logging, alarms other than those of a switch, and metrics, which no modelled
  step reads back; start and migration of admin, the sandbox mock and the
  shared libraries, which have no protocol state.

`PROJECT.json` lists every component with its status and the reason.

## 8. Plan

Done: the modules of section 2, with the proofs of section 6.  What is left, in
this order:

1. That the abstract modules keep their own promises for every instance
   (`FailureLifecycle`, `SwitchLock`: no passes of two servers inside), so that
   the refinements say something a reader need not check.
2. Safety facts of `BusinessScan` and `ServiceClose` that their liveness runs rely
   on: one holder of the scan lock, slots that are given back exactly once.
3. The type invariants that are left, and a whitelist import without other
   invocations stated of the rows themselves.
4. The composition of sharding with windows, for entries of a business that
   moved to another server, if it can be kept small enough to be explored.
