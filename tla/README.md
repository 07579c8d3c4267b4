# Verification of the telemetry platform

TLA+ modules, TLC configurations and machine-checked proofs about the platform
that runs security scanners against instrumented targets, collects what the
targets report, and attributes outbound callbacks. The modules are translations
of the code under `platform/`, `runners/` and `sdk/`; this document says which code, what is
checked about it, and what the checks do and do not show.

Run a model with `tlc -config <X>.cfg <Module>`, a proof with `tlapm <Module>.tla`.
`PROJECT.json` holds the list of runs, the lines each definition models, the
mutations each property has to catch, the hazards and the findings.

## 1. Inventory

| part | where | state it keeps | who it talks to |
|---|---|---|---|
| Collector, ingestion and runs | `platform/collector/bench_collector/ingest.py`, `app.py` | active run, per-run numbering, bounded queue, one writer task, counters, one lock; tables `runs` and `events` | SDKs and sinkhole post events; harness opens, closes, exports |
| Collector, pending correlations | `.../correlations.py` | bounded expiring registry in memory | SDKs register hints; sinkhole polls and waits |
| Sinkhole | `platform/oob/src/edge_resolver/{recorder,correlation,telemetry,store,service}.py` | observation store, hint index, attribution queue and worker, telemetry queue and flush thread, poller | listeners record into it; it polls and posts to the collector |
| Upstream resolver, DNS decision | `.../upstream.py`, `listeners/dns.py` | claim cache, slots for concurrent lookups | targets and tools query it; it asks docker's resolver |
| Protocol listeners | `.../listeners/{web,smtp,ldap,admin}.py`, `dnswire.py` | per connection | recorder |
| Scoring, attribution, crawl coverage | `platform/benchctl/src/benchctl/{scoring,events,routes}.py` | none: a function of an export | catalog, inventories |
| Inventories and findings | `.../{inventory,findings}.py` | none: a function of an export and a tool's report | scoring, catalog |
| Run orchestration, tool driver, budget | `runners/orchestrate.py`, `runners/_lib/{driver,budget,dockerctl,collector}.py` | one run record, time and request budget, the tool's containers | collector, docker, scanners |
| Target reset | `runners/_lib/reset.py`, `runners/orchestrate.py` (reference digests) | the targets' storage and processes, digests in past records | docker |
| Python SDK exporter | `sdk/python/src/telemetry_agent/_client.py` | two bounded queues, threads, fork handling | collector |
| SDKs for node, java, dotnet, php | `sdk/*` | as above | collector |
| Targets, tool drivers, catalog, deployment | `targets/`, `runners/`, `docker-compose.yml` | -- | -- |

### What is hard, and what makes each part correct

*Collector.* One asyncio process, so the interleavings are those of awaits:
`active_run_id` is read before a COMMIT and set after it; a row is read under
`_run_lock` and written a commit later; events arrive between any two awaits;
rows are stored long after their run was stamped on them. Memory is lost at a
crash, the database is not. Correct means: one active run; memory and database
name the same run; nothing is stamped with a run once its close has completed;
numbers within a run follow arrival and never collide; every accepted event is in
exactly one place; counts are exact; an export begun after a close is complete;
concurrent closes lose no update; every call returns.

*Pending correlations.* Expiry, a cap and overwriting under the same id act on
one ordered map, and long polls park on an `asyncio.Event` that is replaced at
every registration. Correct means: no waiter sleeps on something it should have
been told, each registration is accounted for, and the cap drops an expired or
the oldest hint, never another.

*Sinkhole.* Two bounded queues in a row, four threads, an ordered teardown with
bounded joins, and records refined in place while they are reported. Correct
means: each observation is reported exactly once or counted as lost; an attribution never gets weaker; the poller's
watermark leaves no hint behind; a hint that was there first is joined; every observation leaves.

*Upstream resolver.* Lookups of one name overlap, wait for slots, time out and are
cached either way, while containers come and go. Correct means: an answer is never older than
the cache may be, nothing is looked up that is known, and a slot that is free serves who waits.

*SDK exporter.* Two bounded lanes filled by application threads and emptied by a
thread each, which those threads start when they find it dead; `flush()`,
`close()` and a fork cut across. Correct means: no record is lost uncounted or
overtaken; `flush()` means delivered; what stays behind was appended after the last
look; a child exports nothing of its parent's.

*Orchestrator and driver.* A long sequence of fallible calls, with the operator's ^C
between any two, that must bound the tool's time, close the run, leave a record, say
honestly how the run ended, and leave no scanner running into the next run.

*Reset.* Correct means: a run does not open on another tool's residue where the
restart or the digest could have told, and digests of successive runs are compared.

*Scoring.* A function of an export whose order is an accident. Correct means: the
order does not matter, only proof counts as a trigger, all proof counts, and requests
are credited to the endpoint, the parameter and the value they were for.

*Findings.* A tool's findings are matched to flaws by host, path, method, parameter and class, each of which may be missing
or shared. Correct means: a finding is credited just when it describes a flaw, whatever the order of report and catalog, and what is
published as a confirmed false positive is one the inventory contradicts.

## 2. The modules

| module | models | form |
|---|---|---|
| `RunLog` | what the collector promises: one open run, a log per run that only grows | abstract specification |
| `Collector` | runs, intake, queue, writer, export, crash, stop, restart | state machine |
| `CollectorRunLog` | refinement mapping from `Collector` to `RunLog` | `INSTANCE ... WITH` |
| `CorrelationRegistry` | the registry of pending correlations | state machine |
| `Sinkhole` | recorder, index, poller, worker, telemetry client, teardown | state machine |
| `UpstreamResolver` | claim cache, slots, lookups and the verdict on each DNS query | state machine |
| `SdkExporter` | the Python agent's two lanes, flush, close, fork | state machine |
| `BenchRun` | the harness's runs: driver loop, budget, containers, record | state machine |
| `ResetGate` | restart, reset, digests and records around the runs | state machine |
| `Routes` | when two routes are one endpoint, when a path is on a route, and reference definitions | functions |
| `Inventory` | what is asked of the published routes: which host, which row | functions |
| `Scoring` | what an export is worth | functions |
| `Findings` | the verdict on each finding and their counts | functions |
| `ScoreDocument` | the three put together, over a growing export and report | state machine |
| `CollectorProofs` | types, run lifecycle, events and exports of `Collector`, its refinement of `RunLog` | TLAPS proofs |
| `ScoreProofs` | what a score document says, and `Routes` against its reference | TLAPS proofs |
| `RegistryProofs`, `SinkholeProofs`, `ResolverProofs`, `ExporterProofs`, `BenchProofs`, `ResetProofs` | theorems about the module of that name | TLAPS proofs |
| `MCCollector`, `MCRegistry`, `MCSinkhole`, `MCResolver`, `MCExporter`, `MCBench`, `MCReset`, `MCScoring` | constants of the checked instances | TLC |

### Collector

A step is the code between two awaits at which another task can see or change
shared state. Memory is `up, pointer (active_run_id), seqOf (_seq), queue,
writing, counters, lock (_run_lock)`; the database is `runRow` and `rows`.

| code | actions |
|---|---|
| `submit`, `register_correlation` + `_enqueue_payload`, bodies the endpoints reject | `Submit`, `RegisterCorrelation`, `RejectBody` |
| `_writer_loop`, `_write`, `_next_seq` | `WriterTake` (get, coalesce, number), `WriterCommit`, `WriterFail` |
| `close_run` and `_close_run_locked` | `CloseBegin` (flush), `Acquire`, `CloseCommit` / `CloseFail`, `CloseClear` |
| `open_run` | `OpenBegin`, `Acquire` (insert, refuse, or close the active run first), `OpenInsert` / `OpenFail`, `OpenPublish` |
| paginated export | `ReadBegin`, `ReadRequest` (flush), `ReadSelect`, `ReadFail` |
| crash, `stop`, `start` + `_restore_state` | `Crash`, `Stop`, `Restart` |

An event is its number in the order of acceptance; a queue item (one batch) is a
run of entries ended by `.last`, so the cap on *batches* and the coalescing of
*whole batches* are both as in the code. A COMMIT may succeed, raise without
having been applied (`refused`), or raise although it was applied
(`unacknowledged`): `CommitErrors` says which, so that a result can name what it
depends on. `accepted`, `lost`, `sealed`, `folded`, `unparsed` and a reader's
`got`, `late` are history: no guard reads them, apart from the named bounds.

Abstractions. A close that finds nothing to commit and one that commits both
leave the session at `CloseClear`. The request's own `get_run` flush before
`get_events` is one flush with it. The writer's session close after its COMMIT is
one step with `task_done()`. What a correlation adds to the registry is in
`CorrelationRegistry`; here only its counter moves. SELECTs do not fail. Addresses given at open are left
empty, as the harness leaves them. Not modelled: the address check on control routes, the filter by event
type, synthetic and peer classification, heartbeat, listings.

### CorrelationRegistry

`entries` is a set of records whose `.pos` is the place in the `OrderedDict`:
an id registered again keeps its place, as a Python dict does. `Look` is
`_evict()`, which every public operation runs first. A long poll is `idle`,
`parked` on the current `asyncio.Event`, or `woken` (that event was set and it has not
run yet). `get()` and `discard()` are called by nothing in the repository and
left out; the comparison of hosts is the constant relation `Related`; the wall clock does
not step back; a restart empties the registry.

### Sinkhole

| code | actions |
|---|---|
| `ObservationRecorder.record` | `Record` |
| `HintPoller.poll_once` | `Poll` |
| `AttributionWorker` | `WorkerTake`, `WorkerLookup`, `WorkerFinish`, `WorkerExit` |
| `TelemetryClient` | `Submit` (part of the caller's step), `FlusherGet`, `FlusherEnough`, `FlusherPost` |
| `_teardown` | `Signal`, `Closed`, `WorkerJoined`, `Drain`, `Drained`, `Stopped` |
| applications and the wall clock | `Announce`, `Tick` |

Time is whole seconds and starts past zero, since a watermark of zero means "never polled".
A post fails only in the ways `_post` catches (section 5 has one that it does not). One TTL serves the collector's registry and the index. A mapping from source
address to target is learned from hints and expires by itself; the model lets
the weaker answer be `low` or `none` at any time. A count of a statistic is one
step with the queue operation it counts. `stopped` is the end of the process:
daemon threads do nothing after it. Teardown runs on the event loop and the
servers are closed, with their open connections, before it stops the worker, so
nothing is recorded after `closing`. Left out: the store's ring limit and reset,
subdomain matches and their scan limit.

### UpstreamResolver

One asyncio loop: a step runs to the next await. `free` and `waiting` are the
semaphore, with the hand-over of CPython's `release()` and `acquire()`: a waiter that was given a slot is
`woken` until it runs. `Arrive` is `claim()` up to its first await, `Resume` a waiter that goes on,
`Receive` the end of `_exchange` for one nameserver, `ArriveBad` what `handle()` answers without asking. Expiry
is `Tick`: a tick is longer than a lookup may take (150 ms), so a lookup lives through one at most. NXDOMAIN and an answer from outside
the deployment's networks are one reply, "unclaimed"; timeouts, errors and useless
answers are another, "failed". Where the code's cache has 8192 places the instance has one, and
it is emptied when it outgrows them.

### SdkExporter

| code | actions |
|---|---|
| `emit`, `outbound` | `Emit` (`_ensure_worker`), `Create`, `Push`, `Count` |
| `_reinit_after_fork` | `Adopt`, `Requeue`, `Rethread`, `Look` |
| `_run`, `_drain_all`, `_take`, `_send`; `_run_links`, `_post_link` | `Take`, `Post`, `Ack`, `Drained`, `Check` |
| `flush`, `_idle` | `Flush`, `FlushFirst`, `FlushSecond`, `FlushReturn` |
| `close` | `Close` |

A step is what one lock protects or one attribute read or write. Wake events only shorten waits that
time out, so a thread may look at any time. `RaceAfterFork = FALSE` is an assumption: of a
child's threads one enters the client first. Section 5 says what happens otherwise; `RecordsAccounted` is proved
without it, the exporter's other properties with it.

### BenchRun and ResetGate

`BenchRun` has the harness as one process whose `phase` is the place in
`Orchestrator.run()` and `BaseDriver.run()`; the tool's containers run beside it. Every call to
docker or the collector may fail where the code meets its failure: `StartRaises`, `CollectRaises`, `CheckRaises`
and a `Collect` with reason "error" all end the loop over targets, `OpenRefused`, `CloseFails` and
`WrapFails` the run. A `docker run` reported as failed may have started the container all the same (docker did not answer
in time, or its log could not be followed): `Start` and `StartRaises` then leave one that the harness has no handle of and
never removes (`Desert`). `stuck` and `deserted` keep apart what docker was asked to remove and did not, and what nobody asked it to remove.
Time is in half seconds, because shares are cut to whole ones, and passes in starting, waiting, stopping and in `close_logs()` (`LogTime`). `Prepare` stands for everything
before a run is opened, whose only effect here is whether the run is opened; what happens to the
targets there is `ResetGate`, in which a target is what its disk and its processes hold and a
digest is that of the disk. `Restarted` gives the services of each target that are restarted, all, some or none of those that hold its state.
`Restart` has a restart that docker reports as done reach any of them, and any start time be unreadable: before, that
counts as having moved on, afterwards as not (`_restart_advanced`). What remains in a service for the first reason is `unread`.
No scanner is taken to work while the targets are reset: one that `BenchRun` calls `stuck` or `deserted` is beyond what a digest can say. `ResetAfter` is the second reset, `ImportInto` the rewriting of an older record, which
makes it the newest. Left out: dry runs, preparation containers, login, topology.

### The score document

`ScoreDocument` has the export `log` and the tool's `report`; `Exporting` makes every export of up to
`MaxEvents` events a state, `Reporting` every report of up to `MaxFindings` findings beside one of the exports in `Beside`.
Everything else is a function of the two.

* `Scoring`: `Score` is `score_run()`. `Read` is what `event_from_dict` takes from an event: it does not look into the sinkhole's nested
  attribution for a signal. A request has a set of parameters, each with a name, a place (query, path, header, body and so on), and a value that is
  empty, the default, or another; `told` says whether the value is known by its hash (or by a sample that is whole) or by a sample that was cut off.
  `Carries` is the comparison of name and place (`param_in_matches()`): the four names of the body are one place, and a place that is not named is the query.
  A cut sample is taken to differ from the default: it can only equal one that is as long as an SDK's limit for samples. Callbacks name no route of their own.
  `Scored` leaves each event at its place in the export, so a gap stays where a synthetic one was: everything read of it compares
  places or asks for the first one, which a closed gap does not change.
* `Routes`: `Match` is `_match()`, a function on pairs of what is left of the two routes. `RoutesEqual` and `RouteMatchesPath` ask it; `SameEndpoint`
  and `StandsFor` say the same without it, by where each segment of a route ends in a path.
* `Inventory`: a target's rows in their order, a host being a name as `normalize_host()` leaves it. `SameLabel` is the relation of
  `host_matches()` between names that are not equal. `Describing` are the places of the rows that describe a path, of which
  `MatchPath` takes the first literal one, or the first.
* `Findings`: `Setting` is what `classify_findings()` works out of the run first, `Located` the flaws a
  finding points to, by their places in the catalog, `Judge` what it says of one, `Best` the first with the best verdict, `Settled` that verdict or "out of
  catalog", `Answering` the inventories that have a row for a finding, `Basis` what the first of them is evidence of, `Classify` the rows
  it returns and `Tally` their counts. `AppMap` is what `cli.py` makes of the run's containers and of the hosts seen in requests.
* `Covered` is `_crawl_coverage()`: the rows of the inventories that some request walked.

Left out: evidence, timestamps, groupings of the same verdicts, chains, the precision quotients (their numerators and
denominators are the counts), ports, and the operator's own map of hosts.

## 3. Runs

| run | checks | shows |
|---|---|---|
| `collector_ingest` | `SeqFollowsArrival EventAccounted IntakeReconciles ImplementsRunLog` | every kind of batch against a queue of two, refused commits, crashes, two successive runs: order, run and accounts survive, and the collector implements the abstract run log |
| `collector_runs` | `TypeOK OneActiveRow PointerAgrees AddressesKept SealedIsFinal` | two callers opening, force-opening and closing two runs with closing records for two targets |
| `collector_export` | `ExportComplete` | a reader pages through a run that is being written, closed and interrupted, with COMMITs that fail in every way: nothing is missing below its cursor, and nothing at all after a close |
| `collector_liveness` | `CallsReturn EventsSettle` | two callers and a reader: every request is answered, every event settles |
| `registry` | `HintsAccounted NoLostWakeup LiveHintsStay` | repeated ids, expiry, overflow, two long polls, restarts |
| `sinkhole` | `EachReportedOnce NoHintSkipped EarlyHintJoins ConfidenceNeverDrops` | full queues, failing lookups and posts, hints and callbacks in every order, expiry, a teardown at any moment, threads that outlive their join |
| `sinkhole_liveness` | `ReportsLeave` | every observation leaves, unless the process ends first |
| `exporter` | `RecordsAccounted NoOvertaking FlushMeansLeft StrandedOnlyInGap InheritedStaysBehind` | two emitting threads, a flush, a close and a client inherited from a parent, against both background threads and their successors |
| `resolver` | `AnswersInTime LooksUpOnlyUnknown NoSlotIdle` | three overlapping queries for a plain and an internal name, two slots, two nameservers, containers that come and go |
| `bench_run` | `OverrunBounded CompletedIsWhole NoStrangerScans ScanFailureIsRecorded EveryRunEnds` | two runs over two targets with failures and interrupts anywhere, and containers that outlive a start reported as failed |
| `reset_gate` | `ResidueOnlyUnseen UnlikeRecordsHaveAGap` | three runs over a pinned target with two services that are restarted and one that is not, and a target that has opted out; partial restarts, unreadable start times, skipped resets, imports |
| `scoring` | `ScoreIgnoresOrder TriggerIsProven RequestsEarnCredit RightFindingsCount ConfirmedIsContradicted` | every export of up to three events against five flaws in two targets, and reports of up to two findings; score, coverage and verdicts against definitions that do not follow the code (`StandsFor`, `Registered`, `OwnWord`, `Points`, `Describes`) |

### Bounds

* Two callers are enough for the collector's lock: a third only queues behind it. Two runs
  make "another run" exist: stamped with one and stored under the next, closed
  twice, adopted after a restart. Two targets in `Apps` are needed to lose an
  update between closes.
* `QueueMax` and `WriteBatch` of one and two with batches of one to three events
  reach overflow, coalescing across runs, a transaction longer than
  `WriteBatch`, and a batch longer than `MaxEventsPerBatch`.
* `PageLimit = 1` with two events gives full pages and an empty one, and a cursor between two rows.
  `PlainBatches` has batches of one and two, so a transaction can end between them.
* A registry of two with three ids reaches expiry and overflow at once and an
  overwrite at the cap. Three readings of the clock separate a hint's
  registration, expiry and the next registration.
* Sinkhole queues of one and a batch of two make full queues, inline reports, dropped
  events and a failed batch of more than one with two observations. Two
  readings of the clock after the first let one hint expire while another lives.
* Exporter: two records, one link, queues and batches of two, two places for
  threads, of which a second one is used only when the first has died. Two emits that overlap a
  flush and a close are what the properties need; a third record adds states and no new place to be.
  `None` as the inherited count gives a client of the process's own, one record a parent's.
* Resolver: two slots and three queries make one wait behind two; two nameservers
  make one fail over. TTLs of two and one tick and a cache of one make an entry expire,
  be emptied and be overwritten while a lookup is under way. Nothing bounds the length of a behaviour.
* BenchRun: a wall of one and a half seconds and shares of at least one make two
  targets exceed it; start, turn, stop and log of one half second each make every term of the
  bound count. Two runs are what a container that outlives its run needs.
* ResetGate: three opened runs make a gap in the chain of digests (a record, one
  without the target, one after). The pinned target has two services that are restarted, so that one of them may be, and one that is not; the
  other target restarts none: each way of not noticing has its place.
* Scoring: three events are a callback and two rival registrations, the least that order can
  tell apart; with more the pairs that are exchanged stay two. Two findings of one tool, or of two, make a duplicate and a
  first one, and the one other order there is. The requests at the endpoint of two flaws have the parameter of
  the one or the other, both, or neither, each at its place, at another name of the same place, or elsewhere. The five flaws are two of one family at one endpoint, one under a catch-all at each end of its route, and a literal one; the
  exports of `Beside` make the scope one target or both, a host known, shared or neither, and a reported flaw triggered or not.
* `MaxRuns`, `MaxEvents`, `MaxReceived`, `MaxRegistered`, `MaxObservations`,
  `MaxHints`, `MaxClock`, `MaxMade`, `MaxFlushes` bound counters that are unbounded in the code. They are
  guards of the actions that create something new and never stop an operation
  half way (`OpenBegin` reserves its run, `Emit` its record).

`SYMMETRY` is used only in runs without liveness, over sets of callers, threads, queries, targets,
hosts, waiters and generated ids, none of which a definition orders.
`CHECK_DEADLOCK FALSE` appears where the system really stops or its input is
exhausted: the sinkhole after its teardown, a closed exporter, a harness and an export at their bounds.

## 4. Fairness

* *Collector.* The event loop runs every ready task: weak fairness of the
  writer, of a caller inside an operation, and of a reader's query. `asyncio.Lock`
  serves its waiters first come first served, so nobody waiting is passed over for ever: strong
  fairness of `Acquire`. No fairness of clients, of crashes, or of `Restart` (the
  compose file sets no restart policy): a call that a crash cut off is answered by
  the broken connection.
* *Sinkhole.* Weak fairness of worker, flusher and teardown: threads are
  scheduled and each of their requests carries a timeout. None of the listeners, hints,
  poller, clock or signal.
* *BenchRun.* Weak fairness of the harness: it is one thread and every call it makes carries a
  timeout or ends with the process it starts. None of the tool, which may never exit, or of the operator.
  The wait in `Poll` is a step that moves the clock, so the wall is reached; with a poll interval of zero, which the model allows
  for its safety, time passes in the code but not in the model, and `EveryRunEnds` says nothing.
* *Everything else.* None: only safety is claimed.

Because `Collector`'s traffic is bounded, `CallsReturn` means "once traffic
pauses"; what happens when it does not is a finding.

## 5. Findings

| where | what |
|---|---|
| `ingest.py:351` | a COMMIT that is applied but raises leaves an active row that memory does not know; the next open adds a second, and the first is never closed (`OneActiveRow` needs `CommitErrors \subseteq {"refused"}`) |
| `ingest.py:498` | `flush()` waits for batches queued after it, without limit (`ingest.py:497` says "queued so far") |
| `correlations.py:59` | a hint registered again under its own id keeps its old place: the listing is not "oldest first", and the next overflow drops the hint just refreshed |
| `service.py:280` | what the teardown reports from the worker's queue can be more than the one batch the flusher still posts |
| `telemetry.py:185` | an answer that breaks off or is no HTTP raises what `_post` does not catch, and ends the flush thread |
| `_client.py:540` | a forked child's second thread can start a worker on the inherited queue before the first has replaced it |
| `dockerctl.py:414` | a `docker inspect` that fails ends a target as "completed" |
| `driver.py:465` | after a `docker run` reported as failed nobody removes a container that is up all the same: it scans on beside the next run |
| `reset.py:110` | a start time that could not be read before a restart passes for one that has moved on, so a restart that did nothing passes |
| `orchestrate.py:541` | the search for a reference digest stops at a record, or a pin, that says nothing of the target |
| `scoring.py:286` | the first of two registrations of one host wins, so the order of the export decides who is credited |
| `events.py:508` | a match the sinkhole is sure of is not read and so not scored as proof |
| `scoring.py:460` | the default value, cut off and without a hash, counts as exercised |
| `routes.py:173` | two routes that both have a catch-all compare differently when swapped |
| `findings.py:468` | of two flaws of one family at one endpoint the first takes a finding that names the other's CWE exactly |
| `findings.py:376` | a planted route of a target out of scope confirms a false positive |
| `scoring.py:593` | crawl coverage compares routes as strings, where reach, and the documentation, compare them as endpoints |

Each quotes its source in `PROJECT.json`. Where a property that holds has an exception for
one, the exception is named in its definition (`lost`, `deserted`, `unread`, `Rivals`, "cut", `imported`) or a constant
(`CommitErrors`, `RaceAfterFork`) excludes it. Two smaller differences between words and code are
built in likewise: `IntakeReconciles` needs `unparsed`, because a body the
endpoint rejects adds to `dropped_invalid` and not to `received`, so the totals do
not reconcile as the comment at `ingest.py:283` says; and `EarlyHintJoins` speaks only of hints that
came first, because the sinkhole never sends the `wait_ms` that `wait_for()` (`correlations.py:98`) provides for those that come second.

## 6. Proofs

`CollectorProofs` proves `Spec => []TypeOK` (`TypeCorrect`) for every queue size,
batch size, page limit, set of clients and readers, and every commit error. The
invariant `TypeInv` adds what typing needs: a run id in hand whenever an
operation's program counter says so.

It also proves the run lifecycle, again for all constants:

* `RunInvariant` -- the inductive invariant. It says that whoever is inside an
  operation holds `_run_lock`; that what the holder read of its row at `Acquire`
  still holds when it commits, because every other writer of that column is
  excluded by the lock and the ingestion writer touches only the count; and that
  a sealed run's row is closed and is not the active one. None of the properties
  is inductive without the first two parts.
* `SealedStaysFinal` (`SealedIsFinal`) and `AddressesAreKept` (`AddressesKept`)
  follow from it with no assumption on commits.
* `OneActiveRun` (`OneActiveRow`) and `PointerAgreement` (`PointerAgrees`) need a
  second invariant relating the active row to the pointer and the holder's place,
  and the hypothesis `CommitErrors \subseteq {"refused"}`. The finding at
  `ingest.py:351` (section 5) shows a behaviour in which they fail without it, so the hypothesis is the exact
  boundary.

`CollectorProofs` also proves what the runs check of the events, for any traffic, queue, batch and page size and
every commit error:

* `EventInvariant` -- `EventInv`, inductive beside `RunInv`. `QueueInv`: the queue is in order of acceptance and
  younger than everything that has left it. `PlaceInv`: each accepted event is queued, in the transaction, a row or
  lost, and has at most one row. `CountInv`: a run's count is that of its rows. `KnownInv`: a run with events has
  a row, and is not one about to be published. `NumberInv`: numbers start at one, and
  for a run that can still grow none is above `seqOf`. The last two are
  what carries `SeqFollowsArrival` over a restart, which forgets `seqOf` and reads it back from the rows.
* `NumbersFollowArrival` (`SeqFollowsArrival`) and `EveryEventAccounted` (`EventAccounted`) follow from it.
  `IntakeReconciled` (`IntakeReconciles`) needs only types, that the queue is finite, and that what is being written is no row yet.
* `ExportsComplete` (`ExportComplete`) needs `ReadInv`: what a cursor has passed has been returned, and a reader
  that began after the close of its run looks at the table only when neither queue nor transaction holds an event of it.
* `CollectorImplementsRunLog` (`ImplementsRunLog`): every step is a step of `RunLog` or a stutter. The log of a
  run is its rows ranked by number; a commit appends to it because new numbers are above old ones (`NumberInv`).
  It assumes `CommitErrors \subseteq {"refused"}`, as the run does: a COMMIT that raises although it was applied opens a run
  the abstract log has not opened.

`RegistryProofs` proves, for every cap, lifetime and set of ids, that each
registration is accounted for (`EveryHintAccounted`), that no waiter is parked on
something that is pending (`NoWaiterStranded`) and that a live hint leaves only a
registry full of live hints (`LiveHintsKept`). `RegistryInv` strengthens the three with
`PlacedInTurn` (no entry is placed past the last registration, so a new entry
has a place of its own) and `Ordered` (every nonempty part of the map has a first
entry, so the cap removes exactly one). `Ordered` is stated of all subsets because
in that form adding one entry and removing any keep it; existence of a minimum would
otherwise need induction over the size of the map.

In `CollectorProofs` and `RegistryProofs` no set of clients, waiters, hosts or ids is assumed finite.

`SinkholeProofs` proves for queues, batches and lifetimes of any size that types hold
(`SinkholeTypeCorrect`), that the poller leaves no live hint behind its watermark
(`PollerLeavesNoGap`), that an attribution never gets weaker (`ConfidenceKept`, an action property), that each
observation is reported once (`ReportedOnce`) and that an early hint joins (`EarlyHintsJoin`). `SinkholeInv` strengthens the first three with `LookupsOK` (what waits for a
lookup waits once, is not being looked up, and is not of high confidence) and `HintsOK` (no hint is
of the future, the watermark is behind the clock): without `LookupsOK` a lookup that finds nothing
could overwrite a high answer, and a hint behind the clock but past the watermark is what the poller's strict
comparison rests on. `ReportedOnce` needs `OnePlace`: the worker's queue, the worker's hands, the telemetry queue,
the flusher's batch and what is gone share the stored observations, each of them in one place and
once. It is stated of the five sets (`SharedOut`), so that a step that moves an observation from one place to another is one lemma,
whoever takes it: the recorder that reports inline, the worker, or the teardown beside a worker that outlived its join.
`EarlyHintsJoin` needs `JoinInv`: an observation that nothing will improve any more is of high confidence or has no live hint
from before it, and between an answer and the match the index holds every hint that was there when the
observation was made. It is kept because hints only age and new ones come last (`HintsAge`).

`ResolverProofs` proves that types hold (`ResolverTypeCorrect`: never more lookups than slots, the cache
at most one over its limit), that no slot lies idle (`SlotsArePassedOn`), that an answer is in time (`AnswersAreInTime`) and
that only what is unknown is looked up (`OnlyUnknownLookedUp`, an action property). `ResolverInv` says that free slots and holders add
up to `Slots` and that the waiters are the queries that wait, each in one place. `TimesInv` adds how
old each kind of truth may be: a cached entry (`CacheTimes`), a reply still on its way
(`ReplyTimes`), and the network now (`TruthNow`). `AnswersInTime` is not inductive without the first two, because an answer is given from
the cache or from a reply, and both grow old by the same ticks as what they are measured against.

`ExporterProofs` proves, for any queue and batch sizes, callers and threads, types (`ExporterTypeCorrect`) and the five properties:

* `EveryRecordAccounted` (`RecordsAccounted`), with no assumption on who finds the parent's client. `AccountInv` says
  that a lane's queue, the batches in its threads' hands and the records that met their end divide what was made,
  that no two threads hold one record, and that the counters are the sizes of the ends. It survives two threads draining
  one queue, which is what the race after a fork amounts to.
* `NothingOvertakes` (`NoOvertaking`), `FlushIsDelivery` (`FlushMeansLeft`), `StrandedInGap` (`StrandedOnlyInGap`) and
  `ParentExportsItsOwn` (`InheritedStaysBehind`) assume `~RaceAfterFork`. `LaneInv` adds, one conjunct per concern: `ForkInv`
  (while a child has not rebuilt its client, one thread does so and nothing else moves), `ThreadInv` (one thread per
  lane, and "in flight" is raised just while it has a batch), `OrderInv` (what is in flight is older than
  what waits), `GapInv` (what a thread that read the stop flag leaves was appended since its last look) and `MarkInv` (how much
  of what a flush began with has left, at each of its steps). `ForkInv` and `ThreadInv` are what
  the race breaks, and the others rest on them.

`BenchProofs` proves, for any set of targets, wall, grace and number of runs, the harness's type
correctness and its four safety properties (`ScanKeepsToBudget`, `CompletedMeansWhole`, `StrangersAreKnown`,
`ScanFailureLeavesRecord`). `BenchInv` is `TypeOK` and one conjunct per concern, each of them what its property becomes
when it is said of every step and not only of the end: `Control` (which steps have a target, a run and a clock), `Timing` (by how much the clock may
be late at each step), `Containers` (what runs is the present target's, `stuck` or `deserted`), `Deserting` (a run that has deserted a container has
an error among its results, or has raised one), `Results`
(the targets with a result are those no longer left) and `Faults` (what may have been raised by then).

`ResetProofs` proves `ResetTypeCorrect`, `ResidueIsSeen` and `DriftIsRefused`: for any targets, services and pins, whichever services are restarted, a run
opens on residue only where nothing could have told, and a target's digest changes between records only across a gap in the chain. `ResetInv` adds
`PhaseOK`, which says the first of the targets reset so far; `DigestInv` says the second of the run under way: the digests at hand
are those of the targets reset so far and agree with their references (`Compared`), unless a check has failed and nothing will be written.
Both harness proofs pick the least of the targets that are left, and the exports the first row past a cursor; that a set of
naturals has a least member is the library's `WFMin`, which needs no operator parameter.

`ScoreProofs` proves the five properties of the score document for every catalog, taxonomy and inventory, and exports, reports and
routes of any length. The state is two sequences, so the inductive invariant is their type (`DocumentTypeCorrect`), and each property
is a lemma about functions, `Typed => P`. Where those functions pick "the first", the lemmas speak of the least of a set of places; where they count, of
a bijection between two sets.

* `TriggersAreProven` (`TriggerIsProven`) follows an attribution back through the five ways of `Attribution` to an event of the tool
  (`JoinedIsRegistered`, `HighIsBacked`), and a proof that nothing disputes forward to the trigger (`UndisputedIsHigh`).
* `OrderDoesNotMatter` (`ScoreIgnoresOrder`): two exports that differ by an exchange are related by `Turn`, and what is asked of one place by place
  is the same of the other (`SamePlaces`, `SameCount`). Only the first of the registrations can differ, and only if the two are rivals (`SameClaim`).
* `RoutesEqualIs` and `RouteMatchesPathIs`: the comparison of routes agrees with its reference for routes of any length. The recursion of `Match` is
  built up by how much is left of both routes (`MatchingExists`), and a least pair on which it disagreed with `Ends` is
  impossible, because both take one segment of the one and one or more of the other (`StandsNext`, `MatchNext`). Induction by least
  counterexample stands in for the library's induction theorems. That not both may have a catch-all is exact: the finding at `routes.py:173` is what happens otherwise.
* `RequestsCount` (`RequestsEarnCredit`) adds that the comparison of places is having one place in common (`PlacesMatch`), and that a name designates one virtual host of a target at most (`ResolveHostIs`).
* `ConfirmedAreContradicted` (`ConfirmedIsContradicted`): what is located are exactly the flaws in scope that a finding points at
  (`LocatedIs`), so a false positive points at none; and the row that confirms it is one for its path and host (`ConfirmingRow`).
* `RightFindingsAreCounted` (`RightFindingsCount`): the best verdict is a true positive just when some located flaw makes it one (`BestIs`,
  `TruePositiveIs`). There are as many true positives as pairs of a tool and a flaw it is right about (`TruePositivesCounted`), whichever of
  the findings came first, so the report counts the same in every order (`PermutedTally`).

What the proofs assume is `CollectorAssumption`, `RegistryAssumption`, `SinkholeAssumption`, `ResolverAssumption`,
`SdkAssumption`, `BenchAssumption` and `ResetAssumption`, each stated beside the constants of its module, evaluated by TLC in every run, and no
stronger than what the configuration classes and the command line accept (a budget or a poll interval of zero included; a negative
budget is to the harness what zero is). Only the
targets of a run and the threads that call an exporter are assumed to be finitely many.
`ScoreProofs` assumes `ScoringAssumption`, `InventoryAssumption`, `FindingsAssumption` and `DocumentAssumption`. They say which fields a row or an event has,
that the catalog and the inventories are finite lists, that having one first label is symmetric and transitive, and three things that
loading does not enforce but the files of the repository obey: two hosts of one target have different first labels, no host of a target has a name of the machine
itself, and where an inventory and the catalog plant a flaw under a catch-all they spell its route alike (`/.git/**` and `/careers/portal/.svn/**`, the only two).

### Only model-checked

* Liveness (`CallsReturn`, `EventsSettle`, `ReportsLeave`, `EveryRunEnds`): fairness and ENABLED are out of the prover's reach.

## 7. Not modelled, and why

Wording of events and parsing of protocols (no shared state); HTTP routing and
rendering; docker, topology, login and normalisation helpers of the runner (calls to external
programs and conversion of formats); loading and validation of the catalog, reports and the command line of `benchctl` (stateless);
request middleware of the SDKs (state per request); the other four SDKs (the same exporter contract as the Python one);
the targets (the platform's inputs, not its logic). What each modelled part leaves out is in
section 2 and in `PROJECT.json`, component by component. The modules cover the parts with state,
concurrency or rules of their own; most of the repository's lines are targets, report formats and documents.

## 8. Plan

Done: the collector with its run log, the registry of correlations, the sinkhole, the resolver, the Python exporter and the
harness with its reset, and the score document, each with the proofs of all its safety properties. Left, in order:

1. A composition of `Sinkhole`, `CorrelationRegistry`, `Collector` and `ScoreDocument`: a callback
   seen and a hint registered end in an attributed trigger.
2. Chains of flaws, the catalog's validation rules, the merging of findings in `normalise.py`.
