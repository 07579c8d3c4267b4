------------------------------- MODULE Sinkhole -------------------------------
(***************************************************************************)
(* The egress sinkhole from observation to report: the recorder, the hint  *)
(* index and its poller, the attribution worker, the telemetry client and  *)
(* the order in which they are torn down.                                  *)
(* Source: platform/oob/src/edge_resolver/{recorder,correlation,telemetry, *)
(* store,service}.py.                                                      *)
(*                                                                         *)
(* Threads: the event loop (listeners, then teardown), the worker, the     *)
(* flusher and the poller.  Two queues join them.  An observation is its   *)
(* place in the store; of its contents only the host asked for and the     *)
(* confidence of its attribution matter.                                   *)
(***************************************************************************)
EXTENDS Integers, Sequences, FiniteSets

CONSTANTS
  Hosts,           \* hosts a payload may make a target ask for
  LookupEnabled,   \* config.lookup_enabled: is there a worker
  LookupQueueMax,  \* config.lookup_queue_size
  TelemetryMax,    \* TelemetryClient queue_size
  BatchSize,       \* TelemetryClient batch_size
  HintTtl,         \* seconds a registered hint lives
  JoinsExpire,     \* may a thread outlive its join(timeout)
  MaxObservations, \* bound: observations
  MaxHints,        \* bound: hints applications register
  MaxClock,        \* bound: readings of the wall clock
  None

ASSUME SinkholeAssumption ==
  /\ LookupEnabled \in BOOLEAN /\ JoinsExpire \in BOOLEAN
  /\ LookupQueueMax \in Nat \ {0} /\ TelemetryMax \in Nat \ {0}
  /\ BatchSize \in Nat \ {0} /\ HintTtl \in Nat \ {0}
  /\ MaxObservations \in Nat /\ MaxHints \in Nat /\ MaxClock \in Nat
  /\ None \notin Hosts \cup Nat

VARIABLES
  phase,     \* where the service is in its life and its teardown
  clock,     \* time.time(), the same for the collector and the sinkhole
  hints,     \* at the collector: the registered hints, in order
  known,     \* CorrelationIndex: the hints it has been given
  watermark, \* HintPoller.watermark
  store,     \* ObservationStore
  work,      \* AttributionWorker._queue
  worker,    \* the worker thread
  queue,     \* TelemetryClient._queue
  flusher,   \* the flush thread and the batch in its hands
  stats,     \* TelemetryStats
  gone,      \* history: what became of each reported observation
  delivered, \* history: the events the collector has got
  before,    \* history: hints registered when an observation was made
  shortcut   \* history: why an observation was not looked up, if it was not

vars == <<phase, clock, hints, known, watermark, store, work, worker, queue,
          flusher, stats, gone, delivered, before, shortcut>>
reporting == <<queue, stats, gone>>

Ids == 1..MaxObservations
Confidence == {"high", "low", "none"}
Observation == [host : Hosts \cup {None}, conf : Confidence]
Event == [obs : Ids, conf : Confidence]
Hint == [host : Hosts, at : Nat]

(* AttributionWorker._stop and TelemetryClient._stop are set.              *)
Stopping == phase \in {"worker", "drain", "telemetry", "stopped"}
Told == phase \in {"telemetry", "stopped"}

TypeOK ==
  /\ phase \in {"up", "closing", "worker", "drain", "telemetry", "stopped"}
  /\ clock \in Nat /\ hints \in Seq(Hint) /\ known \subseteq DOMAIN hints
  /\ watermark \in Nat
  /\ store \in Seq(Observation) /\ Len(store) <= MaxObservations
  /\ work \in Seq(Ids) /\ Len(work) <= LookupQueueMax
  /\ worker \in [pc : {"get", "lookup", "match", "exited"},
                 obs : Ids \cup {None}, found : BOOLEAN]
  /\ queue \in Seq(Event) /\ Len(queue) <= TelemetryMax
  /\ flusher \in [pc : {"collect", "post", "final", "last", "exited"}, batch : Seq(Event)]
  /\ Len(flusher.batch) <= BatchSize
  /\ stats \in [enqueued : Nat, dropped : Nat, posted : Nat, failed : Nat]
  /\ gone \in [Ids -> {"no", "dropped", "posted", "failed"}]
  /\ delivered \subseteq Event
  /\ before \in Seq(Nat)
  /\ shortcut \in [Ids -> {"no", "inline", "failed", "drained"}]

Init ==
  /\ phase = "up" /\ clock = 2
  /\ hints = <<>> /\ known = {} /\ watermark = 0
  /\ store = <<>> /\ work = <<>>
  /\ worker = [pc |-> "get", obs |-> None, found |-> FALSE]
  /\ queue = <<>> /\ flusher = [pc |-> "collect", batch |-> <<>>]
  /\ stats = [enqueued |-> 0, dropped |-> 0, posted |-> 0, failed |-> 0]
  /\ gone = [i \in Ids |-> "no"] /\ delivered = {}
  /\ before = <<>> /\ shortcut = [i \in Ids |-> "no"]
-----------------------------------------------------------------------------
(* Hints.  Applications register them with the collector, which answers    *)
(* with those that are live.                                               *)
Live(j) == clock < hints[j].at + HintTtl
LiveFor(host) == {j \in DOMAIN hints : Live(j) /\ hints[j].host = host}

Announce(host) ==
  /\ Len(hints) < MaxHints
  /\ hints' = Append(hints, [host |-> host, at |-> clock])
  /\ UNCHANGED <<phase, clock, known, watermark, store, work, worker, reporting,
                 flusher, delivered, before, shortcut>>

Tick ==
  /\ clock < MaxClock /\ clock' = clock + 1
  /\ UNCHANGED <<phase, hints, known, watermark, store, work, worker, reporting,
                 flusher, delivered, before, shortcut>>

(* Mutant: the watermark is the newest hint's own time.                    *)
RewoundNever(newest) == newest

(* The watermark is rewound by a second.                                   *)
Rewound(newest) == newest - 1

(* poll_once(): the live hints past the watermark, all of them while it is *)
(* zero.  A poll that fails changes nothing here.                          *)
Poll ==
  /\ phase \in {"up", "closing"}
  /\ LET fetched == {j \in DOMAIN hints :
                       Live(j) /\ (watermark = 0 \/ hints[j].at > watermark)} IN
     /\ fetched # {}
     /\ known' = known \cup fetched
     /\ \E j \in fetched :
          /\ \A k \in fetched : hints[k].at <= hints[j].at
          /\ watermark' = IF Rewound(hints[j].at) > watermark
                          THEN Rewound(hints[j].at) ELSE watermark
  /\ UNCHANGED <<phase, clock, hints, store, work, worker, reporting, flusher,
                 delivered, before, shortcut>>

(* CorrelationIndex.match(): a live hint for the host, else what is known  *)
(* of the source address, which is learned from hints and forgotten after  *)
(* source_ttl, so that it may say either.                                  *)
Match(host) ==
  IF known \cap LiveFor(host) # {} THEN {"high"} ELSE {"low", "none"}
-----------------------------------------------------------------------------
Room == Len(queue) < TelemetryMax

(* TelemetryClient.submit(): the newest event is dropped when full.        *)
Submit(i, conf) ==
  /\ queue' = IF Room THEN Append(queue, [obs |-> i, conf |-> conf]) ELSE queue
  /\ stats' = [stats EXCEPT !.enqueued = @ + 1, !.dropped = @ + (IF Room THEN 0 ELSE 1)]
  /\ gone' = IF Room THEN gone ELSE [gone EXCEPT ![i] = "dropped"]

(* enqueue(): put_nowait() into the worker's queue.                        *)
HasRoom == Len(work) < LookupQueueMax
Offered(i) == IF HasRoom THEN Append(work, i) ELSE work

(* Mutant: a full queue does not bring the observation back inline.        *)
DeferredAlways(host, conf) == LookupEnabled /\ host # None /\ conf # "high"

(* The recorder hands over what a lookup could improve, if there is room.  *)
Deferred(host, conf) == LookupEnabled /\ host # None /\ conf # "high" /\ HasRoom

(* record(): match, store, and hand over or report.  A label under the     *)
(* zone we own counts as high when nothing else is known.  Connections     *)
(* that are open when the servers close still record.                      *)
Record(host, owned) ==
  /\ phase \in {"up", "closing"} /\ Len(store) < MaxObservations
  /\ \E c \in (IF host = None THEN {"low", "none"} ELSE Match(host)) :
       LET i == Len(store) + 1
           conf == IF c = "none" /\ owned THEN "high" ELSE c IN
       /\ store' = Append(store, [host |-> host, conf |-> conf])
       /\ before' = Append(before, Len(hints))
       /\ IF Deferred(host, conf)
          THEN /\ work' = Offered(i)
               /\ UNCHANGED <<reporting, shortcut>>
          ELSE /\ Submit(i, conf) /\ shortcut' = [shortcut EXCEPT ![i] = "inline"]
               /\ UNCHANGED work
  /\ UNCHANGED <<phase, clock, hints, known, watermark, worker, flusher, delivered>>

(* Mutant: whatever the worker brings replaces what is stored.             *)
ImprovedAny(i, conf) == conf

(* What is stored after an attribution arrives late: nothing found changes *)
(* nothing.                                                                *)
Improved(i, conf) == IF conf = "none" THEN store[i].conf ELSE conf

(* The event is built from the refined record.                             *)
Reported(i, conf) == Improved(i, conf)

(* finalise(): refine the stored record in place and report it.            *)
Finalise(i, conf) ==
  /\ store' = [store EXCEPT ![i].conf = Improved(i, conf)]
  /\ Submit(i, Reported(i, conf))
-----------------------------------------------------------------------------
(* The attribution worker: one lookup per observation.                     *)
WorkerTake ==
  /\ worker.pc = "get" /\ work # <<>> /\ phase # "stopped"
  /\ work' = Tail(work)
  /\ worker' = [worker EXCEPT !.pc = "lookup", !.obs = Head(work)]
  /\ UNCHANGED <<phase, clock, hints, known, watermark, store, reporting, flusher,
                 delivered, before, shortcut>>

(* Mutant: the answer to a lookup is not put in the index.                 *)
LearnedNothing(host) == known

(* The hints a lookup brings are added to the index.                       *)
Learned(host) == known \cup LiveFor(host)

(* GET /v1/correlations?destination_host=..., with no wait_ms: what is     *)
(* registered now.  It may fail.                                           *)
WorkerLookup ==
  /\ worker.pc = "lookup" /\ phase # "stopped"
  /\ \E ok \in BOOLEAN :
       /\ worker' = [worker EXCEPT !.pc = "match", !.found = ok]
       /\ known' = IF ok THEN Learned(store[worker.obs].host) ELSE known
       /\ shortcut' = IF ok THEN shortcut ELSE [shortcut EXCEPT ![worker.obs] = "failed"]
  /\ UNCHANGED <<phase, clock, hints, watermark, store, work, reporting, flusher,
                 delivered, before>>

(* Mutant: a failed lookup is not reported.                                *)
FinishedIfFound(conf) ==
  IF worker.found THEN Finalise(worker.obs, conf) ELSE UNCHANGED <<store, reporting>>

(* A failed lookup skips the match, not the report.                        *)
Finished(conf) == Finalise(worker.obs, conf)

WorkerFinish ==
  /\ worker.pc = "match" /\ phase # "stopped"
  /\ \E conf \in (IF worker.found THEN Match(store[worker.obs].host) ELSE {"none"}) :
       Finished(conf)
  /\ worker' = [pc |-> IF Stopping THEN "exited" ELSE "get", obs |-> None, found |-> FALSE]
  /\ UNCHANGED <<phase, clock, hints, known, watermark, work, flusher, delivered,
                 before, shortcut>>

(* The stop flag is read before each get(), which may be under way when it *)
(* is set and take one more.                                               *)
WorkerExit ==
  /\ worker.pc = "get" /\ Stopping /\ phase # "stopped"
  /\ worker' = [worker EXCEPT !.pc = "exited"]
  /\ UNCHANGED <<phase, clock, hints, known, watermark, store, work, reporting,
                 flusher, delivered, before, shortcut>>
-----------------------------------------------------------------------------
(* The flush thread: collect up to BatchSize events until the queue is     *)
(* empty, post them once, and after the stop flag one last batch.          *)
FlusherGet ==
  /\ flusher.pc \in {"collect", "final"} /\ phase # "stopped"
  /\ queue # <<>> /\ Len(flusher.batch) < BatchSize
  /\ flusher' = [flusher EXCEPT !.batch = Append(@, Head(queue))]
  /\ queue' = Tail(queue)
  /\ UNCHANGED <<phase, clock, hints, known, watermark, store, work, worker, stats,
                 gone, delivered, before, shortcut>>

FlusherEnough ==
  /\ flusher.pc \in {"collect", "final"} /\ phase # "stopped"
  /\ queue = <<>> \/ Len(flusher.batch) = BatchSize
  /\ IF flusher.batch # <<>>
     THEN flusher' = [flusher EXCEPT !.pc = IF @ = "collect" THEN "post" ELSE "last"]
     ELSE /\ flusher.pc = "final" \/ Told
          /\ flusher' = [flusher EXCEPT !.pc = IF @ = "final" THEN "exited" ELSE "final"]
  /\ UNCHANGED <<phase, clock, hints, known, watermark, store, work, worker, reporting,
                 delivered, before, shortcut>>

Failure(batch) == Len(batch)

(* _post(): no retry.  A failure may be one of the answer only.            *)
FlusherPost ==
  /\ flusher.pc \in {"post", "last"} /\ phase # "stopped"
  /\ LET sent == {flusher.batch[k] : k \in DOMAIN flusher.batch} IN
     \E answer \in {"posted", "failed"}, arrived \in BOOLEAN :
       /\ answer = "posted" => arrived
       /\ delivered' = IF arrived THEN delivered \cup sent ELSE delivered
       /\ gone' = [i \in Ids |-> IF \E e \in sent : e.obs = i THEN answer ELSE gone[i]]
       /\ stats' = IF answer = "posted"
                   THEN [stats EXCEPT !.posted = @ + Len(flusher.batch)]
                   ELSE [stats EXCEPT !.failed = @ + Failure(flusher.batch)]
  /\ flusher' = [batch |-> <<>>,
                 pc |-> IF flusher.pc = "last" THEN "exited"
                        ELSE IF Told THEN "final" ELSE "collect"]
  /\ UNCHANGED <<phase, clock, hints, known, watermark, store, work, worker, queue,
                 before, shortcut>>
-----------------------------------------------------------------------------
(* _teardown(), on the event loop, which serves nobody after the first two *)
(* steps: close the listeners, stop the poller, then the worker, then the  *)
(* telemetry client.                                                       *)
MoveTo(next) ==
  /\ phase' = next
  /\ UNCHANGED <<clock, hints, known, watermark, store, work, worker, reporting,
                 flusher, delivered, before, shortcut>>

Signal == phase = "up" /\ MoveTo("closing")

Closed == phase = "closing" /\ MoveTo(IF LookupEnabled THEN "worker" ELSE "telemetry")

WorkerJoined == phase = "worker" /\ (worker.pc = "exited" \/ JoinsExpire) /\ MoveTo("drain")

(* What is still queued is reported as it stands.                          *)
Drain ==
  /\ phase = "drain" /\ work # <<>>
  /\ Finalise(Head(work), "none")
  /\ work' = Tail(work)
  /\ shortcut' = [shortcut EXCEPT ![Head(work)] = "drained"]
  /\ UNCHANGED <<phase, clock, hints, known, watermark, worker, flusher, delivered, before>>

Drained == phase = "drain" /\ work = <<>> /\ MoveTo("telemetry")

Stopped == phase = "telemetry" /\ (flusher.pc = "exited" \/ JoinsExpire) /\ MoveTo("stopped")
-----------------------------------------------------------------------------
Worker == WorkerTake \/ WorkerLookup \/ WorkerFinish \/ WorkerExit
Flusher == FlusherGet \/ FlusherEnough \/ FlusherPost
Teardown == Closed \/ WorkerJoined \/ Drain \/ Drained \/ Stopped

Next ==
  \/ \E host \in Hosts : Announce(host)
  \/ \E host \in Hosts \cup {None}, owned \in BOOLEAN : Record(host, owned)
  \/ Tick \/ Poll \/ Worker \/ Flusher \/ Signal \/ Teardown

Spec == Init /\ [][Next]_vars

(* Threads are scheduled, and every request they make has a timeout.       *)
FairSpec == Spec /\ WF_vars(Worker) /\ WF_vars(Flusher) /\ WF_vars(Teardown)
-----------------------------------------------------------------------------
Copies(i) ==
  LET In(s) == Cardinality({k \in DOMAIN s : s[k].obs = i}) IN
  Cardinality({k \in DOMAIN work : work[k] = i})
  + (IF worker.obs = i THEN 1 ELSE 0)
  + In(queue) + In(flusher.batch) + (IF gone[i] = "no" THEN 0 ELSE 1)

(* Every observation is in exactly one place on its way out, whoever       *)
(* reports it -- the recorder, the worker, or the teardown beside a worker *)
(* that has outlived its join: none is forgotten and none reported twice.  *)
EachReportedOnce == \A i \in DOMAIN store : Copies(i) = 1

Rank(c) == IF c = "high" THEN 2 ELSE IF c = "low" THEN 1 ELSE 0

(* An attribution is never replaced by a weaker one: not by a lookup that  *)
(* fails, not by a mapping that has expired, not by a shutdown.            *)
ConfidenceNeverDrops ==
  [][\A i \in DOMAIN store : Rank(store[i].conf) <= Rank(store'[i].conf)]_vars

(* The poller leaves no gap: a live hint it has not brought is past its    *)
(* watermark, also one registered in the second of its last answer.        *)
NoHintSkipped ==
  \A j \in DOMAIN hints :
    (Live(j) /\ j \notin known) => (watermark = 0 \/ hints[j].at > watermark)

(* A hint that was registered before its callback was seen, and is still   *)
(* live, has attributed it by the time it is reported, unless the lookup   *)
(* failed, had no room, or was cut short by a shutdown.                    *)
EarlyHintJoins ==
  \A i \in DOMAIN store :
    (shortcut[i] = "no" /\ Cardinality({k \in DOMAIN work : work[k] = i}) = 0
       /\ worker.obs # i /\ store[i].conf # "high") =>
      \A j \in LiveFor(store[i].host) : j > before[i]

(* Every observation is eventually posted, or counted as dropped or        *)
(* failed, unless the process ends first.                                  *)
ReportsLeave ==
  \A i \in Ids : i \in DOMAIN store ~> (gone[i] # "no" \/ phase = "stopped")
=============================================================================
