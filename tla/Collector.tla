------------------------------ MODULE Collector ------------------------------
(***************************************************************************)
(* The telemetry collector: run lifecycle, buffered ingestion, the single  *)
(* writer task, the paginated export, crash and restart.                   *)
(* Source: platform/collector/bench_collector/ingest.py and app.py.        *)
(*                                                                         *)
(* The collector is one asyncio process: a step below is the code between  *)
(* two awaits at which another task can see or change shared state.  What  *)
(* an event says is left out; what is kept is the run it was stamped with, *)
(* its place in the order of acceptance (its number) and where it is.      *)
(***************************************************************************)
EXTENDS Integers, Sequences, FiniteSets

CONSTANTS
  Callers,           \* clients that open and close runs
  Readers,           \* clients that export a run page by page
  Apps,              \* targets whose record a close may fold in
  QueueMax,          \* settings.queue_maxsize: batches, not events
  WriteBatch,        \* settings.write_batch
  MaxEventsPerBatch, \* schemas.MAX_EVENTS_PER_BATCH
  PageLimit,         \* the ?limit= of an export page
  RawBatches,        \* batches a client may post: sequences over Kinds
  CommitErrors,      \* how a COMMIT may raise, a subset of CommitFailures
  MaxRuns,           \* bound: runs ever created
  MaxEvents,         \* bound: events ever queued
  MaxReceived,       \* bound: events received by one process lifetime
  None

Runs == 1..MaxRuns
Kinds == {"event", "correlation", "malformed"}
CommitFailures == {"refused", "unacknowledged"}

ASSUME CollectorAssumption ==
  /\ QueueMax \in Nat \ {0} /\ WriteBatch \in Nat \ {0}
  /\ MaxEventsPerBatch \in Nat \ {0} /\ PageLimit \in Nat \ {0}
  /\ MaxRuns \in Nat /\ MaxEvents \in Nat /\ MaxReceived \in Nat
  /\ RawBatches \subseteq Seq(Kinds)
  /\ CommitErrors \subseteq CommitFailures
  /\ None \notin Nat \cup Callers

VARIABLES
  up,        \* the process is running
  pointer,   \* Collector.active_run_id
  seqOf,     \* Collector._seq, 0 where the dict has no entry
  queue,     \* the queued events; .last ends each queue item (one batch)
  writing,   \* the rows of the transaction the writer has in flight
  counters,  \* Collector.counters
  lock,      \* holder of _run_lock
  call,      \* per caller: where its open_run or close_run is
  read,      \* per reader: where its export is
  runRow,    \* table runs
  rows,      \* table events
  accepted,  \* history: the run each queued event was stamped with
  lost,      \* history: events a failed write or a crash destroyed
  sealed,    \* history: runs whose close has completed
  folded,    \* history: what each run's successful closes folded in
  unparsed   \* history: bodies rejected before any event was read

memory == <<up, pointer, seqOf, queue, writing, counters, lock, unparsed>>
database == <<runRow, rows>>
history == <<accepted, lost, sealed, folded>>
vars == <<memory, database, call, read, history>>

Row == [run : Runs, ev : 1..MaxEvents, seq : Nat]
Item == [run : Runs, ev : 1..MaxEvents, last : BOOLEAN]
RunRow == [state : {"none", "active", "closed"}, count : Nat, addresses : SUBSET Apps]
Call == [pc : {"idle", "flush", "lock", "commit", "clear", "insert", "publish"},
         op : {"open", "close"}, force : BOOLEAN, run : Runs \cup {None},
         closing : SUBSET Apps, seen : RunRow]
Read == [pc : {"idle", "page", "flush", "select", "done"}, run : Runs \cup {None},
         cursor : Nat, got : SUBSET (1..MaxEvents), late : BOOLEAN]
Counters == [received : Nat, written : Nat, dropped_invalid : Nat,
             dropped_overflow : Nat, dropped_over_batch : Nat,
             dropped_write_error : Nat, discarded_idle : Nat, correlations : Nat]

NoRun == [state |-> "none", count |-> 0, addresses |-> {}]
Idle == [pc |-> "idle", op |-> "close", force |-> FALSE, run |-> None,
         closing |-> {}, seen |-> NoRun]
NotReading == [pc |-> "idle", run |-> None, cursor |-> 0, got |-> {}, late |-> FALSE]
NoCounts == [received |-> 0, written |-> 0, dropped_invalid |-> 0,
             dropped_overflow |-> 0, dropped_over_batch |-> 0,
             dropped_write_error |-> 0, discarded_idle |-> 0, correlations |-> 0]

(* One type invariant for the whole component: every counter, cursor, queue *)
(* entry and row stays inside the sets the code's own types give it.        *)
TypeOK ==
  /\ up \in BOOLEAN /\ pointer \in Runs \cup {None}
  /\ seqOf \in [Runs -> Nat]
  /\ queue \in Seq(Item) /\ writing \in SUBSET Row
  /\ counters \in Counters /\ unparsed \in Nat
  /\ lock \in Callers \cup {None}
  /\ call \in [Callers -> Call] /\ read \in [Readers -> Read]
  /\ runRow \in [Runs -> RunRow] /\ rows \in SUBSET Row
  /\ accepted \in Seq(Runs) /\ Len(accepted) <= MaxEvents
  /\ lost \in SUBSET (1..MaxEvents) /\ sealed \in SUBSET Runs
  /\ folded \in [Runs -> SUBSET Apps]

Init ==
  /\ up = TRUE /\ pointer = None /\ seqOf = [r \in Runs |-> 0]
  /\ queue = <<>> /\ writing = {} /\ counters = NoCounts /\ unparsed = 0
  /\ lock = None
  /\ call = [c \in Callers |-> Idle] /\ read = [x \in Readers |-> NotReading]
  /\ runRow = [r \in Runs |-> NoRun] /\ rows = {}
  /\ accepted = <<>> /\ lost = {} /\ sealed = {}
  /\ folded = [r \in Runs |-> {}]

Events(S) == {x.ev : x \in S}
RowsOf(r) == {x \in rows : x.run = r}
Active == {r \in Runs : runRow[r].state = "active"}
Fresh == {r \in Runs : runRow[r].state = "none"}
-----------------------------------------------------------------------------
(* Intake: the request path never awaits, so each of these is one step.    *)

(* Queue one item holding n events of the active run: put_nowait and its   *)
(* QueueFull branch.  An item is one batch whatever the number of events.  *)
Depth == Cardinality({i \in DOMAIN queue : queue[i].last})

Put(n) ==
  IF Depth < QueueMax
  THEN /\ queue' = queue \o [i \in 1..n |->
                     [run |-> pointer, ev |-> Len(accepted) + i, last |-> i = n]]
       /\ accepted' = accepted \o [i \in 1..n |-> pointer]
  ELSE UNCHANGED <<queue, accepted>>

(* Mutant: a batch refused by a full queue is counted as one event.        *)
OverflowBatch(n) == IF Depth < QueueMax THEN 0 ELSE 1

Overflow(n) == IF Depth < QueueMax THEN 0 ELSE n

(* POST /v1/events with a list: submit().  Events past the batch maximum   *)
(* are dropped unread, malformed ones are dropped, correlations register   *)
(* whether or not a run is active, and with no active run the valid rest   *)
(* is discarded.                                                           *)
Submit(raw) ==
  LET head == SubSeq(raw, 1, IF Len(raw) < MaxEventsPerBatch
                             THEN Len(raw) ELSE MaxEventsPerBatch)
      Count(K) == Cardinality({i \in DOMAIN head : head[i] \in K})
      valid == Count({"event", "correlation"})
      idle == IF pointer = None THEN valid ELSE 0
      kept == valid - idle
  IN
  /\ up
  /\ counters.received + Len(raw) <= MaxReceived
  /\ Len(accepted) + valid <= MaxEvents
  /\ counters' = [counters EXCEPT
       !.received = @ + Len(raw),
       !.dropped_invalid = @ + Count({"malformed"}),
       !.dropped_over_batch = @ + (Len(raw) - Len(head)),
       !.dropped_overflow = @ + Overflow(kept),
       !.discarded_idle = @ + idle,
       !.correlations = @ + Count({"correlation"})]
  /\ IF kept > 0 THEN Put(kept) ELSE UNCHANGED <<queue, accepted>>
  /\ UNCHANGED <<up, pointer, seqOf, writing, lock, unparsed, database, call,
                 read, lost, sealed, folded>>

(* POST /v1/correlations: register_correlation() and _enqueue_payload().   *)
RegisterCorrelation ==
  /\ up
  /\ counters.received < MaxReceived /\ Len(accepted) < MaxEvents
  /\ counters' = [counters EXCEPT
       !.correlations = @ + 1,
       !.received = @ + 1,
       !.discarded_idle = @ + (IF pointer = None THEN 1 ELSE 0),
       !.dropped_overflow = @ + (IF pointer = None THEN 0 ELSE Overflow(1))]
  /\ IF pointer = None THEN UNCHANGED <<queue, accepted>> ELSE Put(1)
  /\ UNCHANGED <<up, pointer, seqOf, writing, lock, unparsed, database, call,
                 read, lost, sealed, folded>>

(* A body that is not {"events": [...]}, or a correlation that does not    *)
(* parse: the endpoints count it as dropped and nothing else.              *)
RejectBody ==
  /\ up
  /\ counters.received + unparsed < MaxReceived
  /\ counters' = [counters EXCEPT !.dropped_invalid = @ + 1]
  /\ unparsed' = unparsed + 1
  /\ UNCHANGED <<up, pointer, seqOf, queue, writing, lock, database, call,
                 read, history>>
-----------------------------------------------------------------------------
(* The writer task.                                                        *)

(* Mutant: an item is finished when the writer takes it.                   *)
DrainedQueue == queue = <<>>

(* queue.join() returns at once when nothing is unfinished.                *)
Drained == queue = <<>> /\ writing = {}

(* Mutant: task_done() is forgotten.                                       *)
WakeNobody == UNCHANGED <<call, read>>

(* Otherwise join() is woken when task_done() takes the count to zero, and *)
(* stays woken whatever is queued before it runs again.                    *)
WakeFlushed ==
  IF queue = <<>>
  THEN /\ call' = [c \in Callers |->
                     IF call[c].pc = "flush" THEN [call[c] EXCEPT !.pc = "lock"] ELSE call[c]]
       /\ read' = [x \in Readers |->
                     IF read[x].pc = "flush" THEN [read[x] EXCEPT !.pc = "select"] ELSE read[x]]
  ELSE UNCHANGED <<call, read>>

(* Mutant: the writer waits for a full batch.                              *)
CoalescedFull(n) ==
  /\ queue[n].last /\ n >= WriteBatch
  /\ \A m \in 1..(n - 1) : ~(queue[m].last /\ m >= WriteBatch)

(* The writer takes one item and then whole items until WriteBatch events  *)
(* are in hand or the queue is empty, n events in all.                     *)
Coalesced(n) ==
  /\ queue[n].last
  /\ n >= WriteBatch \/ n = Len(queue)
  /\ \A m \in 1..(n - 1) : ~(queue[m].last /\ m >= WriteBatch)

(* Mutant: numbered by place in the transaction, whatever the run.         *)
NextSeqByPlace(i) == seqOf[queue[i].run] + i

(* _next_seq() for the i-th event in hand: one past the last number given  *)
(* to its run.                                                             *)
NextSeq(i) ==
  seqOf[queue[i].run] + Cardinality({j \in 1..i : queue[j].run = queue[i].run})

(* Mutant: a row takes the run that is active when it is written.          *)
StampNow(i) == IF pointer = None THEN queue[i].run ELSE pointer

(* A row's run is the one its event was stamped with on arrival.           *)
Stamp(i) == queue[i].run

(* get(), the coalescing loop and the numbering in _write() run without an *)
(* await: numbers are spent before the transaction starts.                 *)
WriterTake ==
  /\ up /\ writing = {}
  /\ \E n \in DOMAIN queue :
       /\ Coalesced(n)
       /\ writing' = {[run |-> Stamp(i), ev |-> queue[i].ev, seq |-> NextSeq(i)] : i \in 1..n}
       /\ seqOf' = [r \in Runs |-> seqOf[r] + Cardinality({j \in 1..n : queue[j].run = r})]
       /\ queue' = SubSeq(queue, n + 1, Len(queue))
  /\ UNCHANGED <<up, pointer, counters, lock, unparsed, database, call, read, history>>

(* The transaction: the rows and every run's event_count, or neither.      *)
CommitRows ==
  /\ rows' = rows \cup writing
  /\ runRow' = [r \in Runs |-> [runRow[r] EXCEPT
                  !.count = @ + Cardinality({x \in writing : x.run = r})]]

WriterCommit ==
  /\ up /\ writing # {}
  /\ CommitRows
  /\ counters' = [counters EXCEPT !.written = @ + Cardinality(writing)]
  /\ writing' = {}
  /\ WakeFlushed
  /\ UNCHANGED <<up, pointer, seqOf, queue, lock, unparsed, history>>

(* An exception in _write(): the events are counted as write errors, their *)
(* numbers are not given back, and task_done() still runs.                 *)
WriterFail ==
  /\ up /\ writing # {}
  /\ \E how \in CommitErrors :
       IF how = "refused"
       THEN lost' = lost \cup Events(writing) /\ UNCHANGED database
       ELSE CommitRows /\ UNCHANGED lost
  /\ counters' = [counters EXCEPT !.dropped_write_error = @ + Cardinality(writing)]
  /\ writing' = {}
  /\ WakeFlushed
  /\ UNCHANGED <<up, pointer, seqOf, queue, lock, unparsed, accepted, sealed, folded>>
-----------------------------------------------------------------------------
(* Runs: open_run() and close_run(), serialised by _run_lock.              *)

Advance(c, entry) == call' = [call EXCEPT ![c] = entry]
At(c, pc) == up /\ call[c].pc = pc

(* An exception or a return: the caller has its answer, the lock is free.  *)
Return(c) == Advance(c, Idle) /\ lock' = None

(* close_run() flushes before it queues for the lock.                      *)
CloseBegin(c, r, apps) ==
  /\ At(c, "idle")
  /\ Advance(c, [Idle EXCEPT !.pc = IF Drained THEN "lock" ELSE "flush",
                             !.run = r, !.closing = apps])
  /\ UNCHANGED <<memory, database, read, history>>

(* open_run() goes straight for the lock: nothing is flushed.  The guard   *)
(* keeps the bound MaxRuns from stopping an open half way.                 *)
OpenBegin(c, force) ==
  /\ At(c, "idle")
  /\ Cardinality({d \in Callers : call[d].op = "open"}) < Cardinality(Fresh)
  /\ Advance(c, [Idle EXCEPT !.pc = "lock", !.op = "open", !.force = force])
  /\ UNCHANGED <<memory, database, read, history>>

(* Mutant: _run_lock is not taken.                                         *)
LockIgnored == TRUE

LockFree == lock = None

(* Mutant: a forced open does not wait for the close of the run it ends.   *)
MayInsertForced(c) == call[c].op = "open" /\ (pointer = None \/ call[c].force)

MayInsert(c) == call[c].op = "open" /\ pointer = None

(* The lock is free and this caller is next.  A close reads its row; an    *)
(* open finds no active run, or is refused (409), or must close it first.  *)
Acquire(c) ==
  /\ At(c, "lock") /\ LockFree
  /\ LET r == IF call[c].op = "close" THEN call[c].run ELSE pointer IN
     \/ /\ MayInsert(c)
        /\ lock' = c /\ Advance(c, [call[c] EXCEPT !.pc = "insert"])
     \/ /\ call[c].op = "open" /\ pointer # None /\ ~call[c].force
        /\ Return(c)
     \/ /\ call[c].op = "close" \/ (pointer # None /\ call[c].force)
        /\ runRow[r].state # "none"
        /\ lock' = c
        /\ Advance(c, [call[c] EXCEPT !.pc = "commit", !.run = r, !.seen = runRow[r]])
     \/ /\ call[c].op = "close" /\ runRow[r].state = "none"   \* 404
        /\ Return(c)
  /\ UNCHANGED <<up, pointer, seqOf, queue, writing, counters, unparsed,
                 database, read, history>>

(* The UPDATE of _close_run_locked(), from the row as it was read: the     *)
(* merged addresses when the close carries some, and the closed state.     *)
MarkClosed(c) ==
  LET r == call[c].run IN
  runRow' = [runRow EXCEPT ![r] =
    [state |-> "closed", count |-> runRow[r].count,
     addresses |-> IF call[c].closing = {} THEN runRow[r].addresses
                   ELSE call[c].seen.addresses \cup call[c].closing]]

(* A close that finds the run closed and brings nothing commits nothing.   *)
MustCommit(c) == call[c].seen.state = "active" \/ call[c].closing # {}

CloseCommit(c) ==
  /\ At(c, "commit")
  /\ IF MustCommit(c) THEN MarkClosed(c) ELSE UNCHANGED runRow
  /\ Advance(c, [call[c] EXCEPT !.pc = "clear"])
  /\ UNCHANGED <<memory, rows, read, history>>

(* The commit raises: the pointer is not cleared and the caller gets 500.  *)
CloseFail(c) ==
  /\ At(c, "commit") /\ MustCommit(c)
  /\ \E how \in CommitErrors :
       IF how = "refused" THEN UNCHANGED runRow ELSE MarkClosed(c)
  /\ Return(c)
  /\ UNCHANGED <<up, pointer, seqOf, queue, writing, counters, unparsed, rows,
                 read, history>>

(* Mutants: closing any run clears the pointer; no close clears it.        *)
ClearedAny(r) == None
ClearedNever(r) == pointer

Cleared(r) == IF pointer = r THEN None ELSE pointer

(* Leaving the session is one more await; only then is active_run_id       *)
(* cleared.  Until this step events are still stamped with the run.        *)
CloseClear(c) ==
  /\ At(c, "clear")
  /\ LET r == call[c].run IN
     /\ pointer' = Cleared(r)
     /\ sealed' = sealed \cup {r}
     /\ folded' = [folded EXCEPT ![r] = @ \cup call[c].closing]
  /\ IF call[c].op = "close"
     THEN Return(c)
     ELSE Advance(c, [call[c] EXCEPT !.pc = "insert", !.run = None]) /\ UNCHANGED lock
  /\ UNCHANGED <<up, seqOf, queue, writing, counters, unparsed, database, read,
                 accepted, lost>>

(* The INSERT of the new run.  Identifiers are never reused and started_at *)
(* grows under the lock, so runs are numbered in the order they open.      *)
InsertRun(r) ==
  /\ r \in Fresh /\ \A s \in Fresh : r <= s
  /\ runRow' = [runRow EXCEPT ![r] = [NoRun EXCEPT !.state = "active"]]

OpenInsert(c) ==
  /\ At(c, "insert")
  /\ \E r \in Runs :
       /\ InsertRun(r)
       /\ Advance(c, [call[c] EXCEPT !.pc = "publish", !.run = r])
  /\ UNCHANGED <<memory, rows, read, history>>

OpenFail(c) ==
  /\ At(c, "insert")
  /\ \E how \in CommitErrors :
       IF how = "refused" THEN UNCHANGED runRow ELSE \E r \in Runs : InsertRun(r)
  /\ Return(c)
  /\ UNCHANGED <<up, pointer, seqOf, queue, writing, counters, unparsed, rows,
                 read, history>>

(* Only now does the run start to receive events, numbered from one.       *)
OpenPublish(c) ==
  /\ At(c, "publish")
  /\ seqOf' = [seqOf EXCEPT ![call[c].run] = 0]
  /\ pointer' = call[c].run
  /\ Return(c)
  /\ UNCHANGED <<up, queue, writing, counters, unparsed, database, read, history>>
-----------------------------------------------------------------------------
(* Export: GET /v1/runs/{id}/events page after page, from after_seq = 0.   *)
(* The request's get_run() flush and lookup come before get_events()'s own *)
(* flush and decide only the 404, so one flush stands for both.            *)

Reading(x, entry) == read' = [read EXCEPT ![x] = entry]

ReadBegin(x, r) ==
  /\ up /\ read[x].pc \in {"idle", "done"}
  /\ runRow[r].state # "none"
  /\ Reading(x, [NotReading EXCEPT !.pc = "page", !.run = r, !.late = r \in sealed])
  /\ UNCHANGED <<memory, database, call, history>>

ReadRequest(x) ==
  /\ up /\ read[x].pc = "page"
  /\ Reading(x, [read[x] EXCEPT !.pc = IF Drained THEN "select" ELSE "flush"])
  /\ UNCHANGED <<memory, database, call, history>>

(* WHERE run_id = run AND seq > after_seq ORDER BY seq LIMIT PageLimit     *)
Page(run, cursor) ==
  LET rest == {y \in RowsOf(run) : y.seq > cursor} IN
  {y \in rest : Cardinality({z \in rest : z.seq < y.seq}) < PageLimit}

(* next_seq is the last row's number.  A client stops at an empty page; at *)
(* a short one the harness stops (export_events) and the scorer asks again *)
(* (fetch_events).                                                         *)
ReadSelect(x) ==
  /\ up /\ read[x].pc = "select"
  /\ LET page == Page(read[x].run, read[x].cursor) IN
     \/ /\ page = {}
        /\ Reading(x, [read[x] EXCEPT !.pc = "done"])
     \/ /\ page # {}
        /\ \E y \in page, next \in {"page", "done"} :
             /\ \A z \in page : z.seq <= y.seq
             /\ next = "done" => Cardinality(page) < PageLimit
             /\ Reading(x, [read[x] EXCEPT !.pc = next, !.cursor = y.seq,
                                           !.got = @ \cup Events(page)])
  /\ UNCHANGED <<memory, database, call, history>>

(* No collector answers: the client gives up with what it has.             *)
ReadFail(x) ==
  /\ ~up /\ read[x].pc = "page"
  /\ Reading(x, NotReading)
  /\ UNCHANGED <<memory, database, call, history>>
-----------------------------------------------------------------------------
(* Crash, shutdown and restart.  Memory goes, the database stays, every    *)
(* request in flight fails at its client.                                  *)
GoDown ==
  /\ up /\ up' = FALSE
  /\ pointer' = None /\ seqOf' = [r \in Runs |-> 0]
  /\ queue' = <<>> /\ writing' = {} /\ counters' = NoCounts /\ unparsed' = 0
  /\ lock' = None
  /\ call' = [c \in Callers |-> Idle]
  /\ read' = [x \in Readers |-> IF read[x].pc \in {"flush", "select"}
                                THEN NotReading ELSE read[x]]
  /\ UNCHANGED <<database, accepted, sealed, folded>>

Crash ==
  /\ GoDown
  /\ lost' = lost \cup Events(writing) \cup {queue[i].ev : i \in DOMAIN queue}

(* The server lets open requests finish, then stop() flushes and cancels   *)
(* the writer.                                                             *)
Stop ==
  /\ Drained /\ \A c \in Callers : call[c].pc = "idle"
  /\ \A x \in Readers : read[x].pc \notin {"flush", "select"}
  /\ GoDown
  /\ UNCHANGED lost

(* Mutant: runs that have been closed are adopted too.                     *)
AdoptableAny == Runs \ Fresh

Adoptable == Active

(* Mutant: max(seq) over no rows is NULL.                                  *)
LastSeqNull(r) == IF RowsOf(r) = {} THEN {None} ELSE {Cardinality(RowsOf(r))}

(* SELECT max(seq), 0 when the run has no row: a set of one.               *)
LastSeq(r) ==
  {n \in {0} \cup {y.seq : y \in RowsOf(r)} : \A y \in RowsOf(r) : y.seq <= n}

(* start() and _restore_state(): the newest active run is adopted, and its *)
(* numbering resumes after its last stored row.                            *)
Restart ==
  /\ ~up /\ up' = TRUE
  /\ \/ Adoptable = {} /\ UNCHANGED <<pointer, seqOf>>
     \/ \E r \in Adoptable : \E n \in LastSeq(r) :
          /\ \A s \in Adoptable : s <= r
          /\ pointer' = r /\ seqOf' = [seqOf EXCEPT ![r] = n]
  /\ UNCHANGED <<queue, writing, counters, lock, unparsed, database, call, read, history>>
-----------------------------------------------------------------------------
Intake == (\E raw \in RawBatches : Submit(raw)) \/ RegisterCorrelation \/ RejectBody
Writer == WriterTake \/ WriterCommit \/ WriterFail
Begin(c) ==
  \/ \E r \in Runs, apps \in SUBSET Apps : CloseBegin(c, r, apps)
  \/ \E force \in BOOLEAN : OpenBegin(c, force)
Proceed(c) ==
  \/ CloseCommit(c) \/ CloseFail(c) \/ CloseClear(c)
  \/ OpenInsert(c) \/ OpenFail(c) \/ OpenPublish(c)
ReadStep(x) == ReadRequest(x) \/ ReadSelect(x) \/ ReadFail(x)

Next ==
  \/ Intake \/ Writer
  \/ \E c \in Callers : Begin(c) \/ Acquire(c) \/ Proceed(c)
  \/ \E x \in Readers : (\E r \in Runs : ReadBegin(x, r)) \/ ReadStep(x)
  \/ Crash \/ Stop \/ Restart

Spec == Init /\ [][Next]_vars

(* The event loop runs every ready task again and again.  _run_lock serves *)
(* its waiters in order, so no waiter is passed over for ever: strong      *)
(* fairness on Acquire.  Clients, crashes and restarts owe nothing.        *)
Fairness ==
  /\ WF_vars(Writer)
  /\ \A c \in Callers : SF_vars(Acquire(c)) /\ WF_vars(Proceed(c))
  /\ \A x \in Readers : WF_vars(ReadSelect(x))

FairSpec == Spec /\ Fairness
-----------------------------------------------------------------------------
(* Properties.                                                             *)

(* app.py: exactly one active run at a time.  No interleaving of opens,    *)
(* forced opens, closes and restarts leaves two active rows, of which a    *)
(* restart would adopt only the newest.                                    *)
OneActiveRow == \A r, s \in Active : r = s

(* Except while a caller is between its commit and the matching change of  *)
(* active_run_id, memory and database name the same run, so that a restart *)
(* stamps events with the run this process would have.                     *)
PointerAgrees ==
  (up /\ \A c \in Callers : call[c].pc \notin {"clear", "publish"})
    => Active = Runs \cap {pointer}

(* Within a run the numbers of stored and about-to-be-stored events follow *)
(* the order of acceptance and never repeat, across batches, failed writes *)
(* and restarts: the insert cannot trip the (run_id, seq) constraint.      *)
SeqFollowsArrival ==
  \A y, z \in rows \cup writing :
    y.run = z.run => (y.seq < z.seq <=> y.ev < z.ev)

(* Every queued event is in exactly one place -- the queue, the writer's   *)
(* transaction, the database, or destroyed by a failure -- and keeps the   *)
(* run it was stamped with, whatever opens or closes meanwhile.  The       *)
(* denormalised runs.event_count is the number of those in the database.   *)
EventAccounted ==
  LET Q == {queue[i].ev : i \in DOMAIN queue}
      Places == <<Q, Events(writing), Events(rows), lost>> IN
  /\ UNION {Places[i] : i \in 1..4} = DOMAIN accepted
  /\ \A i, j \in 1..4 : i # j => Places[i] \cap Places[j] = {}
  /\ \A i, j \in DOMAIN queue : i < j => queue[i].ev < queue[j].ev
  /\ \A i \in DOMAIN queue : queue[i].run = accepted[queue[i].ev]
  /\ \A y \in rows \cup writing : y.run = accepted[y.ev]
  /\ \A r \in Runs : runRow[r].count = Cardinality(RowsOf(r))

(* Everything this process was sent is in one counter or still in memory.  *)
(* The comment in register_correlation() promises this of the totals       *)
(* alone; it takes unparsed, because the endpoints count a body they       *)
(* reject unread as dropped and not as received.                           *)
IntakeReconciles ==
  counters.received + unparsed =
    counters.written + counters.dropped_invalid + counters.dropped_overflow
    + counters.dropped_over_batch + counters.dropped_write_error
    + counters.discarded_idle + Len(queue) + Cardinality(writing)

(* What a successful close folded into the record is still there after     *)
(* every other close, retry or restart: no update is lost.                 *)
AddressesKept == \A r \in Runs : folded[r] \subseteq runRow[r].addresses

(* An export begun after close_run() has finished returns every event that *)
(* was queued for the run and not destroyed by a failure, including those  *)
(* stamped between the close's own flush and the end of the close; and the *)
(* cursor of any export, even of a run that is still being written, has    *)
(* never passed a stored event that was not returned.                      *)
ExportComplete ==
  \A x \in Readers :
    /\ read[x].pc = "done" /\ read[x].late =>
         \A e \in DOMAIN accepted :
           accepted[e] = read[x].run => e \in read[x].got \cup lost
    /\ \A y \in RowsOf(read[x].run) : y.seq <= read[x].cursor => y.ev \in read[x].got

(* Once a run's close has finished, no event is stamped with it again, by  *)
(* this process or by one that restarts from the database.                 *)
SealedIsFinal ==
  [][\A e \in DOMAIN accepted' \ DOMAIN accepted : accepted'[e] \notin sealed]_vars

(* Every open_run() and close_run() returns and every export request is    *)
(* answered.                                                               *)
CallsReturn ==
  /\ \A c \in Callers : call[c].pc # "idle" ~> call[c].pc = "idle"
  /\ \A x \in Readers :
       read[x].pc \in {"flush", "select"} ~> read[x].pc \notin {"flush", "select"}

(* Every queued event is eventually stored, or destroyed by a failure.     *)
EventsSettle ==
  \A e \in 1..MaxEvents : e \in DOMAIN accepted ~> e \in Events(rows) \cup lost
=============================================================================
