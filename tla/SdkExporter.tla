------------------------------ MODULE SdkExporter ------------------------------
(***************************************************************************)
(* The Python agent's exporter: two lanes, each a bounded deque and one    *)
(* background thread that application threads start when they find it     *)
(* dead, with flush(), close(), and what a forked child does to the client *)
(* it inherits.                                                            *)
(* Source: sdk/python/src/telemetry_agent/_client.py.                      *)
(*                                                                         *)
(* "records" is the batched lane, "links" the correlation lane.  A record  *)
(* is its place in its lane's order of arrival; what it says is left out.  *)
(* The wake events only shorten waits that time out by themselves, so a    *)
(* thread may look at its queue at any moment.                             *)
(***************************************************************************)
EXTENDS Integers, Sequences, FiniteSets

CONSTANTS
  Callers,        \* application threads
  Workers,        \* places for background threads, dead ones included
  QueueMax,       \* config.queue_max and CORRELATION_QUEUE_MAX
  BatchMax,       \* config.batch_max; a link is posted alone
  Attempts,       \* posts of one batch: 2, or 1 with an injected sender
  Inherited,      \* records a fork may find in the parent's queue
  RaceAfterFork,  \* may two threads of a child find the parent's client
  MaxMade,        \* bound: records, and links, ever appended
  MaxFlushes,     \* bound: calls of flush()
  None

Lanes == {"records", "links"}

ASSUME SdkAssumption ==
  /\ QueueMax \in Nat \ {0} /\ BatchMax \in Nat \ {0} /\ Attempts \in Nat \ {0}
  /\ Inherited \subseteq 0..QueueMax /\ RaceAfterFork \in BOOLEAN
  /\ MaxMade \in [Lanes -> Nat] /\ MaxFlushes \in Nat
  /\ \A n \in Inherited : n <= MaxMade["records"]
  /\ None \notin Workers /\ IsFiniteSet(Callers)

VARIABLES
  pid,      \* is self._pid the process's own
  stop,     \* _stopping
  queue,    \* _queue and _links
  inflight, \* _inflight and _links_inflight
  thread,   \* _thread and _links_thread
  worker,   \* the background threads
  caller,   \* what each application thread is in the middle of
  stats,    \* _counters
  made,     \* history: records appended to each lane
  fate,     \* history: what became of each of them
  arrived,  \* history: those the collector has got
  unseen,   \* history: appended when their thread would not look again
  theirs,   \* history: records the parent had queued when it forked
  flushes   \* history: calls of flush()

vars == <<pid, stop, queue, inflight, thread, worker, caller, stats, made, fate,
          arrived, unseen, theirs, flushes>>
history == <<made, fate, arrived, unseen, theirs>>

Ids == 1..(MaxMade["records"] + MaxMade["links"])
Limit(lane) == IF lane = "records" THEN BatchMax ELSE 1
Dead == [pc |-> "dead", batch |-> <<>>, attempt |-> 1, last |-> FALSE]
Idle == [pc |-> "idle", lane |-> "records", flush |-> FALSE,
         mark |-> [l \in Lanes |-> 0]]
Alive(lane) == thread[lane] # None /\ worker[lane][thread[lane]].pc # "dead"

WorkerStep ==
  [pc : {"dead", "drain", "send", "ack", "check"}, batch : Seq(Ids),
   attempt : 1..Attempts, last : BOOLEAN]
CallerStep ==
  [pc : {"idle", "adopt", "requeue", "rethread", "look", "create", "append", "count",
         "idle1", "idle2", "flushed"},
   lane : Lanes, flush : BOOLEAN, mark : [Lanes -> Nat]]

TypeOK ==
  /\ pid \in {"own", "parent"} /\ stop \in BOOLEAN
  /\ queue \in [Lanes -> Seq(Ids)]
  /\ \A l \in Lanes : Len(queue[l]) <= QueueMax
  /\ inflight \in [Lanes -> Int]
  /\ thread \in [Lanes -> Workers \cup {None}]
  /\ worker \in [Lanes -> [Workers -> WorkerStep]]
  /\ \A l \in Lanes, w \in Workers : Len(worker[l][w].batch) <= Limit(l)
  /\ caller \in [Callers -> CallerStep]
  /\ stats \in [Lanes -> [enqueued : Nat, dropped : Nat, sent : Nat, failed : Nat]]
  /\ made \in [Lanes -> Nat]
  /\ fate \in [Lanes -> [Ids -> {"no", "dropped", "sent", "failed", "left"}]]
  /\ arrived \in [Lanes -> SUBSET Ids]
  /\ unseen \in [Lanes -> SUBSET Ids] /\ theirs \subseteq Ids /\ flushes \in Nat

(* A client of the process's own, or one found in a forked child: its      *)
(* threads have not survived, its records belong to the parent.            *)
Init ==
  \E n \in Inherited \cup {0} :
    /\ pid = (IF n = 0 THEN "own" ELSE "parent") /\ stop = FALSE
    /\ queue = [l \in Lanes |-> IF l = "records" THEN [i \in 1..n |-> i] ELSE <<>>]
    /\ inflight = [l \in Lanes |-> 0]
    /\ thread = [l \in Lanes |-> None]
    /\ worker = [l \in Lanes |-> [w \in Workers |-> Dead]]
    /\ caller = [c \in Callers |-> Idle]
    /\ stats = [l \in Lanes |-> [enqueued |-> IF l = "records" THEN n ELSE 0,
                                 dropped |-> 0, sent |-> 0, failed |-> 0]]
    /\ made = [l \in Lanes |-> IF l = "records" THEN n ELSE 0]
    /\ fate = [l \in Lanes |-> [i \in Ids |-> "no"]]
    /\ arrived = [l \in Lanes |-> {}]
    /\ unseen = [l \in Lanes |-> {}]
    /\ theirs = 1..n /\ flushes = 0
-----------------------------------------------------------------------------
Goto(c, pc) == caller' = [caller EXCEPT ![c] = IF pc = "idle" THEN Idle ELSE [@ EXCEPT !.pc = pc]]

Emitting(c, lane) ==
  /\ caller[c].lane = lane /\ ~caller[c].flush
  /\ caller[c].pc \in {"adopt", "requeue", "rethread", "look", "create", "append"}

After(flush) == IF flush THEN "idle1" ELSE "append"

(* _ensure_worker() and _ensure_link_worker() ask whose client it is, then *)
(* whether the lane's thread is alive.                                     *)
Enter(c, lane, flush) ==
  /\ caller[c].pc = "idle"
  /\ RaceAfterFork \/ \A d \in Callers : caller[d].pc \notin {"adopt", "requeue", "rethread"}
  /\ caller' = [caller EXCEPT ![c] =
       [pc |-> IF pid = "parent" THEN "adopt"
               ELSE IF Alive(lane) THEN After(flush) ELSE "create",
        lane |-> lane, flush |-> flush, mark |-> IF flush THEN made ELSE Idle.mark]]
  /\ UNCHANGED <<pid, stop, queue, inflight, thread, worker, stats, history>>

(* emit() and outbound().                                                  *)
Emit(c, lane) ==
  /\ made[lane] + Cardinality({d \in Callers : Emitting(d, lane)}) < MaxMade[lane]
  /\ Enter(c, lane, FALSE) /\ UNCHANGED flushes

(* flush() makes sure of the exporter thread only.                         *)
Flush(c) ==
  /\ flushes < MaxFlushes /\ flushes' = flushes + 1
  /\ Enter(c, "records", TRUE)

(* _reinit_after_fork(): the pid first,                                    *)
Adopt(c) ==
  /\ caller[c].pc = "adopt" /\ pid' = "own" /\ Goto(c, "requeue")
  /\ UNCHANGED <<stop, queue, inflight, thread, worker, stats, history, flushes>>

(* Mutant: the child keeps the queue it inherited.                         *)
KeptQueues == queue

(* then new, empty queues: the parent exports what they held,              *)
NewQueues == [l \in Lanes |-> <<>>]

Requeue(c) ==
  /\ caller[c].pc = "requeue"
  /\ queue' = NewQueues /\ inflight' = [l \in Lanes |-> 0]
  /\ fate' = [l \in Lanes |-> [i \in Ids |->
                IF \E k \in DOMAIN queue[l] : queue[l][k] = i /\ queue'[l] = <<>>
                THEN "left" ELSE fate[l][i]]]
  /\ Goto(c, "rethread")
  /\ UNCHANGED <<pid, stop, thread, worker, stats, made, arrived, unseen, theirs, flushes>>

(* then no thread and no stop flag.                                        *)
Rethread(c) ==
  /\ caller[c].pc = "rethread"
  /\ stop' = FALSE /\ thread' = [l \in Lanes |-> None] /\ Goto(c, "look")
  /\ UNCHANGED <<pid, queue, inflight, worker, stats, history, flushes>>

Look(c) ==
  /\ caller[c].pc = "look"
  /\ Goto(c, IF Alive(caller[c].lane) THEN After(caller[c].flush) ELSE "create")
  /\ UNCHANGED <<pid, stop, queue, inflight, thread, worker, stats, history, flushes>>

(* Mutant: the second look, under the lock, is left out.                   *)
StillMissingUnasked(lane) == TRUE

(* The second look, under _thread_lock.                                    *)
StillMissing(lane) == ~Alive(lane)

Create(c) ==
  LET lane == caller[c].lane IN
  /\ caller[c].pc = "create"
  /\ IF StillMissing(lane)
     THEN \E w \in Workers :
            /\ worker[lane][w].pc = "dead"
            /\ thread' = [thread EXCEPT ![lane] = w]
            /\ worker' = [worker EXCEPT ![lane][w] = [Dead EXCEPT !.pc = "drain"]]
     ELSE UNCHANGED <<thread, worker>>
  /\ Goto(c, After(caller[c].flush))
  /\ UNCHANGED <<pid, stop, queue, inflight, stats, history, flushes>>

Full(lane) == Len(queue[lane]) >= QueueMax

(* When full, the oldest gives way.                                        *)
OldestOut(lane) == [out |-> Head(queue[lane]), rest |-> Tail(queue[lane])]

(* Under the lane's lock.                                                  *)
Push(c) ==
  LET lane == caller[c].lane
      id == made[lane] + 1
      w == thread[lane]
      over == \/ ~Alive(lane)
              \/ lane = "links" /\ worker[lane][w].pc = "check"
  IN
  /\ caller[c].pc = "append"
  /\ made' = [made EXCEPT ![lane] = id]
  /\ IF Full(lane)
     THEN /\ queue' = [queue EXCEPT ![lane] = Append(OldestOut(lane).rest, id)]
          /\ stats' = [stats EXCEPT ![lane].dropped = @ + 1]
          /\ fate' = [fate EXCEPT ![lane][OldestOut(lane).out] = "dropped"]
     ELSE /\ queue' = [queue EXCEPT ![lane] = Append(@, id)]
          /\ UNCHANGED <<stats, fate>>
  /\ unseen' = IF over THEN [unseen EXCEPT ![lane] = @ \cup {id}] ELSE unseen
  /\ Goto(c, IF lane = "records" THEN "count" ELSE "idle")
  /\ UNCHANGED <<pid, stop, inflight, thread, worker, arrived, theirs, flushes>>

(* "enqueued" is bumped after the lock is released; links have no such     *)
(* counter.                                                                *)
Count(c) ==
  /\ caller[c].pc = "count"
  /\ stats' = [stats EXCEPT !["records"].enqueued = @ + 1] /\ Goto(c, "idle")
  /\ UNCHANGED <<pid, stop, queue, inflight, thread, worker, history, flushes>>
-----------------------------------------------------------------------------
(* The background threads.                                                 *)
Become(lane, w, pc) == worker' = [worker EXCEPT ![lane][w].pc = pc]

(* _take(), or one link: off the queue and in flight, under one lock.      *)
Take(lane, w) ==
  LET n == IF Len(queue[lane]) < Limit(lane) THEN Len(queue[lane]) ELSE Limit(lane) IN
  /\ worker[lane][w].pc = "drain" /\ queue[lane] # <<>>
  /\ worker' = [worker EXCEPT ![lane][w] =
                  [@ EXCEPT !.pc = "send", !.batch = SubSeq(queue[lane], 1, n), !.attempt = 1]]
  /\ queue' = [queue EXCEPT ![lane] = SubSeq(@, n + 1, Len(@))]
  /\ inflight' = [inflight EXCEPT ![lane] = @ + 1]
  /\ UNCHANGED <<pid, stop, thread, caller, stats, history, flushes>>

(* Mutant: neither lane looks a second time.                               *)
DrainsAgainNever(lane) == FALSE

(* Only the exporter drains once more after it has read the stop flag.     *)
DrainsAgain(lane) == lane = "records"

Drained(lane, w) ==
  /\ worker[lane][w].pc = "drain" /\ queue[lane] = <<>>
  /\ worker' = [worker EXCEPT ![lane][w] =
                  IF @.last THEN Dead ELSE [@ EXCEPT !.pc = "check"]]
  /\ UNCHANGED <<pid, stop, queue, inflight, thread, caller, stats, history, flushes>>

Check(lane, w) ==
  /\ worker[lane][w].pc = "check"
  /\ worker' = [worker EXCEPT ![lane][w] =
                  IF stop /\ ~DrainsAgain(lane) THEN Dead
                  ELSE [@ EXCEPT !.pc = "drain", !.last = stop]]
  /\ UNCHANGED <<pid, stop, queue, inflight, thread, caller, stats, history, flushes>>

BatchOf(lane, w) == {worker[lane][w].batch[k] : k \in DOMAIN worker[lane][w].batch}

(* Mutant: a batch that fails twice goes back to wait for better times.    *)
OutcomeKept(answer) == IF answer = "sent" THEN "sent" ELSE "no"

(* The answer decides; what fails twice is given up.                       *)
Outcome(answer) == answer

(* _bump(): "sent" counts records, "send_failures" batches.                *)
Answered(counted, answer, n) ==
  IF answer = "sent" THEN [counted EXCEPT !.sent = @ + n] ELSE [counted EXCEPT !.failed = @ + 1]

(* _send(), _post_link(): an answer below 500 is a success; a failure may  *)
(* be one of the answer only.                                              *)
Post(lane, w) ==
  /\ worker[lane][w].pc = "send"
  /\ \E answer \in {"sent", "failed"}, got \in BOOLEAN :
       /\ answer = "sent" => got
       /\ arrived' = IF got THEN [arrived EXCEPT ![lane] = @ \cup BatchOf(lane, w)] ELSE arrived
       /\ IF answer = "failed" /\ worker[lane][w].attempt < Attempts
          THEN /\ worker' = [worker EXCEPT ![lane][w].attempt = @ + 1]
               /\ UNCHANGED <<stats, fate>>
          ELSE /\ Become(lane, w, "ack")
               /\ stats' = [stats EXCEPT ![lane] = Answered(@, answer, Len(worker[lane][w].batch))]
               /\ fate' = [fate EXCEPT ![lane] = [i \in Ids |->
                             IF i \in BatchOf(lane, w) THEN Outcome(answer) ELSE @[i]]]
  /\ UNCHANGED <<pid, stop, queue, inflight, thread, caller, made, unseen, theirs, flushes>>

(* The finally clause.                                                     *)
Ack(lane, w) ==
  /\ worker[lane][w].pc = "ack"
  /\ inflight' = [inflight EXCEPT ![lane] = @ - 1]
  /\ worker' = [worker EXCEPT ![lane][w] = [@ EXCEPT !.pc = "drain", !.batch = <<>>, !.attempt = 1]]
  /\ UNCHANGED <<pid, stop, queue, thread, caller, stats, history, flushes>>
-----------------------------------------------------------------------------
(* flush(): _idle() reads the two lanes one after the other.               *)

(* Mutant: a batch that has been taken is forgotten.                       *)
QuietQueue(lane) == queue[lane] = <<>>

Quiet(lane) == queue[lane] = <<>> /\ inflight[lane] = 0

FlushFirst(c) ==
  /\ caller[c].pc = "idle1" /\ Quiet("records") /\ Goto(c, "idle2")
  /\ UNCHANGED <<pid, stop, queue, inflight, thread, worker, stats, history, flushes>>

FlushSecond(c) ==
  /\ caller[c].pc = "idle2"
  /\ Goto(c, IF Quiet("links") THEN "flushed" ELSE "idle1")
  /\ UNCHANGED <<pid, stop, queue, inflight, thread, worker, stats, history, flushes>>

(* It returns: TRUE from "flushed", FALSE when its time is up.             *)
FlushReturn(c) ==
  /\ caller[c].pc \in {"idle1", "flushed"} /\ Goto(c, "idle")
  /\ UNCHANGED <<pid, stop, queue, inflight, thread, worker, stats, history, flushes>>

(* close(), also of a client that init_telemetry() has replaced while      *)
(* callers still hold it.  It then only waits, for a time.                 *)
Close ==
  /\ pid = "own" /\ ~stop /\ stop' = TRUE
  /\ UNCHANGED <<pid, queue, inflight, thread, worker, caller, stats, history, flushes>>
-----------------------------------------------------------------------------
Caller(c) ==
  \/ Adopt(c) \/ Requeue(c) \/ Rethread(c) \/ Look(c) \/ Create(c) \/ Push(c) \/ Count(c)
  \/ FlushFirst(c) \/ FlushSecond(c) \/ FlushReturn(c)

Worker(lane, w) ==
  Take(lane, w) \/ Drained(lane, w) \/ Check(lane, w) \/ Post(lane, w) \/ Ack(lane, w)

Next ==
  \/ \E c \in Callers : (\E lane \in Lanes : Emit(c, lane)) \/ Flush(c) \/ Caller(c)
  \/ Close
  \/ \E lane \in Lanes, w \in Workers : Worker(lane, w)

Spec == Init /\ [][Next]_vars
-----------------------------------------------------------------------------
Live(lane) == {w \in Workers : worker[lane][w].pc # "dead"}
Held(lane) == UNION {IF worker[lane][w].pc = "send" THEN BatchOf(lane, w) ELSE {} : w \in Workers}
Queued(lane) == {queue[lane][k] : k \in DOMAIN queue[lane]}
Gone(lane) == {i \in Ids : fate[lane][i] # "no"}
Fated(lane, end) == Cardinality({i \in Ids : fate[lane][i] = end})

(* Every record is in one place on its way out or has met one end, however *)
(* emits, exports, a close and a fork interleave; and the counters say so: *)
(* what they do not show as sent, dropped or queued was in as many batches *)
(* as "send_failures" counts.                                              *)
RecordsAccounted ==
  \A l \in Lanes :
    /\ Queued(l) \cup Held(l) \cup Gone(l) = 1..made[l]
    /\ Queued(l) \cap Held(l) = {} /\ (Queued(l) \cup Held(l)) \cap Gone(l) = {}
    /\ Len(queue[l]) = Cardinality(Queued(l))
    /\ stats[l].sent = Fated(l, "sent") /\ stats[l].dropped = Fated(l, "dropped")
    /\ stats[l].failed <= Fated(l, "failed")
    /\ Fated(l, "failed") <= stats[l].failed * Limit(l)
    /\ l = "records" => made[l] = stats[l].enqueued
                          + Cardinality({c \in Callers : caller[c].pc = "count"})

(* One thread per lane, so nothing overtakes: a record that has reached    *)
(* the collector leaves no older one behind it in the queue or in flight.  *)
NoOvertaking ==
  \A l \in Lanes : \A i \in arrived[l] : \A j \in 1..(i - 1) :
    j \notin Queued(l) /\ (j \in Held(l) => j \in arrived[l])

(* flush() that says TRUE means delivered, not merely dequeued: nothing    *)
(* that was there when it was called is still on its way, in either lane,  *)
(* although it looks at them one after the other.                          *)
FlushMeansLeft ==
  \A c \in Callers : caller[c].pc = "flushed" =>
    \A l \in Lanes : 1..caller[c].mark[l] \subseteq Gone(l)

(* What is queued with no thread to send it was appended after that thread *)
(* had looked for the last time: for the exporter, after its second drain; *)
(* for links, which have none, after the look before it read the flag.     *)
StrandedOnlyInGap ==
  \A l \in Lanes : (pid = "own" /\ ~Alive(l)
                      /\ \A c \in Callers : caller[c].pc \notin {"requeue", "rethread"}) =>
    Queued(l) \subseteq unseen[l]

(* A forked child exports nothing of what its parent had queued, which the *)
(* parent will export itself.                                              *)
InheritedStaysBehind ==
  arrived["records"] \cap theirs = {}
=============================================================================
