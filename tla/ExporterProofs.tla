---------------------------- MODULE ExporterProofs ----------------------------
(***************************************************************************)
(* The exporter's lanes, for every value of the constants: records are     *)
(* accounted for whatever threads find the client in a forked child; order *)
(* and flush() when only one of them does.                                 *)
(***************************************************************************)
EXTENDS SdkExporter, FiniteSetTheorems, TLAPS

(* What is still to be appended has its place; only emits append.          *)
RoomInv ==
  /\ \A l \in Lanes :
       made[l] + Cardinality({c \in Callers : Emitting(c, l)}) <= MaxMade[l]
  /\ \A c \in Callers :
       /\ caller[c].pc = "append" => ~caller[c].flush
       /\ caller[c].pc = "count" => caller[c].lane = "records"

TypeInv == TypeOK /\ RoomInv

Rising(s) == \A i, j \in DOMAIN s : i < j => s[i] < s[j]

Sending(l, w) == worker[l][w].pc = "send"

(* Queue and batches are in order of arrival, and no record is in two      *)
(* places, or in none, before it has met its end.                          *)
PlaceInv(l) ==
  /\ Rising(queue[l])
  /\ \A w \in Workers :
       Sending(l, w) => worker[l][w].batch # <<>> /\ Rising(worker[l][w].batch)
  /\ \A v, w \in Workers :
       Sending(l, v) /\ Sending(l, w) /\ v # w => BatchOf(l, v) \cap BatchOf(l, w) = {}
  /\ Queued(l) \cup Held(l) \cup Gone(l) = 1..made[l]
  /\ Queued(l) \cap Held(l) = {} /\ (Queued(l) \cup Held(l)) \cap Gone(l) = {}

CountInv(l) ==
  /\ stats[l].sent = Fated(l, "sent") /\ stats[l].dropped = Fated(l, "dropped")
  /\ stats[l].failed <= Fated(l, "failed")
  /\ Fated(l, "failed") <= stats[l].failed * Limit(l)

Counting == {c \in Callers : caller[c].pc = "count"}
EnqueuedInv == made["records"] = stats["records"].enqueued + Cardinality(Counting)

AccountInv == EnqueuedInv /\ \A l \in Lanes : PlaceInv(l) /\ CountInv(l)

(* While a child has not rebuilt its client nothing else moves.            *)
Replacing == {c \in Callers : caller[c].pc \in {"adopt", "requeue", "rethread"}}
Inheriting == pid = "parent" \/ \E c \in Callers : caller[c].pc = "requeue"
Unforked == pid = "parent" \/ \E c \in Callers : caller[c].pc \in {"requeue", "rethread"}

ForkInv ==
  /\ \A c, d \in Replacing : c = d
  /\ \A c \in Callers :
       /\ caller[c].pc = "adopt" => pid = "parent"
       /\ caller[c].pc \in {"requeue", "rethread"} => pid = "own"
       /\ caller[c].pc = "rethread" => \A l \in Lanes : queue[l] = <<>>
  /\ Unforked =>
       /\ \A c \in Callers \ Replacing : caller[c].pc = "idle"
       /\ \A l \in Lanes, w \in Workers : worker[l][w].pc = "dead"
       /\ \A l \in Lanes : inflight[l] = 0 /\ arrived[l] = {}
  /\ Inheriting => theirs \subseteq Queued("records")
  /\ ~Inheriting => \A i \in theirs : fate["records"][i] = "left"

(* One thread per lane, and "in flight" says whether it has a batch.       *)
ThreadInv(l) ==
  /\ \A w \in Workers : worker[l][w].pc # "dead" => thread[l] = w
  /\ \A w \in Workers : worker[l][w].pc \in {"send", "ack"} => inflight[l] = 1
  /\ (\A w \in Workers : worker[l][w].pc \notin {"send", "ack"}) => inflight[l] = 0

(* What is in flight is older than what waits.                             *)
OrderInv(l) ==
  /\ \A i \in Held(l), j \in Queued(l) : i < j
  /\ \A i \in arrived[l] :
       /\ i \in 1..made[l]
       /\ \A j \in 1..(i - 1) : j \notin Queued(l) /\ (j \in Held(l) => j \in arrived[l])

(* What a link worker about to read the flag leaves was appended since it  *)
(* looked.                                                                 *)
Checking(l) == \E w \in Workers : worker[l][w].pc = "check"

GapInv(l) ==
  /\ l = "links" /\ Checking(l) => Queued(l) \subseteq unseen[l]
  /\ ~Alive(l) /\ ~Unforked => Queued(l) \subseteq unseen[l]

MarkInv(c) ==
  /\ \A l \in Lanes : caller[c].mark[l] <= made[l]
  /\ caller[c].pc \in {"idle2", "flushed"} => 1..caller[c].mark["records"] \subseteq Gone("records")
  /\ caller[c].pc = "flushed" => 1..caller[c].mark["links"] \subseteq Gone("links")

LaneInv ==
  /\ ForkInv
  /\ \A l \in Lanes : ThreadInv(l) /\ OrderInv(l) /\ GapInv(l)
  /\ \A c \in Callers : MarkInv(c)
-----------------------------------------------------------------------------
(* Steps of one caller, and of one background thread.                      *)

CallerPcs == {"idle", "adopt", "requeue", "rethread", "look", "create", "append", "count",
              "idle1", "idle2", "flushed"}

(* Caller c alone goes to step s, or thread w of lane l alone does.        *)
CallerMoves(c, s) ==
  caller' \in [Callers -> CallerStep] /\ caller'[c] = s
  /\ \A d \in Callers : d # c => caller'[d] = caller[d]

WorkerMoves(l, w, s) ==
  worker' \in [Lanes -> [Workers -> WorkerStep]] /\ worker'[l][w] = s
  /\ \A k \in Lanes, v \in Workers : <<k, v>> # <<l, w>> => worker'[k][v] = worker[k][v]

LEMMA ConstantFacts ==
  /\ IsFiniteSet(Ids) /\ Ids \subseteq Nat \ {0}
  /\ \A l \in Lanes : Limit(l) \in Nat \ {0} /\ MaxMade[l] \in Nat /\ 1..MaxMade[l] \subseteq Ids
  /\ IsFiniteSet(Callers)
  /\ Idle \in CallerStep /\ Dead \in WorkerStep /\ Len(Dead.batch) = 0
<1>1. MaxMade["records"] \in Nat /\ MaxMade["links"] \in Nat
  BY SdkAssumption DEF Lanes
<1>2. IsFiniteSet(Ids) /\ Ids \subseteq Nat \ {0}
  <2> DEFINE n == MaxMade["records"] + MaxMade["links"]
  <2>1. n \in Nat /\ Ids = 1..n
    BY <1>1 DEF Ids
  <2> HIDE DEF n
  <2> QED
    BY <2>1, FS_Interval
<1>3. \A l \in Lanes : Limit(l) \in Nat \ {0} /\ MaxMade[l] \in Nat /\ 1..MaxMade[l] \subseteq Ids
  BY <1>1, SdkAssumption DEF Ids, Limit, Lanes
<1>4. Idle \in CallerStep
  BY DEF Idle, CallerStep, Lanes
<1>5. Dead \in WorkerStep /\ Len(Dead.batch) = 0
  <2>1. <<>> \in Seq(Ids) /\ Len(<<>>) = 0 /\ 1 \in 1..Attempts
    BY SdkAssumption
  <2> QED
    BY <2>1 DEF Dead, WorkerStep
<1> QED
  BY <1>2, <1>3, <1>4, <1>5, SdkAssumption

LEMMA CallerMovesOn ==
  ASSUME TypeOK, NEW c \in Callers, NEW s \in CallerStep,
         caller' = [caller EXCEPT ![c] = s]
  PROVE  CallerMoves(c, s)
BY DEF CallerMoves, TypeOK

LEMMA GotoMoves ==
  ASSUME TypeOK, NEW c \in Callers, NEW pc \in CallerPcs, Goto(c, pc)
  PROVE  \E s \in CallerStep :
           /\ CallerMoves(c, s) /\ s.pc = pc
           /\ IF pc = "idle" THEN s = Idle
              ELSE s.lane = caller[c].lane /\ s.flush = caller[c].flush /\ s.mark = caller[c].mark
<1> DEFINE s == IF pc = "idle" THEN Idle ELSE [caller[c] EXCEPT !.pc = pc]
<1>1. caller[c] \in CallerStep
  BY DEF TypeOK
<1>2. /\ s \in CallerStep /\ s.pc = pc
      /\ IF pc = "idle" THEN s = Idle
         ELSE s.lane = caller[c].lane /\ s.flush = caller[c].flush /\ s.mark = caller[c].mark
  <2>1. CASE pc = "idle"
    BY <2>1, ConstantFacts DEF Idle
  <2>2. CASE pc # "idle"
    BY <1>1, <2>2 DEF CallerStep, CallerPcs
  <2> QED
    BY <2>1, <2>2
<1>3. caller' = [caller EXCEPT ![c] = s]
  BY DEF Goto
<1> HIDE DEF s
<1> QED
  BY <1>2, <1>3, CallerMovesOn

LEMMA WorkerMovesOn ==
  ASSUME TypeOK, NEW l \in Lanes, NEW w \in Workers, NEW s \in WorkerStep,
         worker' = [worker EXCEPT ![l][w] = s]
  PROVE  WorkerMoves(l, w, s)
BY DEF WorkerMoves, TypeOK

(* A step of caller c that appends nothing keeps the places reserved, as   *)
(* long as it does not start to emit.                                      *)
LEMMA RoomKept ==
  ASSUME TypeInv, made' = made, NEW c \in Callers, NEW s \in CallerStep, CallerMoves(c, s),
         s.pc \in {"adopt", "requeue", "rethread", "look", "create", "append"} /\ ~s.flush
           => Emitting(c, s.lane),
         s.pc = "append" => ~s.flush, s.pc = "count" => s.lane = "records"
  PROVE  RoomInv'
<1>1. \A d \in Callers : /\ caller'[d].pc = "append" => ~caller'[d].flush
                         /\ caller'[d].pc = "count" => caller'[d].lane = "records"
  BY DEF CallerMoves, TypeInv, RoomInv
<1>2. ASSUME NEW l \in Lanes
      PROVE  made'[l] + Cardinality({d \in Callers : Emitting(d, l)'}) <= MaxMade[l]
  <2> DEFINE old == {d \in Callers : Emitting(d, l)}
             new == {d \in Callers : Emitting(d, l)'}
  <2>1. \A d \in Callers : Emitting(d, l)' => Emitting(d, l)
    BY DEF CallerMoves, Emitting
  <2>2. new \subseteq old
    BY <2>1
  <2>3. IsFiniteSet(old)
    BY ConstantFacts, FS_Subset
  <2>4. made[l] + Cardinality(old) <= MaxMade[l]
    BY DEF TypeInv, RoomInv
  <2> HIDE DEF old, new
  <2>5. IsFiniteSet(new) /\ Cardinality(new) <= Cardinality(old)
    BY <2>2, <2>3, FS_Subset
  <2>6. Cardinality(old) \in Nat /\ Cardinality(new) \in Nat /\ made[l] \in Nat /\ MaxMade[l] \in Nat
    BY <2>3, <2>5, FS_CardinalityType, ConstantFacts DEF TypeInv, TypeOK
  <2>7. made'[l] + Cardinality(new) <= MaxMade[l]
    BY <2>4, <2>5, <2>6
  <2> QED
    BY <2>7 DEF new
<1> QED
  BY <1>1, <1>2 DEF RoomInv

LEMMA RoomUntouched ==
  ASSUME TypeInv, UNCHANGED <<made, caller>>
  PROVE  RoomInv'
BY DEF TypeInv, RoomInv, Emitting

(* The steps of a caller that go on without appending.                     *)
LEMMA GotoRoom ==
  ASSUME TypeInv, made' = made, NEW c \in Callers, NEW pc \in CallerPcs, Goto(c, pc),
         pc \in {"adopt", "requeue", "rethread", "look", "create", "append"}
           => caller[c].pc \in {"adopt", "requeue", "rethread", "look", "create"},
         pc = "append" => ~caller[c].flush, pc # "count"
  PROVE  RoomInv' /\ caller' \in [Callers -> CallerStep]
<1>1. TypeOK
  BY DEF TypeInv
<1>2. PICK s \in CallerStep :
        /\ CallerMoves(c, s) /\ s.pc = pc
        /\ IF pc = "idle" THEN s = Idle
           ELSE s.lane = caller[c].lane /\ s.flush = caller[c].flush /\ s.mark = caller[c].mark
  BY <1>1, GotoMoves
<1>3. s.pc \in {"adopt", "requeue", "rethread", "look", "create", "append"} /\ ~s.flush
        => Emitting(c, s.lane)
  BY <1>2 DEF Emitting
<1> QED
  BY <1>2, <1>3, RoomKept DEF CallerMoves

LEMMA EnterType ==
  ASSUME TypeInv, NEW c \in Callers, NEW lane \in Lanes, NEW flush \in BOOLEAN,
         Enter(c, lane, flush), flushes' \in Nat,
         ~flush => made[lane] + Cardinality({d \in Callers : Emitting(d, lane)}) < MaxMade[lane]
  PROVE  TypeInv'
<1> DEFINE s == [pc |-> IF pid = "parent" THEN "adopt"
                       ELSE IF Alive(lane) THEN After(flush) ELSE "create",
                 lane |-> lane, flush |-> flush, mark |-> IF flush THEN made ELSE Idle.mark]
<1>1. TypeOK /\ caller[c].pc = "idle"
  BY DEF TypeInv, Enter
<1>2. s \in CallerStep /\ s.lane = lane /\ s.flush = flush /\ s.pc # "count"
      /\ (s.pc = "append" => ~s.flush)
  BY <1>1 DEF CallerStep, After, TypeOK, Idle
<1>3. caller' = [caller EXCEPT ![c] = s]
  BY DEF Enter
<1> HIDE DEF s
<1>4. CallerMoves(c, s)
  BY <1>1, <1>2, <1>3, CallerMovesOn
<1>5. TypeOK'
  <2>1. UNCHANGED <<pid, stop, queue, inflight, thread, worker, stats, made, fate, arrived, unseen, theirs>>
    BY DEF Enter, history
  <2> QED
    BY <1>1, <1>4, <2>1 DEF TypeOK, CallerMoves
<1>6. made' = made
  BY DEF Enter, history
<1>7. CASE flush
  BY <1>2, <1>4, <1>6, <1>7, RoomKept, <1>5 DEF TypeInv
<1>8. CASE ~flush
  <2>1. \A d \in Callers : /\ caller'[d].pc = "append" => ~caller'[d].flush
                           /\ caller'[d].pc = "count" => caller'[d].lane = "records"
    BY <1>2, <1>4 DEF CallerMoves, TypeInv, RoomInv
  <2>2. ASSUME NEW l \in Lanes
        PROVE  made'[l] + Cardinality({d \in Callers : Emitting(d, l)'}) <= MaxMade[l]
    <3> DEFINE old == {d \in Callers : Emitting(d, l)}
               new == {d \in Callers : Emitting(d, l)'}
    <3>1. \A d \in Callers : d # c => (Emitting(d, l)' <=> Emitting(d, l))
      BY <1>4 DEF CallerMoves, Emitting
    <3>2. l # lane => ~Emitting(c, l)'
      BY <1>2, <1>4 DEF CallerMoves, Emitting
    <3>3. new \subseteq (IF l = lane THEN old \cup {c} ELSE old)
      BY <3>1, <3>2
    <3>4. IsFiniteSet(old)
      BY ConstantFacts, FS_Subset
    <3>5. made[l] + Cardinality(old) <= MaxMade[l]
          /\ (l = lane => made[l] + Cardinality(old) < MaxMade[l])
      BY <1>8 DEF TypeInv, RoomInv
    <3> HIDE DEF old, new
    <3> DEFINE most == IF l = lane THEN old \cup {c} ELSE old
    <3>6. IsFiniteSet(most) /\ Cardinality(old) \in Nat
          /\ Cardinality(most) <= (IF l = lane THEN Cardinality(old) + 1 ELSE Cardinality(old))
      BY <3>4, FS_AddElement, FS_CardinalityType
    <3>7. new \subseteq most
      BY <3>3
    <3> HIDE DEF most
    <3>8. Cardinality(new) <= Cardinality(most) /\ Cardinality(new) \in Nat /\ Cardinality(most) \in Nat
      BY <3>6, <3>7, FS_Subset, FS_CardinalityType
    <3>9. made[l] \in Nat /\ MaxMade[l] \in Nat
      BY <1>1, ConstantFacts DEF TypeOK
    <3>10. made'[l] + Cardinality(new) <= MaxMade[l]
      BY <1>6, <3>5, <3>6, <3>8, <3>9
    <3> QED
      BY <3>10 DEF new
  <2> QED
    BY <1>5, <2>1, <2>2 DEF TypeInv, RoomInv
<1> QED
  BY <1>7, <1>8

LEMMA WaitsType ==
  ASSUME TypeInv, NEW c \in Callers,
         \/ Adopt(c) \/ Rethread(c) \/ Look(c) \/ FlushFirst(c) \/ FlushSecond(c) \/ FlushReturn(c)
  PROVE  TypeInv'
<1>1. TypeOK
  BY DEF TypeInv
<1>2. RoomInv' /\ caller' \in [Callers -> CallerStep]
  <2>1. CASE Adopt(c)
    BY <2>1, GotoRoom DEF Adopt, history, CallerPcs
  <2>2. CASE Rethread(c)
    BY <2>2, GotoRoom DEF Rethread, history, CallerPcs
  <2>3. CASE Look(c)
    <3> DEFINE pc == IF Alive(caller[c].lane) THEN After(caller[c].flush) ELSE "create"
    <3>1. pc \in {"append", "idle1", "create"} /\ (pc = "append" => ~caller[c].flush)
      BY DEF After
    <3>2. Goto(c, pc) /\ caller[c].pc = "look" /\ made' = made
      BY <2>3 DEF Look, history
    <3> HIDE DEF pc
    <3> QED
      BY <3>1, <3>2, GotoRoom DEF CallerPcs
  <2>4. CASE FlushFirst(c)
    BY <2>4, GotoRoom DEF FlushFirst, history, CallerPcs
  <2>5. CASE FlushSecond(c)
    <3> DEFINE pc == IF Quiet("links") THEN "flushed" ELSE "idle1"
    <3>1. pc \in {"flushed", "idle1"}
      OBVIOUS
    <3>2. Goto(c, pc) /\ made' = made
      BY <2>5 DEF FlushSecond, history
    <3> HIDE DEF pc
    <3> QED
      BY <3>1, <3>2, GotoRoom DEF CallerPcs
  <2>6. CASE FlushReturn(c)
    BY <2>6, GotoRoom DEF FlushReturn, history, CallerPcs
  <2> QED
    BY <2>1, <2>2, <2>3, <2>4, <2>5, <2>6
<1>3. /\ UNCHANGED <<queue, inflight, worker, stats, made, fate, arrived, unseen, theirs, flushes>>
      /\ pid' \in {"own", pid} /\ stop' \in {FALSE, stop}
      /\ thread' \in {thread, [l \in Lanes |-> None]}
  <2>1. CASE Adopt(c)
    BY <2>1 DEF Adopt, history
  <2>2. CASE Rethread(c)
    BY <2>2 DEF Rethread, history
  <2>3. CASE Look(c)
    BY <2>3 DEF Look, history
  <2>4. CASE FlushFirst(c)
    BY <2>4 DEF FlushFirst, history
  <2>5. CASE FlushSecond(c)
    BY <2>5 DEF FlushSecond, history
  <2>6. CASE FlushReturn(c)
    BY <2>6 DEF FlushReturn, history
  <2> QED
    BY <2>1, <2>2, <2>3, <2>4, <2>5, <2>6
<1>4. TypeOK'
  BY <1>1, <1>2, <1>3 DEF TypeOK
<1> QED
  BY <1>2, <1>4 DEF TypeInv

LEMMA RequeueType ==
  ASSUME TypeInv, NEW c \in Callers, Requeue(c)
  PROVE  TypeInv'
<1>1. TypeOK
  BY DEF TypeInv
<1>2. RoomInv' /\ caller' \in [Callers -> CallerStep]
  BY GotoRoom DEF Requeue, CallerPcs
<1>3. fate' \in [Lanes -> [Ids -> {"no", "dropped", "sent", "failed", "left"}]]
  <2>1. \A l \in Lanes, i \in Ids : fate[l][i] \in {"no", "dropped", "sent", "failed", "left"}
    BY <1>1 DEF TypeOK
  <2> QED
    BY <2>1 DEF Requeue
<1>4. queue' \in [Lanes -> Seq(Ids)] /\ \A l \in Lanes : Len(queue'[l]) <= QueueMax
  <2>1. queue' = [k \in Lanes |-> <<>>] /\ \A l \in Lanes : queue'[l] = <<>>
    BY DEF Requeue, NewQueues
  <2>2. <<>> \in Seq(Ids) /\ Len(<<>>) = 0 /\ 0 <= QueueMax
    BY SdkAssumption
  <2>3. queue' \in [Lanes -> Seq(Ids)]
    BY <2>1, <2>2
  <2> QED
    BY <2>1, <2>2, <2>3
<1>5. inflight' \in [Lanes -> Int]
  BY DEF Requeue
<1>6. UNCHANGED <<pid, stop, thread, worker, stats, made, arrived, unseen, theirs, flushes>>
  BY DEF Requeue
<1> QED
  BY <1>1, <1>2, <1>3, <1>4, <1>5, <1>6 DEF TypeInv, TypeOK

ThreadsTyped ==
  /\ worker \in [Lanes -> [Workers -> WorkerStep]] /\ thread \in [Lanes -> Workers \cup {None}]
  /\ \A l \in Lanes, w \in Workers : Len(worker[l][w].batch) <= Limit(l)

LEMMA CreateType ==
  ASSUME TypeInv, NEW c \in Callers, Create(c)
  PROVE  TypeInv'
<1>1. TypeOK
  BY DEF TypeInv
<1> DEFINE pc == After(caller[c].flush)
<1>2. RoomInv' /\ caller' \in [Callers -> CallerStep]
  <2>1. pc \in {"append", "idle1"} /\ (pc = "append" => ~caller[c].flush)
    BY DEF After
  <2>2. Goto(c, pc) /\ caller[c].pc = "create" /\ made' = made
    BY DEF Create, history
  <2> HIDE DEF pc
  <2> QED
    BY <2>1, <2>2, GotoRoom DEF CallerPcs
<1> DEFINE lane == caller[c].lane
           s == [Dead EXCEPT !.pc = "drain"]
<1>3. lane \in Lanes /\ s \in WorkerStep /\ Len(s.batch) = 0
  BY <1>1, ConstantFacts DEF TypeOK, CallerStep, WorkerStep
<1>4. \/ UNCHANGED <<thread, worker>>
      \/ \E w \in Workers : /\ thread' = [thread EXCEPT ![lane] = w]
                            /\ worker' = [worker EXCEPT ![lane][w] = s]
  BY DEF Create
<1> HIDE DEF lane, s, pc
<1>5. ThreadsTyped'
  <2>1. CASE UNCHANGED <<thread, worker>>
    BY <1>1, <2>1 DEF TypeOK, ThreadsTyped
  <2>2. ASSUME NEW w \in Workers, thread' = [thread EXCEPT ![lane] = w],
               worker' = [worker EXCEPT ![lane][w] = s]
        PROVE  ThreadsTyped'
    <3>1. WorkerMoves(lane, w, s)
      BY <1>1, <1>3, <2>2, WorkerMovesOn
    <3>2. thread' \in [Lanes -> Workers \cup {None}]
      BY <1>1, <2>2 DEF TypeOK
    <3>3. ASSUME NEW l \in Lanes, NEW v \in Workers PROVE Len(worker'[l][v].batch) <= Limit(l)
      <4>1. CASE <<l, v>> = <<lane, w>>
        BY <1>3, <3>1, <4>1, ConstantFacts DEF WorkerMoves
      <4>2. CASE <<l, v>> # <<lane, w>>
        BY <1>1, <3>1, <4>2 DEF WorkerMoves, TypeOK
      <4> QED
        BY <4>1, <4>2
    <3> QED
      BY <3>1, <3>2, <3>3 DEF WorkerMoves, ThreadsTyped
  <2> QED
    BY <1>4, <2>1, <2>2
<1>6. UNCHANGED <<pid, stop, queue, inflight, stats, made, fate, arrived, unseen, theirs, flushes>>
  BY DEF Create, history
<1> QED
  BY <1>1, <1>2, <1>5, <1>6 DEF TypeInv, TypeOK, ThreadsTyped

(* Appending puts the next record at the end, in place of the oldest when  *)
(* the queue is full.                                                      *)
LEMMA PushDoes ==
  ASSUME TypeInv, NEW c \in Callers, Push(c)
  PROVE  LET lane == caller[c].lane
             id == made[lane] + 1
             q == queue[lane]
         IN /\ lane \in Lanes /\ id \in Ids /\ made[lane] \in Nat /\ id <= MaxMade[lane]
            /\ made' = [made EXCEPT ![lane] = id] /\ Emitting(c, lane)
            /\ q \in Seq(Ids) /\ (Full(lane) => Len(q) > 0)
            /\ queue' = [queue EXCEPT ![lane] = Append(IF Full(lane) THEN Tail(q) ELSE q, id)]
            /\ Len(queue'[lane]) <= QueueMax /\ queue'[lane] \in Seq(Ids)
<1> DEFINE lane == caller[c].lane
           id == made[lane] + 1
           q == queue[lane]
           rest == IF Full(lane) THEN Tail(q) ELSE q
<1>1. lane \in Lanes /\ made[lane] \in Nat /\ q \in Seq(Ids) /\ Len(q) <= QueueMax
      /\ queue \in [Lanes -> Seq(Ids)]
  BY DEF TypeInv, TypeOK, CallerStep
<1>2. Emitting(c, lane) /\ made' = [made EXCEPT ![lane] = id]
  BY DEF Push, Emitting, TypeInv, RoomInv
<1>3. id <= MaxMade[lane]
  <2> DEFINE S == {d \in Callers : Emitting(d, lane)}
  <2>1. IsFiniteSet(S) /\ c \in S
    BY <1>2, ConstantFacts, FS_Subset
  <2>2. made[lane] + Cardinality(S) <= MaxMade[lane]
    BY <1>1 DEF TypeInv, RoomInv
  <2> HIDE DEF S
  <2>3. Cardinality(S) \in Nat /\ Cardinality(S) # 0
    BY <2>1, FS_CardinalityType, FS_EmptySet
  <2>4. MaxMade[lane] \in Nat
    BY <1>1, ConstantFacts
  <2> QED
    BY <1>1, <2>2, <2>3, <2>4
<1>4. id \in Ids
  <2>1. id \in 1..MaxMade[lane] /\ 1..MaxMade[lane] \subseteq Ids
    BY <1>1, <1>3, ConstantFacts
  <2> QED
    BY <2>1
<1>5. queue' = [queue EXCEPT ![lane] = Append(rest, id)]
  BY <1>1 DEF Push, OldestOut
<1>6. Full(lane) => Len(q) > 0
  BY <1>1, SdkAssumption DEF Full
<1>7. rest \in Seq(Ids) /\ Len(rest) < QueueMax
  <2>1. CASE Full(lane)
    <3>1. Tail(q) \in Seq(Ids) /\ Len(Tail(q)) = Len(q) - 1
      BY <1>1, <1>6, <2>1
    <3> QED
      BY <1>1, <2>1, <3>1, SdkAssumption
  <2>2. CASE ~Full(lane)
    BY <1>1, <2>2, SdkAssumption DEF Full
  <2> QED
    BY <2>1, <2>2
<1> HIDE DEF rest, id
<1>8. Append(rest, id) \in Seq(Ids) /\ Len(Append(rest, id)) = Len(rest) + 1 /\ Len(rest) \in Nat
  BY <1>4, <1>7
<1>9. queue'[lane] = Append(rest, id)
  BY <1>1, <1>5
<1>10. queue'[lane] \in Seq(Ids) /\ Len(queue'[lane]) <= QueueMax
  BY <1>7, <1>8, <1>9, SdkAssumption
<1> QED
  BY <1>1, <1>2, <1>3, <1>4, <1>5, <1>6, <1>10 DEF rest, id

LEMMA PushType ==
  ASSUME TypeInv, NEW c \in Callers, Push(c)
  PROVE  TypeInv'
<1> DEFINE lane == caller[c].lane
           id == made[lane] + 1
           q == queue[lane]
           pc == IF lane = "records" THEN "count" ELSE "idle"
<1>1. TypeOK
  BY DEF TypeInv
<1>2. /\ lane \in Lanes /\ id \in Ids /\ made[lane] \in Nat /\ id <= MaxMade[lane]
      /\ made' = [made EXCEPT ![lane] = id] /\ Emitting(c, lane)
      /\ q \in Seq(Ids) /\ (Full(lane) => Len(q) > 0)
      /\ queue' = [queue EXCEPT ![lane] = Append(IF Full(lane) THEN Tail(q) ELSE q, id)]
      /\ Len(queue'[lane]) <= QueueMax /\ queue'[lane] \in Seq(Ids)
  BY PushDoes
<1>3. queue' \in [Lanes -> Seq(Ids)] /\ \A l \in Lanes : Len(queue'[l]) <= QueueMax
  <2>1. \A l \in Lanes : l # lane => queue'[l] = queue[l]
    BY <1>1, <1>2 DEF TypeOK
  <2>2. DOMAIN queue' = Lanes /\ queue' = [l \in Lanes |-> queue'[l]]
    <3>1. queue \in [Lanes -> Seq(Ids)] /\ lane \in Lanes
      BY <1>1, <1>2 DEF TypeOK
    <3> DEFINE both == Append(IF Full(lane) THEN Tail(q) ELSE q, id)
    <3>2. queue' = [queue EXCEPT ![lane] = both]
      BY <1>2
    <3> HIDE DEF both, lane
    <3> QED
      BY <3>1, <3>2
  <2>3. \A l \in Lanes : queue'[l] \in Seq(Ids) /\ Len(queue'[l]) <= QueueMax
    BY <1>1, <1>2, <2>1 DEF TypeOK
  <2> QED
    BY <2>2, <2>3
<1>4. made' \in [Lanes -> Nat]
  BY <1>1, <1>2 DEF TypeOK
<1>5. stats' \in [Lanes -> [enqueued : Nat, dropped : Nat, sent : Nat, failed : Nat]]
  <2>1. CASE Full(lane)
    <3> DEFINE new == [stats[lane] EXCEPT !.dropped = @ + 1]
    <3>1. new \in [enqueued : Nat, dropped : Nat, sent : Nat, failed : Nat]
      <4> DEFINE old == stats[lane]
      <4>1. old \in [enqueued : Nat, dropped : Nat, sent : Nat, failed : Nat]
        BY <1>1, <1>2 DEF TypeOK
      <4>2. old.dropped + 1 \in Nat
        BY <4>1
      <4> HIDE DEF old
      <4>3. [old EXCEPT !.dropped = @ + 1] \in [enqueued : Nat, dropped : Nat, sent : Nat, failed : Nat]
        BY <4>1, <4>2
      <4> QED
        BY <4>3 DEF old
    <3>2. stats' = [stats EXCEPT ![lane] = new]
      BY <2>1 DEF Push
    <3> HIDE DEF new
    <3> QED
      BY <1>1, <3>1, <3>2 DEF TypeOK
  <2>2. CASE ~Full(lane)
    BY <1>1, <2>2 DEF Push, TypeOK
  <2> QED
    BY <2>1, <2>2
<1>6. fate' \in [Lanes -> [Ids -> {"no", "dropped", "sent", "failed", "left"}]]
  <2>1. CASE Full(lane)
    <3>1. fate' = [fate EXCEPT ![lane][Head(q)] = "dropped"]
      BY <2>1 DEF Push, OldestOut
    <3>2. fate \in [Lanes -> [Ids -> {"no", "dropped", "sent", "failed", "left"}]]
      BY <1>1 DEF TypeOK
    <3> DEFINE out == Head(q)
    <3> HIDE DEF out
    <3> QED
      BY <3>1, <3>2 DEF out
  <2>2. CASE ~Full(lane)
    BY <1>1, <2>2 DEF Push, TypeOK
  <2> QED
    BY <2>1, <2>2
<1>7. unseen' \in [Lanes -> SUBSET Ids]
  <2>1. unseen' \in {unseen, [unseen EXCEPT ![lane] = @ \cup {id}]}
    BY DEF Push
  <2>2. unseen \in [Lanes -> SUBSET Ids] /\ lane \in Lanes /\ id \in Ids
    BY <1>1, <1>2 DEF TypeOK
  <2> HIDE DEF lane, id
  <2> QED
    BY <2>1, <2>2
<1>8. PICK s \in CallerStep :
        /\ CallerMoves(c, s) /\ s.pc = pc
        /\ IF pc = "idle" THEN s = Idle
           ELSE s.lane = caller[c].lane /\ s.flush = caller[c].flush /\ s.mark = caller[c].mark
  <2>1. pc \in CallerPcs /\ Goto(c, pc)
    BY DEF Push, CallerPcs
  <2> HIDE DEF pc
  <2> QED
    BY <1>1, <2>1, GotoMoves
<1>9. UNCHANGED <<pid, stop, inflight, thread, worker, arrived, theirs, flushes>>
  BY DEF Push
<1>10. TypeOK'
  BY <1>1, <1>3, <1>4, <1>5, <1>6, <1>7, <1>8, <1>9 DEF TypeOK, CallerMoves
<1>11. RoomInv'
  <2>1. \A d \in Callers : /\ caller'[d].pc = "append" => ~caller'[d].flush
                           /\ caller'[d].pc = "count" => caller'[d].lane = "records"
    BY <1>8 DEF CallerMoves, TypeInv, RoomInv
  <2>2. ASSUME NEW l \in Lanes
        PROVE  made'[l] + Cardinality({d \in Callers : Emitting(d, l)'}) <= MaxMade[l]
    <3> DEFINE old == {d \in Callers : Emitting(d, l)}
               new == {d \in Callers : Emitting(d, l)'}
               kept == IF l = lane THEN old \ {c} ELSE old
    <3>1. new \subseteq kept
      <4>1. \A d \in Callers : d # c => (Emitting(d, l)' <=> Emitting(d, l))
        BY <1>8 DEF CallerMoves, Emitting
      <4>2. ~Emitting(c, l)'
        BY <1>8 DEF CallerMoves, Emitting, Idle
      <4> QED
        BY <4>1, <4>2
    <3>2. IsFiniteSet(old) /\ (l = lane => c \in old)
      BY <1>2, ConstantFacts, FS_Subset
    <3>3. made[l] + Cardinality(old) <= MaxMade[l]
      BY DEF TypeInv, RoomInv
    <3> HIDE DEF old, new
    <3>4. IsFiniteSet(kept) /\ Cardinality(old) \in Nat /\ Cardinality(kept) \in Nat
          /\ Cardinality(kept) = (IF l = lane THEN Cardinality(old) - 1 ELSE Cardinality(old))
      BY <3>2, FS_RemoveElement, FS_CardinalityType
    <3> HIDE DEF kept
    <3>5. Cardinality(new) <= Cardinality(kept) /\ Cardinality(new) \in Nat
      BY <3>1, <3>4, FS_Subset, FS_CardinalityType
    <3>6. made[l] \in Nat /\ MaxMade[l] \in Nat
          /\ made'[l] = (IF l = lane THEN made[l] + 1 ELSE made[l])
      BY <1>1, <1>2, ConstantFacts DEF TypeOK
    <3>7. made'[l] + Cardinality(new) <= MaxMade[l]
      BY <3>3, <3>4, <3>5, <3>6
    <3> QED
      BY <3>7 DEF new
  <2> QED
    BY <2>1, <2>2 DEF RoomInv
<1> QED
  BY <1>10, <1>11 DEF TypeInv

StatsType == [enqueued : Nat, dropped : Nat, sent : Nat, failed : Nat]

LEMMA CountType ==
  ASSUME TypeInv, NEW c \in Callers, Count(c)
  PROVE  /\ TypeInv' /\ CallerMoves(c, Idle)
         /\ stats'["links"] = stats["links"]
         /\ stats'["records"] = [stats["records"] EXCEPT !.enqueued = @ + 1]
<1>1. TypeOK
  BY DEF TypeInv
<1>2. CallerMoves(c, Idle)
  BY <1>1, GotoMoves DEF Count, CallerPcs
<1>3. RoomInv'
  BY <1>2, RoomKept, ConstantFacts DEF Count, history, Idle
<1> DEFINE old == stats["records"]
           new == [old EXCEPT !.enqueued = @ + 1]
<1>4. new \in StatsType
  <2>1. old \in StatsType /\ old.enqueued + 1 \in Nat
    BY <1>1 DEF TypeOK, Lanes, StatsType
  <2> HIDE DEF old
  <2> QED
    BY <2>1 DEF StatsType
<1>5. stats \in [Lanes -> StatsType] /\ stats' = [stats EXCEPT !["records"] = new]
  BY <1>1 DEF Count, TypeOK, StatsType
<1> HIDE DEF old, new
<1>6. /\ stats' \in [Lanes -> StatsType] /\ stats'["links"] = stats["links"]
      /\ stats'["records"] = new
  BY <1>4, <1>5 DEF Lanes
<1>7. UNCHANGED <<pid, stop, queue, inflight, thread, worker, made, fate, arrived, unseen, theirs, flushes>>
  BY DEF Count, history
<1>8. TypeOK'
  BY <1>1, <1>2, <1>6, <1>7 DEF TypeOK, CallerMoves, StatsType
<1> QED
  BY <1>2, <1>3, <1>6, <1>8 DEF TypeInv, old, new

LEMMA CloseType ==
  ASSUME TypeInv, Close
  PROVE  TypeInv'
<1>1. TypeOK'
  BY DEF TypeInv, TypeOK, Close, history
<1>2. RoomInv'
  BY RoomUntouched DEF Close, history
<1> QED
  BY <1>1, <1>2 DEF TypeInv

(* What the steps of a background thread do.                               *)
LEMMA TakeDoes ==
  ASSUME TypeOK, NEW l \in Lanes, NEW w \in Workers, Take(l, w)
  PROVE  \E n \in 1..Len(queue[l]), s \in WorkerStep :
           /\ n <= Limit(l) /\ WorkerMoves(l, w, s)
           /\ s.pc = "send" /\ s.batch = SubSeq(queue[l], 1, n)
           /\ worker[l][w].pc = "drain"
           /\ queue' = [queue EXCEPT ![l] = SubSeq(queue[l], n + 1, Len(queue[l]))]
           /\ inflight' = [inflight EXCEPT ![l] = @ + 1]
           /\ UNCHANGED <<pid, stop, thread, caller, stats, history, flushes>>
<1> DEFINE q == queue[l]
           n == IF Len(q) < Limit(l) THEN Len(q) ELSE Limit(l)
           b == SubSeq(q, 1, n)
           old == worker[l][w]
           s == [old EXCEPT !.pc = "send", !.batch = b, !.attempt = 1]
<1>1. q \in Seq(Ids) /\ q # <<>> /\ Limit(l) \in Nat \ {0} /\ old \in WorkerStep
  BY ConstantFacts DEF TypeOK, Take
<1>2. n \in 1..Len(q) /\ n <= Limit(l)
  BY <1>1
<1>3. worker' = [worker EXCEPT ![l][w] = s]
      /\ queue' = [queue EXCEPT ![l] = SubSeq(q, n + 1, Len(q))]
  BY DEF Take
<1> HIDE DEF n
<1>4. b \in Seq(Ids)
  BY <1>1, <1>2
<1>5. 1 \in 1..Attempts
  BY SdkAssumption
<1> HIDE DEF b, old
<1>6. s \in WorkerStep /\ s.pc = "send" /\ s.batch = b
  BY <1>1, <1>4, <1>5 DEF WorkerStep
<1> HIDE DEF s, q
<1>7. WorkerMoves(l, w, s)
  BY <1>3, <1>6, WorkerMovesOn
<1>8. /\ worker[l][w].pc = "drain" /\ inflight' = [inflight EXCEPT ![l] = @ + 1]
      /\ UNCHANGED <<pid, stop, thread, caller, stats, history, flushes>>
  BY DEF Take
<1> QED
  BY <1>2, <1>3, <1>6, <1>7, <1>8 DEF b, q

(* Both looks of a thread: it dies, drains or looks again, with no batch   *)
(* more than before.                                                       *)
LEMMA LooksDo ==
  ASSUME TypeOK, NEW l \in Lanes, NEW w \in Workers, Drained(l, w) \/ Check(l, w)
  PROVE  \E s \in WorkerStep :
           /\ WorkerMoves(l, w, s) /\ s.pc \in {"dead", "drain", "check"}
           /\ Len(s.batch) \in {0, Len(worker[l][w].batch)}
           /\ worker[l][w].pc \in {"drain", "check"}
           /\ s.pc = "dead" => queue[l] = <<>> \/ (l = "links" /\ worker[l][w].pc = "check")
           /\ s.pc = "check" => queue[l] = <<>>
           /\ UNCHANGED <<pid, stop, queue, inflight, thread, caller, stats, history, flushes>>
<1> DEFINE old == worker[l][w]
<1>1. old \in WorkerStep
  BY DEF TypeOK
<1>2. CASE Drained(l, w)
  <2> DEFINE s == IF old.last THEN Dead ELSE [old EXCEPT !.pc = "check"]
  <2>1. worker' = [worker EXCEPT ![l][w] = s] /\ queue[l] = <<>> /\ old.pc = "drain"
    BY <1>2 DEF Drained
  <2>2. s \in WorkerStep /\ s.pc \in {"dead", "check"} /\ Len(s.batch) \in {0, Len(old.batch)}
    <3>1. [old EXCEPT !.pc = "check"] \in WorkerStep
      BY <1>1 DEF WorkerStep
    <3>2. [old EXCEPT !.pc = "check"].batch = old.batch /\ [old EXCEPT !.pc = "check"].pc = "check"
      BY <1>1 DEF WorkerStep
    <3>3. Dead.pc = "dead"
      BY DEF Dead
    <3> HIDE DEF old
    <3> QED
      BY <3>1, <3>2, <3>3, ConstantFacts
  <2> HIDE DEF s
  <2>3. WorkerMoves(l, w, s)
    BY <2>1, <2>2, WorkerMovesOn
  <2>4. UNCHANGED <<pid, stop, queue, inflight, thread, caller, stats, history, flushes>>
    BY <1>2 DEF Drained
  <2> QED
    BY <2>1, <2>2, <2>3, <2>4
<1>3. CASE Check(l, w)
  <2> DEFINE more == [old EXCEPT !.pc = "drain", !.last = stop]
             s == IF stop /\ ~DrainsAgain(l) THEN Dead ELSE more
  <2>1. worker' = [worker EXCEPT ![l][w] = s] /\ old.pc = "check"
    BY <1>3 DEF Check
  <2>2. /\ s \in WorkerStep /\ s.pc \in {"dead", "drain"} /\ Len(s.batch) \in {0, Len(old.batch)}
        /\ s.pc = "dead" => l = "links"
    <3>1. more \in WorkerStep /\ more.batch = old.batch /\ more.pc = "drain"
      <4>1. stop \in BOOLEAN
        BY DEF TypeOK
      <4> HIDE DEF old
      <4> QED
        BY <1>1, <4>1 DEF WorkerStep
    <3>2. Dead.pc = "dead" /\ (~DrainsAgain(l) => l = "links")
      BY DEF Dead, DrainsAgain, Lanes
    <3> HIDE DEF old, more
    <3> QED
      BY <3>1, <3>2, ConstantFacts
  <2> HIDE DEF s
  <2>3. WorkerMoves(l, w, s)
    BY <2>1, <2>2, WorkerMovesOn
  <2>4. UNCHANGED <<pid, stop, queue, inflight, thread, caller, stats, history, flushes>>
    BY <1>3 DEF Check
  <2> QED
    BY <2>1, <2>2, <2>3, <2>4
<1> QED
  BY <1>2, <1>3

LEMMA AckDoes ==
  ASSUME TypeOK, NEW l \in Lanes, NEW w \in Workers, Ack(l, w)
  PROVE  \E s \in WorkerStep :
           /\ WorkerMoves(l, w, s) /\ s.pc = "drain" /\ Len(s.batch) = 0
           /\ worker[l][w].pc = "ack"
           /\ inflight' = [inflight EXCEPT ![l] = @ - 1]
           /\ UNCHANGED <<pid, stop, queue, thread, caller, stats, history, flushes>>
<1> DEFINE old == worker[l][w]
           s == [old EXCEPT !.pc = "drain", !.batch = <<>>, !.attempt = 1]
<1>1. old \in WorkerStep /\ 1 \in 1..Attempts /\ <<>> \in Seq(Ids) /\ Len(<<>>) = 0
  BY SdkAssumption DEF TypeOK
<1>2. worker' = [worker EXCEPT ![l][w] = s]
  BY DEF Ack
<1>3. s \in WorkerStep /\ s.pc = "drain" /\ Len(s.batch) = 0
  <2> HIDE DEF old
  <2> QED
    BY <1>1 DEF WorkerStep
<1> HIDE DEF s
<1>4. WorkerMoves(l, w, s)
  BY <1>2, <1>3, WorkerMovesOn
<1> QED
  BY <1>3, <1>4 DEF Ack

Settles(l, w, answer) ==
  /\ stats' = [stats EXCEPT ![l] = Answered(stats[l], answer, Len(worker[l][w].batch))]
  /\ fate' = [fate EXCEPT ![l] = [i \in Ids |-> IF i \in BatchOf(l, w) THEN answer ELSE fate[l][i]]]

LEMMA PostDoes ==
  ASSUME TypeOK, NEW l \in Lanes, NEW w \in Workers, Post(l, w)
  PROVE  \E answer \in {"sent", "failed"}, got \in BOOLEAN, s \in WorkerStep :
           /\ answer = "sent" => got
           /\ arrived' = IF got THEN [arrived EXCEPT ![l] = @ \cup BatchOf(l, w)] ELSE arrived
           /\ WorkerMoves(l, w, s) /\ worker[l][w].pc = "send" /\ s.batch = worker[l][w].batch
           /\ \/ s.pc = "send" /\ UNCHANGED <<stats, fate>>
              \/ s.pc = "ack" /\ Settles(l, w, answer)
           /\ UNCHANGED <<pid, stop, queue, inflight, thread, caller, made, unseen, theirs, flushes>>
<1> DEFINE old == worker[l][w]
           again == [old EXCEPT !.attempt = @ + 1]
           over == [old EXCEPT !.pc = "ack"]
<1>1. old \in WorkerStep /\ old.pc = "send"
      /\ UNCHANGED <<pid, stop, queue, inflight, thread, caller, made, unseen, theirs, flushes>>
  BY DEF TypeOK, Post
<1>2. PICK answer \in {"sent", "failed"}, got \in BOOLEAN :
        /\ answer = "sent" => got
        /\ arrived' = IF got THEN [arrived EXCEPT ![l] = @ \cup BatchOf(l, w)] ELSE arrived
        /\ IF answer = "failed" /\ old.attempt < Attempts
           THEN /\ worker' = [worker EXCEPT ![l][w] = again] /\ UNCHANGED <<stats, fate>>
           ELSE /\ worker' = [worker EXCEPT ![l][w] = over] /\ Settles(l, w, answer)
  <2>1. PICK answer \in {"sent", "failed"}, got \in BOOLEAN :
       /\ answer = "sent" => got
       /\ arrived' = IF got THEN [arrived EXCEPT ![l] = @ \cup BatchOf(l, w)] ELSE arrived
       /\ IF answer = "failed" /\ worker[l][w].attempt < Attempts
          THEN /\ worker' = [worker EXCEPT ![l][w].attempt = @ + 1]
               /\ UNCHANGED <<stats, fate>>
          ELSE /\ worker' = [worker EXCEPT ![l][w].pc = "ack"]
               /\ stats' = [stats EXCEPT ![l] = Answered(@, answer, Len(worker[l][w].batch))]
               /\ fate' = [fate EXCEPT ![l] = [i \in Ids |->
                             IF i \in BatchOf(l, w) THEN answer ELSE @[i]]]
    BY DEF Post, Become, Outcome
  <2>2. CASE answer = "failed" /\ old.attempt < Attempts
    BY <2>1, <2>2
  <2>3. CASE ~(answer = "failed" /\ old.attempt < Attempts)
    <3>1. worker' = [worker EXCEPT ![l][w] = over]
      BY <2>1, <2>3
    <3>2. stats' = [stats EXCEPT ![l] = Answered(stats[l], answer, Len(worker[l][w].batch))]
      BY <2>1, <2>3
    <3>3. fate' = [fate EXCEPT ![l] = [i \in Ids |-> IF i \in BatchOf(l, w) THEN answer ELSE fate[l][i]]]
      BY <2>1, <2>3
    <3> QED
      BY <2>1, <2>3, <3>1, <3>2, <3>3 DEF Settles
  <2> QED
    BY <2>2, <2>3
<1>3. over \in WorkerStep /\ over.pc = "ack" /\ over.batch = old.batch
  <2> HIDE DEF old
  <2> QED
    BY <1>1 DEF WorkerStep
<1>4. old.attempt < Attempts => again \in WorkerStep /\ again.pc = "send" /\ again.batch = old.batch
  <2>1. old.attempt < Attempts => old.attempt + 1 \in 1..Attempts
    BY <1>1, SdkAssumption DEF WorkerStep
  <2> HIDE DEF old
  <2> QED
    BY <1>1, <2>1 DEF WorkerStep
<1> HIDE DEF again, over
<1>5. CASE answer = "failed" /\ old.attempt < Attempts
  <2>1. WorkerMoves(l, w, again)
    BY <1>2, <1>4, <1>5, WorkerMovesOn
  <2> QED
    BY <1>1, <1>2, <1>4, <1>5, <2>1
<1>6. CASE ~(answer = "failed" /\ old.attempt < Attempts)
  <2>1. WorkerMoves(l, w, over)
    BY <1>2, <1>3, <1>6, WorkerMovesOn
  <2> QED
    BY <1>1, <1>2, <1>3, <1>6, <2>1
<1> QED
  BY <1>5, <1>6

LEMMA BatchLengths ==
  ASSUME TypeOK, NEW l \in Lanes, NEW w \in Workers, NEW s, WorkerMoves(l, w, s),
         Len(s.batch) <= Limit(l)
  PROVE  \A k \in Lanes, v \in Workers : Len(worker'[k][v].batch) <= Limit(k)
<1> SUFFICES ASSUME NEW k \in Lanes, NEW v \in Workers
             PROVE  Len(worker'[k][v].batch) <= Limit(k)
  OBVIOUS
<1>1. CASE <<k, v>> = <<l, w>>
  BY <1>1 DEF WorkerMoves
<1>2. CASE <<k, v>> # <<l, w>>
  BY <1>2 DEF WorkerMoves, TypeOK
<1> QED
  BY <1>1, <1>2

LEMMA WorkerType ==
  ASSUME TypeInv, NEW l \in Lanes, NEW w \in Workers, Worker(l, w)
  PROVE  TypeInv'
<1>1. TypeOK /\ Len(worker[l][w].batch) <= Limit(l) /\ 0 <= Limit(l)
  BY ConstantFacts DEF TypeInv, TypeOK
<1>2. CASE Take(l, w)
  <2> DEFINE q == queue[l]
  <2>1. PICK n \in 1..Len(q), s \in WorkerStep :
           /\ n <= Limit(l) /\ WorkerMoves(l, w, s)
           /\ s.pc = "send" /\ s.batch = SubSeq(q, 1, n)
           /\ queue' = [queue EXCEPT ![l] = SubSeq(q, n + 1, Len(q))]
           /\ inflight' = [inflight EXCEPT ![l] = @ + 1]
           /\ UNCHANGED <<pid, stop, thread, caller, stats, history, flushes>>
    BY <1>1, <1>2, TakeDoes
  <2> DEFINE rest == SubSeq(q, n + 1, Len(q))
  <2>2. q \in Seq(Ids) /\ Len(q) <= QueueMax /\ QueueMax \in Nat
    BY <1>1, SdkAssumption DEF TypeOK
  <2> HIDE DEF q
  <2>3. rest \in Seq(Ids) /\ Len(rest) = Len(q) - n
    BY <2>2
  <2>4. Len(SubSeq(q, 1, n)) = n
    BY <2>2
  <2>5. queue' = [queue EXCEPT ![l] = rest]
    BY <2>1
  <2>6. Len(rest) <= QueueMax
    BY <2>2, <2>3
  <2> HIDE DEF rest
  <2>7. queue' \in [Lanes -> Seq(Ids)] /\ \A k \in Lanes : Len(queue'[k]) <= QueueMax
    BY <1>1, <2>3, <2>5, <2>6 DEF TypeOK
  <2>8. \A k \in Lanes, v \in Workers : Len(worker'[k][v].batch) <= Limit(k)
    BY <1>1, <2>1, <2>4, BatchLengths
  <2>9. inflight' \in [Lanes -> Int] /\ UNCHANGED <<made, caller>>
    BY <1>1, <2>1 DEF TypeOK, history
  <2>10. RoomInv'
    BY <2>9, RoomUntouched
  <2>11. TypeOK'
    BY <1>1, <2>1, <2>7, <2>8, <2>9 DEF TypeOK, WorkerMoves, history
  <2> QED
    BY <2>10, <2>11 DEF TypeInv
<1>3. CASE Drained(l, w) \/ Check(l, w)
  <2>1. PICK s \in WorkerStep :
           /\ WorkerMoves(l, w, s) /\ Len(s.batch) \in {0, Len(worker[l][w].batch)}
           /\ UNCHANGED <<pid, stop, queue, inflight, thread, caller, stats, history, flushes>>
    BY <1>1, <1>3, LooksDo
  <2>2. \A k \in Lanes, v \in Workers : Len(worker'[k][v].batch) <= Limit(k)
    BY <1>1, <2>1, BatchLengths
  <2>3. RoomInv'
    BY <2>1, RoomUntouched DEF history
  <2>4. TypeOK'
    BY <1>1, <2>1, <2>2 DEF TypeOK, WorkerMoves, history
  <2> QED
    BY <2>3, <2>4 DEF TypeInv
<1>4. CASE Post(l, w)
  <2>1. PICK answer \in {"sent", "failed"}, got \in BOOLEAN, s \in WorkerStep :
           /\ arrived' = IF got THEN [arrived EXCEPT ![l] = @ \cup BatchOf(l, w)] ELSE arrived
           /\ WorkerMoves(l, w, s) /\ s.batch = worker[l][w].batch
           /\ UNCHANGED <<stats, fate>> \/ Settles(l, w, answer)
           /\ UNCHANGED <<pid, stop, queue, inflight, thread, caller, made, unseen, theirs, flushes>>
    BY <1>1, <1>4, PostDoes
  <2>2. \A k \in Lanes, v \in Workers : Len(worker'[k][v].batch) <= Limit(k)
    BY <1>1, <2>1, BatchLengths
  <2>3. RoomInv'
    BY <2>1, RoomUntouched
  <2>4. BatchOf(l, w) \subseteq Ids
    BY <1>1 DEF BatchOf, TypeOK, WorkerStep
  <2>5. arrived' \in [Lanes -> SUBSET Ids]
    BY <1>1, <2>1, <2>4 DEF TypeOK
  <2>6. CASE Settles(l, w, answer)
    <3> DEFINE new == Answered(stats[l], answer, Len(worker[l][w].batch))
               ends == [i \in Ids |-> IF i \in BatchOf(l, w) THEN answer ELSE fate[l][i]]
    <3>1. stats[l] \in StatsType /\ worker[l][w].batch \in Seq(Ids)
      BY <1>1 DEF TypeOK, StatsType, WorkerStep
    <3>2. \A old \in StatsType, n \in Nat : Answered(old, answer, n) \in StatsType
      BY <2>1 DEF Answered, StatsType
    <3>3. new \in StatsType
      BY <3>1, <3>2
    <3>4. ends \in [Ids -> {"no", "dropped", "sent", "failed", "left"}]
      BY <1>1, <2>1 DEF TypeOK
    <3>5. stats' = [stats EXCEPT ![l] = new] /\ fate' = [fate EXCEPT ![l] = ends]
      BY <2>6 DEF Settles
    <3> HIDE DEF new, ends
    <3>6. stats' \in [Lanes -> StatsType]
          /\ fate' \in [Lanes -> [Ids -> {"no", "dropped", "sent", "failed", "left"}]]
      BY <1>1, <3>3, <3>4, <3>5 DEF TypeOK, StatsType
    <3>7. TypeOK'
      BY <1>1, <2>1, <2>2, <2>5, <3>6 DEF TypeOK, WorkerMoves, StatsType
    <3> QED
      BY <2>3, <3>7 DEF TypeInv
  <2>7. CASE UNCHANGED <<stats, fate>>
    <3>1. TypeOK'
      BY <1>1, <2>1, <2>2, <2>5, <2>7 DEF TypeOK, WorkerMoves
    <3> QED
      BY <2>3, <3>1 DEF TypeInv
  <2> QED
    BY <2>1, <2>6, <2>7
<1>5. CASE Ack(l, w)
  <2>1. PICK s \in WorkerStep :
           /\ WorkerMoves(l, w, s) /\ Len(s.batch) = 0
           /\ inflight' = [inflight EXCEPT ![l] = @ - 1]
           /\ UNCHANGED <<pid, stop, queue, thread, caller, stats, history, flushes>>
    BY <1>1, <1>5, AckDoes
  <2>2. \A k \in Lanes, v \in Workers : Len(worker'[k][v].batch) <= Limit(k)
    BY <1>1, <2>1, BatchLengths
  <2>3. RoomInv'
    BY <2>1, RoomUntouched DEF history
  <2>4. TypeOK'
    BY <1>1, <2>1, <2>2 DEF TypeOK, WorkerMoves, history
  <2> QED
    BY <2>3, <2>4 DEF TypeInv
<1> QED
  BY <1>2, <1>3, <1>4, <1>5 DEF Worker

LEMMA TypeStep == TypeInv /\ [Next]_vars => TypeInv'
<1> SUFFICES ASSUME TypeInv, [Next]_vars PROVE TypeInv'
  OBVIOUS
<1>1. CASE UNCHANGED vars
  BY <1>1 DEF vars, TypeInv, TypeOK, RoomInv, Emitting
<1>2. ASSUME NEW c \in Callers, NEW lane \in Lanes, Emit(c, lane) PROVE TypeInv'
  BY <1>2, EnterType DEF Emit, TypeInv, TypeOK
<1>3. ASSUME NEW c \in Callers, Flush(c) PROVE TypeInv'
  <2>1. flushes' \in Nat
    BY <1>3 DEF Flush, TypeInv, TypeOK
  <2>2. Enter(c, "records", TRUE) /\ "records" \in Lanes
    BY <1>3 DEF Flush, Lanes
  <2> QED
    BY <2>1, <2>2, EnterType
<1>4. ASSUME NEW c \in Callers, Caller(c) PROVE TypeInv'
  BY <1>4, WaitsType, RequeueType, CreateType, PushType, CountType DEF Caller
<1> QED
  BY <1>1, <1>2, <1>3, <1>4, CloseType, WorkerType DEF Next

LEMMA TypeInit == Init => TypeInv
<1> SUFFICES ASSUME Init PROVE TypeInv
  OBVIOUS
<1>1. PICK n \in Inherited \cup {0} :
    /\ pid = (IF n = 0 THEN "own" ELSE "parent") /\ stop = FALSE
    /\ queue = [l \in Lanes |-> IF l = "records" THEN [i \in 1..n |-> i] ELSE <<>>]
    /\ inflight = [l \in Lanes |-> 0]
    /\ thread = [l \in Lanes |-> None]
    /\ worker = [l \in Lanes |-> [w \in Workers |-> Dead]]
    /\ caller = [c \in Callers |-> Idle]
    /\ stats = [l \in Lanes |-> [enqueued |-> IF l = "records" THEN n ELSE 0,
                                 dropped |-> 0, sent |-> 0, failed |-> 0]]
    /\ made = [l \in Lanes |-> IF l = "records" THEN n ELSE 0]
    /\ fate = [l \in Lanes |-> [i \in Ids |-> "no"]]
    /\ arrived = [l \in Lanes |-> {}]
    /\ unseen = [l \in Lanes |-> {}]
    /\ theirs = 1..n /\ flushes = 0
  BY DEF Init
<1>2. n \in Nat /\ n <= QueueMax /\ n <= MaxMade["records"] /\ 1..n \subseteq Ids
  <2>1. n \in Nat /\ n <= QueueMax /\ n <= MaxMade["records"]
    BY SdkAssumption DEF Lanes
  <2>2. 1..MaxMade["records"] \subseteq Ids /\ MaxMade["records"] \in Nat
    BY ConstantFacts DEF Lanes
  <2> QED
    BY <2>1, <2>2
<1>3. queue \in [Lanes -> Seq(Ids)] /\ \A l \in Lanes : Len(queue[l]) <= QueueMax
  <2>1. [i \in 1..n |-> i] \in Seq(Ids) /\ Len([i \in 1..n |-> i]) = n
    BY <1>2
  <2>2. <<>> \in Seq(Ids) /\ Len(<<>>) = 0 /\ 0 <= QueueMax
    BY SdkAssumption
  <2> QED
    BY <1>1, <1>2, <2>1, <2>2
<1>4. TypeOK
  <2>1. worker \in [Lanes -> [Workers -> WorkerStep]]
        /\ \A l \in Lanes, w \in Workers : Len(worker[l][w].batch) <= Limit(l)
    BY <1>1, ConstantFacts
  <2>2. caller \in [Callers -> CallerStep]
    BY <1>1, ConstantFacts
  <2>3. stats \in [Lanes -> [enqueued : Nat, dropped : Nat, sent : Nat, failed : Nat]]
    BY <1>1, <1>2
  <2>4. made \in [Lanes -> Nat] /\ inflight \in [Lanes -> Int]
    BY <1>1, <1>2
  <2> QED
    BY <1>1, <1>2, <1>3, <2>1, <2>2, <2>3, <2>4 DEF TypeOK
<1>5. RoomInv
  <2>1. \A c \in Callers : caller[c].pc = "idle" /\ \A l \in Lanes : ~Emitting(c, l)
    BY <1>1 DEF Emitting, Idle
  <2>2. \A l \in Lanes : {c \in Callers : Emitting(c, l)} = {}
    BY <2>1
  <2>3. \A l \in Lanes : made[l] \in Nat /\ made[l] <= MaxMade[l]
    BY <1>1, <1>2, ConstantFacts
  <2>4. ASSUME NEW l \in Lanes
        PROVE  made[l] + Cardinality({c \in Callers : Emitting(c, l)}) <= MaxMade[l]
    <3>1. Cardinality({c \in Callers : Emitting(c, l)}) = 0
      BY <2>2, FS_EmptySet
    <3>2. made[l] \in Nat /\ MaxMade[l] \in Nat /\ made[l] + 0 <= MaxMade[l]
      BY <2>3, ConstantFacts
    <3> QED
      BY <3>1, <3>2
  <2> QED
    BY <2>1, <2>4 DEF RoomInv
<1> QED
  BY <1>4, <1>5 DEF TypeInv

(* Every value keeps its type; no id is used beyond the bound.             *)
THEOREM ExporterTypeCorrect == Spec => []TypeInv
BY TypeInit, TypeStep, PTL DEF Spec
-----------------------------------------------------------------------------
(* Sequences in order of arrival.                                          *)

Elements(s) == {s[k] : k \in DOMAIN s}

LEMMA PlacesHoldIds ==
  \A s \in Seq(Ids) : /\ Len(s) \in Nat /\ DOMAIN s = 1..Len(s)
                      /\ \A k \in DOMAIN s : s[k] \in Ids /\ s[k] \in Nat
<1>1. Ids \subseteq Nat
  BY ConstantFacts
<1> SUFFICES ASSUME NEW s \in Seq(Ids)
             PROVE  /\ Len(s) \in Nat /\ DOMAIN s = 1..Len(s)
                    /\ \A k \in DOMAIN s : s[k] \in Ids /\ s[k] \in Nat
  OBVIOUS
<1>2. Len(s) \in Nat /\ DOMAIN s = 1..Len(s) /\ \A k \in DOMAIN s : s[k] \in Ids
  OBVIOUS
<1> QED
  BY <1>1, <1>2

(* No record twice: there are as many as there are places.                 *)
LEMMA RisingCounts ==
  ASSUME NEW s \in Seq(Ids), Rising(s)
  PROVE  /\ IsFiniteSet(Elements(s)) /\ Cardinality(Elements(s)) = Len(s)
         /\ Elements(s) \subseteq Ids
<1>1. Len(s) \in Nat /\ DOMAIN s = 1..Len(s) /\ \A k \in DOMAIN s : s[k] \in Ids /\ s[k] \in Nat
  BY PlacesHoldIds
<1>2. \A j, k \in DOMAIN s : s[j] = s[k] => j = k
  <2> SUFFICES ASSUME NEW j \in DOMAIN s, NEW k \in DOMAIN s, s[j] = s[k], j # k PROVE FALSE
    OBVIOUS
  <2>1. j < k \/ k < j
    BY <1>1
  <2>2. s[j] < s[k] \/ s[k] < s[j]
    BY <2>1 DEF Rising
  <2> QED
    BY <1>1, <2>2
<1> DEFINE f == [k \in 1..Len(s) |-> s[k]]
<1>3. f \in Bijection(1..Len(s), Elements(s))
  BY <1>1, <1>2 DEF Bijection, Injection, Surjection, IsInjective, Elements
<1>4. IsFiniteSet(1..Len(s)) /\ Cardinality(1..Len(s)) = Len(s)
  <2> DEFINE n == Len(s)
  <2>1. n \in Nat
    BY <1>1
  <2> HIDE DEF n
  <2>2. IsFiniteSet(1..n) /\ Cardinality(1..n) = n
    BY <2>1, FS_Interval
  <2> QED
    BY <2>2 DEF n
<1>5. ExistsBijection(1..Len(s), Elements(s))
  BY <1>3 DEF ExistsBijection
<1> HIDE DEF f
<1>6. IsFiniteSet(Elements(s)) /\ Cardinality(Elements(s)) = Cardinality(1..Len(s))
  BY <1>4, <1>5, FS_Bijection
<1> QED
  BY <1>1, <1>4, <1>6 DEF Elements

LEMMA TailRises ==
  ASSUME NEW s \in Seq(Ids), Rising(s), Len(s) > 0
  PROVE  /\ Tail(s) \in Seq(Ids) /\ Rising(Tail(s)) /\ Len(Tail(s)) = Len(s) - 1
         /\ Head(s) \in Elements(s) /\ Elements(Tail(s)) = Elements(s) \ {Head(s)}
<1> DEFINE t == Tail(s)
<1>1. /\ t \in Seq(Ids) /\ Len(t) = Len(s) - 1 /\ DOMAIN t = 1..Len(t) /\ Head(s) = s[1]
      /\ \A k \in DOMAIN t : k + 1 \in DOMAIN s /\ t[k] = s[k + 1] /\ k \in Nat /\ k > 0
      /\ 1 \in DOMAIN s /\ \A k \in DOMAIN s : k > 1 => k - 1 \in DOMAIN t
      /\ DOMAIN s \subseteq Nat \ {0}
  OBVIOUS
<1> HIDE DEF t
<1>2. Rising(t)
  <2> SUFFICES ASSUME NEW i \in DOMAIN t, NEW j \in DOMAIN t, i < j PROVE t[i] < t[j]
    BY DEF Rising
  <2>1. i + 1 < j + 1
    BY <1>1
  <2> QED
    BY <1>1, <2>1 DEF Rising
<1>3. \A k \in DOMAIN s : k > 1 => s[1] < s[k]
  BY <1>1 DEF Rising
<1>4. \A k \in DOMAIN s : s[k] \in Nat
  BY PlacesHoldIds
<1>5. Elements(t) \subseteq Elements(s) \ {s[1]}
  <2> SUFFICES ASSUME NEW k \in DOMAIN t PROVE t[k] \in Elements(s) \ {s[1]}
    BY DEF Elements
  <2>1. k + 1 \in DOMAIN s /\ k + 1 > 1 /\ t[k] = s[k + 1]
    BY <1>1
  <2> QED
    BY <1>1, <1>3, <1>4, <2>1 DEF Elements
<1>6. Elements(s) \ {s[1]} \subseteq Elements(t)
  <2> SUFFICES ASSUME NEW k \in DOMAIN s, k # 1 PROVE s[k] \in Elements(t)
    BY DEF Elements
  <2>1. k - 1 \in DOMAIN t /\ k = (k - 1) + 1
    BY <1>1
  <2>2. t[k - 1] = s[k]
    BY <1>1, <2>1
  <2> QED
    BY <2>1, <2>2 DEF Elements
<1> QED
  BY <1>1, <1>2, <1>5, <1>6 DEF t, Elements

LEMMA AppendRises ==
  ASSUME NEW s \in Seq(Ids), Rising(s), NEW id \in Ids, \A i \in Elements(s) : i < id
  PROVE  Rising(Append(s, id)) /\ Elements(Append(s, id)) = Elements(s) \cup {id}
<1> DEFINE t == Append(s, id)
<1>1. /\ DOMAIN s = 1..Len(s) /\ Len(s) \in Nat /\ DOMAIN t = 1..(Len(s) + 1)
      /\ t[Len(s) + 1] = id /\ \A k \in DOMAIN s : t[k] = s[k]
  OBVIOUS
<1> HIDE DEF t
<1>2. \A k \in DOMAIN t : k \in DOMAIN s \/ k = Len(s) + 1
  BY <1>1
<1>3. Rising(t)
  <2> SUFFICES ASSUME NEW i \in DOMAIN t, NEW j \in DOMAIN t, i < j PROVE t[i] < t[j]
    BY DEF Rising
  <2>1. i \in DOMAIN s
    BY <1>1
  <2>2. CASE j \in DOMAIN s
    BY <1>1, <2>1, <2>2 DEF Rising
  <2>3. CASE j = Len(s) + 1
    BY <1>1, <2>1, <2>3 DEF Elements
  <2> QED
    BY <1>2, <2>2, <2>3
<1>4. Elements(t) = Elements(s) \cup {id}
  <2>1. DOMAIN t = DOMAIN s \cup {Len(s) + 1}
    BY <1>1
  <2> QED
    BY <1>1, <2>1 DEF Elements
<1> QED
  BY <1>3, <1>4 DEF t

LEMMA SplitRises ==
  ASSUME NEW s \in Seq(Ids), Rising(s), NEW n \in 1..Len(s)
  PROVE  LET a == SubSeq(s, 1, n)
             b == SubSeq(s, n + 1, Len(s))
         IN /\ a \in Seq(Ids) /\ b \in Seq(Ids) /\ Len(a) = n /\ a # <<>>
            /\ Rising(a) /\ Rising(b)
            /\ Elements(s) = Elements(a) \cup Elements(b)
            /\ \A i \in Elements(a), j \in Elements(b) : i < j
<1> DEFINE a == SubSeq(s, 1, n)
           b == SubSeq(s, n + 1, Len(s))
<1>1. Len(s) \in Nat /\ n \in Nat /\ n > 0 /\ n <= Len(s) /\ DOMAIN s = 1..Len(s)
  OBVIOUS
<1>2. a \in Seq(Ids) /\ Len(a) = n /\ DOMAIN a = 1..n /\ \A k \in 1..n : a[k] = s[k]
  OBVIOUS
<1>3. b \in Seq(Ids) /\ Len(b) = Len(s) - n /\ DOMAIN b = 1..(Len(s) - n)
      /\ \A k \in 1..(Len(s) - n) : b[k] = s[n + k]
  <2>1. b \in Seq(Ids) /\ Len(b) = Len(s) - n
    OBVIOUS
  <2>2. DOMAIN b = 1..Len(b)
    BY <2>1, PlacesHoldIds
  <2>3. \A k \in DOMAIN b : b[k] = s[n + k]
    OBVIOUS
  <2> QED
    BY <2>1, <2>2, <2>3
<1> HIDE DEF a, b
<1>4. Rising(a)
  BY <1>1, <1>2 DEF Rising
<1>5. Rising(b)
  <2> SUFFICES ASSUME NEW i \in DOMAIN b, NEW j \in DOMAIN b, i < j PROVE b[i] < b[j]
    BY DEF Rising
  <2>1. n + i \in DOMAIN s /\ n + j \in DOMAIN s /\ n + i < n + j
    BY <1>1, <1>3
  <2>2. s[n + i] < s[n + j]
    BY <2>1 DEF Rising
  <2> QED
    BY <1>3, <2>2
<1>6. ASSUME NEW i \in Elements(a), NEW j \in Elements(b) PROVE i < j
  <2>1. PICK x \in DOMAIN a : i = a[x]
    BY DEF Elements
  <2>2. PICK y \in DOMAIN b : j = b[y]
    BY DEF Elements
  <2>3. x \in DOMAIN s /\ n + y \in DOMAIN s /\ x < n + y
    BY <1>1, <1>2, <1>3
  <2> QED
    BY <1>2, <1>3, <2>1, <2>2, <2>3 DEF Rising
<1>7. Elements(s) = Elements(a) \cup Elements(b)
  <2>1. \A k \in DOMAIN a : k \in DOMAIN s /\ s[k] = a[k]
    BY <1>1, <1>2
  <2>2. \A k \in DOMAIN b : n + k \in DOMAIN s /\ s[n + k] = b[k]
    BY <1>1, <1>3
  <2>3. ASSUME NEW k \in DOMAIN s PROVE s[k] \in Elements(a) \cup Elements(b)
    <3>1. CASE k <= n
      BY <1>1, <1>2, <3>1 DEF Elements
    <3>2. CASE k > n
      <4>1. k - n \in DOMAIN b /\ n + (k - n) = k
        BY <1>1, <1>3, <3>2
      <4>2. b[k - n] = s[k]
        BY <1>3, <4>1
      <4> QED
        BY <4>1, <4>2 DEF Elements
    <3> QED
      BY <1>1, <3>1, <3>2
  <2> QED
    BY <2>1, <2>2, <2>3 DEF Elements
<1>8. a # <<>>
  BY <1>1, <1>2
<1> QED
  BY <1>2, <1>3, <1>4, <1>5, <1>6, <1>7, <1>8 DEF a, b

Ends == {"dropped", "sent", "failed", "left"}
EndIn(f, end) == {i \in Ids : f[i] = end}

Meet(S, end, f, g) ==
  /\ S \subseteq Ids /\ end \in Ends
  /\ \A i \in S : f[i] = "no" /\ g[i] = end
  /\ \A i \in Ids : i \notin S => g[i] = f[i]

(* Records that meet their end add to that end's number and to no other.   *)
LEMMA EndsAdd ==
  ASSUME NEW f, NEW g, NEW S, NEW end, Meet(S, end, f, g)
  PROVE  \A x \in Ends : /\ Cardinality(EndIn(f, x)) \in Nat /\ Cardinality(S) \in Nat
                         /\ Cardinality(EndIn(g, x))
                              = Cardinality(EndIn(f, x)) + (IF x = end THEN Cardinality(S) ELSE 0)
<1> SUFFICES ASSUME NEW x \in Ends
             PROVE  /\ Cardinality(EndIn(f, x)) \in Nat /\ Cardinality(S) \in Nat
                    /\ Cardinality(EndIn(g, x))
                         = Cardinality(EndIn(f, x)) + (IF x = end THEN Cardinality(S) ELSE 0)
  OBVIOUS
<1>1. IsFiniteSet(S) /\ IsFiniteSet(EndIn(f, x))
  BY ConstantFacts, FS_Subset DEF EndIn, Meet
<1>2. Cardinality(EndIn(f, x)) \in Nat /\ Cardinality(S) \in Nat
  BY <1>1, FS_CardinalityType
<1>3. CASE x = end
  <2>1. EndIn(g, x) = EndIn(f, x) \cup S /\ EndIn(f, x) \cap S = {}
    BY <1>3 DEF EndIn, Ends, Meet
  <2>2. Cardinality(EndIn(f, x) \cup S)
          = Cardinality(EndIn(f, x)) + Cardinality(S) - Cardinality(EndIn(f, x) \cap S)
    BY <1>1, FS_Union
  <2>3. Cardinality(EndIn(f, x) \cap S) = 0
    BY <2>1, FS_EmptySet
  <2>4. Cardinality(EndIn(g, x)) = Cardinality(EndIn(f, x)) + Cardinality(S) - 0
    BY <2>1, <2>2, <2>3
  <2>5. Cardinality(EndIn(g, x)) = Cardinality(EndIn(f, x)) + Cardinality(S)
    BY <1>2, <2>4
  <2> QED
    BY <1>2, <1>3, <2>5
<1>4. CASE x # end
  <2>1. EndIn(g, x) = EndIn(f, x)
    BY <1>4 DEF EndIn, Ends, Meet
  <2> QED
    BY <1>2, <1>4, <2>1
<1> QED
  BY <1>3, <1>4
-----------------------------------------------------------------------------
(* Where a lane's records are.                                             *)

(* No batch of the lane is taken, changed or answered.                     *)
SendsKept(l) ==
  \A w \in Workers :
    /\ worker'[l][w].pc = "send" <=> worker[l][w].pc = "send"
    /\ worker[l][w].pc = "send" => worker'[l][w].batch = worker[l][w].batch

LEMMA LaneSets ==
  /\ \A l \in Lanes : Queued(l) = Elements(queue[l])
  /\ \A l \in Lanes, w \in Workers : BatchOf(l, w) = Elements(worker[l][w].batch)
  /\ \A l \in Lanes : \A i :
       i \in Held(l) <=> \E w \in Workers : Sending(l, w) /\ i \in BatchOf(l, w)
  /\ \A l \in Lanes : \A end : Fated(l, end) = Cardinality(EndIn(fate[l], end))
BY DEF Queued, BatchOf, Elements, Held, Sending, Fated, EndIn

LEMMA LaneSetsNext ==
  /\ \A l \in Lanes : Queued(l)' = Elements(queue'[l])
  /\ \A l \in Lanes, w \in Workers : BatchOf(l, w)' = Elements(worker'[l][w].batch)
  /\ \A l \in Lanes : \A i :
       i \in Held(l)' <=> \E w \in Workers : Sending(l, w)' /\ i \in BatchOf(l, w)'
  /\ \A l \in Lanes : \A end : Fated(l, end)' = Cardinality(EndIn(fate'[l], end))
BY DEF Queued, BatchOf, Elements, Held, Sending, Fated, EndIn

LEMMA HeldStays ==
  ASSUME NEW l \in Lanes, SendsKept(l)
  PROVE  /\ Held(l)' = Held(l)
         /\ \A w \in Workers : Sending(l, w)' <=> Sending(l, w)
         /\ \A w \in Workers : Sending(l, w) => BatchOf(l, w)' = BatchOf(l, w)
<1>1. /\ \A w \in Workers : Sending(l, w)' <=> Sending(l, w)
      /\ \A w \in Workers : Sending(l, w) => BatchOf(l, w)' = BatchOf(l, w)
  BY DEF SendsKept, Sending, BatchOf
<1>2. \A i : i \in Held(l)' <=> i \in Held(l)
  BY <1>1, LaneSets, LaneSetsNext
<1> QED
  BY <1>1, <1>2

LEMMA PlaceKept ==
  ASSUME NEW l \in Lanes, PlaceInv(l), SendsKept(l),
         queue'[l] = queue[l], fate'[l] = fate[l], made'[l] = made[l]
  PROVE  PlaceInv(l)' /\ Queued(l)' = Queued(l) /\ Held(l)' = Held(l) /\ Gone(l)' = Gone(l)
<1>1. /\ Held(l)' = Held(l)
      /\ \A w \in Workers : Sending(l, w)' <=> Sending(l, w)
      /\ \A w \in Workers : Sending(l, w) => BatchOf(l, w)' = BatchOf(l, w)
  BY HeldStays
<1>2. Queued(l)' = Queued(l) /\ Gone(l)' = Gone(l)
  BY DEF Queued, Gone
<1>3. \A w \in Workers :
        Sending(l, w)' => worker'[l][w].batch # <<>> /\ Rising(worker'[l][w].batch)
  BY <1>1 DEF PlaceInv, SendsKept, Sending
<1>4. \A v, w \in Workers :
        Sending(l, v)' /\ Sending(l, w)' /\ v # w => BatchOf(l, v)' \cap BatchOf(l, w)' = {}
  BY <1>1 DEF PlaceInv
<1>5. Rising(queue'[l])
  BY DEF PlaceInv
<1>6. /\ Queued(l)' \cup Held(l)' \cup Gone(l)' = 1..made'[l]
      /\ Queued(l)' \cap Held(l)' = {} /\ (Queued(l)' \cup Held(l)') \cap Gone(l)' = {}
  BY <1>1, <1>2 DEF PlaceInv
<1>7. PlaceInv(l)'
  BY <1>3, <1>4, <1>5, <1>6 DEF PlaceInv
<1> QED
  BY <1>1, <1>2, <1>7

LEMMA CountKept ==
  ASSUME NEW l \in Lanes, CountInv(l), fate'[l] = fate[l], stats'[l].sent = stats[l].sent,
         stats'[l].dropped = stats[l].dropped, stats'[l].failed = stats[l].failed
  PROVE  CountInv(l)'
BY DEF CountInv, Fated

(* What is on its way has not met its end.                                 *)
LEMMA PlaceFacts ==
  ASSUME TypeOK, NEW l \in Lanes, PlaceInv(l)
  PROVE  /\ Queued(l) \subseteq Ids /\ Held(l) \subseteq Ids
         /\ \A i \in Queued(l) \cup Held(l) : i \in 1..made[l] /\ fate[l][i] = "no"
         /\ \A i \in Ids : i \notin 1..made[l] => fate[l][i] = "no"
         /\ made[l] \in Nat /\ queue[l] \in Seq(Ids) /\ fate[l] \in [Ids -> Ends \cup {"no"}]
<1>1. /\ made[l] \in Nat /\ queue[l] \in Seq(Ids) /\ fate[l] \in [Ids -> Ends \cup {"no"}]
      /\ \A w \in Workers : worker[l][w].batch \in Seq(Ids)
  BY DEF TypeOK, WorkerStep, Ends
<1>2. Queued(l) \subseteq Ids
  BY <1>1, LaneSets, PlacesHoldIds DEF Elements
<1>3. Held(l) \subseteq Ids
  BY <1>1, LaneSets, PlacesHoldIds DEF Elements
<1>4. \A i \in Queued(l) \cup Held(l) : i \in 1..made[l] /\ i \notin Gone(l)
  BY DEF PlaceInv
<1>5. \A i \in Ids : i \notin 1..made[l] => i \notin Gone(l)
  BY DEF PlaceInv
<1> QED
  BY <1>1, <1>2, <1>3, <1>4, <1>5 DEF Gone

(* A step that ends records of one lane for good, all in the same way.     *)
LEMMA EndsCounted ==
  ASSUME NEW l \in Lanes, NEW S \in SUBSET Ids, NEW end \in Ends,
         \A i \in S : fate[l][i] = "no" /\ fate'[l][i] = end,
         \A i \in Ids : i \notin S => fate'[l][i] = fate[l][i]
  PROVE  \A x \in Ends : /\ Fated(l, x) \in Nat /\ Cardinality(S) \in Nat
                         /\ Fated(l, x)' = Fated(l, x) + (IF x = end THEN Cardinality(S) ELSE 0)
<1> DEFINE f == fate[l]
           g == fate'[l]
<1>1. Meet(S, end, f, g)
  BY DEF Meet
<1> HIDE DEF f, g
<1>2. \A x \in Ends : /\ Cardinality(EndIn(f, x)) \in Nat /\ Cardinality(S) \in Nat
                      /\ Cardinality(EndIn(g, x))
                           = Cardinality(EndIn(f, x)) + (IF x = end THEN Cardinality(S) ELSE 0)
  BY <1>1, EndsAdd
<1>3. \A x : Fated(l, x) = Cardinality(EndIn(f, x)) /\ Fated(l, x)' = Cardinality(EndIn(g, x))
  BY LaneSets, LaneSetsNext DEF f, g
<1> QED
  BY <1>2, <1>3

LEMMA PushPlaces ==
  ASSUME TypeInv, TypeInv', NEW c \in Callers, Push(c), NEW lane \in Lanes,
         caller[c].lane = lane, \A l \in Lanes : PlaceInv(l) /\ CountInv(l)
  PROVE  /\ \A l \in Lanes : PlaceInv(l)' /\ CountInv(l)' /\ Held(l)' = Held(l)
         /\ \A l \in Lanes : l # lane =>
              Queued(l)' = Queued(l) /\ Gone(l)' = Gone(l) /\ made'[l] = made[l]
         /\ Queued(lane)' \subseteq Queued(lane) \cup {made[lane] + 1}
         /\ Gone(lane) \subseteq Gone(lane)'
         /\ made'[lane] = made[lane] + 1 /\ made[lane] + 1 \in Ids
<1> DEFINE id == made[lane] + 1
           q == queue[lane]
           rest == IF Full(lane) THEN Tail(q) ELSE q
           out == IF Full(lane) THEN {Head(q)} ELSE {}
<1>1. TypeOK /\ TypeOK'
  BY DEF TypeInv
<1>2. /\ lane \in Lanes /\ id \in Ids /\ made[lane] \in Nat
      /\ made' = [made EXCEPT ![lane] = id]
      /\ q \in Seq(Ids) /\ (Full(lane) => Len(q) > 0)
      /\ queue' = [queue EXCEPT ![lane] = Append(rest, id)]
  BY PushDoes
<1>3. made'[lane] = id /\ queue'[lane] = Append(rest, id)
      /\ \A l \in Lanes : l # lane => made'[l] = made[l] /\ queue'[l] = queue[l]
  BY <1>1, <1>2 DEF TypeOK
<1>4. \A l \in Lanes : SendsKept(l)
  BY DEF Push, SendsKept
<1>5. PlaceInv(lane) /\ Rising(q) /\ Elements(q) = Queued(lane)
  BY <1>2, LaneSets DEF PlaceInv
<1>6. /\ rest \in Seq(Ids) /\ Rising(rest) /\ out \subseteq Queued(lane)
      /\ Elements(rest) = Queued(lane) \ out
  <2>1. CASE Full(lane)
    BY <1>2, <1>5, <2>1, TailRises
  <2>2. CASE ~Full(lane)
    BY <1>2, <1>5, <2>2
  <2> QED
    BY <2>1, <2>2
<1>7. /\ \A i \in out : fate[lane][i] = "no" /\ fate'[lane][i] = "dropped"
      /\ \A i \in Ids : i \notin out => fate'[lane][i] = fate[lane][i]
      /\ \A l \in Lanes : l # lane => fate'[l] = fate[l]
  <2>1. \A i \in out : fate[lane][i] = "no" /\ i \in Ids
    BY <1>1, <1>2, <1>5, <1>6, PlaceFacts
  <2>2. fate \in [Lanes -> [Ids -> Ends \cup {"no"}]]
    BY <1>1 DEF TypeOK, Ends
  <2>3. CASE Full(lane)
    <3>1. fate' = [fate EXCEPT ![lane][Head(q)] = "dropped"]
      BY <2>3 DEF Push, OldestOut
    <3> QED
      BY <1>2, <2>1, <2>2, <2>3, <3>1
  <2>4. CASE ~Full(lane)
    BY <2>4 DEF Push
  <2> QED
    BY <2>3, <2>4
<1>8. /\ stats'[lane].sent = stats[lane].sent /\ stats'[lane].failed = stats[lane].failed
      /\ stats'[lane].dropped = stats[lane].dropped + Cardinality(out)
      /\ \A l \in Lanes : l # lane => stats'[l] = stats[l]
  <2>1. stats \in [Lanes -> StatsType] /\ stats[lane] \in StatsType
    BY <1>1, <1>2 DEF TypeOK, StatsType
  <2>2. CASE Full(lane)
    <3>1. stats' = [stats EXCEPT ![lane].dropped = @ + 1]
      BY <2>2 DEF Push
    <3>2. Cardinality(out) = 1
      <4> DEFINE h == Head(q)
      <4>1. out = {h}
        BY <2>2
      <4> HIDE DEF h, out
      <4> QED
        BY <4>1, FS_Singleton
    <3> HIDE DEF out
    <3> QED
      BY <1>2, <2>1, <3>1, <3>2 DEF StatsType
  <2>3. CASE ~Full(lane)
    <3>1. Cardinality(out) = 0 /\ stats' = stats
      BY <2>3, FS_EmptySet DEF Push
    <3>2. stats[lane].dropped \in Nat
      BY <2>1 DEF StatsType
    <3> QED
      BY <3>1, <3>2
  <2> QED
    BY <2>2, <2>3
<1>9. /\ \A l \in Lanes : Held(l)' = Held(l)
      /\ \A l \in Lanes, w \in Workers : Sending(l, w)' <=> Sending(l, w)
      /\ \A l \in Lanes, w \in Workers : Sending(l, w) => BatchOf(l, w)' = BatchOf(l, w)
  BY <1>4, HeldStays
<1>10. ASSUME NEW l \in Lanes, l # lane
       PROVE  PlaceInv(l)' /\ CountInv(l)' /\ Queued(l)' = Queued(l) /\ Gone(l)' = Gone(l)
  BY <1>3, <1>4, <1>7, <1>8, <1>10, PlaceKept, CountKept
<1> HIDE DEF q, rest, out
<1>11. CountInv(lane)'
  <2>1. CountInv(lane) /\ out \in SUBSET Ids /\ "dropped" \in Ends
    BY <1>1, <1>2, <1>5, <1>6, PlaceFacts DEF Ends
  <2>2. \A x \in Ends : Fated(lane, x) \in Nat /\ Cardinality(out) \in Nat
           /\ Fated(lane, x)' = Fated(lane, x) + (IF x = "dropped" THEN Cardinality(out) ELSE 0)
    BY <1>1, <1>2, <1>7, <2>1, EndsCounted
  <2>3. /\ Fated(lane, "sent")' = Fated(lane, "sent") /\ Fated(lane, "failed")' = Fated(lane, "failed")
        /\ Fated(lane, "dropped")' = Fated(lane, "dropped") + Cardinality(out)
    BY <2>2 DEF Ends
  <2> QED
    BY <1>8, <2>1, <2>3 DEF CountInv
<1>12. \A i \in Queued(lane) \cup Held(lane) : i \in 1..made[lane] /\ i \in Ids
  BY <1>1, <1>2, <1>5, PlaceFacts
<1>13. Rising(queue'[lane]) /\ Queued(lane)' = (Queued(lane) \ out) \cup {id}
  <2>1. \A i \in Elements(rest) : i < id
    BY <1>2, <1>6, <1>12
  <2>2. Rising(Append(rest, id)) /\ Elements(Append(rest, id)) = Elements(rest) \cup {id}
    BY <1>2, <1>6, <2>1, AppendRises
  <2> QED
    BY <1>2, <1>3, <1>6, <2>2, LaneSetsNext
<1>14. Gone(lane)' = Gone(lane) \cup out
  BY <1>6, <1>7, <1>12 DEF Gone
<1>15. 1..made'[lane] = 1..made[lane] \cup {id} /\ id \notin 1..made[lane]
  BY <1>2, <1>3
<1>16. PlaceInv(lane)'
  <2>1. \A w \in Workers :
          Sending(lane, w)' => worker'[lane][w].batch # <<>> /\ Rising(worker'[lane][w].batch)
    BY <1>2, <1>4, <1>5, <1>9 DEF PlaceInv, SendsKept, Sending
  <2>2. \A v, w \in Workers : Sending(lane, v)' /\ Sending(lane, w)' /\ v # w
           => BatchOf(lane, v)' \cap BatchOf(lane, w)' = {}
    BY <1>2, <1>5, <1>9 DEF PlaceInv
  <2>3. Held(lane)' = Held(lane)
    BY <1>2, <1>9
  <2>4. /\ Queued(lane) \cup Held(lane) \cup Gone(lane) = 1..made[lane]
        /\ Queued(lane) \cap Held(lane) = {} /\ (Queued(lane) \cup Held(lane)) \cap Gone(lane) = {}
    BY <1>5 DEF PlaceInv
  <2> DEFINE N == 1..made[lane]
             N1 == 1..made'[lane]
  <2>5. N1 = N \cup {id} /\ id \notin N /\ Queued(lane) \cup Held(lane) \cup Gone(lane) = N
    BY <1>15, <2>4
  <2> HIDE DEF N, N1, id
  <2>6. /\ Queued(lane)' \cup Held(lane)' \cup Gone(lane)' = N1
        /\ Queued(lane)' \cap Held(lane)' = {} /\ (Queued(lane)' \cup Held(lane)') \cap Gone(lane)' = {}
    BY <1>6, <1>13, <1>14, <2>3, <2>4, <2>5
  <2> QED
    BY <1>13, <2>1, <2>2, <2>6 DEF PlaceInv, N1
<1>17. /\ Queued(lane)' \subseteq Queued(lane) \cup {id} /\ Gone(lane) \subseteq Gone(lane)'
       /\ made'[lane] = id /\ id \in Ids
  BY <1>2, <1>3, <1>13, <1>14
<1> QED
  BY <1>3, <1>9, <1>10, <1>11, <1>16, <1>17

(* A batch goes from the queue into flight.                                *)
LEMMA TakePlaces ==
  ASSUME TypeInv, NEW l \in Lanes, NEW w \in Workers, Take(l, w), PlaceInv(l)
  PROVE  /\ PlaceInv(l)' /\ Queued(l)' \subseteq Queued(l) /\ Gone(l)' = Gone(l)
         /\ Held(l)' \subseteq Held(l) \cup (Queued(l) \ Queued(l)')
         /\ \A i \in BatchOf(l, w)', j \in Queued(l)' : i < j
         /\ \A v \in Workers : v # w => (Sending(l, v)' <=> Sending(l, v))
         /\ \A i \in Held(l)' : i \in Held(l) \/ i \in BatchOf(l, w)'
<1>1. TypeOK
  BY DEF TypeInv
<1> DEFINE q == queue[l]
<1>2. PICK n \in 1..Len(q), s \in WorkerStep :
           /\ WorkerMoves(l, w, s) /\ s.pc = "send" /\ s.batch = SubSeq(q, 1, n)
           /\ worker[l][w].pc = "drain"
           /\ queue' = [queue EXCEPT ![l] = SubSeq(q, n + 1, Len(q))]
           /\ UNCHANGED <<fate, made>>
  BY <1>1, TakeDoes DEF history
<1> DEFINE a == SubSeq(q, 1, n)
           b == SubSeq(q, n + 1, Len(q))
<1>3. q \in Seq(Ids) /\ Rising(q) /\ queue'[l] = b
  BY <1>1, <1>2 DEF TypeOK, PlaceInv
<1> HIDE DEF q
<1>4. /\ Rising(a) /\ Rising(b) /\ a # <<>>
      /\ Elements(q) = Elements(a) \cup Elements(b)
      /\ \A i \in Elements(a), j \in Elements(b) : i < j
      /\ a \in Seq(Ids)
  BY <1>3, SplitRises
<1>5. worker'[l][w].pc = "send" /\ worker'[l][w].batch = a
      /\ \A v \in Workers : v # w => worker'[l][v] = worker[l][v]
  BY <1>2 DEF WorkerMoves
<1> HIDE DEF a, b
<1>6. Queued(l) = Elements(a) \cup Elements(b) /\ Queued(l)' = Elements(b)
      /\ BatchOf(l, w)' = Elements(a)
  BY <1>3, <1>4, <1>5, LaneSets, LaneSetsNext DEF q
<1>7. /\ Sending(l, w)' /\ ~Sending(l, w)
      /\ \A v \in Workers : v # w => (Sending(l, v)' <=> Sending(l, v)) /\ BatchOf(l, v)' = BatchOf(l, v)
  BY <1>2, <1>5 DEF Sending, BatchOf
<1>8. Held(l)' = Held(l) \cup Elements(a)
  <2>1. \A i : i \in Held(l)' <=> i \in Held(l) \/ i \in Elements(a)
    BY <1>6, <1>7, LaneSets, LaneSetsNext
  <2> QED
    BY <2>1
<1>9. Gone(l)' = Gone(l) /\ made'[l] = made[l]
  BY <1>2 DEF Gone
<1>10. Elements(a) \cap Elements(b) = {}
  <2>1. \A i \in Elements(a) : i \in Nat
    BY <1>4, PlacesHoldIds DEF Elements
  <2> QED
    BY <1>4, <2>1
<1>11. PlaceInv(l)'
  <2>1. \A v \in Workers :
          Sending(l, v)' => worker'[l][v].batch # <<>> /\ Rising(worker'[l][v].batch)
    BY <1>4, <1>5, <1>7 DEF PlaceInv
  <2>2. \A v \in Workers : Sending(l, v) => BatchOf(l, v) \cap Elements(a) = {}
    BY <1>6, LaneSets DEF PlaceInv
  <2>3. \A v, u \in Workers : Sending(l, v)' /\ Sending(l, u)' /\ v # u
           => BatchOf(l, v)' \cap BatchOf(l, u)' = {}
    <3> SUFFICES ASSUME NEW v \in Workers, NEW u \in Workers, Sending(l, v)', Sending(l, u)', v # u
                 PROVE  BatchOf(l, v)' \cap BatchOf(l, u)' = {}
      OBVIOUS
    <3>1. CASE v = w
      BY <1>6, <1>7, <2>2, <3>1
    <3>2. CASE u = w
      BY <1>6, <1>7, <2>2, <3>2
    <3>3. CASE v # w /\ u # w
      BY <1>7, <3>3 DEF PlaceInv
    <3> QED
      BY <3>1, <3>2, <3>3
  <2>4. /\ Queued(l)' \cup Held(l)' \cup Gone(l)' = 1..made'[l]
        /\ Queued(l)' \cap Held(l)' = {} /\ (Queued(l)' \cup Held(l)') \cap Gone(l)' = {}
    BY <1>6, <1>8, <1>9, <1>10 DEF PlaceInv
  <2> QED
    BY <1>3, <1>4, <2>1, <2>3, <2>4 DEF PlaceInv
<1> QED
  BY <1>4, <1>6, <1>7, <1>8, <1>9, <1>10, <1>11

(* An answer that settles a batch ends its records, one failure counted    *)
(* for all of them.                                                        *)
LEMMA SettlePlaces ==
  ASSUME TypeInv, TypeInv', NEW l \in Lanes, NEW w \in Workers, NEW s \in WorkerStep,
         NEW answer \in {"sent", "failed"},
         WorkerMoves(l, w, s), worker[l][w].pc = "send", s.pc = "ack",
         Settles(l, w, answer), UNCHANGED <<queue, made>>, PlaceInv(l), CountInv(l)
  PROVE  /\ PlaceInv(l)' /\ CountInv(l)' /\ Queued(l)' = Queued(l) /\ Gone(l) \subseteq Gone(l)'
         /\ Held(l)' \subseteq Held(l)
         /\ \A v \in Workers : Sending(l, v)' => Sending(l, v)
<1> DEFINE batch == worker[l][w].batch
           B == Elements(batch)
           n == Len(batch)
<1>1. TypeOK /\ TypeOK' /\ Sending(l, w)
  BY DEF TypeInv, Sending
<1>2. batch \in Seq(Ids) /\ Rising(batch) /\ batch # <<>> /\ n <= Limit(l) /\ BatchOf(l, w) = B
  BY <1>1, LaneSets DEF TypeOK, WorkerStep, PlaceInv
<1>3. n \in Nat /\ n >= 1 /\ Limit(l) \in Nat
  BY <1>2, ConstantFacts
<1> HIDE DEF batch
<1>4. B \subseteq Ids /\ Cardinality(B) = n
  BY <1>2, RisingCounts
<1>5. B \subseteq Held(l)
  BY <1>1, <1>2, LaneSets
<1>6. \A i \in B : fate[l][i] = "no"
  BY <1>1, <1>5, PlaceFacts
<1> HIDE DEF B, n
<1>7. fate' = [fate EXCEPT ![l] = [i \in Ids |-> IF i \in B THEN answer ELSE fate[l][i]]]
      /\ stats' = [stats EXCEPT ![l] = Answered(stats[l], answer, n)]
  BY <1>2 DEF Settles, n, batch
<1>8. /\ \A i \in B : fate'[l][i] = answer
      /\ \A i \in Ids : i \notin B => fate'[l][i] = fate[l][i]
  <2>1. fate'[l] = [i \in Ids |-> IF i \in B THEN answer ELSE fate[l][i]]
    BY <1>1, <1>7 DEF TypeOK
  <2> QED
    BY <1>4, <2>1
<1>9. \A x \in Ends : /\ Fated(l, x) \in Nat
                      /\ Fated(l, x)' = Fated(l, x) + (IF x = answer THEN n ELSE 0)
  BY <1>4, <1>6, <1>8, EndsCounted DEF Ends
<1>10. CountInv(l)'
  <2> DEFINE old == stats[l]
  <2>1. old \in StatsType /\ stats'[l] = Answered(old, answer, n)
    BY <1>1, <1>7 DEF TypeOK, StatsType
  <2>2. /\ old.sent = Fated(l, "sent") /\ old.dropped = Fated(l, "dropped")
        /\ old.failed <= Fated(l, "failed") /\ Fated(l, "failed") <= old.failed * Limit(l)
    BY DEF CountInv
  <2> HIDE DEF old
  <2>3. Fated(l, "dropped")' = Fated(l, "dropped") /\ Fated(l, "sent") \in Nat
        /\ Fated(l, "failed") \in Nat /\ Fated(l, "dropped") \in Nat
    BY <1>9 DEF Ends
  <2>4. CASE answer = "sent"
    <3>1. stats'[l].sent = old.sent + n /\ stats'[l].dropped = old.dropped
          /\ stats'[l].failed = old.failed
      BY <2>1, <2>4 DEF Answered, StatsType
    <3>2. Fated(l, "sent")' = Fated(l, "sent") + n /\ Fated(l, "failed")' = Fated(l, "failed")
      BY <1>9, <2>4 DEF Ends
    <3> QED
      BY <2>2, <2>3, <3>1, <3>2 DEF CountInv
  <2>5. CASE answer = "failed"
    <3>1. stats'[l].sent = old.sent /\ stats'[l].dropped = old.dropped
          /\ stats'[l].failed = old.failed + 1 /\ old.failed \in Nat
      BY <2>1, <2>5 DEF Answered, StatsType
    <3>2. Fated(l, "sent")' = Fated(l, "sent") /\ Fated(l, "failed")' = Fated(l, "failed") + n
      BY <1>9, <2>3, <2>5 DEF Ends
    <3> DEFINE f == old.failed
               d == Fated(l, "failed")
               m == Limit(l)
    <3>3. f \in Nat /\ d \in Nat /\ m \in Nat /\ n \in Nat /\ f <= d /\ d <= f * m /\ n >= 1 /\ n <= m
      BY <1>2, <1>3, <2>2, <2>3, <3>1 DEF n, batch
    <3> HIDE DEF f, d, m
    <3>4. (f + 1) * m = f * m + m /\ f * m \in Nat
      BY <3>3
    <3>5. f + 1 <= d + n /\ d + n <= (f + 1) * m
      BY <3>3, <3>4
    <3>6. stats'[l].failed = f + 1 /\ Fated(l, "failed")' = d + n
      BY <3>1, <3>2 DEF f, d
    <3>7. /\ stats'[l].failed <= Fated(l, "failed")'
          /\ Fated(l, "failed")' <= stats'[l].failed * m
      BY <3>5, <3>6
    <3>8. stats'[l].sent = Fated(l, "sent")' /\ stats'[l].dropped = Fated(l, "dropped")'
      BY <2>2, <2>3, <3>1, <3>2
    <3> QED
      BY <3>7, <3>8 DEF CountInv, m
  <2> QED
    BY <2>4, <2>5
<1>11. Queued(l)' = Queued(l) /\ made'[l] = made[l] /\ Gone(l)' = Gone(l) \cup B
  <2>1. Gone(l)' = Gone(l) \cup B
    BY <1>4, <1>8 DEF Gone
  <2> QED
    BY <2>1 DEF Queued
<1>12. /\ ~Sending(l, w)'
       /\ \A v \in Workers : v # w => (Sending(l, v)' <=> Sending(l, v)) /\ BatchOf(l, v)' = BatchOf(l, v)
                                      /\ worker'[l][v] = worker[l][v]
  BY DEF Sending, BatchOf, WorkerMoves
<1>13. Held(l)' = Held(l) \ B
  <2>1. \A i : i \in Held(l)' <=> i \in Held(l) /\ i \notin B
    BY <1>1, <1>2, <1>12, LaneSets, LaneSetsNext DEF PlaceInv
  <2> QED
    BY <2>1
<1>14. PlaceInv(l)'
  <2>1. \A v \in Workers :
          Sending(l, v)' => worker'[l][v].batch # <<>> /\ Rising(worker'[l][v].batch)
    BY <1>12 DEF PlaceInv
  <2>2. \A v, u \in Workers : Sending(l, v)' /\ Sending(l, u)' /\ v # u
           => BatchOf(l, v)' \cap BatchOf(l, u)' = {}
    BY <1>12 DEF PlaceInv
  <2>3. /\ Queued(l)' \cup Held(l)' \cup Gone(l)' = 1..made'[l]
        /\ Queued(l)' \cap Held(l)' = {} /\ (Queued(l)' \cup Held(l)') \cap Gone(l)' = {}
    BY <1>5, <1>11, <1>13 DEF PlaceInv
  <2> QED
    BY <2>1, <2>2, <2>3 DEF PlaceInv
<1> QED
  BY <1>10, <1>11, <1>12, <1>13, <1>14

LEMMA RequeuePlaces ==
  ASSUME TypeInv, TypeInv', NEW c \in Callers, Requeue(c), NEW l \in Lanes, PlaceInv(l), CountInv(l)
  PROVE  /\ PlaceInv(l)' /\ CountInv(l)' /\ Queued(l)' = {} /\ Held(l)' = Held(l)
         /\ Gone(l) \subseteq Gone(l)' /\ \A i \in Queued(l) : fate'[l][i] = "left"
         /\ \A i \in Ids : fate[l][i] = "left" => fate'[l][i] = "left"
<1>1. TypeOK
  BY DEF TypeInv
<1>2. /\ queue'[l] = <<>> /\ made'[l] = made[l] /\ stats'[l] = stats[l]
      /\ fate'[l] = [i \in Ids |-> IF i \in Queued(l) THEN "left" ELSE fate[l][i]]
  BY DEF Requeue, NewQueues, Queued
<1>3. Queued(l) \subseteq Ids /\ \A i \in Queued(l) : fate[l][i] = "no"
  BY <1>1, PlaceFacts
<1> DEFINE S == Queued(l)
<1> HIDE DEF S
<1>4. /\ S \subseteq Ids /\ \A i \in S : fate[l][i] = "no" /\ fate'[l][i] = "left"
      /\ \A i \in Ids : i \notin S => fate'[l][i] = fate[l][i]
  BY <1>2, <1>3 DEF S
<1>5. \A x \in Ends : /\ Fated(l, x) \in Nat /\ Cardinality(S) \in Nat
                      /\ Fated(l, x)' = Fated(l, x) + (IF x = "left" THEN Cardinality(S) ELSE 0)
  BY <1>4, EndsCounted DEF Ends
<1>6. \A x \in {"sent", "dropped", "failed"} : Fated(l, x)' = Fated(l, x)
  BY <1>5 DEF Ends
<1>7. CountInv(l)'
  BY <1>2, <1>6 DEF CountInv
<1>8. SendsKept(l)
  BY DEF Requeue, SendsKept
<1>9. /\ Held(l)' = Held(l)
      /\ \A w \in Workers : Sending(l, w)' <=> Sending(l, w)
      /\ \A w \in Workers : Sending(l, w) => BatchOf(l, w)' = BatchOf(l, w)
  BY <1>8, HeldStays
<1>10. Queued(l)' = {} /\ Gone(l)' = Gone(l) \cup S
  <2>1. Queued(l)' = {}
    BY <1>2 DEF Queued
  <2>2. Gone(l)' = Gone(l) \cup S
    BY <1>4 DEF Gone
  <2> QED
    BY <2>1, <2>2
<1>11. PlaceInv(l)'
  <2>1. Rising(queue'[l])
    BY <1>2 DEF Rising
  <2>2. \A w \in Workers :
          Sending(l, w)' => worker'[l][w].batch # <<>> /\ Rising(worker'[l][w].batch)
    BY <1>8, <1>9 DEF PlaceInv, SendsKept, Sending
  <2>3. \A v, w \in Workers :
          Sending(l, v)' /\ Sending(l, w)' /\ v # w => BatchOf(l, v)' \cap BatchOf(l, w)' = {}
    BY <1>9 DEF PlaceInv
  <2>4. /\ Queued(l)' \cup Held(l)' \cup Gone(l)' = 1..made'[l]
        /\ Queued(l)' \cap Held(l)' = {} /\ (Queued(l)' \cup Held(l)') \cap Gone(l)' = {}
    BY <1>2, <1>9, <1>10 DEF PlaceInv, S
  <2> QED
    BY <2>1, <2>2, <2>3, <2>4 DEF PlaceInv
<1>12. \A i \in Ids : fate[l][i] = "left" => fate'[l][i] = "left"
  BY <1>2
<1> QED
  BY <1>4, <1>7, <1>9, <1>10, <1>11, <1>12 DEF S

(* The other steps move no record.                                         *)
Quietly ==
  \/ \E c \in Callers :
       \/ Adopt(c) \/ Rethread(c) \/ Look(c) \/ Create(c) \/ Count(c)
       \/ FlushFirst(c) \/ FlushSecond(c) \/ FlushReturn(c) \/ Flush(c)
       \/ \E lane \in Lanes : Emit(c, lane)
  \/ Close
  \/ \E l \in Lanes, w \in Workers : Drained(l, w) \/ Check(l, w) \/ Ack(l, w)

LEMMA SendsKeptBy ==
  ASSUME TypeOK, NEW l \in Lanes, NEW w \in Workers, NEW s, WorkerMoves(l, w, s),
         worker[l][w].pc # "send", s.pc # "send"
  PROVE  \A k \in Lanes : SendsKept(k)
BY DEF WorkerMoves, SendsKept

LEMMA QuietPlaces ==
  ASSUME TypeInv, Quietly
  PROVE  /\ \A l \in Lanes : SendsKept(l)
         /\ UNCHANGED <<queue, made, fate, arrived, unseen, theirs>>
         /\ \A l \in Lanes : /\ stats'[l].sent = stats[l].sent
                             /\ stats'[l].dropped = stats[l].dropped
                             /\ stats'[l].failed = stats[l].failed
<1>1. TypeOK
  BY DEF TypeInv
<1>2. ASSUME NEW c \in Callers, Count(c)
      PROVE  /\ \A l \in Lanes : SendsKept(l)
             /\ UNCHANGED <<queue, made, fate, arrived, unseen, theirs>>
             /\ \A l \in Lanes : /\ stats'[l].sent = stats[l].sent
                                 /\ stats'[l].dropped = stats[l].dropped
                                 /\ stats'[l].failed = stats[l].failed
  <2>1. UNCHANGED <<worker, queue, made, fate, arrived, unseen, theirs>>
    BY <1>2 DEF Count, history
  <2>2. stats'["links"] = stats["links"]
        /\ stats'["records"] = [stats["records"] EXCEPT !.enqueued = @ + 1]
    BY <1>2, CountType
  <2>3. stats["records"] \in StatsType
    BY <1>1 DEF TypeOK, StatsType, Lanes
  <2>4. /\ stats'["records"].sent = stats["records"].sent
        /\ stats'["records"].dropped = stats["records"].dropped
        /\ stats'["records"].failed = stats["records"].failed
    BY <2>2, <2>3 DEF StatsType
  <2> QED
    BY <2>1, <2>2, <2>4 DEF SendsKept, Lanes
<1>3. ASSUME NEW c \in Callers, Create(c)
      PROVE  (\A l \in Lanes : SendsKept(l)) /\ UNCHANGED <<queue, stats, history>>
  <2>1. UNCHANGED <<queue, stats, history>>
    BY <1>3 DEF Create
  <2> DEFINE s == [Dead EXCEPT !.pc = "drain"]
  <2>2. \/ UNCHANGED worker
        \/ \E w \in Workers : /\ worker[caller[c].lane][w].pc = "dead"
                              /\ worker' = [worker EXCEPT ![caller[c].lane][w] = s]
    BY <1>3 DEF Create
  <2>3. s \in WorkerStep /\ s.pc = "drain" /\ caller[c].lane \in Lanes
    BY <1>1, ConstantFacts DEF WorkerStep, Dead, TypeOK, CallerStep
  <2> HIDE DEF s
  <2>4. CASE UNCHANGED worker
    BY <2>1, <2>4 DEF SendsKept
  <2>5. ASSUME NEW w \in Workers, worker[caller[c].lane][w].pc = "dead",
               worker' = [worker EXCEPT ![caller[c].lane][w] = s]
        PROVE  \A l \in Lanes : SendsKept(l)
    BY <1>1, <2>3, <2>5, WorkerMovesOn, SendsKeptBy
  <2> QED
    BY <2>1, <2>2, <2>4, <2>5
<1>4. ASSUME NEW l \in Lanes, NEW w \in Workers, Drained(l, w) \/ Check(l, w) \/ Ack(l, w)
      PROVE  (\A k \in Lanes : SendsKept(k)) /\ UNCHANGED <<queue, stats, history>>
  <2>1. CASE Drained(l, w) \/ Check(l, w)
    <3>1. PICK s \in WorkerStep :
             /\ WorkerMoves(l, w, s) /\ s.pc \in {"dead", "drain", "check"}
             /\ worker[l][w].pc \in {"drain", "check"}
             /\ UNCHANGED <<pid, stop, queue, inflight, thread, caller, stats, history, flushes>>
      BY <1>1, <2>1, LooksDo
    <3> QED
      BY <1>1, <3>1, SendsKeptBy
  <2>2. CASE Ack(l, w)
    <3>1. PICK s \in WorkerStep :
             /\ WorkerMoves(l, w, s) /\ s.pc = "drain" /\ worker[l][w].pc = "ack"
             /\ UNCHANGED <<pid, stop, queue, thread, caller, stats, history, flushes>>
      BY <1>1, <2>2, AckDoes
    <3> QED
      BY <1>1, <3>1, SendsKeptBy
  <2> QED
    BY <1>4, <2>1, <2>2
<1>5. ASSUME NEW c \in Callers,
             Adopt(c) \/ Rethread(c) \/ Look(c) \/ FlushFirst(c) \/ FlushSecond(c) \/ FlushReturn(c)
      PROVE  UNCHANGED <<worker, queue, stats, history>>
  BY <1>5 DEF Adopt, Rethread, Look, FlushFirst, FlushSecond, FlushReturn
<1>6. ASSUME NEW c \in Callers, Flush(c) \/ \E lane \in Lanes : Emit(c, lane)
      PROVE  UNCHANGED <<worker, queue, stats, history>>
  BY <1>6 DEF Flush, Emit, Enter
<1>7. ASSUME Close PROVE UNCHANGED <<worker, queue, stats, history>>
  BY <1>7 DEF Close
<1>8. UNCHANGED worker => \A l \in Lanes : SendsKept(l)
  BY DEF SendsKept
<1> QED
  BY <1>2, <1>3, <1>4, <1>5, <1>6, <1>7, <1>8 DEF Quietly, history

LEMMA NextSplits ==
  ASSUME Next
  PROVE  \/ Quietly
         \/ \E c \in Callers : Push(c) \/ Requeue(c)
         \/ \E l \in Lanes, w \in Workers : Take(l, w) \/ Post(l, w)
BY DEF Next, Caller, Worker, Quietly

(* What Take and Post leave alone in the other lane.                       *)
LEMMA OtherLane ==
  ASSUME TypeInv, NEW l \in Lanes, NEW w \in Workers, Take(l, w) \/ Post(l, w),
         NEW k \in Lanes, k # l
  PROVE  /\ SendsKept(k) /\ queue'[k] = queue[k] /\ fate'[k] = fate[k] /\ made' = made
         /\ stats'[k] = stats[k] /\ arrived'[k] = arrived[k] /\ inflight'[k] = inflight[k]
         /\ \A v \in Workers : worker'[k][v] = worker[k][v]
<1>1. TypeOK
  BY DEF TypeInv
<1>2. CASE Take(l, w)
  <2>1. PICK n \in 1..Len(queue[l]), s \in WorkerStep :
           /\ WorkerMoves(l, w, s)
           /\ queue' = [queue EXCEPT ![l] = SubSeq(queue[l], n + 1, Len(queue[l]))]
           /\ inflight' = [inflight EXCEPT ![l] = @ + 1]
           /\ UNCHANGED <<stats, history>>
    BY <1>1, <1>2, TakeDoes
  <2>2. \A v \in Workers : worker'[k][v] = worker[k][v]
    BY <2>1 DEF WorkerMoves
  <2>3. queue'[k] = queue[k] /\ inflight'[k] = inflight[k]
    BY <1>1, <2>1 DEF TypeOK
  <2> QED
    BY <2>1, <2>2, <2>3 DEF history, SendsKept
<1>3. CASE Post(l, w)
  <2>1. PICK answer \in {"sent", "failed"}, got \in BOOLEAN, s \in WorkerStep :
           /\ arrived' = IF got THEN [arrived EXCEPT ![l] = @ \cup BatchOf(l, w)] ELSE arrived
           /\ WorkerMoves(l, w, s)
           /\ UNCHANGED <<stats, fate>> \/ Settles(l, w, answer)
           /\ UNCHANGED <<queue, made, inflight>>
    BY <1>1, <1>3, PostDoes
  <2>2. \A v \in Workers : worker'[k][v] = worker[k][v]
    BY <2>1 DEF WorkerMoves
  <2>3. stats'[k] = stats[k] /\ fate'[k] = fate[k]
    BY <1>1, <2>1 DEF TypeOK, Settles
  <2>4. arrived'[k] = arrived[k]
    BY <1>1, <2>1 DEF TypeOK
  <2> QED
    BY <2>1, <2>2, <2>3, <2>4 DEF SendsKept
<1> QED
  BY <1>2, <1>3

(* An answer settles its batch, or the batch stays and is posted again.    *)
LEMMA PostPlaces ==
  ASSUME TypeInv, TypeInv', NEW l \in Lanes, NEW w \in Workers, Post(l, w),
         PlaceInv(l), CountInv(l)
  PROVE  /\ PlaceInv(l)' /\ CountInv(l)' /\ Queued(l)' = Queued(l) /\ Gone(l) \subseteq Gone(l)'
         /\ Held(l)' \subseteq Held(l)
         /\ \A v \in Workers : Sending(l, v)' => Sending(l, v)
<1>1. TypeOK
  BY DEF TypeInv
<1>2. PICK answer \in {"sent", "failed"}, got \in BOOLEAN, s \in WorkerStep :
           /\ WorkerMoves(l, w, s) /\ worker[l][w].pc = "send" /\ s.batch = worker[l][w].batch
           /\ \/ s.pc = "send" /\ UNCHANGED <<stats, fate>>
              \/ s.pc = "ack" /\ Settles(l, w, answer)
           /\ UNCHANGED <<queue, made>>
  BY <1>1, PostDoes
<1>3. CASE s.pc = "ack" /\ Settles(l, w, answer)
  BY <1>2, <1>3, SettlePlaces
<1>4. CASE s.pc = "send" /\ UNCHANGED <<stats, fate>>
  <2>1. SendsKept(l)
    BY <1>2, <1>4 DEF WorkerMoves, SendsKept
  <2> QED
    BY <1>2, <1>4, <2>1, PlaceKept, CountKept, HeldStays
<1> QED
  BY <1>2, <1>3, <1>4

LEMMA LanesAccounted ==
  ASSUME TypeInv, TypeInv', Next, \A l \in Lanes : PlaceInv(l) /\ CountInv(l)
  PROVE  /\ \A l \in Lanes : PlaceInv(l)' /\ CountInv(l)'
         /\ \A l \in Lanes : Gone(l) \subseteq Gone(l)' /\ made[l] <= made'[l]
<1>0. \A l \in Lanes : made[l] \in Nat
  BY DEF TypeInv, TypeOK
<1>1. CASE Quietly
  BY <1>0, <1>1, QuietPlaces, PlaceKept, CountKept
<1>2. ASSUME NEW c \in Callers, Push(c)
      PROVE  \A l \in Lanes : /\ PlaceInv(l)' /\ CountInv(l)'
                              /\ Gone(l) \subseteq Gone(l)' /\ made[l] <= made'[l]
  <2>1. PICK lane \in Lanes : caller[c].lane = lane
    BY DEF TypeInv, TypeOK, CallerStep
  <2>2. \A l \in Lanes : PlaceInv(l)' /\ CountInv(l)'
    BY <1>2, <2>1, PushPlaces
  <2>3. \A l \in Lanes : l # lane => Gone(l)' = Gone(l) /\ made'[l] = made[l]
    BY <1>2, <2>1, PushPlaces
  <2>4. Gone(lane) \subseteq Gone(lane)' /\ made'[lane] = made[lane] + 1
    BY <1>2, <2>1, PushPlaces
  <2>5. \A l \in Lanes : made[l] <= made'[l]
    BY <1>0, <2>3, <2>4
  <2> QED
    BY <2>2, <2>3, <2>4, <2>5
<1>3. ASSUME NEW c \in Callers, Requeue(c)
      PROVE  \A l \in Lanes : /\ PlaceInv(l)' /\ CountInv(l)'
                              /\ Gone(l) \subseteq Gone(l)' /\ made[l] <= made'[l]
  <2>1. made' = made
    BY <1>3 DEF Requeue
  <2> QED
    BY <1>0, <1>3, <2>1, RequeuePlaces
<1>4. ASSUME NEW l \in Lanes, NEW w \in Workers, Take(l, w) \/ Post(l, w)
      PROVE  \A k \in Lanes : /\ PlaceInv(k)' /\ CountInv(k)'
                              /\ Gone(k) \subseteq Gone(k)' /\ made[k] <= made'[k]
  <2>1. ASSUME NEW k \in Lanes, k # l
        PROVE  PlaceInv(k)' /\ CountInv(k)' /\ Gone(k)' = Gone(k) /\ made'[k] = made[k]
    BY <1>4, <2>1, OtherLane, PlaceKept, CountKept
  <2>2. CASE Take(l, w)
    <3>1. PlaceInv(l)' /\ Gone(l)' = Gone(l)
      BY <2>2, TakePlaces
    <3>2. UNCHANGED <<stats, fate, made>>
      BY <2>2 DEF Take, history
    <3>3. CountInv(l)'
      BY <3>2, CountKept
    <3> QED
      BY <1>0, <2>1, <3>1, <3>2, <3>3
  <2>3. CASE Post(l, w)
    <3>1. PlaceInv(l)' /\ CountInv(l)' /\ Gone(l) \subseteq Gone(l)'
      BY <2>3, PostPlaces
    <3>2. made' = made
      BY <2>3 DEF Post
    <3> QED
      BY <1>0, <2>1, <3>1, <3>2
  <2> QED
    BY <1>4, <2>2, <2>3
<1> QED
  BY <1>1, <1>2, <1>3, <1>4, NextSplits

-----------------------------------------------------------------------------
(* The "enqueued" counter is behind by the callers about to bump it.       *)
LEMMA CountingStays ==
  ASSUME TypeInv, NEW c \in Callers, NEW s \in CallerStep, CallerMoves(c, s),
         caller[c].pc # "count", s.pc # "count"
  PROVE  Counting' = Counting
<1>1. \A d \in Callers : caller'[d].pc = "count" <=> caller[d].pc = "count"
  BY DEF CallerMoves
<1> QED
  BY <1>1 DEF Counting

LEMMA GotoCounts ==
  ASSUME TypeInv, NEW c \in Callers, NEW pc \in CallerPcs, Goto(c, pc),
         caller[c].pc # "count", pc # "count"
  PROVE  Counting' = Counting
<1>1. TypeOK
  BY DEF TypeInv
<1>2. PICK s \in CallerStep : CallerMoves(c, s) /\ s.pc = pc
  BY <1>1, GotoMoves
<1> QED
  BY <1>2, CountingStays

LEMMA CallersCount ==
  ASSUME TypeInv, NEW c \in Callers,
         \/ Adopt(c) \/ Requeue(c) \/ Rethread(c) \/ Look(c) \/ Create(c)
         \/ FlushFirst(c) \/ FlushSecond(c) \/ FlushReturn(c) \/ Flush(c)
         \/ \E lane \in Lanes : Emit(c, lane)
  PROVE  Counting' = Counting
<1>1. TypeOK
  BY DEF TypeInv
<1>2. ASSUME NEW lane \in Lanes, NEW flush \in BOOLEAN, Enter(c, lane, flush)
      PROVE  Counting' = Counting
  <2> DEFINE s == [pc |-> IF pid = "parent" THEN "adopt"
                          ELSE IF Alive(lane) THEN After(flush) ELSE "create",
                   lane |-> lane, flush |-> flush, mark |-> IF flush THEN made ELSE Idle.mark]
  <2>1. s \in CallerStep /\ s.pc # "count" /\ caller[c].pc = "idle"
    BY <1>1, <1>2 DEF CallerStep, After, TypeOK, Idle, Enter
  <2>2. caller' = [caller EXCEPT ![c] = s]
    BY <1>2 DEF Enter
  <2> HIDE DEF s
  <2>3. CallerMoves(c, s)
    BY <1>1, <2>1, <2>2, CallerMovesOn
  <2> QED
    BY <2>1, <2>3, CountingStays
<1>3. CASE Flush(c) \/ \E lane \in Lanes : Emit(c, lane)
  BY <1>2, <1>3 DEF Flush, Emit, Lanes
<1>4. CASE Adopt(c)
  BY <1>4, GotoCounts DEF Adopt, CallerPcs
<1>5. CASE Requeue(c)
  BY <1>5, GotoCounts DEF Requeue, CallerPcs
<1>6. CASE Rethread(c)
  BY <1>6, GotoCounts DEF Rethread, CallerPcs
<1>7. CASE Look(c)
  <2>1. \A flush : After(flush) \in CallerPcs \ {"count"}
    BY DEF After, CallerPcs
  <2>2. "create" \in CallerPcs \ {"count"} /\ caller[c].pc = "look"
    BY <1>7 DEF CallerPcs, Look
  <2> QED
    BY <1>7, <2>1, <2>2, GotoCounts DEF Look
<1>8. CASE Create(c)
  <2>1. \A flush : After(flush) \in CallerPcs \ {"count"}
    BY DEF After, CallerPcs
  <2> QED
    BY <1>8, <2>1, GotoCounts DEF Create
<1>9. CASE FlushFirst(c)
  BY <1>9, GotoCounts DEF FlushFirst, CallerPcs
<1>10. CASE FlushSecond(c)
  <2>1. "flushed" \in CallerPcs \ {"count"} /\ "idle1" \in CallerPcs \ {"count"}
    BY DEF CallerPcs
  <2> QED
    BY <1>10, <2>1, GotoCounts DEF FlushSecond
<1>11. CASE FlushReturn(c)
  BY <1>11, GotoCounts DEF FlushReturn, CallerPcs
<1> QED
  BY <1>3, <1>4, <1>5, <1>6, <1>7, <1>8, <1>9, <1>10, <1>11

LEMMA EnqueuedStep ==
  ASSUME TypeInv, TypeInv', Next, EnqueuedInv, \A l \in Lanes : PlaceInv(l) /\ CountInv(l)
  PROVE  EnqueuedInv'
<1> DEFINE enq == stats["records"].enqueued
<1>1. /\ IsFiniteSet(Counting) /\ Cardinality(Counting) \in Nat
      /\ made["records"] \in Nat /\ stats["records"].enqueued \in Nat /\ "records" \in Lanes
      /\ TypeOK
  <2>1. IsFiniteSet(Counting)
    BY ConstantFacts, FS_Subset DEF Counting
  <2> QED
    BY <2>1, FS_CardinalityType DEF TypeInv, TypeOK, Lanes
<1>2. ASSUME Counting' = Counting, made'["records"] = made["records"],
             stats'["records"].enqueued = stats["records"].enqueued
      PROVE  EnqueuedInv'
  BY <1>2 DEF EnqueuedInv
<1>3. ASSUME NEW c \in Callers, Count(c) PROVE EnqueuedInv'
  <2>1. /\ CallerMoves(c, Idle) /\ caller[c].pc = "count"
        /\ stats'["records"] = [stats["records"] EXCEPT !.enqueued = @ + 1]
        /\ made' = made
    BY <1>3, CountType DEF Count, history
  <2>2. stats["records"] \in StatsType
    BY <1>1 DEF TypeOK, StatsType
  <2>3. stats'["records"].enqueued = stats["records"].enqueued + 1
    BY <2>1, <2>2 DEF StatsType
  <2>4. Counting' = Counting \ {c} /\ c \in Counting
    <3>1. \A d \in Callers : caller'[d].pc = "count" <=> caller[d].pc = "count" /\ d # c
      BY <2>1 DEF CallerMoves, Idle
    <3> QED
      BY <2>1, <3>1 DEF Counting
  <2>5. Cardinality(Counting') = Cardinality(Counting) - 1
    BY <1>1, <2>4, FS_RemoveElement
  <2> QED
    BY <1>1, <2>1, <2>3, <2>5 DEF EnqueuedInv
<1>4. ASSUME NEW c \in Callers, Push(c) PROVE EnqueuedInv'
  <2>1. PICK lane \in Lanes : caller[c].lane = lane
    BY <1>1 DEF TypeOK, CallerStep
  <2> DEFINE pc == IF lane = "records" THEN "count" ELSE "idle"
  <2>2. PICK s \in CallerStep : CallerMoves(c, s) /\ s.pc = pc
    <3>1. pc \in CallerPcs /\ Goto(c, pc)
      BY <1>4, <2>1 DEF Push, CallerPcs
    <3> HIDE DEF pc
    <3> QED
      BY <1>1, <3>1, GotoMoves
  <2>3. stats'["records"].enqueued = stats["records"].enqueued
    <3>1. stats \in [Lanes -> StatsType]
      BY <1>1 DEF TypeOK, StatsType
    <3>2. stats' = stats \/ stats' = [stats EXCEPT ![lane].dropped = @ + 1]
      BY <1>4, <2>1 DEF Push
    <3> QED
      BY <1>1, <3>1, <3>2 DEF StatsType
  <2>4. caller[c].pc = "append"
    BY <1>4 DEF Push
  <2>5. CASE lane = "records"
    <3>1. Counting' = Counting \cup {c} /\ c \notin Counting
      <4>1. \A d \in Callers : caller'[d].pc = "count" <=> caller[d].pc = "count" \/ d = c
        BY <2>2, <2>5 DEF CallerMoves
      <4> QED
        BY <2>4, <4>1 DEF Counting
    <3>2. Cardinality(Counting') = Cardinality(Counting) + 1
      BY <1>1, <3>1, FS_AddElement
    <3>3. made'["records"] = made["records"] + 1
      BY <1>4, <2>1, <2>5, PushPlaces
    <3> QED
      BY <1>1, <2>3, <3>2, <3>3 DEF EnqueuedInv
  <2>6. CASE lane # "records"
    <3>1. Counting' = Counting
      BY <2>2, <2>4, <2>6, CountingStays
    <3>2. made'["records"] = made["records"]
      BY <1>1, <1>4, <2>1, <2>6, PushPlaces
    <3> QED
      BY <1>2, <2>3, <3>1, <3>2
  <2> QED
    BY <2>5, <2>6
<1>5. ASSUME NEW c \in Callers,
             \/ Adopt(c) \/ Requeue(c) \/ Rethread(c) \/ Look(c) \/ Create(c)
             \/ FlushFirst(c) \/ FlushSecond(c) \/ FlushReturn(c) \/ Flush(c)
             \/ \E lane \in Lanes : Emit(c, lane)
      PROVE  EnqueuedInv'
  <2>1. Counting' = Counting
    BY <1>5, CallersCount
  <2>2. UNCHANGED <<made, stats>>
    <3>1. CASE Adopt(c) \/ Requeue(c) \/ Rethread(c) \/ Look(c) \/ Create(c)
      BY <3>1 DEF Adopt, Requeue, Rethread, Look, Create, history
    <3>2. CASE FlushFirst(c) \/ FlushSecond(c) \/ FlushReturn(c)
      BY <3>2 DEF FlushFirst, FlushSecond, FlushReturn, history
    <3>3. CASE Flush(c) \/ \E lane \in Lanes : Emit(c, lane)
      BY <3>3 DEF Flush, Emit, Enter, history
    <3> QED
      BY <1>5, <3>1, <3>2, <3>3
  <2> QED
    BY <1>2, <2>1, <2>2
<1>6. ASSUME NEW l \in Lanes, NEW w \in Workers, Worker(l, w) PROVE EnqueuedInv'
  <2>1. caller' = caller /\ made' = made
    BY <1>6 DEF Worker, Take, Drained, Check, Post, Ack, history
  <2>2. stats'["records"].enqueued = stats["records"].enqueued
    <3>1. CASE Post(l, w)
      <4>1. stats \in [Lanes -> StatsType]
        BY <1>1 DEF TypeOK, StatsType
      <4>2. \A old \in StatsType : \A answer, n : Answered(old, answer, n).enqueued = old.enqueued
        BY DEF Answered, StatsType
      <4>3. PICK answer \in {"sent", "failed"} : UNCHANGED <<stats, fate>> \/ Settles(l, w, answer)
        BY <1>1, <3>1, PostDoes
      <4> QED
        BY <1>1, <4>1, <4>2, <4>3 DEF Settles
    <3>2. CASE Take(l, w) \/ Drained(l, w) \/ Check(l, w) \/ Ack(l, w)
      BY <3>2 DEF Take, Drained, Check, Ack
    <3> QED
      BY <1>6, <3>1, <3>2 DEF Worker
  <2>3. Counting' = Counting
    BY <2>1 DEF Counting
  <2> QED
    BY <1>2, <2>1, <2>2, <2>3
<1>7. CASE Close
  BY <1>2, <1>7 DEF Close, Counting, history
<1> QED
  BY <1>3, <1>4, <1>5, <1>6, <1>7 DEF Next, Caller

LEMMA AccountStutters ==
  ASSUME AccountInv, UNCHANGED vars
  PROVE  AccountInv'
<1>1. EnqueuedInv'
  BY DEF AccountInv, EnqueuedInv, Counting, vars
<1>2. \A l \in Lanes : SendsKept(l) /\ queue'[l] = queue[l] /\ fate'[l] = fate[l] /\ made'[l] = made[l]
                       /\ stats'[l] = stats[l]
  BY DEF vars, SendsKept
<1> QED
  BY <1>1, <1>2, PlaceKept, CountKept DEF AccountInv

LEMMA AccountStep == TypeInv /\ TypeInv' /\ AccountInv /\ [Next]_vars => AccountInv'
<1> SUFFICES ASSUME TypeInv, TypeInv', AccountInv, [Next]_vars PROVE AccountInv'
  OBVIOUS
<1>1. CASE Next
  BY <1>1, EnqueuedStep, LanesAccounted DEF AccountInv
<1> QED
  BY <1>1, AccountStutters

LEMMA AccountInit == Init => AccountInv
<1> SUFFICES ASSUME Init PROVE AccountInv
  OBVIOUS
<1>1. PICK n \in Inherited \cup {0} :
    /\ queue = [l \in Lanes |-> IF l = "records" THEN [i \in 1..n |-> i] ELSE <<>>]
    /\ worker = [l \in Lanes |-> [w \in Workers |-> Dead]]
    /\ caller = [c \in Callers |-> Idle]
    /\ stats = [l \in Lanes |-> [enqueued |-> IF l = "records" THEN n ELSE 0,
                                 dropped |-> 0, sent |-> 0, failed |-> 0]]
    /\ made = [l \in Lanes |-> IF l = "records" THEN n ELSE 0]
    /\ fate = [l \in Lanes |-> [i \in Ids |-> "no"]]
  BY DEF Init
<1>2. n \in Nat
  BY SdkAssumption
<1>3. EnqueuedInv
  <2>1. Counting = {}
    BY <1>1 DEF Counting, Idle
  <2>2. Cardinality(Counting) = 0
    BY <2>1, FS_EmptySet
  <2> QED
    BY <1>1, <1>2, <2>2 DEF EnqueuedInv, Lanes
<1>4. ASSUME NEW l \in Lanes PROVE PlaceInv(l) /\ CountInv(l)
  <2>1. \A w \in Workers : ~Sending(l, w)
    BY <1>1 DEF Sending, Dead
  <2>2. Held(l) = {}
    BY <2>1, LaneSets
  <2>3. Gone(l) = {}
    BY <1>1 DEF Gone
  <2>4. Queued(l) = 1..made[l] /\ Rising(queue[l])
    <3>1. CASE l = "records"
      <4>1. queue[l] = [i \in 1..n |-> i] /\ made[l] = n
        BY <1>1, <3>1
      <4> QED
        BY <1>2, <4>1 DEF Queued, Rising
    <3>2. CASE l # "records"
      <4>1. queue[l] = <<>> /\ made[l] = 0
        BY <1>1, <3>2
      <4> QED
        BY <4>1 DEF Queued, Rising
    <3> QED
      BY <3>1, <3>2
  <2>5. PlaceInv(l)
    BY <2>1, <2>2, <2>3, <2>4 DEF PlaceInv
  <2>6. \A x \in Ends : Fated(l, x) = 0
    <3>1. \A x \in Ends : {i \in Ids : fate[l][i] = x} = {}
      BY <1>1 DEF Ends
    <3> QED
      BY <3>1, FS_EmptySet DEF Fated
  <2>7. stats[l].sent = 0 /\ stats[l].dropped = 0 /\ stats[l].failed = 0
    BY <1>1
  <2>8. Limit(l) \in Nat
    BY ConstantFacts
  <2>9. CountInv(l)
    BY <2>6, <2>7, <2>8 DEF CountInv, Ends
  <2> QED
    BY <2>5, <2>9
<1> QED
  BY <1>3, <1>4 DEF AccountInv

LEMMA AccountImplies == TypeInv /\ AccountInv => RecordsAccounted
<1> SUFFICES ASSUME TypeInv, AccountInv PROVE RecordsAccounted
  OBVIOUS
<1>1. ASSUME NEW l \in Lanes PROVE Len(queue[l]) = Cardinality(Queued(l))
  <2>1. queue[l] \in Seq(Ids) /\ Rising(queue[l]) /\ Queued(l) = Elements(queue[l])
    BY LaneSets DEF TypeInv, TypeOK, AccountInv, PlaceInv
  <2> QED
    BY <2>1, RisingCounts
<1> QED
  BY <1>1 DEF RecordsAccounted, AccountInv, PlaceInv, CountInv, EnqueuedInv, Counting

(* No record is lost, kept twice or counted wrongly, whatever threads      *)
(* emit, flush, close and export, even when several threads of a forked    *)
(* child find the client at once.                                          *)
THEOREM EveryRecordAccounted == Spec => []RecordsAccounted
<1>1. Init => TypeInv /\ AccountInv
  BY TypeInit, AccountInit
<1>2. TypeInv /\ AccountInv /\ [Next]_vars => (TypeInv /\ AccountInv)'
  BY TypeStep, AccountStep
<1> QED
  BY <1>1, <1>2, AccountImplies, PTL DEF Spec
-----------------------------------------------------------------------------
(* Who moves while a forked child has not rebuilt its client.              *)

LEMMA CallerGoes ==
  ASSUME TypeInv, NEW c \in Callers, Caller(c)
  PROVE  \E s \in CallerStep :
           /\ CallerMoves(c, s) /\ caller[c].pc # "idle" /\ s.pc # "adopt"
           /\ s = Idle \/ s.mark = caller[c].mark
           /\ s.pc = "requeue" => Adopt(c)
           /\ s.pc = "rethread" => Requeue(c)
           /\ s.pc = "idle2" => FlushFirst(c)
           /\ s.pc = "flushed" => FlushSecond(c)
           /\ caller[c].pc = "adopt" => Adopt(c)
           /\ caller[c].pc = "requeue" => Requeue(c)
           /\ caller[c].pc = "rethread" => Rethread(c)
<1>1. TypeOK
  BY DEF TypeInv
<1>2. \E pc \in CallerPcs :
        /\ Goto(c, pc) /\ caller[c].pc # "idle" /\ pc # "adopt"
        /\ pc = "requeue" => Adopt(c)
        /\ pc = "rethread" => Requeue(c)
        /\ pc = "idle2" => FlushFirst(c)
        /\ pc = "flushed" => FlushSecond(c)
        /\ caller[c].pc = "adopt" => Adopt(c)
        /\ caller[c].pc = "requeue" => Requeue(c)
        /\ caller[c].pc = "rethread" => Rethread(c)
  <2>1. CASE Adopt(c) \/ Requeue(c) \/ Rethread(c)
    BY <2>1 DEF Adopt, Requeue, Rethread, CallerPcs
  <2>2. CASE Look(c)
    BY <2>2 DEF Look, CallerPcs, After
  <2>3. CASE Create(c)
    BY <2>3 DEF Create, CallerPcs, After
  <2>4. CASE Push(c) \/ Count(c)
    BY <2>4 DEF Push, Count, CallerPcs
  <2>5. CASE FlushFirst(c) \/ FlushReturn(c)
    BY <2>5 DEF FlushFirst, FlushReturn, CallerPcs
  <2>6. CASE FlushSecond(c)
    BY <2>6 DEF FlushSecond, CallerPcs
  <2> QED
    BY <2>1, <2>2, <2>3, <2>4, <2>5, <2>6 DEF Caller
<1>3. PICK pc \in CallerPcs :
        /\ Goto(c, pc) /\ caller[c].pc # "idle" /\ pc # "adopt"
        /\ pc = "requeue" => Adopt(c)
        /\ pc = "rethread" => Requeue(c)
        /\ pc = "idle2" => FlushFirst(c)
        /\ pc = "flushed" => FlushSecond(c)
        /\ caller[c].pc = "adopt" => Adopt(c)
        /\ caller[c].pc = "requeue" => Requeue(c)
        /\ caller[c].pc = "rethread" => Rethread(c)
  BY <1>2
<1>4. PICK s \in CallerStep :
        /\ CallerMoves(c, s) /\ s.pc = pc
        /\ IF pc = "idle" THEN s = Idle
           ELSE s.lane = caller[c].lane /\ s.flush = caller[c].flush /\ s.mark = caller[c].mark
  BY <1>1, <1>3, GotoMoves
<1> QED
  BY <1>3, <1>4

LEMMA EnterGoes ==
  ASSUME TypeInv, ~RaceAfterFork, NEW c \in Callers, Flush(c) \/ \E lane \in Lanes : Emit(c, lane)
  PROVE  /\ Replacing = {} /\ caller[c].pc = "idle"
         /\ UNCHANGED <<pid, stop, queue, inflight, thread, worker, stats, history>>
         /\ \E s \in CallerStep :
              /\ CallerMoves(c, s) /\ s.pc \in {"adopt", "append", "idle1", "create"}
              /\ s.pc = "adopt" <=> pid = "parent"
              /\ s.mark \in {made, Idle.mark}
<1>1. PICK lane \in Lanes, flush \in BOOLEAN : Enter(c, lane, flush)
  BY DEF Flush, Emit, Lanes
<1> DEFINE s == [pc |-> IF pid = "parent" THEN "adopt"
                        ELSE IF Alive(lane) THEN After(flush) ELSE "create",
                 lane |-> lane, flush |-> flush, mark |-> IF flush THEN made ELSE Idle.mark]
<1>2. TypeOK
  BY DEF TypeInv
<1>3. s \in CallerStep
  BY <1>2 DEF CallerStep, After, TypeOK, Idle
<1>4. /\ s.pc \in {"adopt", "append", "idle1", "create"} /\ (s.pc = "adopt" <=> pid = "parent")
      /\ s.mark \in {made, Idle.mark}
  BY DEF After
<1>5. caller' = [caller EXCEPT ![c] = s]
  BY <1>1 DEF Enter
<1> HIDE DEF s
<1>6. CallerMoves(c, s)
  BY <1>2, <1>3, <1>5, CallerMovesOn
<1>7. Replacing = {} /\ caller[c].pc = "idle"
      /\ UNCHANGED <<pid, stop, queue, inflight, thread, worker, stats, history>>
  BY <1>1 DEF Enter, Replacing
<1> QED
  BY <1>3, <1>4, <1>6, <1>7

(* A record that was left to the parent stays left.                        *)
LEMMA LeftStays ==
  ASSUME TypeInv, TypeInv', Next, \A l \in Lanes : PlaceInv(l) /\ CountInv(l)
  PROVE  \A l \in Lanes, i \in Ids : fate[l][i] = "left" => fate'[l][i] = "left"
<1>1. TypeOK
  BY DEF TypeInv
<1>2. CASE Quietly
  BY <1>2, QuietPlaces
<1>3. ASSUME NEW c \in Callers, Push(c)
      PROVE  \A l \in Lanes, i \in Ids : fate[l][i] = "left" => fate'[l][i] = "left"
  <2>1. PICK lane \in Lanes : caller[c].lane = lane
    BY <1>1 DEF TypeOK, CallerStep
  <2>2. CASE Full(lane)
    <3>1. fate' = [fate EXCEPT ![lane][Head(queue[lane])] = "dropped"]
      BY <1>3, <2>1, <2>2 DEF Push, OldestOut
    <3>2. queue[lane] \in Seq(Ids) /\ Len(queue[lane]) > 0 /\ Rising(queue[lane])
      BY <1>3, <2>1, <2>2, PushDoes DEF PlaceInv
    <3>3. Head(queue[lane]) \in Queued(lane)
      BY <3>2, TailRises, LaneSets
    <3>4. fate[lane][Head(queue[lane])] = "no" /\ Head(queue[lane]) \in Ids
      BY <1>1, <3>3, PlaceFacts
    <3>5. fate \in [Lanes -> [Ids -> Ends \cup {"no"}]]
      BY <1>1 DEF TypeOK, Ends
    <3> DEFINE h == Head(queue[lane])
    <3>6. h \in Ids /\ fate[lane][h] = "no" /\ fate' = [fate EXCEPT ![lane][h] = "dropped"]
      BY <3>1, <3>4
    <3> HIDE DEF h
    <3> QED
      BY <3>5, <3>6
  <2>3. CASE ~Full(lane)
    BY <1>3, <2>1, <2>3 DEF Push
  <2> QED
    BY <2>2, <2>3
<1>4. ASSUME NEW c \in Callers, Requeue(c)
      PROVE  \A l \in Lanes, i \in Ids : fate[l][i] = "left" => fate'[l][i] = "left"
  BY <1>4, RequeuePlaces
<1>5. ASSUME NEW l \in Lanes, NEW w \in Workers, Take(l, w)
      PROVE  \A k \in Lanes, i \in Ids : fate[k][i] = "left" => fate'[k][i] = "left"
  BY <1>5 DEF Take, history
<1>6. ASSUME NEW l \in Lanes, NEW w \in Workers, Post(l, w)
      PROVE  \A k \in Lanes, i \in Ids : fate[k][i] = "left" => fate'[k][i] = "left"
  <2>1. PICK answer \in {"sent", "failed"} :
          worker[l][w].pc = "send" /\ (UNCHANGED <<stats, fate>> \/ Settles(l, w, answer))
    BY <1>1, <1>6, PostDoes
  <2>2. \A i \in BatchOf(l, w) : fate[l][i] = "no"
    <3>1. BatchOf(l, w) \subseteq Held(l)
      BY <2>1, LaneSets DEF Sending
    <3> QED
      BY <1>1, <3>1, PlaceFacts
  <2>3. fate \in [Lanes -> [Ids -> Ends \cup {"no"}]]
    BY <1>1 DEF TypeOK, Ends
  <2>4. CASE Settles(l, w, answer)
    <3>1. fate' = [fate EXCEPT ![l] = [i \in Ids |-> IF i \in BatchOf(l, w) THEN answer ELSE fate[l][i]]]
      BY <2>4 DEF Settles
    <3> QED
      BY <2>2, <2>3, <3>1
  <2> QED
    BY <2>1, <2>4
<1> QED
  BY <1>2, <1>3, <1>4, <1>5, <1>6, NextSplits

(* A step after which no client is being rebuilt, as before it.            *)
LEMMA ForkStays ==
  ASSUME TypeInv, TypeInv', Next, \A l \in Lanes : PlaceInv(l) /\ CountInv(l), ForkInv,
         ~Unforked, pid' = pid, theirs' = theirs, Replacing' = {}
  PROVE  ForkInv' /\ ~Unforked'
<1>1. /\ pid' = "own" /\ ~Inheriting /\ theirs \subseteq Ids /\ "records" \in Lanes
      /\ \A i \in theirs : fate["records"][i] = "left"
  BY DEF TypeInv, TypeOK, Unforked, Inheriting, ForkInv, Lanes
<1>2. \A i \in theirs' : fate'["records"][i] = "left"
  BY <1>1, LeftStays
<1>3. \A c \in Callers : caller'[c].pc \notin {"adopt", "requeue", "rethread"}
  BY DEF Replacing
<1>4. ~Unforked' /\ ~Inheriting'
  BY <1>1, <1>3 DEF Unforked, Inheriting
<1> QED
  BY <1>1, <1>2, <1>3, <1>4 DEF ForkInv

(* While it is, only the caller that rebuilds it moves.                    *)
LEMMA NobodyMoves ==
  ASSUME TypeInv, ForkInv
  PROVE  /\ ~Unforked => Replacing = {}
         /\ \A c \in Callers : caller[c].pc # "idle" /\ c \notin Replacing => ~Unforked
         /\ \A l \in Lanes, w \in Workers : worker[l][w].pc # "dead" => ~Unforked
BY DEF ForkInv, Unforked, Replacing

LEMMA ReplaceStep ==
  ASSUME TypeInv, TypeInv', \A l \in Lanes : PlaceInv(l) /\ CountInv(l), ForkInv,
         NEW c \in Callers, Adopt(c) \/ Requeue(c) \/ Rethread(c)
  PROVE  ForkInv'
<1>1. PICK s \in CallerStep :
        /\ CallerMoves(c, s) /\ s.pc # "adopt"
        /\ s.pc = "requeue" => Adopt(c)
        /\ s.pc = "rethread" => Requeue(c)
        /\ caller[c].pc = "adopt" => Adopt(c)
        /\ caller[c].pc = "requeue" => Requeue(c)
        /\ caller[c].pc = "rethread" => Rethread(c)
  BY CallerGoes DEF Caller
<1>2. TypeOK /\ "records" \in Lanes
  BY DEF TypeInv, Lanes
<1>3. c \in Replacing /\ Unforked
  BY DEF Replacing, Unforked, ForkInv, Adopt, Requeue, Rethread
<1>4. \A d \in Callers : d # c => d \notin Replacing /\ caller[d].pc = "idle" /\ caller'[d].pc = "idle"
  BY <1>1, <1>3 DEF ForkInv, CallerMoves
<1>5. \A d \in Callers : caller'[d].pc \in {"requeue", "rethread"} => d = c
  BY <1>4
<1>6. \A d, e \in Replacing' : d = e
  BY <1>4 DEF Replacing
<1>7. \A l \in Lanes, w \in Workers : worker'[l][w].pc = "dead"
  BY <1>3 DEF ForkInv, Adopt, Requeue, Rethread
<1>8. \A l \in Lanes : inflight'[l] = 0 /\ arrived'[l] = {}
  BY <1>3 DEF ForkInv, Adopt, Requeue, Rethread, history
<1>9. theirs' = theirs
  BY DEF Adopt, Requeue, Rethread, history
<1>10. CASE Adopt(c)
  <2>1. /\ caller'[c].pc = "requeue" /\ pid' = "own" /\ queue' = queue
    BY <1>2, <1>10 DEF Adopt, Goto, TypeOK, CallerStep
  <2>2. pid = "parent"
    BY <1>10 DEF Adopt, ForkInv
  <2>3. theirs' \subseteq Queued("records")'
    BY <1>9, <2>1, <2>2 DEF ForkInv, Inheriting, Queued
  <2>4. Inheriting'
    BY <2>1 DEF Inheriting
  <2>5. \A d \in Callers \ Replacing' : caller'[d].pc = "idle"
    BY <1>4, <2>1 DEF Replacing
  <2> QED
    BY <1>4, <1>6, <1>7, <1>8, <2>1, <2>3, <2>4, <2>5 DEF ForkInv
<1>11. CASE Requeue(c)
  <2>1. caller'[c].pc = "rethread" /\ pid' = "own" /\ \A l \in Lanes : queue'[l] = <<>>
    BY <1>2, <1>11 DEF Requeue, Goto, TypeOK, CallerStep, NewQueues, ForkInv
  <2>2. theirs \subseteq Queued("records")
    BY <1>11 DEF ForkInv, Inheriting, Requeue
  <2>3. \A i \in theirs' : fate'["records"][i] = "left"
    BY <1>2, <1>9, <1>11, <2>2, RequeuePlaces
  <2>4. ~Inheriting'
    BY <1>4, <2>1 DEF Inheriting
  <2>5. \A d \in Callers \ Replacing' : caller'[d].pc = "idle"
    BY <1>4, <2>1 DEF Replacing
  <2> QED
    BY <1>4, <1>6, <1>7, <1>8, <2>1, <2>3, <2>4, <2>5 DEF ForkInv
<1>12. CASE Rethread(c)
  <2>1. caller'[c].pc = "look" /\ pid' = "own" /\ UNCHANGED <<queue, fate>>
    BY <1>2, <1>12 DEF Rethread, Goto, TypeOK, CallerStep, ForkInv, history
  <2>2. ~Inheriting
    BY <1>4, <1>12, <2>1 DEF Rethread, Inheriting, ForkInv
  <2>3. \A i \in theirs' : fate'["records"][i] = "left"
    BY <1>9, <2>1, <2>2 DEF ForkInv
  <2>4. ~Unforked' /\ ~Inheriting'
    BY <1>4, <2>1 DEF Unforked, Inheriting
  <2>5. Replacing' = {}
    BY <1>4, <2>1 DEF Replacing
  <2> QED
    BY <1>4, <1>6, <2>1, <2>3, <2>4, <2>5 DEF ForkInv
<1> QED
  BY <1>10, <1>11, <1>12

LEMMA ForkStep ==
  ASSUME TypeInv, TypeInv', Next, ~RaceAfterFork,
         \A l \in Lanes : PlaceInv(l) /\ CountInv(l), ForkInv
  PROVE  /\ ForkInv'
         /\ ~Unforked => ~Unforked'
<1>1. TypeOK
  BY DEF TypeInv
<1>2. ASSUME NEW c \in Callers, Flush(c) \/ \E lane \in Lanes : Emit(c, lane)
      PROVE  ForkInv' /\ (~Unforked => ~Unforked')
  <2>1. /\ Replacing = {} /\ caller[c].pc = "idle"
        /\ UNCHANGED <<pid, stop, queue, inflight, thread, worker, stats, history>>
    BY <1>2, EnterGoes
  <2>2. PICK s \in CallerStep :
          /\ CallerMoves(c, s) /\ s.pc \in {"adopt", "append", "idle1", "create"}
          /\ s.pc = "adopt" <=> pid = "parent"
    BY <1>2, EnterGoes
  <2>3. CASE pid = "parent"
    <3>1. \A d \in Callers : d # c => caller'[d] = caller[d]
      BY <2>2 DEF CallerMoves
    <3>2. caller'[c].pc = "adopt"
      BY <2>2, <2>3 DEF CallerMoves
    <3>3. Unforked /\ Inheriting
      BY <2>3 DEF Unforked, Inheriting
    <3>4. \A d \in Callers : caller[d].pc = "idle"
      BY <2>1, <3>3 DEF ForkInv
    <3>5. Replacing' = {c}
      BY <3>1, <3>2, <3>4 DEF Replacing
    <3>6. \A d \in Callers \ Replacing' : caller'[d].pc = "idle"
      BY <3>1, <3>4, <3>5
    <3>7. pid' = "parent" /\ theirs' \subseteq Queued("records")'
      BY <2>1, <2>3, <3>3 DEF ForkInv, Queued, history
    <3>8. Inheriting' /\ Unforked'
      BY <3>7 DEF Inheriting, Unforked
    <3>9. /\ \A l \in Lanes, w \in Workers : worker'[l][w].pc = "dead"
          /\ \A l \in Lanes : inflight'[l] = 0 /\ arrived'[l] = {}
      BY <2>1, <3>3 DEF ForkInv, history
    <3>10. \A d \in Callers : caller'[d].pc \notin {"requeue", "rethread"}
      BY <3>1, <3>2, <3>4
    <3> QED
      BY <3>3, <3>5, <3>6, <3>7, <3>8, <3>9, <3>10 DEF ForkInv
  <2>4. CASE pid # "parent"
    <3>1. Replacing' = {}
      BY <2>1, <2>2, <2>4 DEF Replacing, CallerMoves
    <3>2. ~Unforked
      BY <2>1, <2>4 DEF Unforked, Replacing
    <3>3. pid' = pid /\ theirs' = theirs
      BY <2>1 DEF history
    <3> QED
      BY <3>1, <3>2, <3>3, ForkStays
  <2> QED
    BY <2>3, <2>4
<1>3. ASSUME NEW c \in Callers, Adopt(c) \/ Requeue(c) \/ Rethread(c)
      PROVE  ForkInv' /\ (~Unforked => ~Unforked')
  <2>1. Unforked
    BY <1>3 DEF Unforked, ForkInv, Adopt, Requeue, Rethread
  <2> QED
    BY <1>3, <2>1, ReplaceStep
<1>4. ASSUME NEW c \in Callers, Caller(c), caller[c].pc \notin {"adopt", "requeue", "rethread"}
      PROVE  ForkInv' /\ (~Unforked => ~Unforked')
  <2>1. PICK s \in CallerStep :
          /\ CallerMoves(c, s) /\ caller[c].pc # "idle" /\ s.pc # "adopt"
          /\ s.pc = "requeue" => Adopt(c)
          /\ s.pc = "rethread" => Requeue(c)
    BY <1>4, CallerGoes
  <2>2. s.pc \notin {"adopt", "requeue", "rethread"}
    BY <1>4, <2>1 DEF Adopt, Requeue
  <2>3. ~Unforked /\ Replacing = {}
    BY <1>4, <2>1, NobodyMoves DEF Replacing
  <2>4. Replacing' = {}
    BY <2>1, <2>2, <2>3 DEF Replacing, CallerMoves
  <2>5. UNCHANGED <<pid, theirs>>
    BY <1>4 DEF Caller, Adopt, Requeue, Rethread, Look, Create, Push, Count, FlushFirst, FlushSecond,
                FlushReturn, history
  <2> QED
    BY <2>3, <2>4, <2>5, ForkStays
<1>5. CASE Close \/ \E l \in Lanes, w \in Workers : Worker(l, w)
  <2>1. UNCHANGED <<pid, theirs, caller>>
    BY <1>5 DEF Close, Worker, Take, Drained, Check, Post, Ack, history
  <2>2. Replacing' = Replacing
    BY <2>1 DEF Replacing
  <2>3. CASE Replacing = {} /\ ~Unforked
    BY <2>1, <2>2, <2>3, ForkStays
  <2>4. CASE Unforked
    <3>1. Close
      <4>1. ASSUME NEW l \in Lanes, NEW w \in Workers, Worker(l, w) PROVE FALSE
        <5>1. worker[l][w].pc # "dead"
          BY <4>1 DEF Worker, Take, Drained, Check, Post, Ack
        <5> QED
          BY <2>4, <5>1, NobodyMoves
      <4> QED
        BY <1>5, <4>1
    <3>2. UNCHANGED <<queue, inflight, worker, fate, arrived>>
      BY <3>1 DEF Close, history
    <3> QED
      BY <2>1, <2>4, <3>2 DEF ForkInv, Unforked, Inheriting, Replacing, Queued
  <2> QED
    BY <2>3, <2>4, NobodyMoves
<1>6. ASSUME NEW c \in Callers, Caller(c) PROVE ForkInv' /\ (~Unforked => ~Unforked')
  <2>1. caller[c].pc \in {"adopt", "requeue", "rethread"} => Adopt(c) \/ Requeue(c) \/ Rethread(c)
    BY <1>6, CallerGoes
  <2> QED
    BY <1>3, <1>4, <1>6, <2>1
<1> QED
  BY <1>2, <1>5, <1>6 DEF Next
-----------------------------------------------------------------------------
(* A lane's only thread moves.                                             *)
LEMMA OnlyThread ==
  ASSUME TypeOK, NEW l \in Lanes, NEW w \in Workers, ThreadInv(l), worker[l][w].pc # "dead"
  PROVE  /\ \A v \in Workers : v # w => worker[l][v].pc = "dead"
         /\ inflight[l] = (IF worker[l][w].pc \in {"send", "ack"} THEN 1 ELSE 0)
<1>1. thread[l] = w
  BY DEF ThreadInv
<1>2. \A v \in Workers : v # w => worker[l][v].pc = "dead"
  BY <1>1 DEF ThreadInv
<1> QED
  BY <1>2 DEF ThreadInv

LEMMA ThreadMoves ==
  ASSUME TypeOK, NEW l \in Lanes, NEW w \in Workers, ThreadInv(l), worker[l][w].pc # "dead",
         NEW s \in WorkerStep, WorkerMoves(l, w, s), thread' = thread,
         inflight'[l] = (IF s.pc \in {"send", "ack"} THEN 1 ELSE 0)
  PROVE  ThreadInv(l)'
<1>1. \A v \in Workers : v # w => worker[l][v].pc = "dead" /\ worker'[l][v].pc = "dead"
  BY OnlyThread DEF WorkerMoves
<1>2. worker'[l][w] = s /\ thread'[l] = w
  BY DEF WorkerMoves, ThreadInv
<1> QED
  BY <1>1, <1>2 DEF ThreadInv

LEMMA ThreadKept ==
  ASSUME NEW l \in Lanes, ThreadInv(l), thread'[l] = thread[l], inflight'[l] = inflight[l],
         \A w \in Workers : worker'[l][w] = worker[l][w]
  PROVE  ThreadInv(l)'
BY DEF ThreadInv

LEMMA ThreadCreates ==
  ASSUME TypeOK, NEW c \in Callers, Create(c), NEW l \in Lanes, ThreadInv(l)
  PROVE  /\ ThreadInv(l)'
         /\ \A w \in Workers : \/ worker'[l][w] = worker[l][w]
                               \/ worker[l][w].pc = "dead" /\ worker'[l][w].pc = "drain"
         /\ Alive(l) => Alive(l)' /\ \A w \in Workers : worker'[l][w] = worker[l][w]
<1> DEFINE lane == caller[c].lane
           s == [Dead EXCEPT !.pc = "drain"]
<1>0. s.pc = "drain" /\ s \in WorkerStep
  BY ConstantFacts DEF Dead, WorkerStep
<1>1. lane \in Lanes
  BY DEF TypeOK, CallerStep
<1>2. CASE UNCHANGED <<thread, worker>>
  BY <1>2, ThreadKept DEF Create, Alive
<1>3. ASSUME NEW w \in Workers, worker[lane][w].pc = "dead", ~Alive(lane),
             thread' = [thread EXCEPT ![lane] = w],
             worker' = [worker EXCEPT ![lane][w] = s]
      PROVE  /\ ThreadInv(l)'
             /\ \A v \in Workers : \/ worker'[l][v] = worker[l][v]
                                   \/ worker[l][v].pc = "dead" /\ worker'[l][v].pc = "drain"
             /\ Alive(l) => Alive(l)' /\ \A v \in Workers : worker'[l][v] = worker[l][v]
  <2> HIDE DEF s
  <2>0. WorkerMoves(lane, w, s) /\ inflight' = inflight
    BY <1>0, <1>1, <1>3, WorkerMovesOn DEF Create
  <2> HIDE DEF lane
  <2>1. CASE l # lane
    <3>1. \A v \in Workers : worker'[l][v] = worker[l][v]
      BY <2>0, <2>1 DEF WorkerMoves
    <3>2. thread'[l] = thread[l]
      BY <1>1, <1>3, <2>1 DEF TypeOK
    <3> QED
      BY <2>0, <3>1, <3>2, ThreadKept DEF Alive, TypeOK
  <2>2. CASE l = lane
    <3>1. \A v \in Workers : worker[l][v].pc = "dead"
      BY <1>3, <2>2, SdkAssumption DEF ThreadInv, Alive
    <3>2. \A v \in Workers : v # w => worker'[l][v] = worker[l][v]
      BY <2>0, <2>2 DEF WorkerMoves
    <3>3. worker'[l][w] = s /\ thread'[l] = w
      BY <1>1, <1>3, <2>0, <2>2 DEF WorkerMoves, TypeOK
    <3>4. inflight'[l] = 0
      BY <2>0, <3>1 DEF ThreadInv
    <3>5. ThreadInv(l)'
      BY <1>0, <3>1, <3>2, <3>3, <3>4 DEF ThreadInv
    <3> QED
      BY <1>0, <1>3, <2>2, <3>1, <3>2, <3>3, <3>5
  <2> QED
    BY <2>1, <2>2
<1> QED
  BY <1>2, <1>3 DEF Create, StillMissing

LEMMA ThreadStep ==
  ASSUME TypeInv, TypeInv', Next, ForkInv, NEW l \in Lanes, ThreadInv(l)
  PROVE  ThreadInv(l)'
<1>1. TypeOK /\ inflight[l] \in Int
  BY DEF TypeInv, TypeOK
<1>2. CASE UNCHANGED <<thread, worker, inflight>>
  BY <1>2, ThreadKept
<1>3. ASSUME NEW c \in Callers, Requeue(c) \/ Rethread(c) PROVE ThreadInv(l)'
  <2>1. \A w \in Workers : worker'[l][w].pc = "dead"
    BY <1>3 DEF ForkInv, Unforked, Requeue, Rethread
  <2>2. inflight'[l] = 0
    BY <1>3 DEF ForkInv, Unforked, Requeue, Rethread
  <2> QED
    BY <2>1, <2>2 DEF ThreadInv
<1>4. ASSUME NEW c \in Callers, Create(c) PROVE ThreadInv(l)'
  BY <1>1, <1>4, ThreadCreates
<1>5. ASSUME NEW k \in Lanes, NEW w \in Workers, Worker(k, w), k # l PROVE ThreadInv(l)'
  <2>1. CASE Take(k, w) \/ Post(k, w)
    <3>1. thread' = thread
      BY <2>1 DEF Take, Post
    <3> QED
      BY <1>5, <2>1, <3>1, OtherLane, ThreadKept
  <2>2. CASE Drained(k, w) \/ Check(k, w)
    <3>1. PICK s \in WorkerStep : WorkerMoves(k, w, s) /\ UNCHANGED <<thread, inflight>>
      BY <1>1, <2>2, LooksDo
    <3> QED
      BY <1>5, <3>1, ThreadKept DEF WorkerMoves
  <2>3. CASE Ack(k, w)
    <3>1. PICK s \in WorkerStep : WorkerMoves(k, w, s) /\ thread' = thread
                                  /\ inflight' = [inflight EXCEPT ![k] = @ - 1]
      BY <1>1, <2>3, AckDoes
    <3>2. inflight'[l] = inflight[l]
      BY <1>1, <1>5, <3>1 DEF TypeOK
    <3> QED
      BY <1>5, <3>1, <3>2, ThreadKept DEF WorkerMoves
  <2> QED
    BY <1>5, <2>1, <2>2, <2>3 DEF Worker
<1>6. ASSUME NEW w \in Workers, Worker(l, w) PROVE ThreadInv(l)'
  <2>0. worker[l][w].pc # "dead"
        /\ inflight[l] = (IF worker[l][w].pc \in {"send", "ack"} THEN 1 ELSE 0)
    BY <1>1, <1>6, OnlyThread DEF Worker, Take, Drained, Check, Post, Ack
  <2>1. CASE Take(l, w)
    <3>1. PICK s \in WorkerStep : /\ WorkerMoves(l, w, s) /\ s.pc = "send" /\ thread' = thread
                                  /\ inflight' = [inflight EXCEPT ![l] = @ + 1]
                                  /\ worker[l][w].pc = "drain"
      BY <1>1, <2>1, TakeDoes
    <3>2. inflight'[l] = 1
      BY <1>1, <2>0, <3>1 DEF TypeOK
    <3> QED
      BY <1>1, <2>0, <3>1, <3>2, ThreadMoves
  <2>2. CASE Drained(l, w) \/ Check(l, w)
    <3>1. PICK s \in WorkerStep : /\ WorkerMoves(l, w, s) /\ UNCHANGED <<thread, inflight>>
                                  /\ s.pc \in {"dead", "drain", "check"}
                                  /\ worker[l][w].pc \in {"drain", "check"}
      BY <1>1, <2>2, LooksDo
    <3>2. inflight'[l] = 0
      BY <2>0, <3>1
    <3> QED
      BY <1>1, <2>0, <3>1, <3>2, ThreadMoves
  <2>3. CASE Ack(l, w)
    <3>1. PICK s \in WorkerStep : WorkerMoves(l, w, s) /\ thread' = thread /\ s.pc = "drain"
                                  /\ inflight' = [inflight EXCEPT ![l] = @ - 1]
                                  /\ worker[l][w].pc = "ack"
      BY <1>1, <2>3, AckDoes
    <3>2. inflight'[l] = 0
      BY <1>1, <2>0, <3>1 DEF TypeOK
    <3> QED
      BY <1>1, <2>0, <3>1, <3>2, ThreadMoves
  <2>4. CASE Post(l, w)
    <3>1. PICK s \in WorkerStep : WorkerMoves(l, w, s) /\ UNCHANGED <<thread, inflight>>
                                  /\ s.pc \in {"send", "ack"} /\ worker[l][w].pc = "send"
      BY <1>1, <2>4, PostDoes
    <3>2. inflight'[l] = 1
      BY <2>0, <3>1
    <3> QED
      BY <1>1, <2>0, <3>1, <3>2, ThreadMoves
  <2> QED
    BY <1>6, <2>1, <2>2, <2>3, <2>4 DEF Worker
<1>7. ASSUME NEW c \in Callers,
             \/ Flush(c) \/ \E lane \in Lanes : Emit(c, lane)
             \/ Adopt(c) \/ Look(c) \/ Push(c) \/ Count(c)
             \/ FlushFirst(c) \/ FlushSecond(c) \/ FlushReturn(c)
      PROVE  ThreadInv(l)'
  <2>1. UNCHANGED <<thread, worker, inflight>>
    BY <1>7 DEF Flush, Emit, Enter, Adopt, Look, Push, Count, FlushFirst, FlushSecond, FlushReturn
  <2> QED
    BY <2>1, <1>2
<1>8. CASE Close
  BY <1>2, <1>8 DEF Close
<1> QED
  BY <1>3, <1>4, <1>5, <1>6, <1>7, <1>8 DEF Next, Caller
-----------------------------------------------------------------------------
LEMMA OrderKept ==
  ASSUME NEW l \in Lanes, OrderInv(l), Held(l)' = Held(l), Queued(l)' = Queued(l),
         arrived'[l] = arrived[l], made'[l] = made[l]
  PROVE  OrderInv(l)'
BY DEF OrderInv

LEMMA OrderTakes ==
  ASSUME TypeInv, NEW l \in Lanes, NEW w \in Workers, Take(l, w), PlaceInv(l), ThreadInv(l),
         OrderInv(l)
  PROVE  OrderInv(l)'
<1>1. TypeOK
  BY DEF TypeInv
<1>2. worker[l][w].pc = "drain" /\ UNCHANGED <<made, arrived>>
  BY <1>1, TakeDoes DEF history
<1>3. Held(l) = {}
  <2>1. \A v \in Workers : ~Sending(l, v)
    BY <1>1, <1>2, OnlyThread DEF Sending
  <2> QED
    BY <2>1, LaneSets
<1>4. /\ Queued(l)' \subseteq Queued(l) /\ \A i \in Held(l)' : i \in Queued(l)
      /\ \A i \in Held(l)', j \in Queued(l)' : i < j
  BY <1>3, TakePlaces
<1>5. ASSUME NEW i \in arrived'[l]
      PROVE  i \in 1..made'[l] /\ \A j \in 1..(i - 1) : j \notin Queued(l)' /\ j \notin Held(l)'
  BY <1>2, <1>4 DEF OrderInv
<1> QED
  BY <1>4, <1>5 DEF OrderInv

LEMMA OrderPosts ==
  ASSUME TypeInv, TypeInv', NEW l \in Lanes, NEW w \in Workers, Post(l, w),
         PlaceInv(l), CountInv(l), ThreadInv(l), OrderInv(l)
  PROVE  OrderInv(l)'
<1>1. TypeOK
  BY DEF TypeInv
<1>2. PICK got \in BOOLEAN :
        /\ arrived' = IF got THEN [arrived EXCEPT ![l] = @ \cup BatchOf(l, w)] ELSE arrived
        /\ worker[l][w].pc = "send" /\ made' = made
  BY <1>1, PostDoes
<1>3. Held(l) = BatchOf(l, w)
  <2>1. \A v \in Workers : Sending(l, v) <=> v = w
    BY <1>1, <1>2, OnlyThread DEF Sending
  <2>2. \A i : i \in Held(l) <=> i \in BatchOf(l, w)
    BY <2>1, LaneSets
  <2> QED
    BY <2>2
<1>4. Queued(l)' = Queued(l) /\ Held(l)' \subseteq Held(l)
  BY PostPlaces
<1>5. arrived'[l] = arrived[l] \/ arrived'[l] = arrived[l] \cup Held(l)
  BY <1>1, <1>2, <1>3 DEF TypeOK
<1>6. \A i \in Held(l) : i \in 1..made[l]
  BY <1>1, PlaceFacts
<1>7. made[l] \in Nat /\ \A j \in Queued(l) : j \in Nat
  BY <1>1, PlaceFacts, ConstantFacts
<1>8. ASSUME NEW i \in arrived'[l], NEW j \in 1..(i - 1)
      PROVE  j \notin Queued(l)' /\ (j \in Held(l)' => j \in arrived'[l])
  <2>1. CASE i \in arrived[l]
    BY <1>4, <1>5, <2>1 DEF OrderInv
  <2>2. CASE i \notin arrived[l]
    <3>1. i \in Held(l) /\ arrived'[l] = arrived[l] \cup Held(l)
      BY <1>5, <2>2
    <3>2. j \notin Queued(l)
      BY <1>6, <1>7, <3>1 DEF OrderInv
    <3> QED
      BY <1>4, <3>1, <3>2
  <2> QED
    BY <2>1, <2>2
<1>9. \A i \in arrived'[l] : i \in 1..made'[l]
  BY <1>2, <1>5, <1>6 DEF OrderInv
<1>10. \A i \in Held(l)', j \in Queued(l)' : i < j
  BY <1>4 DEF OrderInv
<1> QED
  BY <1>8, <1>9, <1>10 DEF OrderInv

LEMMA OrderPushes ==
  ASSUME TypeInv, TypeInv', NEW c \in Callers, Push(c), \A k \in Lanes : PlaceInv(k) /\ CountInv(k),
         NEW l \in Lanes, OrderInv(l)
  PROVE  OrderInv(l)'
<1>1. TypeOK
  BY DEF TypeInv
<1>2. PICK lane \in Lanes : caller[c].lane = lane
  BY <1>1 DEF TypeOK, CallerStep
<1>3. arrived' = arrived /\ Held(l)' = Held(l)
  BY <1>2, PushPlaces DEF Push
<1>4. CASE l # lane
  <2>1. Queued(l)' = Queued(l) /\ made'[l] = made[l]
    BY <1>2, <1>4, PushPlaces
  <2> QED
    BY <1>3, <2>1, OrderKept
<1>5. CASE l = lane
  <2>1. Queued(l)' \subseteq Queued(l) \cup {made[l] + 1} /\ made'[l] = made[l] + 1
    BY <1>2, <1>5, PushPlaces
  <2>2. made[l] \in Nat /\ \A i \in Held(l) : i \in 1..made[l]
    BY <1>1, PlaceFacts
  <2>3. \A i \in Held(l)', j \in Queued(l)' : i < j
    BY <1>3, <2>1, <2>2 DEF OrderInv
  <2>4. ASSUME NEW i \in arrived'[l]
        PROVE  /\ i \in 1..made'[l]
               /\ \A j \in 1..(i - 1) : j \notin Queued(l)' /\ (j \in Held(l)' => j \in arrived'[l])
    <3>1. i \in 1..made[l]
      BY <1>3 DEF OrderInv
    <3>2. i \in 1..made'[l] /\ \A j \in 1..(i - 1) : j # made[l] + 1
      BY <2>1, <2>2, <3>1
    <3> QED
      BY <1>3, <2>1, <3>2 DEF OrderInv
  <2> QED
    BY <2>3, <2>4 DEF OrderInv
<1> QED
  BY <1>4, <1>5

LEMMA OrderStep ==
  ASSUME TypeInv, TypeInv', Next, \A k \in Lanes : PlaceInv(k) /\ CountInv(k), ForkInv,
         NEW l \in Lanes, ThreadInv(l), OrderInv(l)
  PROVE  OrderInv(l)'
<1>1. CASE Quietly
  <2>1. UNCHANGED <<queue, made, arrived>> /\ Held(l)' = Held(l)
    BY <1>1, QuietPlaces, HeldStays
  <2>2. Queued(l)' = Queued(l)
    BY <2>1 DEF Queued
  <2> QED
    BY <2>1, <2>2, OrderKept
<1>2. ASSUME NEW c \in Callers, Push(c) PROVE OrderInv(l)'
  BY <1>2, OrderPushes
<1>3. ASSUME NEW c \in Callers, Requeue(c) PROVE OrderInv(l)'
  <2>1. Queued(l)' = {} /\ arrived'[l] = {}
    BY <1>3, RequeuePlaces DEF ForkInv, Unforked, Requeue
  <2> QED
    BY <2>1 DEF OrderInv
<1>4. ASSUME NEW k \in Lanes, NEW w \in Workers, Take(k, w) \/ Post(k, w) PROVE OrderInv(l)'
  <2>1. CASE k # l
    <3>1. SendsKept(l) /\ queue'[l] = queue[l] /\ made' = made /\ arrived'[l] = arrived[l]
      BY <1>4, <2>1, OtherLane
    <3>2. Queued(l)' = Queued(l) /\ Held(l)' = Held(l)
      BY <3>1, HeldStays DEF Queued
    <3> QED
      BY <3>1, <3>2, OrderKept
  <2>2. CASE k = l
    BY <1>4, <2>2, OrderTakes, OrderPosts
  <2> QED
    BY <2>1, <2>2
<1> QED
  BY <1>1, <1>2, <1>3, <1>4, NextSplits
-----------------------------------------------------------------------------
LEMMA GapKept ==
  ASSUME NEW l \in Lanes, GapInv(l), Queued(l)' \subseteq Queued(l), unseen[l] \subseteq unseen'[l],
         Checking(l)' => Checking(l) \/ Queued(l)' = {},
         ~Alive(l)' /\ ~Unforked'
           => (~Alive(l) /\ ~Unforked) \/ Queued(l)' = {} \/ (l = "links" /\ Checking(l))
  PROVE  GapInv(l)'
BY DEF GapInv

LEMMA LaneAliveNext ==
  \A l \in Lanes : ThreadInv(l)' /\ (\E w \in Workers : worker'[l][w].pc # "dead") => Alive(l)'
BY SdkAssumption DEF Alive, ThreadInv

(* A lane whose thread does not move.                                      *)
LEMMA GapUntouched ==
  ASSUME NEW l \in Lanes, GapInv(l), ~Unforked' => ~Unforked, queue'[l] = queue[l],
         unseen'[l] = unseen[l], thread'[l] = thread[l],
         \A w \in Workers : worker'[l][w] = worker[l][w], TypeOK
  PROVE  GapInv(l)'
<1>1. Queued(l)' = Queued(l) /\ (Checking(l)' <=> Checking(l))
  BY DEF Queued, Checking
<1>2. Alive(l)' <=> Alive(l)
  BY DEF Alive, TypeOK
<1> QED
  BY <1>1, <1>2, GapKept

LEMMA GapPushes ==
  ASSUME TypeInv, TypeInv', NEW c \in Callers, Push(c), \A k \in Lanes : PlaceInv(k) /\ CountInv(k),
         ForkInv, NEW l \in Lanes, ThreadInv(l), GapInv(l)
  PROVE  GapInv(l)'
<1>1. TypeOK
  BY DEF TypeInv
<1>2. PICK lane \in Lanes : caller[c].lane = lane
  BY <1>1 DEF TypeOK, CallerStep
<1>3. ~Unforked
  BY NobodyMoves DEF Push, Replacing
<1>4. UNCHANGED <<thread, worker>>
  BY DEF Push
<1>5. (Alive(l)' <=> Alive(l)) /\ (Checking(l)' <=> Checking(l))
  BY <1>4 DEF Alive, Checking
<1>6. CASE l # lane
  <2>1. Queued(l)' = Queued(l)
    BY <1>2, <1>6, PushPlaces
  <2>2. unseen'[l] = unseen[l]
    BY <1>1, <1>2, <1>6 DEF Push, TypeOK
  <2> QED
    BY <1>3, <1>5, <2>1, <2>2, GapKept
<1>7. CASE l = lane
  <2>1. Queued(l)' \subseteq Queued(l) \cup {made[l] + 1}
    BY <1>2, <1>7, PushPlaces
  <2> DEFINE over == ~Alive(l) \/ (l = "links" /\ worker[l][thread[l]].pc = "check")
  <2>2. unseen' = IF over THEN [unseen EXCEPT ![l] = @ \cup {made[l] + 1}] ELSE unseen
    BY <1>2, <1>7 DEF Push
  <2>3. CASE over
    <3>1. unseen'[l] = unseen[l] \cup {made[l] + 1}
      BY <1>1, <2>2, <2>3 DEF TypeOK
    <3> QED
      BY <1>3, <1>5, <2>1, <3>1 DEF GapInv
  <2>4. CASE ~over
    <3>1. Alive(l) /\ (l = "links" => ~Checking(l))
      BY <2>4 DEF Checking, ThreadInv
    <3> QED
      BY <1>5, <3>1 DEF GapInv
  <2> QED
    BY <2>3, <2>4
<1> QED
  BY <1>6, <1>7

LEMMA GapStep ==
  ASSUME TypeInv, TypeInv', Next, \A k \in Lanes : PlaceInv(k) /\ CountInv(k), ForkInv, ForkInv',
         ~Unforked => ~Unforked',
         NEW l \in Lanes, ThreadInv(l), ThreadInv(l)', GapInv(l), ~RaceAfterFork
  PROVE  GapInv(l)'
<1>1. TypeOK
  BY DEF TypeInv
<1>2. ASSUME NEW c \in Callers, Flush(c) \/ \E lane \in Lanes : Emit(c, lane)
      PROVE  GapInv(l)'
  <2>1. /\ Replacing = {}
        /\ UNCHANGED <<pid, stop, queue, inflight, thread, worker, stats, history>>
    BY <1>2, EnterGoes
  <2>2. ~Unforked' => ~Unforked
    BY <2>1 DEF Unforked, Replacing
  <2> QED
    BY <1>1, <2>1, <2>2, GapUntouched DEF history
<1>3. ASSUME NEW c \in Callers, Adopt(c) \/ Requeue(c)
      PROVE  GapInv(l)'
  <2>1. Unforked'
    <3>1. caller'[c].pc \in {"requeue", "rethread"}
      BY <1>1, <1>3 DEF Adopt, Requeue, Goto, TypeOK, CallerStep
    <3> QED
      BY <3>1 DEF Unforked
  <2>2. ~Checking(l)'
    BY <2>1 DEF ForkInv, Checking
  <2> QED
    BY <2>1, <2>2 DEF GapInv
<1>4. ASSUME NEW c \in Callers, Rethread(c)
      PROVE  GapInv(l)'
  <2>1. queue'[l] = <<>>
    BY <1>4 DEF Rethread, ForkInv
  <2>2. Queued(l)' = {}
    BY <2>1 DEF Queued
  <2> QED
    BY <2>2 DEF GapInv
<1>5. ASSUME NEW c \in Callers, Create(c) PROVE GapInv(l)'
  <2>1. /\ \A w \in Workers : \/ worker'[l][w] = worker[l][w]
                              \/ worker[l][w].pc = "dead" /\ worker'[l][w].pc = "drain"
        /\ Alive(l) => Alive(l)'
    BY <1>1, <1>5, ThreadCreates
  <2>2. Checking(l)' => Checking(l)
    BY <2>1 DEF Checking
  <2>3. ~Unforked
    BY <1>5, NobodyMoves DEF Create, Replacing
  <2>4. Queued(l)' = Queued(l) /\ unseen' = unseen
    BY <1>5 DEF Create, Queued, history
  <2> QED
    BY <2>1, <2>2, <2>3, <2>4, GapKept
<1>6. ASSUME NEW c \in Callers, Push(c) PROVE GapInv(l)'
  BY <1>6, GapPushes
<1>7. ASSUME NEW c \in Callers,
             Look(c) \/ Count(c) \/ FlushFirst(c) \/ FlushSecond(c) \/ FlushReturn(c)
      PROVE  GapInv(l)'
  <2>1. UNCHANGED <<queue, thread, worker, unseen>>
    BY <1>7 DEF Look, Count, FlushFirst, FlushSecond, FlushReturn, history
  <2>2. ~Unforked
    BY <1>7, NobodyMoves DEF Look, Count, FlushFirst, FlushSecond, FlushReturn, Replacing
  <2> QED
    BY <1>1, <2>1, <2>2, GapUntouched
<1>8. CASE Close
  <2>1. UNCHANGED <<pid, caller, queue, thread, worker, unseen>>
    BY <1>8 DEF Close, history
  <2>2. ~Unforked' => ~Unforked
    BY <2>1 DEF Unforked
  <2> QED
    BY <1>1, <2>1, <2>2, GapUntouched
<1>9. ASSUME NEW k \in Lanes, NEW w \in Workers, Worker(k, w) PROVE GapInv(l)'
  <2>1. ~Unforked /\ worker[k][w].pc # "dead"
    BY <1>9, NobodyMoves DEF Worker, Take, Drained, Check, Post, Ack
  <2>2. \E s \in WorkerStep :
          /\ WorkerMoves(k, w, s) /\ thread' = thread /\ unseen' = unseen
          /\ \A j \in Lanes : j # k => queue'[j] = queue[j]
          /\ Queued(k)' \subseteq Queued(k)
          /\ s.pc = "dead" => queue[k] = <<>> \/ (k = "links" /\ worker[k][w].pc = "check")
          /\ s.pc = "check" => queue[k] = <<>>
    <3>0. PlaceInv(k) /\ CountInv(k)
      OBVIOUS
    <3>1. CASE Take(k, w)
      BY <1>1, <3>0, <3>1, TakeDoes, TakePlaces, OtherLane DEF history
    <3>2. CASE Drained(k, w) \/ Check(k, w)
      BY <1>1, <3>2, LooksDo DEF history, Queued
    <3>3. CASE Post(k, w)
      BY <1>1, <3>3, PostDoes DEF Queued
    <3>4. CASE Ack(k, w)
      BY <1>1, <3>4, AckDoes DEF history, Queued
    <3> QED
      BY <1>9, <3>1, <3>2, <3>3, <3>4 DEF Worker
  <2>3. PICK s \in WorkerStep :
          /\ WorkerMoves(k, w, s) /\ thread' = thread /\ unseen' = unseen
          /\ \A j \in Lanes : j # k => queue'[j] = queue[j]
          /\ Queued(k)' \subseteq Queued(k)
          /\ s.pc = "dead" => queue[k] = <<>> \/ (k = "links" /\ worker[k][w].pc = "check")
          /\ s.pc = "check" => queue[k] = <<>>
    BY <2>2
  <2>4. CASE k # l
    BY <1>1, <2>1, <2>3, <2>4, GapUntouched DEF WorkerMoves
  <2>5. CASE k = l
    <3>1. queue[l] = <<>> => Queued(l)' = {}
      <4>1. queue[l] = <<>> => Queued(l) = {}
        BY DEF Queued
      <4>2. Queued(l)' \subseteq Queued(l)
        BY <2>3, <2>5
      <4> QED
        BY <4>1, <4>2
    <3>2. worker'[l][w] = s /\ \A v \in Workers : v # w => worker'[l][v] = worker[l][v]
      BY <2>3, <2>5 DEF WorkerMoves
    <3>3. Checking(l)' => Checking(l) \/ Queued(l)' = {}
      BY <2>3, <2>5, <3>1, <3>2 DEF Checking
    <3>4. ~Alive(l)' => Queued(l)' = {} \/ (l = "links" /\ Checking(l))
      <4>1. ~Alive(l)' => s.pc = "dead"
        BY <3>2, LaneAliveNext
      <4> QED
        BY <2>3, <2>5, <3>1, <4>1 DEF Checking
    <3> QED
      BY <2>3, <2>5, <3>3, <3>4, GapKept
  <2> QED
    BY <2>4, <2>5
<1> QED
  BY <1>2, <1>3, <1>4, <1>5, <1>6, <1>7, <1>8, <1>9 DEF Next, Caller
-----------------------------------------------------------------------------
(* An empty queue and nothing in flight: everything has met its end.       *)
LEMMA QuietMeansGone ==
  ASSUME NEW l \in Lanes, ThreadInv(l), PlaceInv(l), Quiet(l)
  PROVE  Gone(l) = 1..made[l]
<1>1. \A w \in Workers : ~Sending(l, w)
  BY DEF ThreadInv, Sending, Quiet
<1>2. Held(l) = {} /\ Queued(l) = {}
  <2>1. Held(l) = {}
    BY <1>1, LaneSets
  <2>2. queue[l] = <<>>
    BY DEF Quiet
  <2> QED
    BY <2>1, <2>2 DEF Queued
<1> QED
  BY <1>2 DEF PlaceInv

LEMMA MarkStep ==
  ASSUME TypeInv, TypeInv', Next, ~RaceAfterFork, \A k \in Lanes : PlaceInv(k) /\ CountInv(k),
         \A k \in Lanes : ThreadInv(k), \A d \in Callers : MarkInv(d)
  PROVE  \A d \in Callers : MarkInv(d)'
<1>1. TypeOK /\ TypeOK' /\ "records" \in Lanes /\ "links" \in Lanes
  BY DEF TypeInv, Lanes
<1>2. \A l \in Lanes : /\ Gone(l) \subseteq Gone(l)' /\ made[l] <= made'[l]
                       /\ made[l] \in Nat /\ made'[l] \in Nat
  BY <1>1, LanesAccounted DEF TypeOK
<1>3. \A d \in Callers, l \in Lanes : caller[d].mark[l] \in Nat
  BY <1>1 DEF TypeOK, CallerStep
<1>4. ASSUME NEW d \in Callers, caller'[d] = caller[d] PROVE MarkInv(d)'
  BY <1>1, <1>2, <1>3, <1>4 DEF MarkInv
<1>5. ASSUME NEW c \in Callers, Flush(c) \/ \E lane \in Lanes : Emit(c, lane)
      PROVE  \A d \in Callers : MarkInv(d)'
  <2>1. PICK s \in CallerStep :
          /\ CallerMoves(c, s) /\ s.pc \in {"adopt", "append", "idle1", "create"}
          /\ s.mark \in {made, Idle.mark}
    BY <1>5, EnterGoes
  <2>2. \A l \in Lanes : s.mark[l] <= made'[l]
    BY <1>2, <2>1 DEF Idle
  <2>3. MarkInv(c)'
    BY <2>1, <2>2 DEF MarkInv, CallerMoves
  <2> QED
    BY <1>4, <2>1, <2>3 DEF CallerMoves
<1>6. ASSUME NEW c \in Callers, Caller(c)
      PROVE  \A d \in Callers : MarkInv(d)'
  <2>1. PICK s \in CallerStep :
           /\ CallerMoves(c, s)
           /\ s = Idle \/ s.mark = caller[c].mark
           /\ s.pc = "idle2" => FlushFirst(c)
           /\ s.pc = "flushed" => FlushSecond(c)
    BY <1>6, CallerGoes
  <2>2. \A l \in Lanes : s.mark[l] <= made'[l]
    BY <1>2, <1>3, <2>1 DEF Idle, MarkInv
  <2>3. ASSUME s.pc = "idle2" PROVE 1..s.mark["records"] \subseteq Gone("records")'
    <3>1. Quiet("records") /\ s # Idle
      BY <2>1, <2>3 DEF FlushFirst, Idle
    <3>2. Gone("records") = 1..made["records"]
      BY <1>1, <3>1, QuietMeansGone
    <3> QED
      BY <1>1, <1>2, <1>3, <2>1, <3>1, <3>2 DEF MarkInv
  <2>4. ASSUME s.pc = "flushed" PROVE \A l \in Lanes : 1..s.mark[l] \subseteq Gone(l)'
    <3>1. caller[c].pc = "idle2" /\ s # Idle /\ s.mark = caller[c].mark
      BY <2>1, <2>4 DEF FlushSecond, Idle
    <3>2. caller'[c].pc = "flushed"
      BY <2>1, <2>4 DEF CallerMoves
    <3>3. Quiet("links")
      <4>1. SUFFICES ASSUME ~Quiet("links") PROVE FALSE
        OBVIOUS
      <4>2. Goto(c, "idle1")
        BY <2>1, <2>4, <4>1 DEF FlushSecond
      <4>3. caller'[c].pc = "idle1"
        BY <1>1, <4>2 DEF Goto, TypeOK, CallerStep
      <4> QED
        BY <3>2, <4>3
    <3>4. Gone("links") = 1..made["links"]
      BY <1>1, <3>3, QuietMeansGone
    <3>5. 1..s.mark["links"] \subseteq Gone("links")'
      BY <1>1, <1>2, <1>3, <3>1, <3>4 DEF MarkInv
    <3>6. 1..s.mark["records"] \subseteq Gone("records")'
      BY <1>1, <1>2, <3>1 DEF MarkInv
    <3> QED
      BY <3>5, <3>6 DEF Lanes
  <2>5. caller'[c] = s
    BY <2>1 DEF CallerMoves
  <2>6. MarkInv(c)'
    BY <1>1, <2>2, <2>3, <2>4, <2>5 DEF MarkInv
  <2> QED
    BY <1>4, <2>1, <2>6 DEF CallerMoves
<1>7. CASE Close \/ \E l \in Lanes, w \in Workers : Worker(l, w)
  <2>1. caller' = caller
    BY <1>7 DEF Close, Worker, Take, Drained, Check, Post, Ack
  <2> QED
    BY <1>4, <2>1
<1> QED
  BY <1>5, <1>6, <1>7 DEF Next

LEMMA LaneInit == Init => LaneInv
<1> SUFFICES ASSUME Init PROVE LaneInv
  OBVIOUS
<1>1. PICK n \in Inherited \cup {0} :
    /\ pid = (IF n = 0 THEN "own" ELSE "parent")
    /\ queue = [l \in Lanes |-> IF l = "records" THEN [i \in 1..n |-> i] ELSE <<>>]
    /\ inflight = [l \in Lanes |-> 0]
    /\ thread = [l \in Lanes |-> None]
    /\ worker = [l \in Lanes |-> [w \in Workers |-> Dead]]
    /\ caller = [c \in Callers |-> Idle]
    /\ made = [l \in Lanes |-> IF l = "records" THEN n ELSE 0]
    /\ arrived = [l \in Lanes |-> {}]
    /\ theirs = 1..n
  BY DEF Init
<1>2. n \in Nat /\ "records" \in Lanes
  BY SdkAssumption DEF Lanes
<1>3. /\ \A c \in Callers : caller[c].pc = "idle" /\ \A l \in Lanes : caller[c].mark[l] = 0
      /\ \A l \in Lanes, w \in Workers : worker[l][w].pc = "dead"
      /\ \A l \in Lanes : inflight[l] = 0 /\ arrived[l] = {} /\ made[l] \in Nat
  BY <1>1, <1>2 DEF Idle, Dead
<1>4. Queued("records") = 1..n /\ (n = 0 => \A l \in Lanes : Queued(l) = {})
  <2>1. queue["records"] = [i \in 1..n |-> i]
    BY <1>1, <1>2
  <2>2. Queued("records") = 1..n
    BY <1>2, <2>1 DEF Queued
  <2>3. \A l \in Lanes : l # "records" => queue[l] = <<>>
    BY <1>1
  <2>4. \A l \in Lanes : l # "records" => Queued(l) = {}
    BY <2>3 DEF Queued
  <2>5. n = 0 => 1..n = {}
    BY <1>2
  <2> QED
    BY <2>2, <2>4, <2>5
<1>5. ForkInv
  <2>1. Replacing = {} /\ (Inheriting <=> pid = "parent") /\ (Unforked <=> pid = "parent")
    BY <1>3 DEF Replacing, Inheriting, Unforked
  <2>2. ~Inheriting => theirs = {}
    BY <1>1, <1>2, <2>1
  <2> QED
    BY <1>1, <1>3, <1>4, <2>1, <2>2 DEF ForkInv
<1>6. ASSUME NEW l \in Lanes PROVE ThreadInv(l) /\ OrderInv(l) /\ GapInv(l)
  <2>1. \A w \in Workers : ~Sending(l, w)
    BY <1>3 DEF Sending
  <2>2. Held(l) = {}
    BY <2>1, LaneSets
  <2>3. OrderInv(l) /\ ThreadInv(l)
    BY <1>3, <2>2 DEF OrderInv, ThreadInv
  <2>4. ~Unforked => n = 0
    BY <1>1 DEF Unforked
  <2>5. GapInv(l)
    BY <1>3, <1>4, <2>4 DEF GapInv, Checking
  <2> QED
    BY <2>3, <2>5
<1>7. \A c \in Callers : MarkInv(c)
  BY <1>3 DEF MarkInv
<1> QED
  BY <1>5, <1>6, <1>7 DEF LaneInv

LEMMA LaneStutters ==
  ASSUME TypeInv, LaneInv, UNCHANGED vars
  PROVE  LaneInv'
<1>1. ForkInv'
  BY DEF vars, LaneInv, ForkInv, Unforked, Inheriting, Replacing, Queued
<1>2. ~Unforked' => ~Unforked
  BY DEF vars, Unforked
<1>3. ASSUME NEW l \in Lanes PROVE ThreadInv(l)' /\ OrderInv(l)' /\ GapInv(l)'
  <2>1. ThreadInv(l)'
    BY ThreadKept DEF vars, LaneInv
  <2>2. Held(l)' = Held(l) /\ Queued(l)' = Queued(l)
    BY DEF vars, Held, Queued, BatchOf
  <2>3. OrderInv(l)'
    BY <2>2, OrderKept DEF vars, LaneInv
  <2>4. GapInv(l)'
    BY <1>2, GapUntouched DEF vars, LaneInv, TypeInv
  <2> QED
    BY <2>1, <2>3, <2>4
<1>4. \A c \in Callers : MarkInv(c)'
  BY DEF vars, LaneInv, MarkInv, Gone
<1> QED
  BY <1>1, <1>3, <1>4 DEF LaneInv

LEMMA LaneStep ==
  ASSUME ~RaceAfterFork
  PROVE  TypeInv /\ TypeInv' /\ AccountInv /\ LaneInv /\ [Next]_vars => LaneInv'
<1> SUFFICES ASSUME TypeInv, TypeInv', AccountInv, LaneInv, [Next]_vars PROVE LaneInv'
  OBVIOUS
<1>1. CASE UNCHANGED vars
  BY <1>1, LaneStutters
<1>2. CASE Next
  <2>1. /\ \A l \in Lanes : PlaceInv(l) /\ CountInv(l)
        /\ ForkInv /\ \A c \in Callers : MarkInv(c)
        /\ \A l \in Lanes : ThreadInv(l) /\ OrderInv(l) /\ GapInv(l)
    BY DEF AccountInv, LaneInv
  <2>2. ForkInv' /\ (~Unforked => ~Unforked')
    BY <1>2, <2>1, ForkStep
  <2>3. \A l \in Lanes : ThreadInv(l)'
    BY <1>2, <2>1, ThreadStep
  <2>4. \A l \in Lanes : OrderInv(l)'
    BY <1>2, <2>1, OrderStep
  <2>5. \A l \in Lanes : GapInv(l)'
    BY <1>2, <2>1, <2>2, <2>3, GapStep
  <2>6. \A c \in Callers : MarkInv(c)'
    BY <1>2, <2>1, MarkStep
  <2> QED
    BY <2>2, <2>3, <2>4, <2>5, <2>6 DEF LaneInv
<1> QED
  BY <1>1, <1>2

LEMMA LaneInvariant ==
  ASSUME ~RaceAfterFork
  PROVE  Spec => [](TypeInv /\ AccountInv /\ LaneInv)
<1>1. Init => TypeInv /\ AccountInv /\ LaneInv
  BY TypeInit, AccountInit, LaneInit
<1>2. TypeInv /\ AccountInv /\ LaneInv /\ [Next]_vars => (TypeInv /\ AccountInv /\ LaneInv)'
  BY TypeStep, AccountStep, LaneStep
<1> QED
  BY <1>1, <1>2, PTL DEF Spec

(* A record reaches the collector only after every older one of its lane   *)
(* has left the queue, and no older one is in flight unless it has reached *)
(* it too, as long as one thread of a child at most finds the client.      *)
THEOREM NothingOvertakes ==
  ASSUME ~RaceAfterFork
  PROVE  Spec => []NoOvertaking
<1>1. LaneInv => NoOvertaking
  BY DEF LaneInv, OrderInv, NoOvertaking
<1> QED
  BY <1>1, LaneInvariant, PTL

(* flush() that returns TRUE: what either lane held when it was called has *)
(* met its end, though the two lanes are looked at one after the other.    *)
THEOREM FlushIsDelivery ==
  ASSUME ~RaceAfterFork
  PROVE  Spec => []FlushMeansLeft
<1>1. LaneInv => FlushMeansLeft
  BY DEF LaneInv, MarkInv, FlushMeansLeft, Lanes
<1> QED
  BY <1>1, LaneInvariant, PTL

(* What waits in a lane whose thread is dead was appended after the thread *)
(* had looked at the queue for the last time.                              *)
THEOREM StrandedInGap ==
  ASSUME ~RaceAfterFork
  PROVE  Spec => []StrandedOnlyInGap
<1>1. LaneInv => StrandedOnlyInGap
  BY DEF LaneInv, GapInv, Unforked, StrandedOnlyInGap
<1> QED
  BY <1>1, LaneInvariant, PTL

(* What reaches the collector is none of the parent's.                     *)
LEMMA BehindStep ==
  TypeInv /\ TypeInv' /\ AccountInv /\ LaneInv /\ InheritedStaysBehind /\ [Next]_vars
    => InheritedStaysBehind'
<1> SUFFICES ASSUME TypeInv, TypeInv', AccountInv, LaneInv, InheritedStaysBehind, [Next]_vars
             PROVE  InheritedStaysBehind'
  OBVIOUS
<1>1. TypeOK /\ "records" \in Lanes
  BY DEF TypeInv, Lanes
<1>2. CASE UNCHANGED <<arrived, theirs>>
  BY <1>2 DEF InheritedStaysBehind
<1>3. ASSUME NEW l \in Lanes, NEW w \in Workers, Post(l, w) PROVE InheritedStaysBehind'
  <2>1. /\ worker[l][w].pc = "send" /\ theirs' = theirs
        /\ \/ arrived' = arrived
           \/ arrived' = [arrived EXCEPT ![l] = @ \cup BatchOf(l, w)]
    BY <1>1, <1>3, PostDoes
  <2>2. \A i \in theirs : fate["records"][i] = "left"
    <3>1. ~Unforked
      BY <2>1, NobodyMoves DEF LaneInv
    <3>2. ~Inheriting
      BY <3>1 DEF Unforked, Inheriting
    <3> QED
      BY <3>2 DEF LaneInv, ForkInv
  <2>3. l = "records" => \A i \in BatchOf(l, w) : fate["records"][i] = "no"
    <3>1. BatchOf(l, w) \subseteq Held(l)
      BY <2>1, LaneSets DEF Sending
    <3> QED
      BY <1>1, <3>1, PlaceFacts DEF AccountInv
  <2>4. arrived'["records"] \subseteq arrived["records"] \cup
          (IF l = "records" THEN BatchOf(l, w) ELSE {})
    BY <1>1, <2>1 DEF TypeOK
  <2> QED
    BY <2>1, <2>2, <2>3, <2>4 DEF InheritedStaysBehind
<1>4. ASSUME NEW c \in Callers, Caller(c) \/ Flush(c) \/ \E lane \in Lanes : Emit(c, lane)
      PROVE  UNCHANGED <<arrived, theirs>>
  <2>1. CASE Caller(c)
    BY <2>1 DEF Caller, Adopt, Requeue, Rethread, Look, Create, Push, Count, FlushFirst, FlushSecond,
                FlushReturn, history
  <2>2. CASE Flush(c) \/ \E lane \in Lanes : Emit(c, lane)
    BY <2>2 DEF Flush, Emit, Enter, history
  <2> QED
    BY <1>4, <2>1, <2>2
<1>5. ASSUME NEW l \in Lanes, NEW w \in Workers, Worker(l, w), ~Post(l, w)
      PROVE  UNCHANGED <<arrived, theirs>>
  BY <1>5 DEF Worker, Take, Drained, Check, Ack, history
<1>6. CASE Close \/ UNCHANGED vars
  BY <1>2, <1>6 DEF Close, vars, history
<1> QED
  BY <1>2, <1>3, <1>4, <1>5, <1>6 DEF Next

(* A forked child that replaces its queues before any of its threads looks *)
(* at them exports nothing of what the parent had queued.                  *)
THEOREM ParentExportsItsOwn ==
  ASSUME ~RaceAfterFork
  PROVE  Spec => []InheritedStaysBehind
<1>1. Init => InheritedStaysBehind
  <2>1. Init => arrived = [l \in Lanes |-> {}]
    BY DEF Init
  <2> QED
    BY <2>1 DEF InheritedStaysBehind, Lanes
<1> QED
  BY <1>1, LaneInvariant, BehindStep, PTL DEF Spec
=============================================================================
