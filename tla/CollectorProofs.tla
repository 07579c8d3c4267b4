--------------------------- MODULE CollectorProofs ---------------------------
(***************************************************************************)
(* Theorems about Collector, for every value of its constants.  Its runs:  *)
(* their life and what their writers know of them.  Its events: none is    *)
(* misplaced, numbered twice or out of order, passed over by an export, or *)
(* missing from the counters, whatever way a COMMIT fails.  And the        *)
(* collector implements RunLog, if one that raises was not applied.        *)
(***************************************************************************)
EXTENDS CollectorRunLog, FiniteSetTheorems, WellFoundedInduction, TLAPS

-----------------------------------------------------------------------------
(* Type correctness.                                                       *)

(* The idle entries and the empty row belong to their types.               *)
LEMMA Defaults ==
  /\ NoRun \in RunRow /\ Idle \in Call /\ NotReading \in Read
  /\ NoCounts \in Counters
BY DEF NoRun, RunRow, Idle, Call, NotReading, Read, NoCounts, Counters

LEMMA InitTypeOK == Init => TypeOK
BY Defaults, CollectorAssumption DEF Init, TypeOK, Item, Row

LEMMA CountOfPositions ==
  ASSUME NEW s \in Seq(Kinds), NEW K
  PROVE  /\ Cardinality({i \in DOMAIN s : s[i] \in K}) \in Nat
         /\ Cardinality({i \in DOMAIN s : s[i] \in K}) <= Len(s)
<1>1. IsFiniteSet(1..Len(s)) /\ Cardinality(1..Len(s)) = Len(s)
  <2>1. Len(s) \in Nat
    OBVIOUS
  <2>2. Cardinality(1..Len(s)) = IF 1 > Len(s) THEN 0 ELSE Len(s) - 1 + 1
    BY <2>1, FS_Interval
  <2> QED
    BY <2>1, <2>2, FS_Interval
<1>2. {i \in DOMAIN s : s[i] \in K} \subseteq 1..Len(s)
  OBVIOUS
<1> QED
  BY <1>1, <1>2, FS_Subset, FS_CardinalityType

(* Put keeps the queue and the stamps typed when its batch fits MaxEvents. *)
LEMMA PutType ==
  ASSUME TypeOK, NEW n \in Nat, pointer \in Runs, Len(accepted) + n <= MaxEvents, Put(n)
  PROVE  queue' \in Seq(Item) /\ accepted' \in Seq(Runs) /\ Len(accepted') <= MaxEvents
<1> DEFINE items == [i \in 1..n |->
                       [run |-> pointer, ev |-> Len(accepted) + i, last |-> i = n]]
           stamps == [i \in 1..n |-> pointer]
<1>1. MaxEvents \in Nat /\ Len(accepted) \in Nat
  BY CollectorAssumption DEF TypeOK
<1>2. items \in Seq(Item) /\ stamps \in Seq(Runs) /\ Len(stamps) = n
  <2>1. \A i \in 1..n : Len(accepted) + i \in 1..MaxEvents
    BY <1>1
  <2>2. items \in [1..n -> Item]
    BY <2>1 DEF Item
  <2> QED
    BY <2>2
<1>3. CASE Depth < QueueMax
  <2>1. queue' = queue \o items /\ accepted' = accepted \o stamps
    BY <1>3 DEF Put
  <2> HIDE DEF items, stamps
  <2> QED
    BY <2>1, <1>1, <1>2 DEF TypeOK
<1>4. CASE ~(Depth < QueueMax)
  BY <1>4 DEF Put, TypeOK
<1> QED
  BY <1>3, <1>4

(* Counting: the fields submit() and the other steps move stay naturals.   *)
LEMMA CountersExcept ==
  ASSUME NEW k \in Counters, NEW a \in Nat, NEW b \in Nat, NEW c \in Nat,
         NEW d \in Nat, NEW e \in Nat, NEW f \in Nat
  PROVE  [k EXCEPT !.received = a, !.dropped_invalid = b, !.dropped_over_batch = c,
                   !.dropped_overflow = d, !.discarded_idle = e,
                   !.correlations = f] \in Counters
BY DEF Counters

LEMMA CountersAdd ==
  ASSUME NEW k \in Counters, NEW a \in Nat, NEW b \in Nat, NEW c \in Nat,
         NEW d \in Nat, NEW e \in Nat, NEW f \in Nat
  PROVE  [k EXCEPT !.received = @ + a, !.dropped_invalid = @ + b,
                   !.dropped_over_batch = @ + c, !.dropped_overflow = @ + d,
                   !.discarded_idle = @ + e, !.correlations = @ + f] \in Counters
<1>1. /\ k.received \in Nat /\ k.dropped_invalid \in Nat
      /\ k.dropped_over_batch \in Nat /\ k.dropped_overflow \in Nat
      /\ k.discarded_idle \in Nat /\ k.correlations \in Nat
  BY DEF Counters
<1>2. /\ k.received + a \in Nat /\ k.dropped_invalid + b \in Nat
      /\ k.dropped_over_batch + c \in Nat /\ k.dropped_overflow + d \in Nat
      /\ k.discarded_idle + e \in Nat /\ k.correlations + f \in Nat
  BY <1>1
<1> QED
  BY <1>2, CountersExcept

LEMMA CountersOne ==
  ASSUME NEW k \in Counters, NEW a \in Nat
  PROVE  /\ [k EXCEPT !.dropped_invalid = a] \in Counters
         /\ [k EXCEPT !.written = a] \in Counters
         /\ [k EXCEPT !.dropped_write_error = a] \in Counters
BY DEF Counters

LEMMA CountersRegister ==
  ASSUME NEW k \in Counters, NEW a \in Nat, NEW b \in Nat, NEW c \in Nat, NEW d \in Nat
  PROVE  [k EXCEPT !.correlations = a, !.received = b, !.discarded_idle = c,
                   !.dropped_overflow = d] \in Counters
BY DEF Counters

LEMMA SubmitType ==
  ASSUME TypeOK, NEW raw \in RawBatches, Submit(raw)
  PROVE  TypeOK'
<1> DEFINE head == SubSeq(raw, 1, IF Len(raw) < MaxEventsPerBatch
                                  THEN Len(raw) ELSE MaxEventsPerBatch)
           Count(K) == Cardinality({i \in DOMAIN head : head[i] \in K})
           valid == Count({"event", "correlation"})
           idle == IF pointer = None THEN valid ELSE 0
           kept == valid - idle
<1>1. /\ raw \in Seq(Kinds) /\ MaxEventsPerBatch \in Nat
      /\ head \in Seq(Kinds) /\ Len(head) <= Len(raw)
  BY CollectorAssumption
<1>2. \A K : Count(K) \in Nat
  BY <1>1, CountOfPositions
<1>3. /\ valid \in Nat /\ idle \in Nat /\ kept \in Nat /\ kept <= valid
      /\ Overflow(kept) \in Nat
  <2>1. valid \in Nat
    BY <1>2
  <2> HIDE DEF valid
  <2> QED
    BY <2>1 DEF Overflow
<1>4. counters' \in Counters
  <2> DEFINE bad == Count({"malformed"})
             hints == Count({"correlation"})
             over == Overflow(kept)
             past == Len(raw) - Len(head)
  <2>1. counters' = [counters EXCEPT
          !.received = @ + Len(raw), !.dropped_invalid = @ + bad,
          !.dropped_over_batch = @ + past, !.dropped_overflow = @ + over,
          !.discarded_idle = @ + idle, !.correlations = @ + hints]
    BY DEF Submit
  <2>2. bad \in Nat /\ hints \in Nat /\ over \in Nat /\ idle \in Nat
    BY <1>2, <1>3
  <2>3. Len(raw) \in Nat /\ past \in Nat
    <3> HIDE DEF head
    <3> QED
      BY <1>1
  <2>4. counters \in Counters
    BY DEF TypeOK
  <2> HIDE DEF bad, hints, over, past, idle
  <2> QED
    BY <2>1, <2>2, <2>3, <2>4, CountersAdd
<1>5. queue' \in Seq(Item) /\ accepted' \in Seq(Runs) /\ Len(accepted') <= MaxEvents
  <2>1. CASE kept > 0
    <3>1. pointer \in Runs
      <4> HIDE DEF valid
      <4>1. pointer # None
        BY <2>1, <1>3
      <4> QED
        BY <4>1 DEF TypeOK
    <3>2. Put(kept) /\ Len(accepted) + valid <= MaxEvents
      BY <2>1 DEF Submit
    <3> HIDE DEF kept, valid
    <3>3. Len(accepted) + kept <= MaxEvents
      BY <3>2, <1>3, CollectorAssumption DEF TypeOK
    <3> QED
      BY <3>1, <3>2, <3>3, <1>3, PutType
  <2>2. CASE ~(kept > 0)
    BY <2>2 DEF Submit, TypeOK
  <2> QED
    BY <2>1, <2>2
<1> QED
  BY <1>4, <1>5 DEF Submit, TypeOK, database

LEMMA RegisterType ==
  ASSUME TypeOK, RegisterCorrelation
  PROVE  TypeOK'
<1>1. counters' \in Counters
  <2> DEFINE idle == IF pointer = None THEN 1 ELSE 0
             over == IF pointer = None THEN 0 ELSE Overflow(1)
  <2>1. /\ counters.correlations + 1 \in Nat /\ counters.received + 1 \in Nat
        /\ counters.discarded_idle + idle \in Nat
        /\ counters.dropped_overflow + over \in Nat
    BY DEF TypeOK, Counters, Overflow
  <2> QED
    BY <2>1, CountersRegister DEF RegisterCorrelation, TypeOK
<1>2. queue' \in Seq(Item) /\ accepted' \in Seq(Runs) /\ Len(accepted') <= MaxEvents
  <2>1. CASE pointer = None
    BY <2>1 DEF RegisterCorrelation, TypeOK
  <2>2. CASE pointer # None
    <3>1. pointer \in Runs /\ Put(1) /\ Len(accepted) + 1 <= MaxEvents
      BY <2>2, CollectorAssumption DEF RegisterCorrelation, TypeOK
    <3> QED
      BY <3>1, PutType
  <2> QED
    BY <2>1, <2>2
<1> QED
  BY <1>1, <1>2 DEF RegisterCorrelation, TypeOK, database

LEMMA RejectType ==
  ASSUME TypeOK, RejectBody
  PROVE  TypeOK'
<1>1. counters.dropped_invalid + 1 \in Nat
  BY DEF TypeOK, Counters
<1>2. counters' \in Counters
  BY <1>1, CountersOne DEF RejectBody, TypeOK
<1> QED
  BY <1>2 DEF RejectBody, TypeOK, database, history

(* Where a call or an export goes next is typed.                           *)
LEMMA CallGoes ==
  ASSUME NEW e \in Call,
         NEW p \in {"idle", "flush", "lock", "commit", "clear", "insert", "publish"}
  PROVE  LET f == [e EXCEPT !.pc = p] IN
         f \in Call /\ f.pc = p /\ f.op = e.op /\ f.run = e.run /\ f.closing = e.closing
BY DEF Call

LEMMA ReadMoves ==
  ASSUME NEW e \in Read, NEW p \in {"idle", "page", "flush", "select", "done"},
         NEW n \in Nat, NEW S \in SUBSET (1..MaxEvents)
  PROVE  /\ [e EXCEPT !.pc = p] \in Read
         /\ [e EXCEPT !.pc = p, !.cursor = n, !.got = S] \in Read
BY DEF Read

LEMMA WakeType ==
  ASSUME TypeOK, WakeFlushed
  PROVE  call' \in [Callers -> Call] /\ read' \in [Readers -> Read]
<1>1. \A c \in Callers : [call[c] EXCEPT !.pc = "lock"] \in Call
  BY CallGoes DEF TypeOK
<1>2. \A x \in Readers : [read[x] EXCEPT !.pc = "select"] \in Read
  BY ReadMoves DEF TypeOK
<1> QED
  BY <1>1, <1>2 DEF WakeFlushed, TypeOK

(* How many of the first m queued events carry run r.                      *)
LEMMA StampsCounted ==
  ASSUME NEW m \in Nat, NEW r
  PROVE  /\ IsFiniteSet({j \in 1..m : queue[j].run = r})
         /\ Cardinality({j \in 1..m : queue[j].run = r}) \in Nat
<1>1. IsFiniteSet(1..m)
  BY FS_Interval
<1>2. {j \in 1..m : queue[j].run = r} \in SUBSET (1..m)
  OBVIOUS
<1> QED
  BY <1>1, <1>2, FS_Subset, FS_CardinalityType

LEMMA TakeType ==
  ASSUME TypeOK, WriterTake
  PROVE  TypeOK'
<1>1. PICK n \in DOMAIN queue :
        /\ writing' = {[run |-> Stamp(i), ev |-> queue[i].ev, seq |-> NextSeq(i)] : i \in 1..n}
        /\ seqOf' = [r \in Runs |-> seqOf[r] + Cardinality({j \in 1..n : queue[j].run = r})]
        /\ queue' = SubSeq(queue, n + 1, Len(queue))
  BY DEF WriterTake
<1>2. \A r : \A m \in Nat : Cardinality({j \in 1..m : queue[j].run = r}) \in Nat
  BY StampsCounted, Zenon
<1>3. n \in Nat /\ n \in 1..Len(queue) /\ queue \in Seq(Item)
  BY DEF TypeOK
<1>4. \A i \in 1..n : queue[i] \in Item /\ NextSeq(i) \in Nat
  <2> SUFFICES ASSUME NEW i \in 1..n PROVE queue[i] \in Item /\ NextSeq(i) \in Nat
    OBVIOUS
  <2>1. queue[i] \in Item
    BY <1>3
  <2>2. seqOf[queue[i].run] \in Nat
    BY <2>1 DEF Item, TypeOK
  <2>3. Cardinality({j \in 1..i : queue[j].run = queue[i].run}) \in Nat
    <3>1. i \in Nat
      BY <1>3
    <3> QED
      BY <1>2, <3>1, Zenon
  <2> QED
    BY <2>1, <2>2, <2>3 DEF NextSeq
<1>5. writing' \in SUBSET Row
  BY <1>1, <1>4 DEF Row, Item, Stamp
<1>6. seqOf' \in [Runs -> Nat]
  <2>1. \A r \in Runs : Cardinality({j \in 1..n : queue[j].run = r}) \in Nat
    BY <1>2, <1>3, Zenon
  <2>2. \A r \in Runs : seqOf[r] + Cardinality({j \in 1..n : queue[j].run = r}) \in Nat
    BY <2>1 DEF TypeOK
  <2> QED
    BY <1>1, <2>2
<1>7. queue' \in Seq(Item)
  BY <1>1, <1>3
<1> QED
  BY <1>5, <1>6, <1>7 DEF WriterTake, TypeOK, database, history
(* The rows a transaction brings to each run can be counted.               *)
LEMMA RowsCounted ==
  ASSUME NEW S, IsFiniteSet(S), NEW r
  PROVE  /\ IsFiniteSet({x \in S : x.run = r})
         /\ Cardinality({x \in S : x.run = r}) \in Nat
<1>1. {x \in S : x.run = r} \in SUBSET S
  OBVIOUS
<1> QED
  BY <1>1, FS_Subset, FS_CardinalityType

LEMMA RowCounts ==
  ASSUME NEW w \in RunRow, NEW n \in Nat
  PROVE  [w EXCEPT !.count = n] \in RunRow
BY DEF RunRow

LEMMA CommitRowsType ==
  ASSUME TypeOK, IsFiniteSet(writing), CommitRows
  PROVE  rows' \in SUBSET Row /\ runRow' \in [Runs -> RunRow]
<1>1. rows' \in SUBSET Row
  BY DEF CommitRows, TypeOK
<1>2. \A r : Cardinality({x \in writing : x.run = r}) \in Nat
  BY RowsCounted, Zenon
<1> DEFINE grown(r) == [runRow[r] EXCEPT !.count = @ + Cardinality({x \in writing : x.run = r})]
<1>3. \A r \in Runs : grown(r) \in RunRow
  <2> SUFFICES ASSUME NEW r \in Runs PROVE grown(r) \in RunRow
    OBVIOUS
  <2> DEFINE more == Cardinality({x \in writing : x.run = r})
  <2>1. more \in Nat
    BY <1>2
  <2>2. runRow[r] \in RunRow
    BY DEF TypeOK
  <2> HIDE DEF more
  <2>3. runRow[r].count + more \in Nat
    BY <2>1, <2>2 DEF RunRow
  <2>4. grown(r) = [runRow[r] EXCEPT !.count = runRow[r].count + more]
    BY DEF more
  <2> QED
    BY <2>2, <2>3, <2>4, RowCounts
<1>4. runRow' = [r \in Runs |-> grown(r)]
  BY DEF CommitRows
<1> HIDE DEF grown
<1> QED
  BY <1>1, <1>3, <1>4

LEMMA EventsType ==
  ASSUME TypeOK
  PROVE  /\ Events(writing) \in SUBSET (1..MaxEvents)
         /\ {queue[i].ev : i \in DOMAIN queue} \in SUBSET (1..MaxEvents)
<1>1. Events(writing) \in SUBSET (1..MaxEvents)
  BY DEF TypeOK, Events, Row
<1>2. \A i \in DOMAIN queue : queue[i] \in Item
  BY DEF TypeOK
<1> QED
  BY <1>1, <1>2 DEF Item

LEMMA WrittenCounted ==
  ASSUME TypeOK, IsFiniteSet(writing)
  PROVE  /\ [counters EXCEPT !.written = @ + Cardinality(writing)] \in Counters
         /\ [counters EXCEPT !.dropped_write_error = @ + Cardinality(writing)] \in Counters
<1>1. Cardinality(writing) \in Nat
  BY FS_CardinalityType
<1>2. counters \in Counters
  BY DEF TypeOK
<1> DEFINE n == Cardinality(writing)
<1> HIDE DEF n
<1>3. counters.written + n \in Nat /\ counters.dropped_write_error + n \in Nat
  BY <1>1, <1>2 DEF n, Counters
<1> QED
  BY <1>2, <1>3, CountersOne DEF n

LEMMA WriterCommitType ==
  ASSUME TypeOK, IsFiniteSet(writing), WriterCommit
  PROVE  TypeOK'
<1>1. rows' \in SUBSET Row /\ runRow' \in [Runs -> RunRow]
  BY CommitRowsType DEF WriterCommit
<1>2. counters' \in Counters
  BY WrittenCounted DEF WriterCommit
<1>3. call' \in [Callers -> Call] /\ read' \in [Readers -> Read]
  BY WakeType DEF WriterCommit
<1> QED
  BY <1>1, <1>2, <1>3 DEF WriterCommit, TypeOK, history

LEMMA WriterFailType ==
  ASSUME TypeOK, IsFiniteSet(writing), WriterFail
  PROVE  TypeOK'
<1>1. PICK how \in CommitErrors :
        IF how = "refused"
        THEN lost' = lost \cup Events(writing) /\ UNCHANGED database
        ELSE CommitRows /\ UNCHANGED lost
  BY DEF WriterFail
<1>2. /\ rows' \in SUBSET Row /\ runRow' \in [Runs -> RunRow]
      /\ lost' \in SUBSET (1..MaxEvents)
  <2>1. CASE how = "refused"
    BY <1>1, <2>1, EventsType DEF TypeOK, database
  <2>2. CASE how # "refused"
    <3>1. CommitRows /\ UNCHANGED lost
      BY <1>1, <2>2
    <3> QED
      BY <3>1, CommitRowsType DEF TypeOK
  <2> QED
    BY <2>1, <2>2
<1>3. counters' \in Counters
  BY WrittenCounted DEF WriterFail
<1>4. call' \in [Callers -> Call] /\ read' \in [Readers -> Read]
  BY WakeType DEF WriterFail
<1> QED
  BY <1>2, <1>3, <1>4 DEF WriterFail, TypeOK

(* Opening and closing move one caller's entry and free or take the lock.  *)
LEMMA CallTyped ==
  ASSUME TypeOK, NEW c \in Callers, NEW e \in Call, Advance(c, e)
  PROVE  call' \in [Callers -> Call]
BY DEF TypeOK, Advance

(* What TypeOK needs to be inductive: the transaction can be counted, and  *)
(* a call that is about to use its run names one.                          *)
NamesRun(e) ==
  \/ e.pc \in {"commit", "clear", "publish"}
  \/ e.pc \in {"flush", "lock"} /\ e.op = "close"

CallsNamed ==
  \A c \in Callers :
    /\ call[c].pc = "flush" => call[c].op = "close"
    /\ NamesRun(call[c]) => call[c].run \in Runs

TypeInv ==
  /\ TypeOK /\ CallsNamed
  /\ IsFiniteSet(writing)

LEMMA AdvanceType ==
  ASSUME TypeInv, NEW c \in Callers, NEW e \in Call, Advance(c, e),
         e.pc = "flush" => e.op = "close", NamesRun(e) => e.run \in Runs
  PROVE  call' \in [Callers -> Call] /\ CallsNamed'
<1>1. call' \in [Callers -> Call]
  BY CallTyped DEF TypeInv
<1>2. call'[c] = e /\ \A d \in Callers : d # c => call'[d] = call[d]
  BY DEF Advance, TypeInv, TypeOK
<1> QED
  BY <1>1, <1>2 DEF TypeInv, CallsNamed

LEMMA ReturnType ==
  ASSUME TypeInv, NEW c \in Callers, Return(c)
  PROVE  call' \in [Callers -> Call] /\ CallsNamed' /\ lock' = None
BY AdvanceType, Defaults DEF Return, Idle, NamesRun

LEMMA BeginType ==
  ASSUME TypeInv, NEW c \in Callers, Begin(c)
  PROVE  TypeOK' /\ CallsNamed'
<1>1. ASSUME NEW r \in Runs, NEW apps \in SUBSET Apps, CloseBegin(c, r, apps)
      PROVE  TypeOK' /\ CallsNamed'
  <2> DEFINE e == [Idle EXCEPT !.pc = IF Drained THEN "lock" ELSE "flush",
                               !.run = r, !.closing = apps]
  <2>1. e \in Call /\ e.op = "close" /\ e.run = r
    BY DEF Idle, Call, NoRun, RunRow
  <2>2. Advance(c, e)
    BY <1>1 DEF CloseBegin
  <2> HIDE DEF e
  <2>3. call' \in [Callers -> Call] /\ CallsNamed'
    BY <2>1, <2>2, AdvanceType
  <2> QED
    BY <1>1, <2>3 DEF CloseBegin, TypeInv, TypeOK, memory, database, history
<1>2. ASSUME NEW force \in BOOLEAN, OpenBegin(c, force)
      PROVE  TypeOK' /\ CallsNamed'
  <2> DEFINE e == [Idle EXCEPT !.pc = "lock", !.op = "open", !.force = force]
  <2>1. e \in Call /\ e.op = "open" /\ e.pc = "lock"
    BY DEF Idle, Call, NoRun, RunRow
  <2>2. Advance(c, e)
    BY <1>2 DEF OpenBegin
  <2> HIDE DEF e
  <2>3. call' \in [Callers -> Call] /\ CallsNamed'
    BY <2>1, <2>2, AdvanceType DEF NamesRun
  <2> QED
    BY <1>2, <2>3 DEF OpenBegin, TypeInv, TypeOK, memory, database, history
<1> QED
  BY <1>1, <1>2 DEF Begin

LEMMA AcquireType ==
  ASSUME TypeInv, NEW c \in Callers, Acquire(c)
  PROVE  TypeOK' /\ CallsNamed'
<1> DEFINE r == IF call[c].op = "close" THEN call[c].run ELSE pointer
           held == [call[c] EXCEPT !.pc = "commit", !.run = r, !.seen = runRow[r]]
           free == [call[c] EXCEPT !.pc = "insert"]
<1>1. TypeOK /\ call[c] \in Call /\ call[c].pc = "lock"
  BY DEF TypeInv, TypeOK, Acquire, At
<1>2. r \in Runs \cup {None} /\ (call[c].op = "close" => r \in Runs)
  BY <1>1 DEF TypeInv, CallsNamed, NamesRun, TypeOK, Call
<1>3. \/ lock' = c /\ Advance(c, free)
      \/ Return(c)
      \/ r \in Runs /\ lock' = c /\ Advance(c, held)
  BY <1>2 DEF Acquire
<1>4. free \in Call /\ free.pc = "insert"
  BY <1>1, CallGoes
<1> HIDE DEF r
<1>5. held = [call[c] EXCEPT !.pc = "commit", !.run = r, !.seen = runRow[r]]
  OBVIOUS
<1> HIDE DEF held, free
<1>6. ASSUME r \in Runs
      PROVE  held \in Call /\ held.pc = "commit" /\ held.run = r
  <2>1. runRow[r] \in RunRow
    BY <1>1, <1>6 DEF TypeOK
  <2> QED
    BY <1>1, <1>5, <1>6, <2>1 DEF Call
<1>7. /\ call' \in [Callers -> Call] /\ CallsNamed'
      /\ lock' \in Callers \cup {None}
  <2>1. CASE lock' = c /\ Advance(c, free)
    BY <2>1, <1>4, AdvanceType DEF NamesRun
  <2>2. CASE Return(c)
    BY <2>2, ReturnType
  <2>3. CASE r \in Runs /\ lock' = c /\ Advance(c, held)
    BY <2>3, <1>6, AdvanceType
  <2> QED
    BY <1>3, <2>1, <2>2, <2>3
<1> QED
  BY <1>1, <1>7 DEF Acquire, TypeOK, database, history
LEMMA MarkClosedType ==
  ASSUME TypeInv, NEW c \in Callers, call[c].run \in Runs, MarkClosed(c)
  PROVE  runRow' \in [Runs -> RunRow]
<1>1. TypeOK /\ call[c] \in Call /\ runRow[call[c].run] \in RunRow
  BY DEF TypeInv, TypeOK
<1>2. (IF call[c].closing = {} THEN runRow[call[c].run].addresses
       ELSE call[c].seen.addresses \cup call[c].closing) \in SUBSET Apps
  BY <1>1 DEF Call, RunRow
<1>3. runRow[call[c].run].count \in Nat
  BY <1>1 DEF RunRow
<1> QED
  BY <1>1, <1>2, <1>3 DEF MarkClosed, TypeOK, RunRow

LEMMA CloseCommitType ==
  ASSUME TypeInv, NEW c \in Callers, CloseCommit(c)
  PROVE  TypeOK' /\ CallsNamed'
<1>1. TypeOK /\ call[c] \in Call /\ call[c].run \in Runs
  BY DEF TypeInv, TypeOK, CloseCommit, At, CallsNamed, NamesRun
<1>2. call' \in [Callers -> Call] /\ CallsNamed'
  <2> DEFINE e == [call[c] EXCEPT !.pc = "clear"]
  <2>1. e \in Call /\ e.pc = "clear" /\ e.run \in Runs
    BY <1>1, CallGoes
  <2>2. Advance(c, e)
    BY DEF CloseCommit
  <2> HIDE DEF e
  <2> QED
    BY <2>1, <2>2, AdvanceType
<1>3. runRow' \in [Runs -> RunRow]
  BY <1>1, MarkClosedType DEF CloseCommit, TypeOK
<1> QED
  BY <1>1, <1>2, <1>3 DEF CloseCommit, TypeOK, memory, history

LEMMA CloseFailType ==
  ASSUME TypeInv, NEW c \in Callers, CloseFail(c)
  PROVE  TypeOK' /\ CallsNamed'
<1>1. TypeOK /\ call[c].run \in Runs
  BY DEF TypeInv, CloseFail, At, CallsNamed, NamesRun
<1>2. UNCHANGED runRow \/ MarkClosed(c)
  BY DEF CloseFail
<1>3. runRow' \in [Runs -> RunRow]
  BY <1>1, <1>2, MarkClosedType DEF TypeOK
<1>4. call' \in [Callers -> Call] /\ CallsNamed' /\ lock' = None
  BY ReturnType DEF CloseFail
<1> QED
  BY <1>1, <1>3, <1>4 DEF CloseFail, TypeOK, history

LEMMA CloseClearType ==
  ASSUME TypeInv, NEW c \in Callers, CloseClear(c)
  PROVE  TypeOK' /\ CallsNamed'
<1>1. TypeOK /\ call[c] \in Call /\ call[c].run \in Runs
  BY DEF TypeInv, TypeOK, CloseClear, At, CallsNamed, NamesRun
<1>2. /\ pointer' \in Runs \cup {None} /\ sealed' \in SUBSET Runs
      /\ folded' \in [Runs -> SUBSET Apps]
  <2>1. call[c].closing \in SUBSET Apps
    BY <1>1 DEF Call
  <2>2. folded[call[c].run] \cup call[c].closing \in SUBSET Apps
    BY <1>1, <2>1 DEF TypeOK
  <2> QED
    BY <1>1, <2>2 DEF CloseClear, Cleared, TypeOK
<1>3. /\ call' \in [Callers -> Call] /\ CallsNamed'
      /\ lock' \in Callers \cup {None}
  <2>1. CASE call[c].op = "close"
    BY <2>1, ReturnType DEF CloseClear
  <2>2. CASE call[c].op # "close"
    <3> DEFINE e == [call[c] EXCEPT !.pc = "insert", !.run = None]
    <3>1. Advance(c, e) /\ UNCHANGED lock
      BY <2>2 DEF CloseClear
    <3>2. e = [call[c] EXCEPT !.pc = "insert", !.run = None]
      OBVIOUS
    <3> HIDE DEF e
    <3>3. e \in Call /\ e.pc = "insert"
      BY <1>1, <3>2 DEF Call
    <3> QED
      BY <1>1, <3>1, <3>3, AdvanceType DEF NamesRun, TypeOK
  <2> QED
    BY <2>1, <2>2
<1> QED
  BY <1>1, <1>2, <1>3 DEF CloseClear, TypeOK, database

LEMMA InsertRunType ==
  ASSUME TypeOK, NEW r \in Runs, InsertRun(r)
  PROVE  runRow' \in [Runs -> RunRow]
<1>1. [NoRun EXCEPT !.state = "active"] \in RunRow
  BY DEF NoRun, RunRow
<1> QED
  BY <1>1 DEF InsertRun, TypeOK

LEMMA OpenInsertType ==
  ASSUME TypeInv, NEW c \in Callers, OpenInsert(c)
  PROVE  TypeOK' /\ CallsNamed'
<1>1. PICK r \in Runs :
        InsertRun(r) /\ Advance(c, [call[c] EXCEPT !.pc = "publish", !.run = r])
  BY DEF OpenInsert
<1>2. TypeOK /\ call[c] \in Call
  BY DEF TypeInv, TypeOK
<1>3. call' \in [Callers -> Call] /\ CallsNamed'
  <2> DEFINE e == [call[c] EXCEPT !.pc = "publish", !.run = r]
  <2>1. Advance(c, e)
    BY <1>1
  <2>2. e = [call[c] EXCEPT !.pc = "publish", !.run = r]
    OBVIOUS
  <2> HIDE DEF e
  <2>3. e \in Call /\ e.pc = "publish" /\ e.run = r
    BY <1>1, <1>2, <2>2 DEF Call
  <2> QED
    BY <1>1, <2>1, <2>3, AdvanceType
<1>4. runRow' \in [Runs -> RunRow]
  BY <1>1, <1>2, InsertRunType
<1> QED
  BY <1>2, <1>3, <1>4 DEF OpenInsert, TypeOK, memory, history

LEMMA OpenFailType ==
  ASSUME TypeInv, NEW c \in Callers, OpenFail(c)
  PROVE  TypeOK' /\ CallsNamed'
<1>1. TypeOK /\ (UNCHANGED runRow \/ \E r \in Runs : InsertRun(r))
  BY DEF TypeInv, OpenFail
<1>2. runRow' \in [Runs -> RunRow]
  BY <1>1, InsertRunType DEF TypeOK
<1>3. call' \in [Callers -> Call] /\ CallsNamed' /\ lock' = None
  BY ReturnType DEF OpenFail
<1> QED
  BY <1>1, <1>2, <1>3 DEF OpenFail, TypeOK, history

LEMMA OpenPublishType ==
  ASSUME TypeInv, NEW c \in Callers, OpenPublish(c)
  PROVE  TypeOK' /\ CallsNamed'
<1>1. TypeOK /\ call[c].run \in Runs
  BY DEF TypeInv, OpenPublish, At, CallsNamed, NamesRun
<1>2. call' \in [Callers -> Call] /\ CallsNamed' /\ lock' = None
  BY ReturnType DEF OpenPublish
<1> QED
  BY <1>1, <1>2 DEF OpenPublish, TypeOK, database, history
(* Exports move one reader's entry.                                        *)
LEMMA ReadingType ==
  ASSUME TypeOK, NEW x \in Readers, NEW e \in Read, Reading(x, e)
  PROVE  read' \in [Readers -> Read]
BY DEF TypeOK, Reading

LEMMA ReadBeginType ==
  ASSUME TypeOK, NEW x \in Readers, NEW r \in Runs, ReadBegin(x, r)
  PROVE  TypeOK'
<1> DEFINE late == r \in sealed
           e == [NotReading EXCEPT !.pc = "page", !.run = r, !.late = late]
<1>1. late \in BOOLEAN /\ Reading(x, e)
  BY DEF ReadBegin
<1> HIDE DEF late
<1>2. e \in Read
  BY <1>1 DEF NotReading, Read
<1> HIDE DEF e
<1>3. read' \in [Readers -> Read]
  BY <1>1, <1>2, ReadingType
<1> QED
  BY <1>3 DEF ReadBegin, TypeOK, memory, database, history

LEMMA ReadStepType ==
  ASSUME TypeOK, NEW x \in Readers, ReadStep(x)
  PROVE  TypeOK'
<1>1. read[x] \in Read
  BY DEF TypeOK
<1>2. ASSUME ReadRequest(x) PROVE TypeOK'
  <2> DEFINE p == IF Drained THEN "select" ELSE "flush"
  <2>1. [read[x] EXCEPT !.pc = p] \in Read
    BY <1>1 DEF Read
  <2>2. read' \in [Readers -> Read]
    BY <1>2, <2>1, ReadingType DEF ReadRequest
  <2> QED
    BY <1>2, <2>2 DEF ReadRequest, TypeOK, memory, database, history
<1>3. ASSUME ReadSelect(x) PROVE TypeOK'
  <2> DEFINE page == Page(read[x].run, read[x].cursor)
  <2>1. page \subseteq Row /\ Events(page) \in SUBSET (1..MaxEvents)
    BY DEF Page, RowsOf, TypeOK, Events, Row
  <2> HIDE DEF page
  <2>2. CASE Reading(x, [read[x] EXCEPT !.pc = "done"])
    <3>1. [read[x] EXCEPT !.pc = "done"] \in Read
      BY <1>1 DEF Read
    <3> QED
      BY <1>3, <2>2, <3>1, ReadingType DEF ReadSelect, TypeOK, memory, database, history
  <2>3. CASE \E y \in page, next \in {"page", "done"} :
               Reading(x, [read[x] EXCEPT !.pc = next, !.cursor = y.seq,
                                          !.got = @ \cup Events(page)])
    <3>1. PICK y \in page, next \in {"page", "done"} :
            Reading(x, [read[x] EXCEPT !.pc = next, !.cursor = y.seq,
                                       !.got = @ \cup Events(page)])
      BY <2>3
    <3> DEFINE e == [read[x] EXCEPT !.pc = next, !.cursor = y.seq,
                                    !.got = @ \cup Events(page)]
    <3>2. y.seq \in Nat
      BY <2>1, <3>1 DEF Row
    <3>3. e \in Read
      BY <1>1, <2>1, <3>1, <3>2 DEF Read
    <3>4. Reading(x, e)
      BY <3>1
    <3> HIDE DEF e
    <3> QED
      BY <1>3, <3>3, <3>4, ReadingType DEF ReadSelect, TypeOK, memory, database, history
  <2> QED
    BY <1>3, <2>2, <2>3 DEF ReadSelect, page
<1>4. ASSUME ReadFail(x) PROVE TypeOK'
  BY <1>4, Defaults, ReadingType DEF ReadFail, TypeOK, memory, database, history
<1> QED
  BY <1>2, <1>3, <1>4 DEF ReadStep

(* A crash or a shutdown leaves memory as a fresh process finds it.        *)
LEMMA GoDownType ==
  ASSUME TypeInv, GoDown, lost' \in SUBSET (1..MaxEvents)
  PROVE  TypeOK' /\ CallsNamed'
<1>1. call' \in [Callers -> Call] /\ read' \in [Readers -> Read]
  BY Defaults DEF TypeInv, GoDown, TypeOK
<1>2. CallsNamed'
  BY DEF GoDown, CallsNamed, NamesRun, Idle
<1>3. seqOf' \in [Runs -> Nat] /\ queue' \in Seq(Item) /\ writing' \in SUBSET Row
  BY DEF GoDown
<1>4. counters' \in Counters /\ unparsed' \in Nat /\ pointer' = None /\ lock' = None
  BY Defaults DEF GoDown
<1>5. up' \in BOOLEAN
  BY DEF GoDown
<1> QED
  BY <1>1, <1>2, <1>3, <1>4, <1>5 DEF TypeInv, GoDown, TypeOK, database

LEMMA RestartType ==
  ASSUME TypeOK, Restart
  PROVE  TypeOK'
<1>1. pointer' \in Runs \cup {None} /\ seqOf' \in [Runs -> Nat]
  <2>1. CASE UNCHANGED <<pointer, seqOf>>
    BY <2>1 DEF TypeOK
  <2>2. ASSUME NEW r \in Runs, NEW n \in LastSeq(r),
               pointer' = r, seqOf' = [seqOf EXCEPT ![r] = n]
        PROVE  pointer' \in Runs \cup {None} /\ seqOf' \in [Runs -> Nat]
    <3>1. n \in Nat
      BY DEF LastSeq, RowsOf, TypeOK, Row
    <3> QED
      BY <2>2, <3>1 DEF TypeOK
  <2> QED
    BY <2>1, <2>2 DEF Restart, Adoptable, Active
<1> QED
  BY <1>1 DEF Restart, TypeOK, database, history

(* The rows in the writer's hands are the image of an initial segment of   *)
(* the queue, hence finite.                                                *)
LEMMA TakenFinite ==
  ASSUME TypeOK, WriterTake
  PROVE  IsFiniteSet(writing')
<1>1. PICK n \in DOMAIN queue :
        writing' = {[run |-> Stamp(i), ev |-> queue[i].ev, seq |-> NextSeq(i)] : i \in 1..n}
  BY DEF WriterTake
<1> DEFINE f == [i \in 1..n |-> [run |-> Stamp(i), ev |-> queue[i].ev, seq |-> NextSeq(i)]]
<1>2. f \in Surjection(1..n, writing')
  BY <1>1 DEF Surjection
<1>3. n \in Int
  BY DEF TypeOK
<1>4. IsFiniteSet(1..n)
  BY <1>3, FS_Interval
<1> QED
  BY <1>2, <1>4, FS_Surjection

LEMMA InitTypeInv == Init => TypeInv
<1>1. Init => CallsNamed
  BY DEF Init, CallsNamed, NamesRun, Idle
<1>2. Init => IsFiniteSet(writing)
  BY FS_EmptySet DEF Init
<1> QED
  BY <1>1, <1>2, InitTypeOK DEF TypeInv

LEMMA TypeStep == TypeInv /\ [Next]_vars => TypeInv'
<1> SUFFICES ASSUME TypeInv, [Next]_vars PROVE TypeInv'
  OBVIOUS
<1>1. TypeOK /\ CallsNamed /\ IsFiniteSet(writing)
  BY DEF TypeInv
<1>2. ASSUME Intake PROVE TypeInv'
  <2>1. TypeOK'
    BY <1>1, <1>2, SubmitType, RegisterType, RejectType DEF Intake
  <2>2. UNCHANGED <<call, writing>>
    BY <1>2 DEF Intake, Submit, RegisterCorrelation, RejectBody
  <2> QED
    BY <1>1, <2>1, <2>2 DEF TypeInv, CallsNamed
<1>3. ASSUME Writer PROVE TypeInv'
  <2>1. CASE WriterTake
    <3>1. UNCHANGED call
      BY <2>1 DEF WriterTake
    <3> QED
      BY <1>1, <2>1, <3>1, TakeType, TakenFinite DEF TypeInv, CallsNamed
  <2>2. CASE WriterCommit \/ WriterFail
    <3>1. WakeFlushed /\ writing' = {}
      BY <2>2 DEF WriterCommit, WriterFail
    <3>2. CallsNamed'
      <4> SUFFICES ASSUME NEW c \in Callers
                   PROVE  /\ call'[c].pc = "flush" => call'[c].op = "close"
                          /\ NamesRun(call'[c]) => call'[c].run \in Runs
        BY DEF CallsNamed
      <4>1. \/ call'[c] = call[c]
            \/ call[c].pc = "flush" /\ call'[c] = [call[c] EXCEPT !.pc = "lock"]
        BY <3>1 DEF WakeFlushed
      <4>2. call[c] \in Call
        BY <1>1 DEF TypeOK
      <4>3. CASE call'[c] = call[c]
        BY <1>1, <4>3 DEF CallsNamed
      <4>4. CASE call[c].pc = "flush" /\ call'[c] = [call[c] EXCEPT !.pc = "lock"]
        <5>1. call[c].op = "close" /\ call[c].run \in Runs
          BY <1>1, <4>4 DEF CallsNamed, NamesRun
        <5>2. call'[c].pc = "lock" /\ call'[c].run = call[c].run
          BY <4>2, <4>4 DEF Call
        <5> QED
          BY <5>1, <5>2
      <4> QED
        BY <4>1, <4>3, <4>4
    <3> QED
      BY <1>1, <2>2, <3>1, <3>2, WriterCommitType, WriterFailType, FS_EmptySet DEF TypeInv
  <2> QED
    BY <1>3, <2>1, <2>2 DEF Writer
<1>4. ASSUME NEW c \in Callers, Begin(c) \/ Acquire(c) \/ Proceed(c) PROVE TypeInv'
  <2>1. TypeOK' /\ CallsNamed'
    BY <1>4, BeginType, AcquireType, CloseCommitType, CloseFailType, CloseClearType,
       OpenInsertType, OpenFailType, OpenPublishType DEF Proceed
  <2>2. UNCHANGED writing
    BY <1>4 DEF Begin, CloseBegin, OpenBegin, Acquire, Proceed, CloseCommit, CloseFail,
       CloseClear, OpenInsert, OpenFail, OpenPublish, memory
  <2> QED
    BY <1>1, <2>1, <2>2 DEF TypeInv
<1>5. ASSUME NEW x \in Readers, (\E r \in Runs : ReadBegin(x, r)) \/ ReadStep(x)
      PROVE  TypeInv'
  <2>1. TypeOK'
    BY <1>1, <1>5, ReadBeginType, ReadStepType
  <2>2. UNCHANGED <<call, writing>>
    BY <1>5 DEF ReadBegin, ReadStep, ReadRequest, ReadSelect, ReadFail, memory
  <2> QED
    BY <1>1, <2>1, <2>2 DEF TypeInv, CallsNamed
<1>6. ASSUME Crash \/ Stop PROVE TypeInv'
  <2>1. GoDown /\ lost' \in SUBSET (1..MaxEvents)
    BY <1>1, <1>6, EventsType DEF Crash, Stop, TypeOK
  <2>2. writing' = {}
    BY <2>1 DEF GoDown
  <2> QED
    BY <2>1, <2>2, GoDownType, FS_EmptySet DEF TypeInv
<1>7. ASSUME Restart PROVE TypeInv'
  <2>1. UNCHANGED <<call, writing>>
    BY <1>7 DEF Restart
  <2> QED
    BY <1>1, <1>7, <2>1, RestartType DEF TypeInv, CallsNamed
<1>8. ASSUME UNCHANGED vars PROVE TypeInv'
  BY <1>1, <1>8 DEF TypeInv, TypeOK, CallsNamed, vars, memory, database, history
<1> QED
  BY <1>2, <1>3, <1>4, <1>5, <1>6, <1>7, <1>8 DEF Next

(* Every reachable state is well typed, and the writer's transaction is    *)
(* always finite: the invariant the other theorems start from.             *)
THEOREM TypeInvariant == Spec => []TypeInv
BY InitTypeInv, TypeStep, PTL DEF Spec

(* The state never leaves the types of ingest.py and models.py, whatever   *)
(* the queue sizes, batches, clients and commit errors.                    *)
THEOREM TypeCorrect == Spec => []TypeOK
<1>1. TypeInv => TypeOK
  BY DEF TypeInv
<1> QED
  BY <1>1, TypeInvariant, PTL
-----------------------------------------------------------------------------
(* The run lifecycle: the lock is exclusive, what a close has folded in    *)
(* stays, a closed run gets no further event and, as long as a COMMIT that *)
(* raises was not applied, at most one run is active and memory agrees     *)
(* with the database.                                                      *)

Holding == {"commit", "clear", "insert", "publish"}

(* A caller holds _run_lock exactly while it is between its acquisition    *)
(* and its return.                                                         *)
LockInv ==
  /\ \A c \in Callers : call[c].pc \in Holding <=> lock = c
  /\ ~up => pointer = None /\ lock = None

(* What a lock holder has read or written is still so: nobody else closes, *)
(* opens or re-addresses a run meanwhile.                                  *)
HolderOK(c) ==
  /\ call[c].pc = "commit" =>
       /\ runRow[call[c].run].state # "none"
       /\ call[c].seen.state = runRow[call[c].run].state
       /\ call[c].seen.addresses = runRow[call[c].run].addresses
  /\ call[c].pc = "clear" =>
       /\ runRow[call[c].run].state = "closed"
       /\ call[c].closing \subseteq runRow[call[c].run].addresses
  /\ call[c].pc \in {"commit", "clear"} /\ call[c].op # "close" =>
       call[c].run = pointer
  /\ call[c].pc \in {"insert", "publish"} => pointer = None
  /\ call[c].pc = "publish" =>
       runRow[call[c].run].state = "active" /\ call[c].run \notin sealed

HolderInv == \A c \in Callers : HolderOK(c)

(* A sealed run is closed in the database and is not the one in memory.    *)
SealInv ==
  /\ \A r \in sealed : runRow[r].state = "closed" /\ pointer # r
  /\ \A r \in Runs : runRow[r].state = "none" => pointer # r /\ folded[r] = {}

RunInv == TypeInv /\ LockInv /\ HolderInv /\ SealInv /\ AddressesKept

(* The database and active_run_id, at every stage of an open or a close.   *)
ActiveOK(c) ==
  /\ call[c].pc = "commit" => Active = Runs \cap {pointer}
  /\ call[c].pc = "clear" => Active = (Runs \cap {pointer}) \ {call[c].run}
  /\ call[c].pc = "insert" => Active = {}
  /\ call[c].pc = "publish" => Active = {call[c].run}

ActiveInv ==
  /\ ~up => OneActiveRow
  /\ up /\ lock = None => Active = Runs \cap {pointer}
  /\ \A c \in Callers : ActiveOK(c)

-----------------------------------------------------------------------------
(* Steps that touch no run: intake, the writer, exports, and a caller on   *)
(* its way to the lock.                                                    *)
Bystander ==
  /\ UNCHANGED <<up, pointer, lock, sealed, folded>>
  /\ \A r \in Runs :
       /\ runRow'[r].state = runRow[r].state
       /\ runRow'[r].addresses = runRow[r].addresses
  /\ \A c \in Callers :
       \/ call'[c] = call[c]
       \/ call[c].pc \notin Holding /\ call'[c].pc \notin Holding

LEMMA BystanderKeeps ==
  ASSUME RunInv, TypeInv', Bystander
  PROVE  RunInv' /\ (ActiveInv => ActiveInv')
<1>1. LockInv'
  BY DEF RunInv, LockInv, Bystander
<1>2. HolderInv'
  <2> SUFFICES ASSUME NEW c \in Callers PROVE HolderOK(c)'
    BY DEF HolderInv
  <2>1. CASE call'[c].pc \notin Holding
    BY <2>1 DEF HolderOK, Holding
  <2>2. CASE call'[c] = call[c]
    <3>1. HolderOK(c)
      BY DEF RunInv, HolderInv
    <3>2. call[c].pc \in {"commit", "clear", "publish"} => call[c].run \in Runs
      BY DEF RunInv, TypeInv, CallsNamed, NamesRun
    <3> QED
      BY <2>2, <3>1, <3>2 DEF Bystander, HolderOK
  <2> QED
    BY <2>1, <2>2 DEF Bystander
<1>3. SealInv' /\ AddressesKept'
  BY DEF RunInv, TypeInv, TypeOK, SealInv, AddressesKept, Bystander
<1>4. Active' = Active
  BY DEF Active, Bystander
<1>5. ActiveInv => ActiveInv'
  <2> SUFFICES ASSUME ActiveInv PROVE ActiveInv'
    OBVIOUS
  <2>1. \A c \in Callers : ActiveOK(c)'
    BY <1>4 DEF ActiveInv, ActiveOK, Bystander, Holding
  <2>2. OneActiveRow => OneActiveRow'
    BY <1>4 DEF OneActiveRow
  <2> QED
    BY <1>4, <2>1, <2>2 DEF ActiveInv, Bystander
<1> QED
  BY <1>1, <1>2, <1>3, <1>5 DEF RunInv

LEMMA IntakeStandsBy == ASSUME Intake PROVE Bystander
BY DEF Intake, Submit, RegisterCorrelation, RejectBody, Bystander, database, history

LEMMA ReadsStandBy ==
  ASSUME NEW x \in Readers, (\E r \in Runs : ReadBegin(x, r)) \/ ReadStep(x)
  PROVE  Bystander
BY DEF ReadBegin, ReadStep, ReadRequest, ReadSelect, ReadFail, Bystander,
       memory, database, history

LEMMA BeginStandsBy ==
  ASSUME RunInv, NEW c \in Callers, Begin(c)
  PROVE  Bystander
<1>1. call[c].pc = "idle" /\ UNCHANGED <<memory, database, history>>
  BY DEF Begin, CloseBegin, OpenBegin, At
<1>2. call'[c].pc \in {"lock", "flush"}
  BY DEF Begin, CloseBegin, OpenBegin, Advance, Idle, RunInv, TypeInv, TypeOK
<1>3. \A d \in Callers : d # c => call'[d] = call[d]
  BY DEF Begin, CloseBegin, OpenBegin, Advance, RunInv, TypeInv, TypeOK
<1> QED
  BY <1>1, <1>2, <1>3 DEF Bystander, Holding, memory, database, history

LEMMA WriterStandsBy ==
  ASSUME RunInv, Writer
  PROVE  Bystander
<1>1. UNCHANGED <<up, pointer, lock, sealed, folded>>
  BY DEF Writer, WriterTake, WriterCommit, WriterFail, history
<1>2. \A c \in Callers : \/ call'[c] = call[c]
                         \/ call[c].pc \notin Holding /\ call'[c].pc \notin Holding
  <2>1. UNCHANGED call \/ WakeFlushed
    BY DEF Writer, WriterTake, WriterCommit, WriterFail
  <2>2. SUFFICES ASSUME NEW c \in Callers, WakeFlushed
                 PROVE  \/ call'[c] = call[c]
                        \/ call[c].pc \notin Holding /\ call'[c].pc \notin Holding
    BY <2>1
  <2>3. \/ call'[c] = call[c]
        \/ call[c].pc = "flush" /\ call'[c] = [call[c] EXCEPT !.pc = "lock"]
    BY <2>2 DEF WakeFlushed
  <2>4. call[c] \in Call
    BY DEF RunInv, TypeInv, TypeOK
  <2> QED
    BY <2>3, <2>4 DEF Call, Holding
<1>3. UNCHANGED runRow \/ CommitRows
  BY DEF Writer, WriterTake, WriterCommit, WriterFail, database
<1>4. \A r \in Runs : /\ runRow'[r].state = runRow[r].state
                      /\ runRow'[r].addresses = runRow[r].addresses
  <2> SUFFICES ASSUME NEW r \in Runs, CommitRows
               PROVE  /\ runRow'[r].state = runRow[r].state
                      /\ runRow'[r].addresses = runRow[r].addresses
    BY <1>3
  <2> DEFINE n == Cardinality({x \in writing : x.run = r})
  <2>1. runRow'[r] = [runRow[r] EXCEPT !.count = @ + n]
    BY DEF CommitRows
  <2> HIDE DEF n
  <2>2. runRow[r] \in RunRow
    BY DEF RunInv, TypeInv, TypeOK
  <2> QED
    BY <2>1, <2>2 DEF RunRow
<1> QED
  BY <1>1, <1>2, <1>4 DEF Bystander

-----------------------------------------------------------------------------
(* The steps of the caller that holds the lock, or takes it.  Everyone     *)
(* else stays where it is and holds nothing.                               *)
Alone(c) ==
  /\ TypeInv'
  /\ \A d \in Callers : d # c => call'[d] = call[d] /\ call[d].pc \notin Holding

LEMMA HolderAlone ==
  ASSUME RunInv, TypeInv', NEW c \in Callers, NEW e,
         call[c].pc \in Holding \/ lock = None, Advance(c, e)
  PROVE  Alone(c) /\ call'[c] = e
<1>1. call'[c] = e /\ \A d \in Callers : d # c => call'[d] = call[d]
  BY DEF RunInv, TypeInv, TypeOK, Advance
<1>2. \A d \in Callers : d # c => call[d].pc \notin Holding
  <2>1. CASE call[c].pc \in Holding
    BY <2>1 DEF RunInv, LockInv
  <2>2. CASE lock = None
    BY <2>2, CollectorAssumption DEF RunInv, LockInv
  <2> QED
    BY <2>1, <2>2
<1> QED
  BY <1>1, <1>2 DEF Alone

LEMMA AloneHolder ==
  ASSUME NEW c \in Callers, Alone(c), HolderOK(c)'
  PROVE  HolderInv'
BY DEF Alone, HolderOK, HolderInv, Holding

LEMMA AloneActive ==
  ASSUME NEW c \in Callers, Alone(c), ActiveOK(c)'
  PROVE  \A d \in Callers : ActiveOK(d)'
BY DEF Alone, ActiveOK, Holding

LEMMA AloneLock ==
  ASSUME NEW c \in Callers, Alone(c), up', 
         \/ call'[c].pc \in Holding /\ lock' = c
         \/ call'[c].pc \notin Holding /\ lock' = None
  PROVE  LockInv'
BY CollectorAssumption DEF Alone, LockInv

LEMMA NoneIsNoRun == None \notin Runs
BY CollectorAssumption DEF Runs

LEMMA AcquireKeeps ==
  ASSUME RunInv, TypeInv', NEW c \in Callers, Acquire(c)
  PROVE  RunInv' /\ (ActiveInv => ActiveInv')
<1> DEFINE r == IF call[c].op = "close" THEN call[c].run ELSE pointer
           held == [call[c] EXCEPT !.pc = "commit", !.run = r, !.seen = runRow[r]]
           free == [call[c] EXCEPT !.pc = "insert"]
<1>1. /\ up /\ lock = None /\ call[c] \in Call
      /\ UNCHANGED <<up, pointer, runRow, sealed, folded>>
  BY DEF Acquire, At, LockFree, RunInv, TypeInv, TypeOK, database, history
<1>2. \/ pointer = None /\ lock' = c /\ Advance(c, free)
      \/ lock' = None /\ Advance(c, Idle)
      \/ runRow[r].state # "none" /\ lock' = c /\ Advance(c, held)
  BY DEF Acquire, MayInsert, Return
<1>3. free = [call[c] EXCEPT !.pc = "insert"]
  OBVIOUS
<1>4. held = [call[c] EXCEPT !.pc = "commit", !.run = r, !.seen = runRow[r]]
  OBVIOUS
<1>5. call[c].op # "close" => r = pointer
  OBVIOUS
<1> HIDE DEF r, held, free
<1>6. free.pc = "insert"
  BY <1>1, <1>3 DEF Call
<1>7. held.pc = "commit" /\ held.run = r /\ held.seen = runRow[r] /\ held.op = call[c].op
  BY <1>1, <1>4 DEF Call
<1>8. /\ LockInv' /\ HolderInv'
      /\ ActiveInv => (\A d \in Callers : ActiveOK(d)')
  <2>1. CASE pointer = None /\ lock' = c /\ Advance(c, free)
    <3>1. Alone(c) /\ call'[c] = free
      BY <1>1, <2>1, HolderAlone
    <3>2. LockInv'
      BY <1>1, <1>6, <2>1, <3>1, AloneLock DEF Holding
    <3>3. HolderOK(c)'
      BY <1>1, <1>6, <2>1, <3>1 DEF HolderOK
    <3>4. ActiveInv => ActiveOK(c)'
      <4>1. Active' = Active
        BY <1>1 DEF Active
      <4> QED
        BY <1>1, <1>6, <2>1, <3>1, <4>1, NoneIsNoRun DEF ActiveInv, ActiveOK
    <3> QED
      BY <3>1, <3>2, <3>3, <3>4, AloneHolder, AloneActive
  <2>2. CASE lock' = None /\ Advance(c, Idle)
    <3>1. Alone(c) /\ call'[c].pc = "idle"
      BY <1>1, <2>2, HolderAlone DEF Idle
    <3>2. LockInv'
      BY <1>1, <2>2, <3>1, AloneLock DEF Holding
    <3>3. HolderOK(c)' /\ ActiveOK(c)'
      BY <3>1 DEF HolderOK, ActiveOK
    <3> QED
      BY <3>1, <3>2, <3>3, AloneHolder, AloneActive
  <2>3. CASE runRow[r].state # "none" /\ lock' = c /\ Advance(c, held)
    <3>1. Alone(c) /\ call'[c] = held
      BY <1>1, <2>3, HolderAlone
    <3>2. LockInv'
      BY <1>1, <1>7, <2>3, <3>1, AloneLock DEF Holding
    <3>3. HolderOK(c)'
      BY <1>1, <1>5, <1>7, <2>3, <3>1 DEF HolderOK
    <3>4. ActiveInv => ActiveOK(c)'
      <4>1. Active' = Active
        BY <1>1 DEF Active
      <4> QED
        BY <1>1, <1>7, <3>1, <4>1 DEF ActiveInv, ActiveOK
    <3> QED
      BY <3>1, <3>2, <3>3, <3>4, AloneHolder, AloneActive
  <2> QED
    BY <1>2, <2>1, <2>2, <2>3
<1>9. SealInv' /\ AddressesKept'
  BY <1>1 DEF RunInv, SealInv, AddressesKept
<1>10. ActiveInv => ActiveInv'
  <2>1. Active' = Active
    BY <1>1 DEF Active
  <2> QED
    BY <1>1, <1>8, <2>1 DEF ActiveInv
<1> QED
  BY <1>8, <1>9, <1>10 DEF RunInv

(* The UPDATE closes its run, keeps the addresses the row had, adds the    *)
(* closing ones, and touches no other run.                                 *)
LEMMA MarkClosedDoes ==
  ASSUME RunInv, NEW c \in Callers, call[c].pc = "commit", MarkClosed(c)
  PROVE  /\ call[c].run \in Runs
         /\ runRow'[call[c].run].state = "closed"
         /\ runRow[call[c].run].addresses \cup call[c].closing
              \subseteq runRow'[call[c].run].addresses
         /\ \A s \in Runs : s # call[c].run => runRow'[s] = runRow[s]
<1>1. call[c].run \in Runs /\ runRow \in [Runs -> RunRow]
  BY DEF RunInv, TypeInv, TypeOK, CallsNamed, NamesRun
<1>2. call[c].seen.addresses = runRow[call[c].run].addresses
  BY DEF RunInv, HolderInv, HolderOK
<1> QED
  BY <1>1, <1>2 DEF MarkClosed

(* Closing a run keeps what the database promises about sealed runs and    *)
(* folded addresses.                                                       *)
LEMMA ClosingKeeps ==
  ASSUME RunInv, NEW c \in Callers, call[c].pc = "commit",
         MarkClosed(c) \/ UNCHANGED runRow, UNCHANGED <<pointer, sealed, folded>>
  PROVE  SealInv' /\ AddressesKept'
<1>1. CASE MarkClosed(c)
  <2>1. /\ call[c].run \in Runs
        /\ runRow'[call[c].run].state = "closed"
        /\ runRow[call[c].run].addresses \subseteq runRow'[call[c].run].addresses
        /\ \A s \in Runs : s # call[c].run => runRow'[s] = runRow[s]
    BY <1>1, MarkClosedDoes
  <2>2. sealed \subseteq Runs
    BY DEF RunInv, TypeInv, TypeOK
  <2> QED
    BY <2>1, <2>2 DEF RunInv, SealInv, AddressesKept
<1>2. CASE UNCHANGED runRow
  BY <1>2 DEF RunInv, SealInv, AddressesKept
<1> QED
  BY <1>1, <1>2

LEMMA CloseCommitKeeps ==
  ASSUME RunInv, TypeInv', NEW c \in Callers, CloseCommit(c)
  PROVE  RunInv' /\ (ActiveInv => ActiveInv')
<1> DEFINE e == [call[c] EXCEPT !.pc = "clear"]
           r == call[c].run
<1>1. /\ up /\ call[c].pc = "commit" /\ call[c] \in Call /\ r \in Runs /\ lock = c
      /\ UNCHANGED <<up, pointer, lock, sealed, folded>> /\ Advance(c, e)
  BY DEF CloseCommit, At, RunInv, TypeInv, TypeOK, CallsNamed, NamesRun, LockInv,
         Holding, memory, history
<1>2. e.pc = "clear" /\ e.run = r /\ e.op = call[c].op /\ e.closing = call[c].closing
  BY <1>1 DEF Call
<1> HIDE DEF e
<1>3. Alone(c) /\ call'[c] = e
  BY <1>1, HolderAlone DEF Holding
<1>4. HolderOK(c)
  BY DEF RunInv, HolderInv
<1>5. /\ runRow'[r].state = "closed"
      /\ call[c].closing \subseteq runRow'[r].addresses
      /\ \A s \in Runs : s # r => runRow'[s] = runRow[s]
      /\ MarkClosed(c) \/ UNCHANGED runRow
  <2>1. CASE MustCommit(c)
    BY <1>1, <2>1, MarkClosedDoes DEF CloseCommit
  <2>2. CASE ~MustCommit(c)
    <3>1. UNCHANGED runRow /\ call[c].closing = {} /\ call[c].seen.state # "active"
      BY <2>2 DEF CloseCommit, MustCommit
    <3>2. runRow[r].state \in {"none", "active", "closed"}
      BY <1>1 DEF RunInv, TypeInv, TypeOK, RunRow
    <3> QED
      BY <1>1, <1>4, <3>1, <3>2 DEF HolderOK
  <2> QED
    BY <2>1, <2>2
<1>6. LockInv'
  BY <1>1, <1>2, <1>3, AloneLock DEF Holding
<1>7. HolderInv'
  <2>1. HolderOK(c)'
    BY <1>1, <1>2, <1>3, <1>4, <1>5 DEF HolderOK
  <2> QED
    BY <1>3, <2>1, AloneHolder
<1>8. SealInv' /\ AddressesKept'
  BY <1>1, <1>5, ClosingKeeps
<1>9. ActiveInv => ActiveInv'
  <2> SUFFICES ASSUME ActiveInv PROVE ActiveInv'
    OBVIOUS
  <2>1. Active = Runs \cap {pointer}
    BY <1>1 DEF ActiveInv, ActiveOK
  <2>2. Active' = Active \ {r}
    BY <1>1, <1>5 DEF Active
  <2>3. ActiveOK(c)'
    BY <1>1, <1>2, <1>3, <2>1, <2>2 DEF ActiveOK
  <2>4. \A d \in Callers : ActiveOK(d)'
    BY <1>3, <2>3, AloneActive
  <2> QED
    BY <1>1, <2>4, CollectorAssumption DEF ActiveInv
<1> QED
  BY <1>6, <1>7, <1>8, <1>9 DEF RunInv

(* A caller whose step ends in an answer leaves nothing held.              *)
LEMMA ReturnAlone ==
  ASSUME RunInv, TypeInv', NEW c \in Callers, call[c].pc \in Holding, Return(c), up'
  PROVE  /\ LockInv' /\ HolderInv' /\ lock' = None
         /\ \A d \in Callers : ActiveOK(d)'
<1>1. Alone(c) /\ call'[c].pc = "idle" /\ lock' = None
  BY HolderAlone DEF Return, Idle
<1>2. HolderOK(c)' /\ ActiveOK(c)'
  BY <1>1 DEF HolderOK, ActiveOK
<1>3. LockInv'
  BY <1>1, AloneLock DEF Holding
<1> QED
  BY <1>1, <1>2, <1>3, AloneHolder, AloneActive

LEMMA CloseFailKeeps ==
  ASSUME RunInv, TypeInv', NEW c \in Callers, CloseFail(c)
  PROVE  RunInv' /\ (CommitErrors \subseteq {"refused"} /\ ActiveInv => ActiveInv')
<1>1. /\ up /\ call[c].pc = "commit" /\ call[c].pc \in Holding /\ Return(c)
      /\ UNCHANGED <<up, pointer, sealed, folded>>
      /\ MarkClosed(c) \/ UNCHANGED runRow
  BY DEF CloseFail, At, Holding, history
<1>2. LockInv' /\ HolderInv' /\ lock' = None /\ \A d \in Callers : ActiveOK(d)'
  BY <1>1, ReturnAlone
<1>3. SealInv' /\ AddressesKept'
  BY <1>1, ClosingKeeps
<1>4. ASSUME CommitErrors \subseteq {"refused"}, ActiveInv PROVE ActiveInv'
  <2>1. UNCHANGED runRow
    BY <1>4 DEF CloseFail
  <2>2. Active' = Active
    BY <2>1 DEF Active
  <2>3. Active = Runs \cap {pointer}
    BY <1>1, <1>4 DEF ActiveInv, ActiveOK
  <2> QED
    BY <1>1, <1>2, <2>2, <2>3 DEF ActiveInv
<1> QED
  BY <1>2, <1>3, <1>4 DEF RunInv

LEMMA CloseClearKeeps ==
  ASSUME RunInv, TypeInv', NEW c \in Callers, CloseClear(c)
  PROVE  RunInv' /\ (ActiveInv => ActiveInv')
<1> DEFINE e == [call[c] EXCEPT !.pc = "insert", !.run = None]
           r == call[c].run
<1>1. /\ up /\ call[c].pc = "clear" /\ call[c].pc \in Holding
      /\ call[c] \in Call /\ r \in Runs /\ lock = c
      /\ UNCHANGED <<up, runRow>>
      /\ pointer' = Cleared(r) /\ sealed' = sealed \cup {r}
      /\ folded' = [folded EXCEPT ![r] = @ \cup call[c].closing]
  BY DEF CloseClear, At, RunInv, TypeInv, TypeOK, CallsNamed, NamesRun, LockInv,
         Holding, database
<1>2. HolderOK(c)
  BY DEF RunInv, HolderInv
<1>3. SealInv'
  BY <1>1, <1>2, NoneIsNoRun DEF RunInv, TypeInv, TypeOK, SealInv, HolderOK, Cleared
<1>4. AddressesKept'
  BY <1>1, <1>2 DEF RunInv, TypeInv, TypeOK, AddressesKept, HolderOK
<1>5. Active' = Active
  BY <1>1 DEF Active
<1>6. ActiveInv => Active = Runs \cap {pointer'}
  <2>1. ActiveInv => Active = (Runs \cap {pointer}) \ {r}
    BY <1>1 DEF ActiveInv, ActiveOK
  <2>2. (Runs \cap {pointer}) \ {r} = Runs \cap {pointer'}
    BY <1>1, NoneIsNoRun DEF Cleared
  <2> QED
    BY <2>1, <2>2
<1>7. CASE call[c].op = "close"
  <2>1. Return(c)
    BY <1>7 DEF CloseClear
  <2>2. LockInv' /\ HolderInv' /\ lock' = None /\ \A d \in Callers : ActiveOK(d)'
    BY <1>1, <2>1, ReturnAlone
  <2>3. ActiveInv => ActiveInv'
    BY <1>1, <1>5, <1>6, <2>2 DEF ActiveInv
  <2> QED
    BY <1>3, <1>4, <2>2, <2>3 DEF RunInv
<1>8. CASE call[c].op # "close"
  <2>1. Advance(c, e) /\ UNCHANGED lock
    BY <1>8 DEF CloseClear
  <2>2. e.pc = "insert"
    BY <1>1 DEF Call
  <2> HIDE DEF e
  <2>3. Alone(c) /\ call'[c] = e
    BY <1>1, <2>1, HolderAlone
  <2>4. LockInv'
    BY <1>1, <2>1, <2>2, <2>3, AloneLock DEF Holding
  <2>5. pointer' = None
    BY <1>1, <1>2, <1>8 DEF HolderOK, Cleared
  <2>6. HolderOK(c)' /\ (ActiveInv => ActiveOK(c)')
    BY <1>5, <1>6, <2>2, <2>3, <2>5, NoneIsNoRun DEF HolderOK, ActiveOK
  <2>7. HolderInv' /\ (ActiveInv => \A d \in Callers : ActiveOK(d)')
    BY <2>3, <2>6, AloneHolder, AloneActive
  <2>8. ActiveInv => ActiveInv'
    BY <1>1, <2>1, <2>7, CollectorAssumption DEF ActiveInv
  <2> QED
    BY <1>3, <1>4, <2>4, <2>7, <2>8 DEF RunInv
<1> QED
  BY <1>7, <1>8

(* The INSERT takes a run nobody has used, and touches no other.           *)
LEMMA InsertRunDoes ==
  ASSUME RunInv, NEW r \in Runs, InsertRun(r)
  PROVE  /\ runRow[r].state = "none" /\ runRow'[r].state = "active"
         /\ \A s \in Runs : s # r => runRow'[s] = runRow[s]
         /\ r \notin sealed /\ folded[r] = {} /\ pointer # r
<1>1. runRow[r].state = "none" /\ runRow \in [Runs -> RunRow]
  BY DEF InsertRun, Fresh, RunInv, TypeInv, TypeOK
<1> DEFINE row == [NoRun EXCEPT !.state = "active"]
<1>2. row.state = "active"
  BY DEF NoRun
<1>3. runRow' = [runRow EXCEPT ![r] = row]
  BY DEF InsertRun
<1> HIDE DEF row
<1>4. runRow'[r] = row /\ \A s \in Runs : s # r => runRow'[s] = runRow[s]
  BY <1>1, <1>3
<1> QED
  BY <1>1, <1>2, <1>4 DEF RunInv, SealInv

LEMMA InsertingKeeps ==
  ASSUME RunInv, NEW r \in Runs, InsertRun(r), UNCHANGED <<pointer, sealed, folded>>
  PROVE  SealInv' /\ AddressesKept'
<1>1. sealed \subseteq Runs
  BY DEF RunInv, TypeInv, TypeOK
<1> QED
  BY <1>1, InsertRunDoes DEF RunInv, SealInv, AddressesKept

LEMMA OpenInsertKeeps ==
  ASSUME RunInv, TypeInv', NEW c \in Callers, OpenInsert(c)
  PROVE  RunInv' /\ (ActiveInv => ActiveInv')
<1>1. /\ up /\ call[c].pc = "insert" /\ call[c].pc \in Holding /\ lock = c
      /\ call[c] \in Call
      /\ UNCHANGED <<up, pointer, lock, sealed, folded>>
  BY DEF OpenInsert, At, RunInv, TypeInv, TypeOK, LockInv, Holding, memory, history
<1>2. PICK r \in Runs :
        InsertRun(r) /\ Advance(c, [call[c] EXCEPT !.pc = "publish", !.run = r])
  BY DEF OpenInsert
<1> DEFINE e == [call[c] EXCEPT !.pc = "publish", !.run = r]
<1>3. e.pc = "publish" /\ e.run = r
  BY <1>1 DEF Call
<1>4. Advance(c, e)
  BY <1>2
<1> HIDE DEF e
<1>5. Alone(c) /\ call'[c] = e
  BY <1>1, <1>4, HolderAlone
<1>6. LockInv'
  BY <1>1, <1>3, <1>5, AloneLock DEF Holding
<1>7. HolderOK(c)
  BY DEF RunInv, HolderInv
<1>8. /\ runRow[r].state = "none" /\ runRow'[r].state = "active" /\ r \notin sealed
      /\ \A s \in Runs : s # r => runRow'[s] = runRow[s]
  BY <1>2, InsertRunDoes
<1>9. HolderInv'
  <2>1. HolderOK(c)'
    BY <1>1, <1>3, <1>5, <1>7, <1>8 DEF HolderOK
  <2> QED
    BY <1>5, <2>1, AloneHolder
<1>10. SealInv' /\ AddressesKept'
  BY <1>1, <1>2, InsertingKeeps
<1>11. ActiveInv => ActiveInv'
  <2> SUFFICES ASSUME ActiveInv PROVE ActiveInv'
    OBVIOUS
  <2>1. Active = {}
    BY <1>1 DEF ActiveInv, ActiveOK
  <2>2. Active' = {r}
    BY <1>2, <1>8, <2>1 DEF Active
  <2>3. ActiveOK(c)'
    BY <1>3, <1>5, <2>2 DEF ActiveOK
  <2>4. \A d \in Callers : ActiveOK(d)'
    BY <1>5, <2>3, AloneActive
  <2> QED
    BY <1>1, <2>4, CollectorAssumption DEF ActiveInv
<1> QED
  BY <1>6, <1>9, <1>10, <1>11 DEF RunInv

LEMMA OpenFailKeeps ==
  ASSUME RunInv, TypeInv', NEW c \in Callers, OpenFail(c)
  PROVE  RunInv' /\ (CommitErrors \subseteq {"refused"} /\ ActiveInv => ActiveInv')
<1>1. /\ up /\ call[c].pc = "insert" /\ call[c].pc \in Holding /\ Return(c)
      /\ UNCHANGED <<up, pointer, sealed, folded>>
      /\ UNCHANGED runRow \/ \E r \in Runs : InsertRun(r)
  BY DEF OpenFail, At, Holding, history
<1>2. LockInv' /\ HolderInv' /\ lock' = None /\ \A d \in Callers : ActiveOK(d)'
  BY <1>1, ReturnAlone
<1>3. SealInv' /\ AddressesKept'
  <2>1. CASE UNCHANGED runRow
    BY <1>1, <2>1 DEF RunInv, SealInv, AddressesKept
  <2>2. CASE \E r \in Runs : InsertRun(r)
    BY <1>1, <2>2, InsertingKeeps
  <2> QED
    BY <1>1, <2>1, <2>2
<1>4. ASSUME CommitErrors \subseteq {"refused"}, ActiveInv PROVE ActiveInv'
  <2>1. UNCHANGED runRow
    BY <1>4 DEF OpenFail
  <2>2. Active' = Active
    BY <2>1 DEF Active
  <2>3. Active = {} /\ pointer = None
    BY <1>1, <1>4 DEF ActiveInv, ActiveOK, RunInv, HolderInv, HolderOK
  <2> QED
    BY <1>1, <1>2, <2>2, <2>3, NoneIsNoRun DEF ActiveInv
<1> QED
  BY <1>2, <1>3, <1>4 DEF RunInv

LEMMA OpenPublishKeeps ==
  ASSUME RunInv, TypeInv', NEW c \in Callers, OpenPublish(c)
  PROVE  RunInv' /\ (ActiveInv => ActiveInv')
<1>1. /\ up /\ call[c].pc = "publish" /\ call[c].pc \in Holding /\ Return(c)
      /\ call[c].run \in Runs /\ pointer' = call[c].run
      /\ UNCHANGED <<up, runRow, sealed, folded>>
  BY DEF OpenPublish, At, Holding, RunInv, TypeInv, CallsNamed, NamesRun, database, history
<1>2. LockInv' /\ HolderInv' /\ lock' = None /\ \A d \in Callers : ActiveOK(d)'
  BY <1>1, ReturnAlone
<1>3. HolderOK(c)
  BY DEF RunInv, HolderInv
<1>4. SealInv' /\ AddressesKept'
  BY <1>1, <1>3 DEF RunInv, SealInv, AddressesKept, HolderOK
<1>5. ActiveInv => ActiveInv'
  <2>1. Active' = Active
    BY <1>1 DEF Active
  <2> QED
    BY <1>1, <1>2, <2>1 DEF ActiveInv, ActiveOK
<1> QED
  BY <1>2, <1>4, <1>5 DEF RunInv

LEMMA GoDownKeeps ==
  ASSUME RunInv, TypeInv', GoDown
  PROVE  RunInv' /\ (ActiveInv => ActiveInv')
<1>1. /\ ~up' /\ pointer' = None /\ lock' = None
      /\ \A c \in Callers : call'[c].pc = "idle"
      /\ up /\ UNCHANGED <<runRow, sealed, folded>>
  BY DEF GoDown, Idle, database
<1>2. LockInv' /\ HolderInv' /\ \A c \in Callers : ActiveOK(c)'
  BY <1>1, CollectorAssumption DEF LockInv, HolderInv, HolderOK, ActiveOK, Holding
<1>3. SealInv' /\ AddressesKept'
  <2>1. sealed \subseteq Runs
    BY DEF RunInv, TypeInv, TypeOK
  <2> QED
    BY <1>1, <2>1, NoneIsNoRun DEF RunInv, SealInv, AddressesKept
<1>4. ActiveInv => ActiveInv'
  <2> SUFFICES ASSUME ActiveInv PROVE ActiveInv'
    OBVIOUS
  <2>1. Active' = Active
    BY <1>1 DEF Active
  <2>2. \A r, s \in Active : r = s
    <3>1. lock = None \/ \E c \in Callers : call[c].pc \in Holding
      BY DEF RunInv, LockInv, TypeInv, TypeOK
    <3> QED
      BY <1>1, <3>1 DEF ActiveInv, ActiveOK, Holding
  <2> QED
    BY <1>1, <1>2, <2>1, <2>2 DEF ActiveInv, OneActiveRow
<1> QED
  BY <1>2, <1>3, <1>4 DEF RunInv

LEMMA RestartKeeps ==
  ASSUME RunInv, TypeInv', Restart
  PROVE  RunInv' /\ (ActiveInv => ActiveInv')
<1>1. /\ ~up /\ up' /\ lock = None /\ pointer = None
      /\ UNCHANGED <<lock, call, runRow, sealed, folded>>
      /\ \/ Active = {} /\ pointer' = None
         \/ pointer' \in Active
  BY DEF Restart, Adoptable, RunInv, LockInv, database, history
<1>2. \A c \in Callers : call[c].pc \notin Holding
  BY <1>1, CollectorAssumption DEF RunInv, LockInv
<1>3. LockInv' /\ HolderInv' /\ \A c \in Callers : ActiveOK(c)'
  BY <1>1, <1>2, CollectorAssumption DEF LockInv, HolderInv, HolderOK, ActiveOK, Holding
<1>4. SealInv' /\ AddressesKept'
  <2>1. sealed \subseteq Runs
    BY DEF RunInv, TypeInv, TypeOK
  <2> QED
    BY <1>1, <2>1, NoneIsNoRun DEF RunInv, SealInv, AddressesKept, Active
<1>5. ActiveInv => ActiveInv'
  <2>1. Active' = Active
    BY <1>1 DEF Active
  <2>2. Active \subseteq Runs
    BY DEF Active
  <2> QED
    BY <1>1, <1>3, <2>1, <2>2, NoneIsNoRun DEF ActiveInv, OneActiveRow
<1> QED
  BY <1>3, <1>4, <1>5 DEF RunInv
-----------------------------------------------------------------------------
(* What every step keeps, and what no step does.                           *)

LEMMA RunInit == Init => RunInv /\ ActiveInv
<1> SUFFICES ASSUME Init PROVE RunInv /\ ActiveInv
  OBVIOUS
<1>1. TypeInv
  BY InitTypeInv
<1>2. \A c \in Callers : call[c].pc = "idle"
  BY DEF Init, Idle
<1>3. LockInv /\ HolderInv /\ \A c \in Callers : ActiveOK(c)
  BY <1>2, CollectorAssumption DEF Init, LockInv, HolderInv, HolderOK, ActiveOK, Holding
<1>4. SealInv /\ AddressesKept
  BY NoneIsNoRun DEF Init, SealInv, AddressesKept
<1>5. Active = {} /\ Runs \cap {pointer} = {} /\ up
  BY NoneIsNoRun DEF Init, Active, NoRun
<1> QED
  BY <1>1, <1>3, <1>4, <1>5 DEF RunInv, ActiveInv

LEMMA RunStep ==
  ASSUME RunInv, [Next]_vars
  PROVE  RunInv' /\ (CommitErrors \subseteq {"refused"} /\ ActiveInv => ActiveInv')
<1>1. TypeInv'
  BY TypeStep DEF RunInv
<1>2. CASE Intake
  BY <1>1, <1>2, IntakeStandsBy, BystanderKeeps
<1>3. CASE Writer
  BY <1>1, <1>3, WriterStandsBy, BystanderKeeps
<1>4. ASSUME NEW c \in Callers, Begin(c) \/ Acquire(c) \/ Proceed(c)
      PROVE  RunInv' /\ (CommitErrors \subseteq {"refused"} /\ ActiveInv => ActiveInv')
  BY <1>1, <1>4, BeginStandsBy, BystanderKeeps, AcquireKeeps, CloseCommitKeeps,
     CloseFailKeeps, CloseClearKeeps, OpenInsertKeeps, OpenFailKeeps, OpenPublishKeeps
     DEF Proceed
<1>5. ASSUME NEW x \in Readers, (\E r \in Runs : ReadBegin(x, r)) \/ ReadStep(x)
      PROVE  RunInv' /\ (ActiveInv => ActiveInv')
  BY <1>1, <1>5, ReadsStandBy, BystanderKeeps
<1>6. CASE Crash \/ Stop
  BY <1>1, <1>6, GoDownKeeps DEF Crash, Stop
<1>7. CASE Restart
  BY <1>1, <1>7, RestartKeeps
<1>8. CASE UNCHANGED vars
  <2>1. Bystander
    BY <1>8 DEF Bystander, vars, memory, database, history
  <2> QED
    BY <1>1, <2>1, BystanderKeeps
<1> QED
  BY <1>2, <1>3, <1>4, <1>5, <1>6, <1>7, <1>8 DEF Next

(* The lock excludes, holders' reads are stable, sealed runs stay closed,  *)
(* whatever way a COMMIT fails.                                            *)
THEOREM RunInvariant == Spec => []RunInv
<1>1. Init => RunInv
  BY RunInit
<1>2. RunInv /\ [Next]_vars => RunInv'
  BY RunStep
<1> QED
  BY <1>1, <1>2, PTL DEF Spec

(* No addresses folded in by a successful close are ever lost, whatever    *)
(* other closes, forced opens, failed commits, crashes and restarts do.    *)
THEOREM AddressesAreKept == Spec => []AddressesKept
<1>1. RunInv => AddressesKept
  BY DEF RunInv
<1> QED
  BY <1>1, RunInvariant, PTL

(* No event is ever stamped with a run whose close has completed.          *)
THEOREM SealedStaysFinal == Spec => SealedIsFinal
<1> DEFINE Fine == \A e \in DOMAIN accepted' \ DOMAIN accepted : accepted'[e] \notin sealed
<1>1. RunInv /\ [Next]_vars => [Fine]_vars
  <2> SUFFICES ASSUME RunInv, Next PROVE Fine
    BY DEF vars
  <2>1. accepted \in Seq(Runs) /\ pointer \notin sealed
    BY DEF RunInv, TypeInv, TypeOK, SealInv
  <2>2. UNCHANGED accepted \/ \E n \in Nat : Put(n)
    <3>1. ASSUME NEW raw \in RawBatches, Submit(raw)
          PROVE  UNCHANGED accepted \/ \E n \in Nat : Put(n)
      <4> DEFINE head == SubSeq(raw, 1, IF Len(raw) < MaxEventsPerBatch
                                        THEN Len(raw) ELSE MaxEventsPerBatch)
                 valid == Cardinality({i \in DOMAIN head : head[i] \in {"event", "correlation"}})
                 kept == valid - (IF pointer = None THEN valid ELSE 0)
      <4>1. head \in Seq(Kinds)
        BY CollectorAssumption
      <4>2. valid \in Nat
        BY <4>1, CountOfPositions
      <4>3. IF kept > 0 THEN Put(kept) ELSE UNCHANGED <<queue, accepted>>
        BY <3>1 DEF Submit
      <4> HIDE DEF valid
      <4>4. kept \in Nat
        BY <4>2
      <4> QED
        BY <4>3, <4>4
    <3>2. CASE RegisterCorrelation
      BY <3>2 DEF RegisterCorrelation
    <3>3. CASE Intake
      BY <3>1, <3>2, <3>3 DEF Intake, RejectBody, history
    <3> QED
      BY <3>3 DEF Next, Writer, WriterTake, WriterCommit, WriterFail, Begin, CloseBegin,
         OpenBegin, Acquire, Proceed, CloseCommit, CloseFail, CloseClear, OpenInsert,
         OpenFail, OpenPublish, ReadBegin, ReadStep, ReadRequest, ReadSelect, ReadFail,
         Crash, Stop, GoDown, Restart, history
  <2>3. ASSUME NEW n \in Nat, Put(n) PROVE Fine
    <3> DEFINE stamps == [i \in 1..n |-> pointer]
    <3>1. accepted' = accepted \/ accepted' = accepted \o stamps
      BY <2>3 DEF Put
    <3>2. \A e \in DOMAIN (accepted \o stamps) \ DOMAIN accepted :
            (accepted \o stamps)[e] = pointer
      BY <2>1
    <3> HIDE DEF stamps
    <3> QED
      BY <2>1, <3>1, <3>2
  <2> QED
    BY <2>2, <2>3
<1> QED
  BY <1>1, RunInvariant, PTL DEF Spec, SealedIsFinal

(* If a COMMIT that raises has never been applied, at most one run is      *)
(* active and, between requests, memory and database name the same one.    *)
THEOREM ActiveInvariant ==
  ASSUME CommitErrors \subseteq {"refused"}
  PROVE  Spec => []ActiveInv
<1>1. Init => RunInv /\ ActiveInv
  BY RunInit
<1>2. RunInv /\ ActiveInv /\ [Next]_vars => (RunInv /\ ActiveInv)'
  BY RunStep
<1> QED
  BY <1>1, <1>2, PTL DEF Spec

(* app.py: exactly one active run at a time, across opens, forced opens,   *)
(* closes, crashes and restarts, if a refused COMMIT was not applied.      *)
THEOREM OneActiveRun ==
  ASSUME CommitErrors \subseteq {"refused"}
  PROVE  Spec => []OneActiveRow
<1>1. RunInv /\ ActiveInv => OneActiveRow
  <2> SUFFICES ASSUME RunInv, ActiveInv PROVE OneActiveRow
    OBVIOUS
  <2>1. lock = None \/ \E c \in Callers : call[c].pc \in Holding
    BY DEF RunInv, LockInv, TypeInv, TypeOK
  <2>2. up => \A r, s \in Active : r = s
    BY <2>1 DEF ActiveInv, ActiveOK, Holding
  <2> QED
    BY <2>2 DEF ActiveInv, OneActiveRow, RunInv, TypeInv, TypeOK
<1> QED
  BY <1>1, RunInvariant, ActiveInvariant, PTL

(* A restart adopts the run this process was stamping events with.         *)
THEOREM PointerAgreement ==
  ASSUME CommitErrors \subseteq {"refused"}
  PROVE  Spec => []PointerAgrees
<1>1. RunInv /\ ActiveInv => PointerAgrees
  <2> SUFFICES ASSUME RunInv, ActiveInv, up,
                      \A c \in Callers : call[c].pc \notin {"clear", "publish"}
               PROVE  Active = Runs \cap {pointer}
    BY DEF PointerAgrees
  <2>1. lock = None \/ \E c \in Callers : call[c].pc \in Holding
    BY DEF RunInv, LockInv, TypeInv, TypeOK
  <2>2. CASE lock = None
    BY <2>2 DEF ActiveInv
  <2>3. ASSUME NEW c \in Callers, call[c].pc \in {"commit", "insert"}
        PROVE  Active = Runs \cap {pointer}
    BY <2>3, NoneIsNoRun DEF RunInv, HolderInv, HolderOK, ActiveInv, ActiveOK
  <2> QED
    BY <2>1, <2>2, <2>3 DEF Holding
<1> QED
  BY <1>1, RunInvariant, ActiveInvariant, PTL
-----------------------------------------------------------------------------
Numbered == rows \cup writing

(* The queue is in order of acceptance and younger than everything that    *)
(* has left it; a process that is down has neither queue nor transaction.  *)
QueueInv ==
  /\ \A i, j \in DOMAIN queue : i < j => queue[i].ev < queue[j].ev
  /\ \A i \in DOMAIN queue :
       /\ queue[i].ev \in DOMAIN accepted /\ queue[i].run = accepted[queue[i].ev]
       /\ \A y \in Numbered : y.ev < queue[i].ev
       /\ \A e \in lost : e < queue[i].ev
  /\ ~up => queue = <<>> /\ writing = {}

(* Every event is somewhere, at most one row is its own, and the rows in   *)
(* the transaction are younger than the stored ones.                       *)
PlaceInv ==
  /\ lost \subseteq DOMAIN accepted
  /\ \A y \in Numbered :
       y.ev \in DOMAIN accepted /\ y.run = accepted[y.ev] /\ y.ev \notin lost
  /\ \A y, z \in Numbered : y.ev = z.ev => y = z
  /\ \A y \in rows, z \in writing : y.ev < z.ev
  /\ \A e \in DOMAIN accepted :
       \/ \E i \in DOMAIN queue : queue[i].ev = e
       \/ e \in Events(Numbered) \cup lost

(* event_count is the number of the run's rows.                            *)
CountInv ==
  /\ IsFiniteSet(rows)
  /\ \A r \in Runs : runRow[r].count = Cardinality(RowsOf(r))

(* A run with events has a row, and is not the one about to be published.  *)
KnownInv ==
  \A e \in DOMAIN accepted :
    /\ runRow[accepted[e]].state # "none"
    /\ \A c \in Callers : call[c].pc = "publish" => accepted[e] # call[c].run

(* Numbers start at one and, for a run that is active or still queued, the *)
(* last one given is the one in memory.                                    *)
NumberInv ==
  /\ SeqFollowsArrival
  /\ \A y \in Numbered : y.seq > 0
  /\ up => \A y \in Numbered :
       (y.run = pointer \/ \E i \in DOMAIN queue : queue[i].run = y.run)
         => y.seq <= seqOf[y.run]

EventInv == QueueInv /\ PlaceInv /\ CountInv /\ KnownInv /\ NumberInv

-----------------------------------------------------------------------------
(* Facts about naturals and counting.                                      *)

(* A nonempty set of naturals has a least element.                         *)
LEMMA LeastNatural ==
  ASSUME NEW S \in SUBSET Nat, S # {}
  PROVE  \E x \in S : \A y \in S : x <= y
<1> DEFINE R == {p \in Nat \X Nat : p[1] < p[2]}
<1>1. IsWellFoundedOn(R, Nat)
  BY NatLessThanWellFounded DEF OpToRel
<1>2. \A x, y \in Nat : x < y => <<x, y>> \in R
  OBVIOUS
<1> HIDE DEF R
<1>3. PICK x \in S : \A y \in S : ~ (<<y, x>> \in R)
  BY <1>1, WFMin
<1>4. ASSUME NEW y \in S PROVE x <= y
  <2>1. x \in Nat /\ y \in Nat
    OBVIOUS
  <2>2. ~ (y < x)
    BY <1>2, <1>3, <2>1
  <2> QED
    BY <2>1, <2>2
<1> QED
  BY <1>4

(* A proper part of a finite set is counted lower.                         *)
LEMMA PartCountsLess ==
  ASSUME NEW S, IsFiniteSet(S), NEW T \in SUBSET S
  PROVE  /\ Cardinality(T) \in Nat /\ Cardinality(S) \in Nat
         /\ Cardinality(T) <= Cardinality(S)
         /\ T # S => Cardinality(T) < Cardinality(S)
<1>1. IsFiniteSet(T) /\ Cardinality(T) <= Cardinality(S)
      /\ (Cardinality(S) = Cardinality(T) => S = T)
  BY FS_Subset
<1>2. Cardinality(T) \in Nat /\ Cardinality(S) \in Nat
  BY <1>1, FS_CardinalityType
<1> QED
  BY <1>1, <1>2
-----------------------------------------------------------------------------
(* What the steps that move events do to them.                             *)

(* Intake either queues a batch of the active run or queues nothing.       *)
Appends(n) ==
  /\ queue' = queue \o [i \in 1..n |->
                [run |-> pointer, ev |-> Len(accepted) + i, last |-> i = n]]
  /\ accepted' = accepted \o [i \in 1..n |-> pointer]

LEMMA IntakeAppends ==
  ASSUME TypeOK, Intake
  PROVE  UNCHANGED <<queue, accepted>> \/ (pointer \in Runs /\ \E n \in Nat : Appends(n))
<1>1. \A n : Put(n) => UNCHANGED <<queue, accepted>> \/ Appends(n)
  BY DEF Put, Appends
<1>2. CASE \E raw \in RawBatches : Submit(raw)
  <2>1. PICK raw \in RawBatches : Submit(raw)
    BY <1>2
  <2> DEFINE head == SubSeq(raw, 1, IF Len(raw) < MaxEventsPerBatch
                                    THEN Len(raw) ELSE MaxEventsPerBatch)
             valid == Cardinality({i \in DOMAIN head : head[i] \in {"event", "correlation"}})
             kept == valid - (IF pointer = None THEN valid ELSE 0)
  <2>2. head \in Seq(Kinds)
    BY CollectorAssumption
  <2>3. valid \in Nat
    BY <2>2, CountOfPositions
  <2>4. IF kept > 0 THEN Put(kept) ELSE UNCHANGED <<queue, accepted>>
    BY <2>1 DEF Submit
  <2> HIDE DEF valid
  <2>5. kept \in Nat /\ (kept > 0 => pointer \in Runs)
    BY <2>3 DEF TypeOK
  <2> HIDE DEF kept
  <2> QED
    BY <1>1, <2>4, <2>5
<1>3. CASE RegisterCorrelation
  BY <1>1, <1>3 DEF RegisterCorrelation, TypeOK
<1>4. CASE RejectBody
  BY <1>4 DEF RejectBody, history
<1> QED
  BY <1>2, <1>3, <1>4 DEF Intake

(* What a concatenation holds, and where.                                  *)
LEMMA ConcatPlaces ==
  ASSUME NEW S, NEW s \in Seq(S), NEW t \in Seq(S)
  PROVE  /\ s \o t \in Seq(S) /\ Len(s \o t) = Len(s) + Len(t)
         /\ \A i \in 1..Len(s) : (s \o t)[i] = s[i]
         /\ \A i \in 1..Len(t) : (s \o t)[Len(s) + i] = t[i]
OBVIOUS

(* Queued events keep their place; the new ones are numbered on.           *)
LEMMA AppendsDoes ==
  ASSUME TypeOK, NEW n \in Nat, Appends(n)
  PROVE  /\ DOMAIN accepted = 1..Len(accepted) /\ DOMAIN accepted' = 1..(Len(accepted) + n)
         /\ \A e \in DOMAIN accepted : accepted'[e] = accepted[e]
         /\ \A e \in DOMAIN accepted' \ DOMAIN accepted :
              /\ accepted'[e] = pointer
              /\ \E i \in DOMAIN queue' : queue'[i].ev = e
         /\ DOMAIN queue \subseteq DOMAIN queue'
         /\ \A i \in DOMAIN queue : queue'[i] = queue[i]
         /\ \A i \in DOMAIN queue' \ DOMAIN queue :
              /\ queue'[i].run = pointer
              /\ queue'[i].ev \in DOMAIN accepted' \ DOMAIN accepted
         /\ \A i \in DOMAIN queue, j \in DOMAIN queue' \ DOMAIN queue : i < j
         /\ \A i, j \in DOMAIN queue' \ DOMAIN queue :
              i < j => queue'[i].ev < queue'[j].ev
<1> DEFINE items == [i \in 1..n |->
                       [run |-> pointer, ev |-> Len(accepted) + i, last |-> i = n]]
           stamps == [i \in 1..n |-> pointer]
<1>1. queue \in Seq(Item) /\ accepted \in Seq(Runs)
  BY DEF TypeOK
<1> DEFINE Marks == Runs \cup {pointer}
           Any == [run : Marks, ev : Nat, last : BOOLEAN]
<1>2. queue \in Seq(Any) /\ accepted \in Seq(Marks)
  <2> HIDE DEF items, stamps
  <2>1. \A i \in 1..Len(queue) : queue[i] \in Any
    <3> SUFFICES ASSUME NEW i \in 1..Len(queue) PROVE queue[i] \in Any
      OBVIOUS
    <3>1. queue[i] \in Item
      BY <1>1
    <3> QED
      BY <3>1 DEF Item
  <2>2. \A i \in 1..Len(accepted) : accepted[i] \in Marks
    BY <1>1
  <2> HIDE DEF Marks, Any
  <2> QED
    BY <1>1, <2>1, <2>2
<1>3. /\ items \in Seq(Any) /\ Len(items) = n
      /\ stamps \in Seq(Marks) /\ Len(stamps) = n
      /\ \A i \in 1..n : items[i].run = pointer /\ items[i].ev = Len(accepted) + i
      /\ \A i \in 1..n : stamps[i] = pointer
  <2>1. items \in [1..n -> Any] /\ stamps \in [1..n -> Marks]
    BY <1>1
  <2> QED
    BY <2>1
<1>4. queue' = queue \o items /\ accepted' = accepted \o stamps
  BY DEF Appends
<1> HIDE DEF items, stamps, Marks, Any
<1>5. /\ Len(queue) \in Nat /\ Len(accepted) \in Nat
      /\ DOMAIN queue = 1..Len(queue) /\ DOMAIN accepted = 1..Len(accepted)
      /\ DOMAIN queue' = 1..(Len(queue) + n) /\ DOMAIN accepted' = 1..(Len(accepted) + n)
      /\ \A i \in 1..Len(queue) : queue'[i] = queue[i]
      /\ \A i \in 1..n : queue'[Len(queue) + i] = items[i]
      /\ \A e \in 1..Len(accepted) : accepted'[e] = accepted[e]
      /\ \A i \in 1..n : accepted'[Len(accepted) + i] = stamps[i]
  <2>1. /\ queue' \in Seq(Any) /\ Len(queue') = Len(queue) + n
        /\ \A i \in 1..Len(queue) : queue'[i] = queue[i]
        /\ \A i \in 1..n : queue'[Len(queue) + i] = items[i]
    BY <1>2, <1>3, <1>4, ConcatPlaces
  <2>2. /\ accepted' \in Seq(Marks) /\ Len(accepted') = Len(accepted) + n
        /\ \A i \in 1..Len(accepted) : accepted'[i] = accepted[i]
        /\ \A i \in 1..n : accepted'[Len(accepted) + i] = stamps[i]
    <3>1. accepted \in Seq(Marks) /\ stamps \in Seq(Marks) /\ Len(stamps) = n
      BY <1>2, <1>3
    <3>2. accepted' = accepted \o stamps
      BY <1>4
    <3> DEFINE both == accepted \o stamps
    <3>3. /\ both \in Seq(Marks) /\ Len(both) = Len(accepted) + Len(stamps)
          /\ \A i \in 1..Len(accepted) : both[i] = accepted[i]
          /\ \A i \in 1..Len(stamps) : both[Len(accepted) + i] = stamps[i]
      BY <3>1
    <3>4. accepted' = both
      BY <3>2
    <3> HIDE DEF both
    <3> QED
      BY <3>1, <3>3, <3>4
  <2> QED
    BY <1>2, <2>1, <2>2
<1>6. \A i \in DOMAIN queue' \ DOMAIN queue :
        /\ i - Len(queue) \in 1..n /\ i > Len(queue)
        /\ queue'[i].run = pointer /\ queue'[i].ev = Len(accepted) + (i - Len(queue))
  <2> SUFFICES ASSUME NEW i \in DOMAIN queue' \ DOMAIN queue
               PROVE  /\ i - Len(queue) \in 1..n /\ i > Len(queue)
                      /\ queue'[i].run = pointer
                      /\ queue'[i].ev = Len(accepted) + (i - Len(queue))
    OBVIOUS
  <2>1. i - Len(queue) \in 1..n /\ i > Len(queue) /\ i = Len(queue) + (i - Len(queue))
    BY <1>5
  <2>2. queue'[i] = items[i - Len(queue)]
    BY <1>5, <2>1
  <2> QED
    BY <1>3, <2>1, <2>2
<1>7. \A e \in DOMAIN accepted' \ DOMAIN accepted :
        accepted'[e] = pointer /\ \E i \in DOMAIN queue' : queue'[i].ev = e
  <2> SUFFICES ASSUME NEW e \in DOMAIN accepted' \ DOMAIN accepted
               PROVE  accepted'[e] = pointer /\ \E i \in DOMAIN queue' : queue'[i].ev = e
    OBVIOUS
  <2> DEFINE k == e - Len(accepted)
  <2>1. k \in 1..n /\ e = Len(accepted) + k /\ Len(queue) + k \in DOMAIN queue'
    BY <1>5
  <2>2. accepted'[e] = stamps[k] /\ queue'[Len(queue) + k] = items[k]
    BY <1>5, <2>1
  <2> HIDE DEF k
  <2> QED
    BY <1>3, <2>1, <2>2
<1>8. \A i, j \in DOMAIN queue' \ DOMAIN queue : i < j => queue'[i].ev < queue'[j].ev
  BY <1>5, <1>6
<1>9. \A i \in DOMAIN queue' \ DOMAIN queue :
        queue'[i].ev \in DOMAIN accepted' \ DOMAIN accepted
  BY <1>5, <1>6
<1> QED
  BY <1>5, <1>6, <1>7, <1>8, <1>9
-----------------------------------------------------------------------------
(* Intake keeps the events where they are.                                 *)
LEMMA AppendKeeps ==
  ASSUME RunInv, EventInv, NEW n \in Nat, Appends(n), pointer \in Runs, up,
         UNCHANGED <<up, pointer, seqOf, writing, runRow, rows, call, lost>>
  PROVE  EventInv'
<1> DEFINE old == DOMAIN accepted
           new == DOMAIN accepted' \ DOMAIN accepted
           qold == DOMAIN queue
           qnew == DOMAIN queue' \ DOMAIN queue
<1>1. TypeOK
  BY DEF RunInv, TypeInv
<1>2. /\ old \subseteq DOMAIN accepted' /\ old \subseteq Nat /\ new \subseteq Nat
      /\ \A e \in old, d \in new : e < d
      /\ \A e \in old : accepted'[e] = accepted[e]
      /\ \A e \in new : accepted'[e] = pointer /\ \E i \in DOMAIN queue' : queue'[i].ev = e
  <2>1. /\ DOMAIN accepted = 1..Len(accepted) /\ Len(accepted) \in Nat
        /\ DOMAIN accepted' = 1..(Len(accepted) + n)
    BY <1>1, AppendsDoes DEF TypeOK
  <2>2. /\ old \subseteq DOMAIN accepted' /\ old \subseteq Nat /\ new \subseteq Nat
        /\ \A e \in old, d \in new : e < d
    BY <2>1
  <2> QED
    BY <1>1, <2>2, AppendsDoes
<1>3. /\ qold \subseteq DOMAIN queue' /\ DOMAIN queue' = qold \cup qnew
      /\ qold \subseteq Nat /\ qnew \subseteq Nat
      /\ \A i \in qold : queue'[i] = queue[i]
      /\ \A i \in qnew : queue'[i].run = pointer /\ queue'[i].ev \in new
      /\ \A i \in qold, j \in qnew : i < j
      /\ \A i, j \in qnew : i < j => queue'[i].ev < queue'[j].ev
  <2>1. qold \subseteq Nat /\ DOMAIN queue' \subseteq Nat
    BY <1>1, AppendsDoes DEF TypeOK, Appends
  <2> QED
    BY <1>1, <2>1, AppendsDoes
<1>4. /\ \A i \in qold : queue[i].ev \in old
      /\ \A y \in Numbered : y.ev \in old
      /\ lost \subseteq old
  BY DEF EventInv, QueueInv, PlaceInv
<1>5. Numbered' = Numbered
  BY DEF Numbered
<1> HIDE DEF old, new, qold, qnew
<1>6. QueueInv'
  <2>1. \A i, j \in DOMAIN queue' : i < j => queue'[i].ev < queue'[j].ev
    <3> SUFFICES ASSUME NEW i \in DOMAIN queue', NEW j \in DOMAIN queue', i < j
                 PROVE  queue'[i].ev < queue'[j].ev
      OBVIOUS
    <3>1. CASE i \in qold /\ j \in qold
      BY <1>3, <3>1 DEF EventInv, QueueInv, qold
    <3>2. CASE i \in qold /\ j \in qnew
      BY <1>2, <1>3, <1>4, <3>2
    <3>3. CASE i \in qnew /\ j \in qnew
      BY <1>3, <3>3
    <3>4. ASSUME i \in qnew, j \in qold PROVE FALSE
      <4>1. i \in Nat /\ j \in Nat /\ j < i
        BY <1>3, <3>4
      <4> QED
        BY <4>1
    <3> QED
      BY <1>3, <3>1, <3>2, <3>3, <3>4
  <2>2. ASSUME NEW i \in DOMAIN queue'
        PROVE  /\ queue'[i].ev \in DOMAIN accepted'
               /\ queue'[i].run = accepted'[queue'[i].ev]
               /\ \A y \in Numbered : y.ev < queue'[i].ev
               /\ \A e \in lost : e < queue'[i].ev
    <3>1. CASE i \in qold
      BY <1>2, <1>3, <1>4, <3>1 DEF EventInv, QueueInv, qold, old
    <3>2. CASE i \in qnew
      BY <1>2, <1>3, <1>4, <3>2 DEF new
    <3> QED
      BY <1>3, <3>1, <3>2
  <2> QED
    BY <1>5, <2>1, <2>2 DEF QueueInv
<1>7. PlaceInv'
  <2>1. \A e \in DOMAIN accepted' :
          \/ \E i \in DOMAIN queue' : queue'[i].ev = e
          \/ e \in Events(Numbered) \cup lost
    <3> SUFFICES ASSUME NEW e \in DOMAIN accepted'
                 PROVE  \/ \E i \in DOMAIN queue' : queue'[i].ev = e
                        \/ e \in Events(Numbered) \cup lost
      OBVIOUS
    <3>1. CASE e \in old
      <4>1. \/ \E i \in DOMAIN queue : queue[i].ev = e
            \/ e \in Events(Numbered) \cup lost
        BY <3>1 DEF EventInv, PlaceInv, old
      <4> QED
        BY <1>3, <4>1 DEF qold
    <3>2. CASE e \in new
      BY <1>2, <3>2
    <3> QED
      BY <3>1, <3>2 DEF old, new
  <2>2. \A y \in Numbered : y.ev \in DOMAIN accepted' /\ y.run = accepted'[y.ev]
    BY <1>2, <1>4 DEF EventInv, PlaceInv
  <2>3. lost \subseteq DOMAIN accepted'
    BY <1>2, <1>4
  <2> QED
    BY <1>5, <2>1, <2>2, <2>3 DEF EventInv, PlaceInv, Events
<1>8. CountInv'
  BY DEF EventInv, CountInv, RowsOf
<1>9. KnownInv'
  <2> SUFFICES ASSUME NEW e \in DOMAIN accepted'
               PROVE  /\ runRow[accepted'[e]].state # "none"
                      /\ \A c \in Callers : call[c].pc = "publish" => accepted'[e] # call[c].run
    BY DEF KnownInv
  <2>1. CASE e \in old
    BY <1>2, <2>1 DEF EventInv, KnownInv, old
  <2>2. CASE e \in new
    <3>1. runRow[pointer].state # "none"
      BY DEF RunInv, SealInv
    <3>2. \A c \in Callers : call[c].pc # "publish"
      BY NoneIsNoRun DEF RunInv, HolderInv, HolderOK
    <3> QED
      BY <1>2, <2>2, <3>1, <3>2
  <2> QED
    BY <2>1, <2>2 DEF old, new
<1>10. NumberInv'
  <2>1. SeqFollowsArrival' /\ \A y \in Numbered' : y.seq > 0
    BY <1>5 DEF EventInv, NumberInv, SeqFollowsArrival
  <2>2. ASSUME NEW y \in Numbered,
               y.run = pointer \/ \E i \in DOMAIN queue' : queue'[i].run = y.run
        PROVE  y.run = pointer \/ \E i \in DOMAIN queue : queue[i].run = y.run
    BY <1>3, <2>2 DEF qold
  <2> QED
    BY <1>5, <2>1, <2>2 DEF EventInv, NumberInv
<1> QED
  BY <1>6, <1>7, <1>8, <1>9, <1>10 DEF EventInv

(* Opening and closing add no event to a run and un-open none.             *)
RunsMove ==
  \A r \in Runs :
    IF runRow[r].state = "none" THEN runRow'[r].count = 0
    ELSE runRow'[r].state # "none" /\ runRow'[r].count = runRow[r].count

(* So do the steps of callers and readers, which may move the pointer only *)
(* away from a run with events, and create runs that have none.            *)
Unmoved ==
  /\ UNCHANGED <<up, queue, writing, rows, accepted, lost>>
  /\ \A e \in DOMAIN accepted :
       LET r == accepted[e] IN
       seqOf'[r] = seqOf[r] /\ (pointer' = r => pointer = r)
  /\ RunsMove
  /\ \A c \in Callers : call'[c].pc = "publish" =>
       \/ call[c].pc = "publish" /\ call'[c].run = call[c].run
       \/ runRow[call'[c].run].state = "none"

(* A run that has never been opened has no row.                            *)
LEMMA FreshIsEmpty ==
  ASSUME TypeInv, EventInv, NEW r \in Runs, runRow[r].state = "none"
  PROVE  RowsOf(r) = {} /\ runRow[r].count = 0
<1>1. RowsOf(r) = {}
  BY DEF EventInv, PlaceInv, KnownInv, RowsOf, Numbered
<1> QED
  BY <1>1, FS_EmptySet DEF EventInv, CountInv

LEMMA UnmovedKeeps ==
  ASSUME TypeInv, EventInv, Unmoved
  PROVE  EventInv'
<1>1. QueueInv' /\ PlaceInv' /\ Numbered' = Numbered
  BY DEF EventInv, QueueInv, PlaceInv, Unmoved, Numbered, Events
<1>2. CountInv'
  <2>1. \A r \in Runs : RowsOf(r)' = RowsOf(r)
    BY DEF Unmoved, RowsOf
  <2>2. \A r \in Runs : runRow'[r].count = runRow[r].count
    BY FreshIsEmpty DEF Unmoved, RunsMove
  <2> QED
    BY <2>1, <2>2 DEF EventInv, CountInv, Unmoved
<1>3. KnownInv'
  <2> SUFFICES ASSUME NEW e \in DOMAIN accepted
               PROVE  /\ runRow'[accepted[e]].state # "none"
                      /\ \A c \in Callers : call'[c].pc = "publish" => accepted[e] # call'[c].run
    BY DEF KnownInv, Unmoved
  <2>1. /\ accepted[e] \in Runs /\ runRow[accepted[e]].state # "none"
        /\ \A c \in Callers : call[c].pc = "publish" => accepted[e] # call[c].run
    BY DEF EventInv, KnownInv, TypeInv, TypeOK
  <2> QED
    BY <2>1 DEF Unmoved, RunsMove
<1>4. NumberInv'
  <2>1. SeqFollowsArrival' /\ \A y \in Numbered' : y.seq > 0
    BY <1>1 DEF EventInv, NumberInv, SeqFollowsArrival, Unmoved
  <2>2. ASSUME up', NEW y \in Numbered,
               y.run = pointer' \/ \E i \in DOMAIN queue' : queue'[i].run = y.run
        PROVE  y.seq <= seqOf'[y.run]
    <3>1. y.ev \in DOMAIN accepted /\ y.run = accepted[y.ev]
      BY DEF EventInv, PlaceInv
    <3>2. seqOf'[y.run] = seqOf[y.run] /\ (pointer' = y.run => pointer = y.run)
      BY <3>1 DEF Unmoved
    <3> QED
      BY <2>2, <3>2 DEF Unmoved, EventInv, NumberInv
  <2> QED
    BY <1>1, <2>1, <2>2 DEF NumberInv
<1> QED
  BY <1>1, <1>2, <1>3, <1>4 DEF EventInv
-----------------------------------------------------------------------------
(* The writer.                                                             *)

(* The events in hand that belong to run r, up to the i-th.                *)
InHand(i, r) == {j \in 1..i : queue[j].run = r}
RowAt(i) == [run |-> queue[i].run, ev |-> queue[i].ev, seq |-> NextSeq(i)]

(* _next_seq() gives each run consecutive numbers, past the last one given *)
(* and up to the last one kept in memory.                                  *)
LEMMA NextSeqGrows ==
  ASSUME TypeOK, NEW n \in DOMAIN queue, NEW i \in 1..n
  PROVE  /\ queue[i].run \in Runs /\ NextSeq(i) \in Nat
         /\ NextSeq(i) > seqOf[queue[i].run]
         /\ NextSeq(i) <= seqOf[queue[i].run] + Cardinality(InHand(n, queue[i].run))
         /\ \A j \in 1..n : j < i /\ queue[j].run = queue[i].run => NextSeq(j) < NextSeq(i)
<1> DEFINE r == queue[i].run
<1>1. /\ n \in Nat /\ i \in Nat /\ i <= n /\ i > 0
      /\ r \in Runs /\ seqOf[r] \in Nat
  <2>1. n \in 1..Len(queue) /\ Len(queue) \in Nat /\ queue[i] \in Item
    BY DEF TypeOK
  <2> QED
    BY <2>1 DEF TypeOK, Item
<1>2. \A k \in Nat : IsFiniteSet(InHand(k, r)) /\ Cardinality(InHand(k, r)) \in Nat
  BY StampsCounted DEF InHand
<1>3. NextSeq(i) = seqOf[r] + Cardinality(InHand(i, r))
  BY DEF NextSeq, InHand
<1>4. Cardinality(InHand(i, r)) > 0
  <2>1. {} \in SUBSET InHand(i, r) /\ InHand(i, r) # {}
    BY <1>1 DEF InHand
  <2> QED
    BY <1>1, <1>2, <2>1, PartCountsLess, FS_EmptySet
<1>5. Cardinality(InHand(i, r)) <= Cardinality(InHand(n, r))
  <2>1. InHand(i, r) \in SUBSET InHand(n, r)
    BY <1>1 DEF InHand
  <2> QED
    BY <1>1, <1>2, <2>1, PartCountsLess
<1>6. ASSUME NEW j \in 1..n, j < i, queue[j].run = r PROVE NextSeq(j) < NextSeq(i)
  <2>1. NextSeq(j) = seqOf[r] + Cardinality(InHand(j, r))
    BY <1>6 DEF NextSeq, InHand
  <2>2. j \in Nat /\ InHand(j, r) \in SUBSET InHand(i, r)
    BY <1>1, <1>6 DEF InHand
  <2>3. i \in InHand(i, r) /\ i \notin InHand(j, r)
    BY <1>1, <1>6 DEF InHand
  <2>4. Cardinality(InHand(j, r)) < Cardinality(InHand(i, r))
    BY <1>1, <1>2, <2>2, <2>3, PartCountsLess
  <2> QED
    BY <1>1, <1>2, <1>3, <2>1, <2>2, <2>4
<1> QED
  BY <1>1, <1>2, <1>3, <1>4, <1>5, <1>6

(* The writer takes the n oldest events off the queue and numbers them.    *)
Takes(n) ==
  /\ writing = {} /\ writing' = {RowAt(i) : i \in 1..n}
  /\ \A r \in Runs : seqOf'[r] = seqOf[r] + Cardinality(InHand(n, r))
  /\ Len(queue') = Len(queue) - n
  /\ \A i \in DOMAIN queue' : i + n \in DOMAIN queue /\ queue'[i] = queue[i + n]
  /\ \A i \in DOMAIN queue : i > n => i - n \in DOMAIN queue'
  /\ UNCHANGED <<up, pointer, runRow, rows, call, read, accepted, lost, sealed>>

LEMMA TakeTakes ==
  ASSUME TypeOK, WriterTake
  PROVE  up /\ \E n \in DOMAIN queue : Takes(n)
<1>1. PICK n \in DOMAIN queue :
        /\ writing' = {[run |-> Stamp(i), ev |-> queue[i].ev, seq |-> NextSeq(i)] : i \in 1..n}
        /\ seqOf' = [r \in Runs |-> seqOf[r] + Cardinality({j \in 1..n : queue[j].run = r})]
        /\ queue' = SubSeq(queue, n + 1, Len(queue))
  BY DEF WriterTake
<1>2. queue \in Seq(Item) /\ n \in 1..Len(queue) /\ Len(queue) \in Nat
  BY DEF TypeOK
<1>3. /\ Len(queue') = Len(queue) - n
      /\ \A i \in DOMAIN queue' : i + n \in DOMAIN queue /\ queue'[i] = queue[i + n]
      /\ \A i \in DOMAIN queue : i > n => i - n \in DOMAIN queue'
  BY <1>1, <1>2
<1>4. \A r \in Runs : seqOf'[r] = seqOf[r] + Cardinality(InHand(n, r))
  BY <1>1 DEF InHand
<1>5. writing' = {RowAt(i) : i \in 1..n}
  BY <1>1 DEF RowAt, Stamp
<1> QED
  BY <1>3, <1>4, <1>5 DEF Takes, WriterTake, database, history

LEMMA TakeKeeps ==
  ASSUME TypeInv, EventInv, WriterTake
  PROVE  EventInv'
<1>1. TypeOK /\ up
  BY DEF TypeInv, WriterTake
<1>2. PICK n \in DOMAIN queue : Takes(n)
  BY <1>1, TakeTakes
<1>3. /\ n \in Nat /\ Len(queue) \in Nat /\ DOMAIN queue = 1..Len(queue)
      /\ n \in 1..Len(queue) /\ DOMAIN queue \subseteq Nat /\ 1..n \subseteq DOMAIN queue
      /\ DOMAIN queue' \subseteq Nat
  BY <1>1, <1>2 DEF TypeOK, Takes
<1>4. Numbered = rows /\ Numbered' = rows \cup writing'
  BY <1>2 DEF Takes, Numbered
<1>5. \A y \in writing' : \E i \in 1..n : y = RowAt(i)
  BY <1>2 DEF Takes
<1>6. \A i \in DOMAIN queue' : queue'[i] = queue[i + n] /\ i + n \in DOMAIN queue /\ i + n > n
  BY <1>2, <1>3 DEF Takes
<1>7. \A i, j \in DOMAIN queue : i < j => queue[i].ev < queue[j].ev
  BY DEF EventInv, QueueInv
<1>8. \A i \in DOMAIN queue :
        /\ queue[i].ev \in DOMAIN accepted /\ queue[i].run = accepted[queue[i].ev]
        /\ \A y \in rows : y.ev < queue[i].ev
        /\ \A e \in lost : e < queue[i].ev
  BY <1>4 DEF EventInv, QueueInv
<1>9. DOMAIN accepted \subseteq Nat
  BY <1>1 DEF TypeOK
<1>10. QueueInv'
  <2>1. \A i, j \in DOMAIN queue' : i < j => queue'[i].ev < queue'[j].ev
    BY <1>3, <1>6, <1>7
  <2>2. ASSUME NEW i \in DOMAIN queue', NEW y \in writing' PROVE y.ev < queue'[i].ev
    <3>1. PICK k \in 1..n : y = RowAt(k)
      BY <1>5
    <3>2. k \in DOMAIN queue /\ k < i + n
      BY <1>3
    <3> QED
      BY <1>6, <1>7, <3>1, <3>2 DEF RowAt
  <2>3. up'
    BY <1>1, <1>2 DEF Takes
  <2> QED
    BY <1>2, <1>4, <1>6, <1>8, <2>1, <2>2, <2>3 DEF QueueInv, Takes
<1>11. PlaceInv'
  <2>1. ASSUME NEW y \in writing'
        PROVE  /\ y.ev \in DOMAIN accepted /\ y.run = accepted[y.ev] /\ y.ev \notin lost
               /\ \A z \in rows : z.ev < y.ev
               /\ \A z \in writing' : y.ev = z.ev => y = z
    <3>1. PICK i \in 1..n : y = RowAt(i)
      BY <1>5
    <3>2. i \in DOMAIN queue /\ y.ev = queue[i].ev /\ y.run = queue[i].run
      BY <1>3, <3>1 DEF RowAt
    <3>3. /\ y.ev \in DOMAIN accepted /\ y.run = accepted[y.ev]
          /\ \A z \in rows : z.ev < y.ev
          /\ \A e \in lost : e < y.ev
      BY <1>8, <3>2
    <3>4. y.ev \notin lost
      BY <1>9, <3>3
    <3>5. ASSUME NEW z \in writing', y.ev = z.ev PROVE y = z
      <4>1. PICK j \in 1..n : z = RowAt(j)
        BY <1>5
      <4>2. j \in DOMAIN queue /\ queue[j].ev = queue[i].ev /\ queue[j].ev \in Nat
        BY <1>3, <1>8, <1>9, <3>2, <3>5, <4>1 DEF RowAt
      <4>3. i = j
        BY <1>3, <1>7, <3>2, <4>2
      <4> QED
        BY <3>1, <4>1, <4>3
    <3> QED
      BY <3>3, <3>4, <3>5
  <2>2. ASSUME NEW y \in rows, NEW z \in writing' PROVE y.ev # z.ev
    BY <1>9, <2>1, <2>2
  <2>3. ASSUME NEW e \in DOMAIN accepted
        PROVE  \/ \E i \in DOMAIN queue' : queue'[i].ev = e
               \/ e \in Events(rows \cup writing') \cup lost
    <3>1. CASE \E i \in DOMAIN queue : queue[i].ev = e
      <4>1. PICK i \in DOMAIN queue : queue[i].ev = e
        BY <3>1
      <4>2. CASE i <= n
        <5>1. i \in 1..n
          BY <1>3, <4>2
        <5>2. RowAt(i) \in writing' /\ RowAt(i).ev = e
          BY <1>2, <4>1, <5>1 DEF Takes, RowAt
        <5> QED
          BY <5>2 DEF Events
      <4>3. CASE i > n
        <5>1. i - n \in DOMAIN queue' /\ (i - n) + n = i
          BY <1>2, <1>3, <4>3 DEF Takes
        <5> QED
          BY <1>6, <4>1, <5>1
      <4> QED
        BY <1>3, <4>2, <4>3
    <3>2. CASE e \in Events(Numbered) \cup lost
      BY <1>4, <3>2 DEF Events
    <3> QED
      BY <3>1, <3>2 DEF EventInv, PlaceInv
  <2>4. \A y \in rows :
          /\ y.ev \in DOMAIN accepted /\ y.run = accepted[y.ev] /\ y.ev \notin lost
          /\ \A z \in rows : y.ev = z.ev => y = z
    BY <1>4 DEF EventInv, PlaceInv
  <2>5. \A y, z \in rows \cup writing' : y.ev = z.ev => y = z
    BY <2>1, <2>2, <2>4
  <2>6. lost \subseteq DOMAIN accepted
    BY DEF EventInv, PlaceInv
  <2>7. accepted' = accepted /\ lost' = lost /\ rows' = rows
    BY <1>2 DEF Takes
  <2>8. \A e \in DOMAIN accepted :
          \/ \E i \in DOMAIN queue' : queue'[i].ev = e
          \/ e \in Events(rows \cup writing') \cup lost
    BY <2>3
  <2>9. Events(Numbered)' = Events(rows \cup writing')
    BY <1>4 DEF Events
  <2> QED
    BY <1>4, <2>1, <2>4, <2>5, <2>6, <2>7, <2>8, <2>9 DEF PlaceInv
<1>12. CountInv' /\ KnownInv'
  BY <1>2 DEF EventInv, CountInv, KnownInv, RowsOf, Takes
<1>13. ASSUME NEW y \in writing'
       PROVE  /\ y.seq > 0 /\ y.run \in Runs /\ y.seq \in Nat /\ y.seq <= seqOf'[y.run]
              /\ \A z \in rows : z.run = y.run => z.seq < y.seq
              /\ \A z \in writing' : z.run = y.run => (y.seq < z.seq <=> y.ev < z.ev)
  <2>1. PICK i \in 1..n : y = RowAt(i)
    BY <1>5
  <2>2. /\ i \in DOMAIN queue /\ i \in Nat
        /\ y.ev = queue[i].ev /\ y.run = queue[i].run /\ y.seq = NextSeq(i)
    BY <1>3, <2>1 DEF RowAt
  <2>3. /\ y.run \in Runs /\ y.seq \in Nat /\ y.seq > seqOf[y.run]
        /\ y.seq <= seqOf[y.run] + Cardinality(InHand(n, y.run))
        /\ seqOf[y.run] \in Nat
    BY <1>1, <2>2, NextSeqGrows DEF TypeOK
  <2>4. ASSUME NEW z \in rows, z.run = y.run PROVE z.seq < y.seq
    <3>1. z.seq <= seqOf[y.run]
      BY <1>1, <1>4, <2>2, <2>4 DEF EventInv, NumberInv
    <3>2. z.seq \in Nat
      BY <1>1 DEF TypeOK, Row
    <3> QED
      BY <2>3, <3>1, <3>2
  <2>5. ASSUME NEW z \in writing', z.run = y.run PROVE y.seq < z.seq <=> y.ev < z.ev
    <3>1. PICK j \in 1..n : z = RowAt(j)
      BY <1>5
    <3>2. /\ j \in DOMAIN queue /\ j \in Nat
          /\ z.ev = queue[j].ev /\ z.run = queue[j].run /\ z.seq = NextSeq(j)
      BY <1>3, <3>1 DEF RowAt
    <3>3. /\ NextSeq(i) \in Nat /\ NextSeq(j) \in Nat
          /\ queue[i].ev \in Nat /\ queue[j].ev \in Nat
      BY <1>1, <1>8, <1>9, <2>2, <3>2, NextSeqGrows
    <3>4. CASE i < j
      <4>1. NextSeq(i) < NextSeq(j) /\ queue[i].ev < queue[j].ev
        BY <1>1, <1>7, <2>2, <2>5, <3>2, <3>4, NextSeqGrows
      <4> QED
        BY <2>2, <3>2, <3>3, <4>1
    <3>5. CASE j < i
      <4>1. NextSeq(j) < NextSeq(i) /\ queue[j].ev < queue[i].ev
        BY <1>1, <1>7, <2>2, <2>5, <3>2, <3>5, NextSeqGrows
      <4> QED
        BY <2>2, <3>2, <3>3, <4>1
    <3>6. CASE i = j
      BY <2>2, <3>2, <3>3, <3>6
    <3> QED
      BY <2>2, <3>2, <3>4, <3>5, <3>6
  <2> QED
    BY <1>2, <2>3, <2>4, <2>5 DEF Takes
<1>14. NumberInv'
  <2>1. SeqFollowsArrival'
    <3> SUFFICES ASSUME NEW y \in Numbered', NEW z \in Numbered', y.run = z.run
                 PROVE  y.seq < z.seq <=> y.ev < z.ev
      BY DEF SeqFollowsArrival, Numbered
    <3>1. \A w \in Numbered' : w.seq \in Nat /\ w.ev \in Nat
      <4>1. \A w \in rows : w.seq \in Nat /\ w.ev \in Nat
        BY <1>1 DEF TypeOK, Row
      <4>2. \A w \in writing' : w.seq \in Nat /\ w.ev \in Nat
        BY <1>2, <1>9, <1>11, <1>13 DEF PlaceInv, Takes, Numbered
      <4> QED
        BY <1>4, <4>1, <4>2
    <3>2. CASE y \in rows /\ z \in rows
      BY <3>2 DEF EventInv, NumberInv, SeqFollowsArrival
    <3>3. CASE y \in writing' /\ z \in writing'
      BY <1>13, <3>3
    <3>4. CASE y \in rows /\ z \in writing'
      <4>1. y.seq < z.seq /\ y.ev < z.ev
        BY <1>2, <1>11, <1>13, <3>4 DEF PlaceInv, Takes
      <4> QED
        BY <4>1
    <3>5. CASE y \in writing' /\ z \in rows
      <4>1. z.seq < y.seq /\ z.ev < y.ev
        BY <1>2, <1>11, <1>13, <3>5 DEF PlaceInv, Takes
      <4> QED
        BY <3>1, <4>1
    <3> QED
      BY <1>4, <3>2, <3>3, <3>4, <3>5
  <2>2. \A y \in Numbered' : y.seq > 0
    BY <1>4, <1>13 DEF EventInv, NumberInv
  <2>3. ASSUME NEW y \in rows,
               y.run = pointer \/ \E i \in DOMAIN queue' : queue'[i].run = y.run
        PROVE  y.seq <= seqOf'[y.run]
    <3>1. y.run = pointer \/ \E i \in DOMAIN queue : queue[i].run = y.run
      BY <1>6, <2>3
    <3>2. y.seq <= seqOf[y.run] /\ y.run \in Runs /\ y.seq \in Nat /\ seqOf[y.run] \in Nat
      BY <1>1, <1>4, <3>1 DEF EventInv, NumberInv, TypeOK, Row
    <3>3. seqOf'[y.run] = seqOf[y.run] + Cardinality(InHand(n, y.run))
          /\ Cardinality(InHand(n, y.run)) \in Nat
      BY <1>2, <1>3, <3>2, StampsCounted DEF Takes, InHand
    <3> QED
      BY <3>2, <3>3
  <2> QED
    BY <1>2, <1>4, <1>13, <2>1, <2>2, <2>3 DEF NumberInv, Takes
<1> QED
  BY <1>10, <1>11, <1>12, <1>14 DEF EventInv

(* Waking the waiters starts and publishes no run.                         *)
NonePublishes ==
  \A c \in Callers : call'[c].pc = "publish" =>
    call[c].pc = "publish" /\ call'[c].run = call[c].run

LEMMA WakePublishesNone ==
  ASSUME TypeInv, WakeFlushed
  PROVE  NonePublishes
<1> SUFFICES ASSUME NEW c \in Callers, call'[c].pc = "publish"
             PROVE  call[c].pc = "publish" /\ call'[c].run = call[c].run
  BY DEF NonePublishes
<1>1. \/ call'[c] = call[c]
      \/ call[c].pc = "flush" /\ call'[c] = [call[c] EXCEPT !.pc = "lock"]
  BY DEF WakeFlushed
<1>2. call[c] \in Call
  BY DEF TypeInv, TypeOK
<1> QED
  BY <1>1, <1>2 DEF Call

(* Committing the transaction moves its rows to the table and brings every *)
(* run's event_count up to date.                                           *)
LEMMA CommitCounts ==
  ASSUME TypeInv, EventInv, CommitRows
  PROVE  /\ rows' = Numbered /\ CountInv'
         /\ \A r \in Runs : runRow'[r].state = runRow[r].state
<1>1. rows' = Numbered /\ IsFiniteSet(rows) /\ IsFiniteSet(writing)
  BY DEF CommitRows, Numbered, EventInv, CountInv, TypeInv
<1>2. IsFiniteSet(rows')
  BY <1>1, FS_Union DEF Numbered
<1>3. ASSUME NEW r \in Runs
      PROVE  runRow'[r].count = Cardinality(RowsOf(r)') /\ runRow'[r].state = runRow[r].state
  <2> DEFINE W == {x \in writing : x.run = r}
             n == Cardinality(W)
  <2>1. /\ IsFiniteSet(W) /\ n \in Nat
        /\ IsFiniteSet(RowsOf(r)) /\ Cardinality(RowsOf(r)) \in Nat
    BY <1>1, RowsCounted DEF RowsOf
  <2>2. RowsOf(r)' = RowsOf(r) \cup W
    BY <1>1 DEF RowsOf, Numbered
  <2>3. RowsOf(r) \cap W = {}
    <3>1. ASSUME NEW y \in rows, y \in writing PROVE FALSE
      <4>1. y.ev \in Nat /\ y.ev < y.ev
        BY <3>1 DEF EventInv, PlaceInv, TypeInv, TypeOK, Row
      <4> QED
        BY <4>1
    <3> QED
      BY <3>1 DEF RowsOf
  <2>4. Cardinality(RowsOf(r)') = Cardinality(RowsOf(r)) + n
    BY <2>1, <2>2, <2>3, FS_Union, FS_EmptySet
  <2>5. runRow'[r] = [runRow[r] EXCEPT !.count = @ + n]
    BY DEF CommitRows
  <2>6. runRow[r] \in RunRow /\ runRow[r].count = Cardinality(RowsOf(r))
    BY DEF TypeInv, TypeOK, EventInv, CountInv
  <2> HIDE DEF n
  <2>7. runRow'[r].count = runRow[r].count + n /\ runRow'[r].state = runRow[r].state
    BY <2>5, <2>6 DEF RunRow
  <2> QED
    BY <2>4, <2>6, <2>7
<1> QED
  BY <1>1, <1>2, <1>3 DEF CountInv

LEMMA StoreKeeps ==
  ASSUME TypeInv, EventInv, CommitRows, writing' = {}, NonePublishes,
         UNCHANGED <<up, pointer, seqOf, queue, accepted, lost>>
  PROVE  EventInv'
<1>1. Numbered' = Numbered /\ CountInv' /\ rows' = Numbered
  BY CommitCounts DEF Numbered
<1>2. QueueInv' /\ PlaceInv'
  BY <1>1 DEF EventInv, QueueInv, PlaceInv, Events
<1>3. KnownInv'
  <2> SUFFICES ASSUME NEW e \in DOMAIN accepted
               PROVE  /\ runRow'[accepted[e]].state # "none"
                      /\ \A c \in Callers : call'[c].pc = "publish" => accepted[e] # call'[c].run
    BY DEF KnownInv
  <2>1. /\ accepted[e] \in Runs /\ runRow[accepted[e]].state # "none"
        /\ \A c \in Callers : call[c].pc = "publish" => accepted[e] # call[c].run
    BY DEF EventInv, KnownInv, TypeInv, TypeOK
  <2> QED
    BY <2>1, CommitCounts DEF NonePublishes
<1>4. NumberInv'
  BY <1>1 DEF EventInv, NumberInv, SeqFollowsArrival, Numbered
<1> QED
  BY <1>1, <1>2, <1>3, <1>4 DEF EventInv

-----------------------------------------------------------------------------
(* Loss: a refused COMMIT loses the transaction, going down loses the      *)
(* queue as well.                                                          *)
Drops ==
  /\ writing' = {} /\ UNCHANGED <<runRow, rows, accepted>>
  /\ \/ /\ UNCHANGED <<up, pointer, seqOf, queue>>
        /\ lost' = lost \cup Events(writing)
     \/ /\ ~up' /\ queue' = <<>>
        /\ lost' = lost \cup Events(writing) \cup {queue[i].ev : i \in DOMAIN queue}
  /\ NonePublishes

LEMMA DropsKeeps ==
  ASSUME TypeInv, EventInv, Drops
  PROVE  EventInv'
<1>1. Numbered' = rows /\ rows \subseteq Numbered /\ writing \subseteq Numbered
  BY DEF Numbered, Drops
<1>2. /\ \A e \in lost' : e \in lost \/ (\E y \in writing : y.ev = e)
                         \/ (queue' = <<>> /\ \E i \in DOMAIN queue : queue[i].ev = e)
      /\ lost \subseteq lost' /\ \A y \in writing : y.ev \in lost'
      /\ queue' = queue \/ (queue' = <<>> /\ \A i \in DOMAIN queue : queue[i].ev \in lost')
  BY DEF Drops, Events
<1>3. DOMAIN accepted \subseteq Nat /\ \A y \in Numbered : y.ev \in Nat
  BY DEF TypeInv, TypeOK, Row, Numbered
<1>4. QueueInv'
  <2>1. CASE queue' = <<>>
    BY <2>1 DEF QueueInv, Drops
  <2>2. CASE queue' = queue /\ queue' # <<>>
    BY <1>1, <1>2, <2>2 DEF EventInv, QueueInv, Drops
  <2> QED
    BY <1>2, <2>1, <2>2
<1>5. PlaceInv'
  <2>1. lost' \subseteq DOMAIN accepted
    BY <1>1, <1>2 DEF EventInv, PlaceInv, QueueInv
  <2>2. ASSUME NEW y \in rows, y.ev \in lost' PROVE FALSE
    <3>1. y.ev \in Nat /\ y.ev \notin lost
      BY <1>1, <1>3 DEF EventInv, PlaceInv
    <3>2. ~ \E z \in writing : z.ev = y.ev
      BY <3>1 DEF EventInv, PlaceInv
    <3>3. ~ \E i \in DOMAIN queue : queue[i].ev = y.ev
      BY <1>1, <3>1 DEF EventInv, QueueInv
    <3> QED
      BY <1>2, <2>2, <3>1, <3>2, <3>3
  <2>3. ASSUME NEW e \in DOMAIN accepted
        PROVE  (\E i \in DOMAIN queue' : queue'[i].ev = e) \/ e \in Events(rows) \cup lost'
    <3>1. \/ \E i \in DOMAIN queue : queue[i].ev = e
          \/ \E y \in Numbered : y.ev = e
          \/ e \in lost
      BY DEF EventInv, PlaceInv, Events
    <3> QED
      BY <1>2, <3>1 DEF Numbered, Events
  <2>4. \A y \in rows : y.ev \in DOMAIN accepted /\ y.run = accepted[y.ev]
    BY <1>1 DEF EventInv, PlaceInv
  <2>5. \A y, z \in rows : y.ev = z.ev => y = z
    BY <1>1 DEF EventInv, PlaceInv
  <2>6. writing' = {} /\ accepted' = accepted /\ rows' = rows
    BY DEF Drops
  <2>7. Events(Numbered)' = Events(rows)
    BY <1>1 DEF Events
  <2> QED
    BY <1>1, <2>1, <2>2, <2>3, <2>4, <2>5, <2>6, <2>7 DEF PlaceInv
<1>6. CountInv' /\ KnownInv'
  BY DEF EventInv, CountInv, KnownInv, RowsOf, Drops, NonePublishes
<1>7. NumberInv'
  <2>1. SeqFollowsArrival' /\ \A y \in Numbered' : y.seq > 0
    BY <1>1 DEF EventInv, NumberInv, SeqFollowsArrival, Drops
  <2> QED
    BY <1>1, <2>1 DEF EventInv, NumberInv, Drops
<1> QED
  BY <1>4, <1>5, <1>6, <1>7 DEF EventInv

LEMMA WriterKeeps ==
  ASSUME TypeInv, EventInv, Writer
  PROVE  EventInv'
<1>1. CASE WriterTake
  BY <1>1, TakeKeeps
<1>2. CASE WriterCommit
  BY <1>2, WakePublishesNone, StoreKeeps DEF WriterCommit, history
<1>3. CASE WriterFail
  <2>1. /\ writing' = {} /\ NonePublishes
        /\ UNCHANGED <<up, pointer, seqOf, queue, accepted>>
        /\ \/ lost' = lost \cup Events(writing) /\ UNCHANGED database
           \/ CommitRows /\ UNCHANGED lost
    BY <1>3, WakePublishesNone DEF WriterFail
  <2> QED
    BY <2>1, StoreKeeps, DropsKeeps DEF Drops, database
<1> QED
  BY <1>1, <1>2, <1>3 DEF Writer

LEMMA DownDrops ==
  ASSUME TypeInv, Crash \/ Stop
  PROVE  Drops /\ ~up'
<1>1. /\ writing' = {} /\ UNCHANGED <<runRow, rows, accepted>> /\ ~up' /\ queue' = <<>>
      /\ NonePublishes
  BY DEF Crash, Stop, GoDown, database, NonePublishes, Idle
<1>2. lost' = lost \cup Events(writing) \cup {queue[i].ev : i \in DOMAIN queue}
  <2>1. CASE Stop
    <3>1. queue = <<>> /\ writing = {} /\ lost' = lost
      BY <2>1 DEF Stop, Drained
    <3> QED
      BY <3>1 DEF Events
  <2> QED
    BY <2>1 DEF Crash
<1> QED
  BY <1>1, <1>2 DEF Drops

(* A process that adopts a run resumes its numbers after its last row.     *)
LEMMA AdoptKeeps ==
  ASSUME RunInv, EventInv, Restart
  PROVE  EventInv'
<1>1. /\ ~up /\ queue = <<>> /\ writing = {} /\ pointer = None
      /\ UNCHANGED <<queue, writing, runRow, rows, call, accepted, lost>>
  BY DEF Restart, EventInv, QueueInv, RunInv, LockInv, database, history
<1>2. QueueInv' /\ PlaceInv' /\ CountInv' /\ KnownInv' /\ Numbered' = rows /\ Numbered = rows
  BY <1>1 DEF EventInv, QueueInv, PlaceInv, CountInv, KnownInv, Numbered, RowsOf, Events
<1>3. ASSUME NEW y \in rows, y.run = pointer' PROVE y.seq <= seqOf'[y.run]
  <2>1. pointer' # None
    BY <1>3, NoneIsNoRun DEF RunInv, TypeInv, TypeOK, Row
  <2>2. PICK r \in Active : \E n \in LastSeq(r) : pointer' = r /\ seqOf' = [seqOf EXCEPT ![r] = n]
    BY <1>1, <2>1 DEF Restart, Adoptable
  <2>3. PICK n \in LastSeq(r) : pointer' = r /\ seqOf' = [seqOf EXCEPT ![r] = n]
    BY <2>2
  <2>4. seqOf'[r] = n /\ y \in RowsOf(r)
    BY <1>3, <2>3 DEF RunInv, TypeInv, TypeOK, Active, RowsOf
  <2> QED
    BY <1>3, <2>3, <2>4 DEF LastSeq
<1>4. NumberInv'
  <2>1. SeqFollowsArrival' /\ \A y \in Numbered' : y.seq > 0
    BY <1>1, <1>2 DEF EventInv, NumberInv, SeqFollowsArrival
  <2> QED
    BY <1>1, <1>2, <1>3, <2>1 DEF NumberInv
<1> QED
  BY <1>2, <1>4 DEF EventInv

-----------------------------------------------------------------------------
(* Callers and readers.                                                    *)
LEMMA RunsMoveSoftly ==
  ASSUME RunInv, EventInv,
         \/ UNCHANGED runRow
         \/ \E c \in Callers : call[c].pc = "commit" /\ MarkClosed(c)
         \/ \E r \in Runs : InsertRun(r)
  PROVE  RunsMove
<1>1. \A r \in Runs : runRow[r].state = "none" => runRow[r].count = 0
  BY FreshIsEmpty DEF RunInv
<1>2. CASE UNCHANGED runRow
  BY <1>1, <1>2 DEF RunsMove
<1>3. ASSUME NEW c \in Callers, call[c].pc = "commit", MarkClosed(c)
      PROVE  RunsMove
  <2>1. /\ call[c].run \in Runs /\ runRow'[call[c].run].state = "closed"
        /\ \A s \in Runs : s # call[c].run => runRow'[s] = runRow[s]
    BY <1>3, MarkClosedDoes
  <2>2. runRow'[call[c].run].count = runRow[call[c].run].count
    BY <1>3, <2>1 DEF MarkClosed, RunInv, TypeInv, TypeOK
  <2>3. runRow[call[c].run].state # "none"
    BY <1>3 DEF RunInv, HolderInv, HolderOK
  <2> QED
    BY <1>1, <2>1, <2>2, <2>3 DEF RunsMove
<1>4. ASSUME NEW r \in Runs, InsertRun(r)
      PROVE  RunsMove
  <2>1. /\ runRow[r].state = "none"
        /\ \A s \in Runs : s # r => runRow'[s] = runRow[s]
    BY <1>4, InsertRunDoes
  <2>2. runRow'[r].count = 0
    <3> DEFINE row == [NoRun EXCEPT !.state = "active"]
    <3>1. row.count = 0
      BY DEF NoRun
    <3>2. runRow' = [runRow EXCEPT ![r] = row]
      BY <1>4 DEF InsertRun
    <3> HIDE DEF row
    <3> QED
      BY <3>1, <3>2 DEF RunInv, TypeInv, TypeOK
  <2> QED
    BY <1>1, <2>1, <2>2 DEF RunsMove
<1> QED
  BY <1>2, <1>3, <1>4

(* A caller's next entry: it publishes nothing, or a run just inserted.    *)
LEMMA MovesOn ==
  ASSUME RunInv, NEW c \in Callers, NEW e, Advance(c, e),
         e.pc = "publish" => runRow[e.run].state = "none"
  PROVE  \A d \in Callers : call'[d].pc = "publish" =>
           \/ call[d].pc = "publish" /\ call'[d].run = call[d].run
           \/ runRow[call'[d].run].state = "none"
<1>1. call'[c] = e /\ \A d \in Callers : d # c => call'[d] = call[d]
  BY DEF Advance, RunInv, TypeInv, TypeOK
<1> QED
  BY <1>1

LEMMA ReturnMovesOn ==
  ASSUME RunInv, NEW c \in Callers, Return(c)
  PROVE  \A d \in Callers : call'[d].pc = "publish" =>
           \/ call[d].pc = "publish" /\ call'[d].run = call[d].run
           \/ runRow[call'[d].run].state = "none"
<1>1. Advance(c, Idle) /\ Idle.pc # "publish"
  BY DEF Return, Idle
<1> QED
  BY <1>1, MovesOn

(* Where the events are is nobody's business but intake's and the writer's.*)
LEMMA CallerUnmoved ==
  ASSUME RunInv, EventInv, NEW c \in Callers, Begin(c) \/ Acquire(c) \/ Proceed(c)
  PROVE  Unmoved
<1> DEFINE Publishing ==
             \A d \in Callers : call'[d].pc = "publish" =>
               \/ call[d].pc = "publish" /\ call'[d].run = call[d].run
               \/ runRow[call'[d].run].state = "none"
           Stamped == \A e \in DOMAIN accepted :
             LET r == accepted[e] IN
             seqOf'[r] = seqOf[r] /\ (pointer' = r => pointer = r)
<1>1. call[c] \in Call
  BY DEF RunInv, TypeInv, TypeOK
<1>2. UNCHANGED <<up, queue, writing, rows, accepted, lost>>
  BY DEF Begin, CloseBegin, OpenBegin, Acquire, Proceed, CloseCommit, CloseFail, CloseClear,
         OpenInsert, OpenFail, OpenPublish, memory, database, history
<1>3. \/ UNCHANGED runRow
      \/ \E d \in Callers : call[d].pc = "commit" /\ MarkClosed(d)
      \/ \E r \in Runs : InsertRun(r)
  BY DEF Begin, CloseBegin, OpenBegin, Acquire, Proceed, CloseCommit, CloseFail, CloseClear,
         OpenInsert, OpenFail, OpenPublish, At, database
<1>4. RunsMove
  BY <1>3, RunsMoveSoftly
<1>5. Stamped
  <2>1. CASE OpenPublish(c)
    <3>1. /\ call[c].pc = "publish" /\ seqOf' = [seqOf EXCEPT ![call[c].run] = 0]
          /\ pointer' = call[c].run
      BY <2>1 DEF OpenPublish, At
    <3> QED
      BY <3>1 DEF EventInv, KnownInv, RunInv, TypeInv, TypeOK
  <2>2. CASE ~ OpenPublish(c)
    <3>1. seqOf' = seqOf /\ pointer' \in {pointer, None}
      BY <2>2 DEF Begin, CloseBegin, OpenBegin, Acquire, Proceed, CloseCommit, CloseFail,
         CloseClear, Cleared, OpenInsert, OpenFail, memory
    <3> QED
      BY <3>1, NoneIsNoRun DEF RunInv, TypeInv, TypeOK
  <2> QED
    BY <2>1, <2>2
<1>6. Publishing
  <2>1. CASE Begin(c)
    <3>1. call'[c].pc # "publish" /\ \A d \in Callers : d # c => call'[d] = call[d]
      BY <2>1 DEF Begin, CloseBegin, OpenBegin, Advance, Idle, RunInv, TypeInv, TypeOK
    <3> QED
      BY <3>1
  <2>2. CASE Acquire(c)
    <3> DEFINE r == IF call[c].op = "close" THEN call[c].run ELSE pointer
               held == [call[c] EXCEPT !.pc = "commit", !.run = r, !.seen = runRow[r]]
               free == [call[c] EXCEPT !.pc = "insert"]
    <3>1. Advance(c, held) \/ Advance(c, free) \/ Return(c)
      BY <2>2 DEF Acquire
    <3>2. held.pc # "publish" /\ free.pc # "publish"
      BY <1>1 DEF Call
    <3> HIDE DEF r, held, free
    <3> QED
      BY <3>1, <3>2, MovesOn, ReturnMovesOn
  <2>3. CASE CloseCommit(c)
    <3>1. PICK e : Advance(c, e) /\ e.pc # "publish"
      BY <1>1, <2>3 DEF CloseCommit, Call
    <3> QED
      BY <3>1, MovesOn
  <2>4. CASE CloseClear(c)
    <3> DEFINE free == [call[c] EXCEPT !.pc = "insert", !.run = None]
    <3>1. Advance(c, free) \/ Return(c)
      BY <2>4 DEF CloseClear
    <3>2. free.pc # "publish"
      BY <1>1 DEF Call
    <3> HIDE DEF free
    <3> QED
      BY <3>1, <3>2, MovesOn, ReturnMovesOn
  <2>5. CASE CloseFail(c) \/ OpenFail(c) \/ OpenPublish(c)
    BY <2>5, ReturnMovesOn DEF CloseFail, OpenFail, OpenPublish
  <2>6. CASE OpenInsert(c)
    <3>1. PICK r \in Runs :
            InsertRun(r) /\ Advance(c, [call[c] EXCEPT !.pc = "publish", !.run = r])
      BY <2>6 DEF OpenInsert
    <3> DEFINE e == [call[c] EXCEPT !.pc = "publish", !.run = r]
    <3>2. e.run = r /\ runRow[r].state = "none"
      BY <1>1, <3>1, InsertRunDoes DEF Call
    <3>3. Advance(c, e)
      BY <3>1
    <3> HIDE DEF e
    <3> QED
      BY <3>2, <3>3, MovesOn
  <2> QED
    BY <2>1, <2>2, <2>3, <2>4, <2>5, <2>6 DEF Proceed
<1> QED
  BY <1>2, <1>4, <1>5, <1>6 DEF Unmoved

LEMMA ReaderUnmoved ==
  ASSUME RunInv, EventInv,
         NEW x \in Readers, (\E r \in Runs : ReadBegin(x, r)) \/ ReadStep(x)
  PROVE  Unmoved
<1>1. UNCHANGED <<memory, database, call, history>>
  BY DEF ReadBegin, ReadStep, ReadRequest, ReadSelect, ReadFail
<1>2. RunsMove
  BY <1>1, RunsMoveSoftly DEF database
<1> QED
  BY <1>1, <1>2 DEF Unmoved, memory, database, history
-----------------------------------------------------------------------------
(* The invariant.                                                          *)
LEMMA EventInit == Init => EventInv
<1> SUFFICES ASSUME Init PROVE EventInv
  OBVIOUS
<1>1. /\ up /\ queue = <<>> /\ writing = {} /\ rows = {} /\ accepted = <<>> /\ lost = {}
      /\ \A r \in Runs : runRow[r].count = 0
  BY DEF Init, NoRun
<1>2. CountInv
  BY <1>1, FS_EmptySet DEF CountInv, RowsOf
<1>3. QueueInv /\ PlaceInv /\ KnownInv /\ NumberInv
  BY <1>1 DEF QueueInv, PlaceInv, KnownInv, NumberInv, SeqFollowsArrival, Numbered
<1> QED
  BY <1>2, <1>3 DEF EventInv

LEMMA EventStep ==
  ASSUME RunInv, EventInv, [Next]_vars
  PROVE  EventInv'
<1>1. TypeInv
  BY DEF RunInv
<1>2. CASE Intake
  <2>1. UNCHANGED <<up, pointer, seqOf, writing, runRow, rows, call, lost>> /\ up
    BY <1>2 DEF Intake, Submit, RegisterCorrelation, RejectBody, database, history
  <2>2. CASE UNCHANGED <<queue, accepted>>
    <3>1. RunsMove
      BY <1>1, <2>1, FreshIsEmpty DEF RunsMove
    <3> QED
      BY <1>1, <2>1, <2>2, <3>1, UnmovedKeeps DEF Unmoved
  <2>3. CASE pointer \in Runs /\ \E n \in Nat : Appends(n)
    BY <2>1, <2>3, AppendKeeps
  <2> QED
    BY <1>1, <1>2, <2>2, <2>3, IntakeAppends DEF TypeInv
<1>3. CASE Writer
  BY <1>1, <1>3, WriterKeeps
<1>4. ASSUME NEW c \in Callers, Begin(c) \/ Acquire(c) \/ Proceed(c)
      PROVE  EventInv'
  BY <1>1, <1>4, CallerUnmoved, UnmovedKeeps
<1>5. ASSUME NEW x \in Readers, (\E r \in Runs : ReadBegin(x, r)) \/ ReadStep(x)
      PROVE  EventInv'
  BY <1>1, <1>5, ReaderUnmoved, UnmovedKeeps
<1>6. CASE Crash \/ Stop
  BY <1>1, <1>6, DownDrops, DropsKeeps
<1>7. CASE Restart
  BY <1>7, AdoptKeeps
<1>8. CASE UNCHANGED vars
  <2>1. UNCHANGED <<memory, database, call, history>>
    BY <1>8 DEF vars
  <2>2. RunsMove
    BY <2>1, RunsMoveSoftly DEF database
  <2> QED
    BY <1>1, <2>1, <2>2, UnmovedKeeps DEF Unmoved, memory, database, history
<1> QED
  BY <1>2, <1>3, <1>4, <1>5, <1>6, <1>7, <1>8 DEF Next

THEOREM EventInvariant == Spec => [](RunInv /\ EventInv)
<1>1. Init => EventInv
  BY EventInit
<1>2. RunInv /\ EventInv /\ [Next]_vars => EventInv'
  BY EventStep
<1> QED
  BY <1>1, <1>2, RunInvariant, PTL DEF Spec

(* SeqFollowsArrival: whatever is batched, failed, lost or restarted, the  *)
(* numbers of a run follow the order in which its events were accepted,    *)
(* so the unique constraint on (run_id, seq) is never tripped.             *)
THEOREM NumbersFollowArrival == Spec => []SeqFollowsArrival
<1>1. EventInv => SeqFollowsArrival
  BY DEF EventInv, NumberInv
<1> QED
  BY <1>1, EventInvariant, PTL

(* The four places an event can be are disjoint and hold them all.         *)
LEMMA PlacesPartition ==
  ASSUME RunInv, EventInv
  PROVE  EventAccounted
<1> DEFINE Q == {queue[i].ev : i \in DOMAIN queue}
           Places == <<Q, Events(writing), Events(rows), lost>>
<1>1. DOMAIN accepted \subseteq Nat /\ \A y \in Numbered : y.ev \in Nat
  BY DEF RunInv, TypeInv, TypeOK, Row, Numbered
<1>2. /\ Q \subseteq DOMAIN accepted /\ Events(writing) \subseteq DOMAIN accepted
      /\ Events(rows) \subseteq DOMAIN accepted /\ lost \subseteq DOMAIN accepted
      /\ DOMAIN accepted \subseteq Q \cup Events(writing) \cup Events(rows) \cup lost
  BY DEF EventInv, QueueInv, PlaceInv, Numbered, Events
<1>3. Q \cap Events(writing) = {} /\ Q \cap Events(rows) = {} /\ Q \cap lost = {}
  <2>1. \A i \in DOMAIN queue, y \in Numbered : y.ev \in Nat /\ y.ev < queue[i].ev
    BY <1>1 DEF EventInv, QueueInv
  <2>2. \A i \in DOMAIN queue, e \in lost : e \in Nat /\ e < queue[i].ev
    BY <1>1, <1>2 DEF EventInv, QueueInv
  <2>3. \A n \in Nat : ~(n < n)
    OBVIOUS
  <2> QED
    BY <2>1, <2>2, <2>3 DEF Events, Numbered
<1>4. Events(writing) \cap Events(rows) = {}
  <2>1. ASSUME NEW y \in rows, NEW z \in writing, y.ev = z.ev PROVE FALSE
    <3>1. y.ev \in Nat /\ y.ev < y.ev
      BY <1>1, <2>1 DEF EventInv, PlaceInv, Numbered
    <3> QED
      BY <3>1
  <2> QED
    BY <2>1 DEF Events
<1>5. Events(writing) \cap lost = {} /\ Events(rows) \cap lost = {}
  BY DEF EventInv, PlaceInv, Numbered, Events
<1>6. /\ \A i, j \in DOMAIN queue : i < j => queue[i].ev < queue[j].ev
      /\ \A i \in DOMAIN queue : queue[i].run = accepted[queue[i].ev]
      /\ \A y \in rows \cup writing : y.run = accepted[y.ev]
      /\ \A r \in Runs : runRow[r].count = Cardinality(RowsOf(r))
  BY DEF EventInv, QueueInv, PlaceInv, CountInv, Numbered
<1> HIDE DEF Q
<1>7. Places[1] = Q /\ Places[2] = Events(writing) /\ Places[3] = Events(rows) /\ Places[4] = lost
  OBVIOUS
<1> HIDE DEF Places
<1>8. \A i : i \in 1..4 <=> i = 1 \/ i = 2 \/ i = 3 \/ i = 4
  OBVIOUS
<1>9. UNION {Places[i] : i \in 1..4} = DOMAIN accepted
  <2>1. UNION {Places[i] : i \in 1..4} = Q \cup Events(writing) \cup Events(rows) \cup lost
    BY <1>7, <1>8
  <2> QED
    BY <1>2, <2>1
<1>10. \A i, j \in 1..4 : i # j => Places[i] \cap Places[j] = {}
  BY <1>3, <1>4, <1>5, <1>7, <1>8
<1> QED
  BY <1>6, <1>9, <1>10 DEF EventAccounted, Q, Places

(* EventAccounted: every accepted event is in exactly one place, keeps its *)
(* run, and event_count agrees with the rows.                              *)
THEOREM EveryEventAccounted == Spec => []EventAccounted
  BY PlacesPartition, EventInvariant, PTL
-----------------------------------------------------------------------------
(* The counters.                                                           *)

(* Every position of a batch is malformed or valid, never both.            *)
LEMMA KindsPartition ==
  ASSUME NEW s \in Seq(Kinds)
  PROVE  Cardinality({i \in DOMAIN s : s[i] \in {"event", "correlation"}})
           + Cardinality({i \in DOMAIN s : s[i] \in {"malformed"}}) = Len(s)
<1> DEFINE good == {i \in DOMAIN s : s[i] \in {"event", "correlation"}}
           bad == {i \in DOMAIN s : s[i] \in {"malformed"}}
<1>1. Len(s) \in Nat /\ IsFiniteSet(1..Len(s)) /\ Cardinality(1..Len(s)) = Len(s)
  <2>1. Len(s) \in Nat
    OBVIOUS
  <2>2. Cardinality(1..Len(s)) = IF 1 > Len(s) THEN 0 ELSE Len(s) - 1 + 1
    BY <2>1, FS_Interval
  <2> QED
    BY <2>1, <2>2, FS_Interval
<1>2. good \cup bad = 1..Len(s) /\ good \cap bad = {}
  BY DEF Kinds
<1> HIDE DEF good, bad
<1>3. IsFiniteSet(good) /\ IsFiniteSet(bad)
  BY <1>1, <1>2, FS_Subset
<1>4. Cardinality(good) \in Nat /\ Cardinality(bad) \in Nat
  BY <1>3, FS_CardinalityType
<1>5. Cardinality(good \cup bad) = Cardinality(good) + Cardinality(bad)
  <2>1. Cardinality(good \cup bad)
          = Cardinality(good) + Cardinality(bad) - Cardinality(good \cap bad)
    BY <1>3, FS_Union
  <2>2. Cardinality(good \cap bad) = 0
    BY <1>2, FS_EmptySet
  <2> QED
    BY <1>4, <2>1, <2>2
<1> QED
  BY <1>1, <1>2, <1>5 DEF good, bad

(* What a batch of n does to the queue and to the overflow counter.        *)
LEMMA PutAdds ==
  ASSUME TypeOK, NEW n \in Nat, Put(n)
  PROVE  Overflow(n) \in Nat /\ Len(queue') + Overflow(n) = Len(queue) + n
<1> DEFINE items == [i \in 1..n |->
                       [run |-> pointer, ev |-> Len(accepted) + i, last |-> i = n]]
<1>1. items \in Seq({items[i] : i \in 1..n}) /\ Len(items) = n
  <2>1. items \in [1..n -> {items[i] : i \in 1..n}]
    OBVIOUS
  <2> HIDE DEF items
  <2> QED
    BY <2>1
<1>2. queue \in Seq(Item) /\ Len(queue) \in Nat
  BY DEF TypeOK
<1>3. CASE Depth < QueueMax
  <2>1. queue' = queue \o items /\ Overflow(n) = 0
    BY <1>3 DEF Put, Overflow
  <2> DEFINE S == {items[i] : i \in 1..n}
             T == Item \cup S
  <2> HIDE DEF items
  <2>2. queue \in Seq(T) /\ items \in Seq(T)
    BY <1>1, <1>2
  <2> HIDE DEF T
  <2>3. Len(queue \o items) = Len(queue) + Len(items)
    BY <2>2
  <2> QED
    BY <1>1, <1>2, <2>1, <2>3
<1>4. CASE ~ (Depth < QueueMax)
  BY <1>2, <1>4 DEF Put, Overflow
<1> QED
  BY <1>3, <1>4

(* The fields an intake step moves, and the two it leaves to the writer.   *)
Added(k, a, b, c, d, e, f) ==
  [k EXCEPT !.received = @ + a, !.dropped_invalid = @ + b,
            !.dropped_over_batch = @ + c, !.dropped_overflow = @ + d,
            !.discarded_idle = @ + e, !.correlations = @ + f]

LEMMA FieldsAdd ==
  ASSUME NEW k \in Counters, NEW a, NEW b, NEW c, NEW d, NEW e, NEW f
  PROVE  LET m == Added(k, a, b, c, d, e, f) IN
         /\ m.received = k.received + a /\ m.dropped_invalid = k.dropped_invalid + b
         /\ m.dropped_over_batch = k.dropped_over_batch + c
         /\ m.dropped_overflow = k.dropped_overflow + d
         /\ m.discarded_idle = k.discarded_idle + e
         /\ m.written = k.written /\ m.dropped_write_error = k.dropped_write_error
BY DEF Counters, Added

LEMMA CountersAreNat ==
  ASSUME NEW k \in Counters
  PROVE  /\ k.received \in Nat /\ k.written \in Nat /\ k.dropped_invalid \in Nat
         /\ k.dropped_overflow \in Nat /\ k.dropped_over_batch \in Nat
         /\ k.dropped_write_error \in Nat /\ k.discarded_idle \in Nat
BY DEF Counters

(* What comes in is what goes to the counters and to the queue.            *)
LEMMA IntakeBalance ==
  ASSUME TypeOK, IsFiniteSet(writing), IntakeReconciles, queue' \in Seq(Item),
         NEW bad \in Nat, NEW past \in Nat, NEW over \in Nat, NEW idle \in Nat,
         NEW kept \in Nat, NEW hints,
         counters' = Added(counters, past + bad + idle + kept, bad, past, over, idle, hints),
         Len(queue') + over = Len(queue) + kept, UNCHANGED <<writing, unparsed>>
  PROVE  IntakeReconciles'
<1> DEFINE sent == past + bad + idle + kept
           inHand == Cardinality(writing)
<1>1. counters \in Counters /\ sent \in Nat /\ unparsed \in Nat
  BY DEF TypeOK
<1>2. Len(queue) \in Nat /\ Len(queue') \in Nat /\ inHand \in Nat
  BY FS_CardinalityType DEF TypeOK
<1>3. counters' = Added(counters, sent, bad, past, over, idle, hints)
  OBVIOUS
<1>4. sent = past + bad + idle + kept
  OBVIOUS
<1> HIDE DEF sent
<1>5. /\ counters'.received = counters.received + sent
      /\ counters'.dropped_invalid = counters.dropped_invalid + bad
      /\ counters'.dropped_over_batch = counters.dropped_over_batch + past
      /\ counters'.dropped_overflow = counters.dropped_overflow + over
      /\ counters'.discarded_idle = counters.discarded_idle + idle
      /\ counters'.written = counters.written
      /\ counters'.dropped_write_error = counters.dropped_write_error
  <2> DEFINE m == Added(counters, sent, bad, past, over, idle, hints)
  <2>1. /\ m.received = counters.received + sent
        /\ m.dropped_invalid = counters.dropped_invalid + bad
        /\ m.dropped_over_batch = counters.dropped_over_batch + past
        /\ m.dropped_overflow = counters.dropped_overflow + over
        /\ m.discarded_idle = counters.discarded_idle + idle
        /\ m.written = counters.written
        /\ m.dropped_write_error = counters.dropped_write_error
    BY <1>1, FieldsAdd
  <2>2. counters' = m
    BY <1>3
  <2> HIDE DEF m
  <2> QED
    BY <2>1, <2>2
<1>6. counters.received + unparsed =
        counters.written + counters.dropped_invalid + counters.dropped_overflow
        + counters.dropped_over_batch + counters.dropped_write_error
        + counters.discarded_idle + Len(queue) + inHand
  BY DEF IntakeReconciles
<1> HIDE DEF inHand
<1>7. (counters.received + sent) + unparsed =
        counters.written + (counters.dropped_invalid + bad)
        + (counters.dropped_overflow + over) + (counters.dropped_over_batch + past)
        + counters.dropped_write_error + (counters.discarded_idle + idle)
        + Len(queue') + inHand
  <2>1. /\ counters.received \in Nat /\ counters.written \in Nat
        /\ counters.dropped_invalid \in Nat /\ counters.dropped_overflow \in Nat
        /\ counters.dropped_over_batch \in Nat /\ counters.dropped_write_error \in Nat
        /\ counters.discarded_idle \in Nat
    BY <1>1, CountersAreNat
  <2> DEFINE r == counters.received
             w == counters.written
             i == counters.dropped_invalid
             o == counters.dropped_overflow
             b == counters.dropped_over_batch
             e == counters.dropped_write_error
             d == counters.discarded_idle
             q == Len(queue)
             p == Len(queue')
  <2>2. /\ r \in Nat /\ w \in Nat /\ i \in Nat /\ o \in Nat /\ b \in Nat /\ e \in Nat
        /\ d \in Nat /\ q \in Nat /\ p \in Nat
    BY <1>2, <2>1
  <2>3. p + over = q + kept /\ r + unparsed = w + i + o + b + e + d + q + inHand
    BY <1>6
  <2>4. (r + sent) + unparsed
          = w + (i + bad) + (o + over) + (b + past) + e + (d + idle) + p + inHand
    <3> HIDE DEF r, w, i, o, b, e, d, q, p
    <3> QED
      BY <1>1, <1>2, <1>4, <2>2, <2>3
  <2> QED
    BY <2>4
<1>8. Cardinality(writing') = inHand /\ unparsed' = unparsed
  BY DEF inHand
<1> QED
  BY <1>5, <1>7, <1>8 DEF IntakeReconciles

LEMMA SubmitReconciles ==
  ASSUME TypeOK, IsFiniteSet(writing), IntakeReconciles, NEW raw \in RawBatches, Submit(raw)
  PROVE  IntakeReconciles'
<1> DEFINE head == SubSeq(raw, 1, IF Len(raw) < MaxEventsPerBatch
                                  THEN Len(raw) ELSE MaxEventsPerBatch)
           valid == Cardinality({i \in DOMAIN head : head[i] \in {"event", "correlation"}})
           bad == Cardinality({i \in DOMAIN head : head[i] \in {"malformed"}})
           hints == Cardinality({i \in DOMAIN head : head[i] \in {"correlation"}})
           idle == IF pointer = None THEN valid ELSE 0
           kept == valid - idle
           over == Overflow(kept)
           past == Len(raw) - Len(head)
           sent == Len(raw)
<1>1. /\ raw \in Seq(Kinds) /\ MaxEventsPerBatch \in Nat
      /\ head \in Seq(Kinds) /\ Len(head) <= Len(raw)
  BY CollectorAssumption
<1>2. valid \in Nat /\ bad \in Nat /\ valid + bad = Len(head)
  BY <1>1, CountOfPositions, KindsPartition
<1>3. counters' = Added(counters, sent, bad, past, over, idle, hints)
  BY DEF Submit, Added
<1>4. /\ IF kept > 0 THEN Put(kept) ELSE UNCHANGED <<queue, accepted>>
      /\ UNCHANGED <<writing, unparsed>>
  BY DEF Submit
<1>5. past \in Nat /\ sent = past + Len(head) /\ Len(head) \in Nat
  <2> HIDE DEF head
  <2> QED
    BY <1>1
<1> HIDE DEF head
<1> HIDE DEF valid, bad, hints, past, sent
<1>6. idle \in Nat /\ kept \in Nat /\ valid = idle + kept
  BY <1>2
<1> HIDE DEF idle, kept
<1>7. queue' \in Seq(Item)
  BY SubmitType DEF TypeOK
<1>8. over \in Nat /\ Len(queue') + over = Len(queue) + kept
  <2>1. CASE kept > 0
    BY <1>4, <1>6, <2>1, PutAdds
  <2>2. CASE ~(kept > 0)
    <3>1. kept = 0 /\ over = 0 /\ Len(queue) \in Nat
      BY <1>6, <2>2 DEF Overflow, TypeOK
    <3>2. queue' = queue
      BY <1>4, <2>2
    <3> QED
      BY <3>1, <3>2
  <2> QED
    BY <2>1, <2>2
<1> HIDE DEF over
<1>9. sent = past + bad + idle + kept
  BY <1>2, <1>5, <1>6
<1>10. counters' = Added(counters, past + bad + idle + kept, bad, past, over, idle, hints)
  BY <1>3, <1>9
<1> QED
  BY <1>2, <1>4, <1>5, <1>6, <1>7, <1>8, <1>10, IntakeBalance

LEMMA RegisterReconciles ==
  ASSUME TypeOK, IsFiniteSet(writing), IntakeReconciles, RegisterCorrelation
  PROVE  IntakeReconciles'
<1> DEFINE idle == IF pointer = None THEN 1 ELSE 0
           kept == 1 - idle
           over == IF pointer = None THEN 0 ELSE Overflow(1)
<1>1. idle \in Nat /\ kept \in Nat /\ idle + kept = 1
  OBVIOUS
<1>2. queue' \in Seq(Item)
  BY RegisterType DEF TypeOK
<1>3. counters' = Added(counters, 1, 0, 0, over, idle, 1)
  <2>1. counters' = [counters EXCEPT !.correlations = @ + 1, !.received = @ + 1,
                       !.discarded_idle = @ + idle, !.dropped_overflow = @ + over]
    BY DEF RegisterCorrelation
  <2>2. counters \in Counters
    BY DEF TypeOK
  <2>3. counters.dropped_invalid + 0 = counters.dropped_invalid
        /\ counters.dropped_over_batch + 0 = counters.dropped_over_batch
    BY <2>2, CountersAreNat
  <2> HIDE DEF idle, over
  <2> QED
    BY <2>1, <2>2, <2>3 DEF Added, Counters
<1>4. over \in Nat /\ Len(queue') + over = Len(queue) + kept
  <2>1. CASE pointer = None
    BY <2>1 DEF RegisterCorrelation, TypeOK
  <2>2. CASE pointer # None
    BY <2>2, PutAdds DEF RegisterCorrelation
  <2> QED
    BY <2>1, <2>2
<1>5. UNCHANGED <<writing, unparsed>>
  BY DEF RegisterCorrelation
<1> HIDE DEF idle, kept, over
<1>6. 0 + 0 + idle + kept = 1
  BY <1>1
<1>7. counters' = Added(counters, 0 + 0 + idle + kept, 0, 0, over, idle, 1)
  BY <1>3, <1>6
<1> QED
  BY <1>1, <1>2, <1>4, <1>5, <1>7, IntakeBalance

(* A body rejected unread is counted on both sides.                        *)
LEMMA RejectReconciles ==
  ASSUME TypeOK, IsFiniteSet(writing), IntakeReconciles, RejectBody
  PROVE  IntakeReconciles'
<1>1. /\ counters' = [counters EXCEPT !.dropped_invalid = @ + 1] /\ unparsed' = unparsed + 1
      /\ UNCHANGED <<queue, writing>>
  BY DEF RejectBody
<1> DEFINE inHand == Cardinality(writing)
<1>2. /\ counters \in Counters /\ unparsed \in Nat /\ Len(queue) \in Nat /\ inHand \in Nat
  BY FS_CardinalityType DEF TypeOK
<1>3. Cardinality(writing') = inHand /\ Len(queue') = Len(queue)
  BY <1>1
<1>4. counters.received + unparsed =
        counters.written + counters.dropped_invalid + counters.dropped_overflow
        + counters.dropped_over_batch + counters.dropped_write_error
        + counters.discarded_idle + Len(queue) + inHand
  BY DEF IntakeReconciles
<1> HIDE DEF inHand
<1>5. counters.received + (unparsed + 1) =
        counters.written + (counters.dropped_invalid + 1) + counters.dropped_overflow
        + counters.dropped_over_batch + counters.dropped_write_error
        + counters.discarded_idle + Len(queue) + inHand
  <2> DEFINE w == counters.written
             i == counters.dropped_invalid
             o == counters.dropped_overflow
             b == counters.dropped_over_batch
             e == counters.dropped_write_error
             d == counters.discarded_idle
             q == Len(queue)
  <2>1. /\ counters.received \in Nat /\ w \in Nat /\ i \in Nat /\ o \in Nat /\ b \in Nat
        /\ e \in Nat /\ d \in Nat /\ q \in Nat
    BY <1>2, CountersAreNat
  <2>2. counters.received + unparsed = w + i + o + b + e + d + q + inHand
    BY <1>4
  <2>3. counters.received + (unparsed + 1) = w + (i + 1) + o + b + e + d + q + inHand
    <3> HIDE DEF w, i, o, b, e, d, q
    <3> QED
      BY <1>2, <2>1, <2>2
  <2> QED
    BY <2>3
<1>6. /\ counters'.received = counters.received
      /\ counters'.dropped_invalid = counters.dropped_invalid + 1
      /\ counters'.written = counters.written
      /\ counters'.dropped_overflow = counters.dropped_overflow
      /\ counters'.dropped_over_batch = counters.dropped_over_batch
      /\ counters'.discarded_idle = counters.discarded_idle
      /\ counters'.dropped_write_error = counters.dropped_write_error
  BY <1>1, <1>2 DEF Counters
<1> QED
  BY <1>1, <1>3, <1>5, <1>6 DEF IntakeReconciles

(* The writer takes as many rows in hand as it takes events off the queue. *)
LEMMA TakeReconciles ==
  ASSUME TypeInv, EventInv, IntakeReconciles, WriterTake
  PROVE  IntakeReconciles'
<1>1. PICK n \in DOMAIN queue : Takes(n)
  BY TakeTakes DEF TypeInv
<1>2. n \in 1..Len(queue) /\ Len(queue) \in Nat /\ DOMAIN queue = 1..Len(queue)
  BY DEF TypeInv, TypeOK
<1>3. Cardinality(writing') = n
  <2> DEFINE f == [i \in 1..n |-> RowAt(i)]
  <2>1. f \in Surjection(1..n, writing')
    BY <1>1 DEF Surjection, Takes
  <2>2. f \in Injection(1..n, writing')
    <3>1. ASSUME NEW i \in 1..n, NEW j \in 1..n, f[i] = f[j] PROVE i = j
      <4>1. i \in DOMAIN queue /\ j \in DOMAIN queue /\ i \in Nat /\ j \in Nat
        BY <1>2
      <4>2. queue[i].ev = queue[j].ev
        BY <3>1 DEF RowAt
      <4>3. queue[i].ev \in Nat
        BY <4>1 DEF EventInv, QueueInv, TypeInv, TypeOK
      <4>4. ~(i < j) /\ ~(j < i)
        BY <4>1, <4>2, <4>3 DEF EventInv, QueueInv
      <4> QED
        BY <4>1, <4>4
    <3> HIDE DEF f
    <3> QED
      BY <2>1, <3>1 DEF Injection, Surjection, IsInjective
  <2>3. IsFiniteSet(1..n) /\ Cardinality(1..n) = n
    <3>1. n \in Nat /\ n >= 1
      BY <1>2
    <3>2. Cardinality(1..n) = IF 1 > n THEN 0 ELSE n - 1 + 1
      BY <3>1, FS_Interval
    <3> QED
      BY <3>1, <3>2, FS_Interval
  <2> HIDE DEF f
  <2> QED
    BY <2>1, <2>2, <2>3, FS_Surjection
<1>4. writing = {} /\ Len(queue') = Len(queue) - n
  BY <1>1 DEF Takes
<1>5. UNCHANGED <<counters, unparsed>>
  BY DEF WriterTake
<1>6. counters \in Counters
  BY DEF TypeInv, TypeOK
<1> DEFINE settled == counters.written + counters.dropped_invalid + counters.dropped_overflow
                 + counters.dropped_over_batch + counters.dropped_write_error
                 + counters.discarded_idle
<1>7. settled \in Nat
  BY <1>6, CountersAreNat
<1>8. counters.received + unparsed = settled + Len(queue) + Cardinality({})
  BY <1>4 DEF IntakeReconciles
<1> HIDE DEF settled
<1>9. counters.received + unparsed = settled + Len(queue') + Cardinality(writing')
  BY <1>2, <1>3, <1>4, <1>7, <1>8, FS_EmptySet
<1> QED
  BY <1>5, <1>9 DEF IntakeReconciles, settled

(* A transaction that ends is counted once, as written or as an error.     *)
LEMMA EndReconciles ==
  ASSUME TypeInv, IntakeReconciles, WriterCommit \/ WriterFail
  PROVE  IntakeReconciles'
<1> DEFINE n == Cardinality(writing)
<1>1. /\ counters \in Counters /\ unparsed \in Nat /\ Len(queue) \in Nat /\ n \in Nat
  BY FS_CardinalityType DEF TypeInv, TypeOK
<1>2. /\ writing' = {} /\ UNCHANGED <<queue, unparsed>>
      /\ \/ counters' = [counters EXCEPT !.written = @ + n]
         \/ counters' = [counters EXCEPT !.dropped_write_error = @ + n]
  BY DEF WriterCommit, WriterFail
<1>3. counters.received + unparsed =
        counters.written + counters.dropped_invalid + counters.dropped_overflow
        + counters.dropped_over_batch + counters.dropped_write_error
        + counters.discarded_idle + Len(queue) + n
  BY DEF IntakeReconciles
<1>4. Cardinality(writing') = 0
  BY <1>2, FS_EmptySet
<1> HIDE DEF n
<1>5. /\ counters'.received = counters.received
      /\ counters'.dropped_invalid = counters.dropped_invalid
      /\ counters'.dropped_overflow = counters.dropped_overflow
      /\ counters'.dropped_over_batch = counters.dropped_over_batch
      /\ counters'.discarded_idle = counters.discarded_idle
      /\ \/ /\ counters'.written = counters.written + n
            /\ counters'.dropped_write_error = counters.dropped_write_error
         \/ /\ counters'.written = counters.written
            /\ counters'.dropped_write_error = counters.dropped_write_error + n
  BY <1>1, <1>2 DEF Counters
<1>6. counters.received + unparsed =
        counters'.written + counters.dropped_invalid + counters.dropped_overflow
        + counters.dropped_over_batch + counters'.dropped_write_error
        + counters.discarded_idle + Len(queue) + 0
  <2>1. CASE /\ counters'.written = counters.written + n
             /\ counters'.dropped_write_error = counters.dropped_write_error
    <3>1. counters.received + unparsed =
            (counters.written + n) + counters.dropped_invalid + counters.dropped_overflow
            + counters.dropped_over_batch + counters.dropped_write_error
            + counters.discarded_idle + Len(queue) + 0
      <4> DEFINE w == counters.written
                 i == counters.dropped_invalid
                 o == counters.dropped_overflow
                 b == counters.dropped_over_batch
                 e == counters.dropped_write_error
                 d == counters.discarded_idle
                 q == Len(queue)
      <4>1. /\ w \in Nat /\ i \in Nat /\ o \in Nat /\ b \in Nat /\ e \in Nat /\ d \in Nat
            /\ q \in Nat
        BY <1>1, CountersAreNat
      <4>2. counters.received + unparsed = w + i + o + b + e + d + q + n
        BY <1>3
      <4>3. counters.received + unparsed = (w + n) + i + o + b + e + d + q + 0
        <5> HIDE DEF w, i, o, b, e, d, q
        <5> QED
          BY <1>1, <4>1, <4>2
      <4> QED
        BY <4>3
    <3> QED
      BY <2>1, <3>1
  <2>2. CASE /\ counters'.written = counters.written
             /\ counters'.dropped_write_error = counters.dropped_write_error + n
    <3>1. counters.received + unparsed =
            counters.written + counters.dropped_invalid + counters.dropped_overflow
            + counters.dropped_over_batch + (counters.dropped_write_error + n)
            + counters.discarded_idle + Len(queue) + 0
      BY <1>1, <1>3, CountersAreNat
    <3> QED
      BY <2>2, <3>1
  <2> QED
    BY <1>5, <2>1, <2>2
<1> QED
  BY <1>2, <1>4, <1>5, <1>6 DEF IntakeReconciles

(* IntakeReconciles: nothing this process was sent leaves its counters     *)
(* unaccounted, whatever is refused, dropped, in hand or failed.           *)
THEOREM IntakeReconciled == Spec => []IntakeReconciles
<1>1. Init => IntakeReconciles
  BY FS_EmptySet DEF Init, IntakeReconciles, NoCounts
<1>2. ASSUME RunInv, EventInv, IntakeReconciles, [Next]_vars
      PROVE  IntakeReconciles'
  <2>1. TypeInv /\ TypeOK /\ IsFiniteSet(writing)
    BY <1>2 DEF RunInv, TypeInv
  <2>2. CASE Intake
    BY <1>2, <2>1, <2>2, SubmitReconciles, RegisterReconciles, RejectReconciles DEF Intake
  <2>3. CASE Writer
    BY <1>2, <2>1, <2>3, TakeReconciles, EndReconciles DEF Writer
  <2>4. ASSUME NEW c \in Callers, Begin(c) \/ Acquire(c) \/ Proceed(c)
        PROVE  UNCHANGED <<counters, unparsed, queue, writing>>
    BY <2>4 DEF Begin, CloseBegin, OpenBegin, Acquire, Proceed, CloseCommit, CloseFail,
       CloseClear, OpenInsert, OpenFail, OpenPublish, memory
  <2>5. ASSUME NEW x \in Readers, (\E r \in Runs : ReadBegin(x, r)) \/ ReadStep(x)
        PROVE  UNCHANGED <<counters, unparsed, queue, writing>>
    BY <2>5 DEF ReadBegin, ReadStep, ReadRequest, ReadSelect, ReadFail, memory
  <2>6. CASE Crash \/ Stop
    <3>1. queue' = <<>> /\ writing' = {} /\ counters' = NoCounts /\ unparsed' = 0
      BY <2>6 DEF Crash, Stop, GoDown
    <3> QED
      BY <3>1, FS_EmptySet DEF IntakeReconciles, NoCounts
  <2>7. CASE Restart \/ UNCHANGED vars
    <3>1. UNCHANGED <<counters, unparsed, queue, writing>>
      BY <2>7 DEF Restart, vars, memory
    <3> QED
      BY <1>2, <3>1 DEF IntakeReconciles
  <2>8. UNCHANGED <<counters, unparsed, queue, writing>> => IntakeReconciles'
    BY <1>2 DEF IntakeReconciles
  <2> QED
    BY <1>2, <2>2, <2>3, <2>4, <2>5, <2>6, <2>7, <2>8 DEF Next
<1> QED
  BY <1>1, <1>2, EventInvariant, PTL DEF Spec
-----------------------------------------------------------------------------
(* Exports.                                                                *)

(* What an export has passed it has returned; its cursor stands on a row.  *)
(* One begun after the close of its run looks at the table only when the   *)
(* run has nothing left in memory, and ends with all of it.                *)
ReadOK(x) ==
  /\ \A y \in RowsOf(read[x].run) : y.seq <= read[x].cursor => y.ev \in read[x].got
  /\ read[x].cursor = 0 \/ \E y \in RowsOf(read[x].run) : y.seq = read[x].cursor
  /\ read[x].late => read[x].run \in sealed
  /\ read[x].late /\ read[x].pc = "select" =>
       /\ \A i \in DOMAIN queue : queue[i].run # read[x].run
       /\ \A y \in writing : y.run # read[x].run
  /\ read[x].late /\ read[x].pc = "done" =>
       \A e \in DOMAIN accepted : accepted[e] = read[x].run => e \in read[x].got \cup lost

ReadInv == \A x \in Readers : ReadOK(x)

Rest(r, cursor) == {y \in RowsOf(r) : y.seq > cursor}
Before(r, cursor, y) == {z \in Rest(r, cursor) : z.seq < y.seq}

LEMMA RestCounted ==
  ASSUME TypeOK, IsFiniteSet(rows), NEW r, NEW cursor
  PROVE  /\ IsFiniteSet(Rest(r, cursor)) /\ \A y \in Rest(r, cursor) : y.seq \in Nat
         /\ Page(r, cursor) = {y \in Rest(r, cursor) :
                                 Cardinality(Before(r, cursor, y)) < PageLimit}
         /\ \A T \in SUBSET Rest(r, cursor) : IsFiniteSet(T) /\ Cardinality(T) \in Nat
<1>1. Rest(r, cursor) \subseteq rows
  BY DEF Rest, RowsOf
<1>2. \A T \in SUBSET Rest(r, cursor) : IsFiniteSet(T) /\ Cardinality(T) \in Nat
  BY <1>1, FS_Subset, FS_CardinalityType
<1>3. \A y \in Rest(r, cursor) : y.seq \in Nat
  BY <1>1 DEF TypeOK, Row
<1> QED
  BY <1>2, <1>3 DEF Page, Rest, Before

(* A page skips nothing: with a row it has every earlier one.              *)
LEMMA PageSkipsNothing ==
  ASSUME TypeOK, IsFiniteSet(rows), NEW r, NEW cursor,
         NEW y \in Page(r, cursor), NEW z \in Rest(r, cursor), z.seq <= y.seq
  PROVE  z \in Page(r, cursor)
<1>1. y \in Rest(r, cursor) /\ y.seq \in Nat /\ z.seq \in Nat
      /\ Cardinality(Before(r, cursor, y)) < PageLimit
  BY RestCounted
<1>2. Before(r, cursor, z) \in SUBSET Before(r, cursor, y)
  <2>1. \A w \in Rest(r, cursor) : w.seq \in Nat
    BY RestCounted
  <2> QED
    BY <1>1, <2>1 DEF Before
<1>3. /\ IsFiniteSet(Before(r, cursor, y)) /\ Cardinality(Before(r, cursor, y)) \in Nat
      /\ Cardinality(Before(r, cursor, z)) \in Nat
  BY RestCounted DEF Before
<1>4. Cardinality(Before(r, cursor, z)) <= Cardinality(Before(r, cursor, y))
  BY <1>2, <1>3, PartCountsLess
<1>5. Cardinality(Before(r, cursor, z)) < PageLimit
  BY <1>1, <1>3, <1>4, CollectorAssumption
<1> QED
  BY <1>5, RestCounted

(* A short page is all there is: otherwise the earliest row it leaves out  *)
(* would have had room.                                                    *)
LEMMA ShortPageIsAll ==
  ASSUME TypeOK, IsFiniteSet(rows), NEW r, NEW cursor,
         Cardinality(Page(r, cursor)) < PageLimit
  PROVE  Page(r, cursor) = Rest(r, cursor)
<1> DEFINE left == Rest(r, cursor) \ Page(r, cursor)
<1>1. SUFFICES ASSUME left # {} PROVE FALSE
  BY RestCounted
<1>2. {y.seq : y \in left} \in SUBSET Nat /\ {y.seq : y \in left} # {}
  BY <1>1, RestCounted
<1>3. PICK n \in {y.seq : y \in left} : \A m \in {y.seq : y \in left} : n <= m
  BY <1>2, LeastNatural
<1>4. PICK w \in left : w.seq = n
  BY <1>3
<1>5. \A y \in left : w.seq <= y.seq
  BY <1>3, <1>4
<1>6. w \in Rest(r, cursor) /\ w \notin Page(r, cursor) /\ w.seq \in Nat
  BY RestCounted
<1>7. Before(r, cursor, w) \in SUBSET Page(r, cursor)
  <2>1. ASSUME NEW y \in Before(r, cursor, w), y \notin Page(r, cursor) PROVE FALSE
    <3>1. y \in left /\ y.seq < w.seq /\ y.seq \in Nat
      BY <2>1, RestCounted DEF Before
    <3> QED
      BY <1>5, <1>6, <3>1
  <2> QED
    BY <2>1
<1>8. /\ IsFiniteSet(Page(r, cursor)) /\ Cardinality(Page(r, cursor)) \in Nat
      /\ Cardinality(Before(r, cursor, w)) \in Nat
  BY RestCounted DEF Before
<1>9. Cardinality(Before(r, cursor, w)) <= Cardinality(Page(r, cursor))
  BY <1>7, <1>8, PartCountsLess
<1>10. Cardinality(Before(r, cursor, w)) < PageLimit
  BY <1>8, <1>9, CollectorAssumption
<1> QED
  BY <1>6, <1>10, RestCounted

(* What the steps of everyone else do to exports: stored rows stay, and no *)
(* event is added to a run that is sealed.                                 *)
Background ==
  /\ sealed \subseteq sealed' /\ lost \subseteq lost'
  /\ rows' = rows \/ rows' = Numbered
  /\ \A e \in DOMAIN accepted' :
       \/ e \in DOMAIN accepted /\ accepted'[e] = accepted[e]
       \/ accepted'[e] \notin sealed
  /\ \A i \in DOMAIN queue' :
       \/ queue'[i].run \notin sealed
       \/ \E j \in DOMAIN queue : queue[j].run = queue'[i].run
  /\ \A y \in writing' :
       \/ y \in writing
       \/ \E j \in DOMAIN queue : queue[j].run = y.run

(* They leave an export alone, break it off, or wake it.                   *)
Undisturbed(x) ==
  \/ read'[x] = read[x]
  \/ read'[x] = NotReading
  \/ /\ read[x].pc = "flush" /\ read'[x] = [read[x] EXCEPT !.pc = "select"]
     /\ queue' = <<>> /\ writing' = {}

LEMMA FreshRead ==
  ASSUME TypeOK', EventInv', NEW x \in Readers, read'[x].cursor = 0,
         read'[x].late => read'[x].run \in sealed',
         read'[x].pc \notin {"select", "done"}
  PROVE  ReadOK(x)'
<1>1. \A y \in rows' : y.seq \in Nat /\ y.seq > 0
  BY DEF TypeOK, Row, EventInv, NumberInv, Numbered
<1> QED
  BY <1>1 DEF ReadOK, RowsOf

(* Rows the writer adds are numbered past every export's cursor.           *)
LEMMA BackgroundKeeps ==
  ASSUME TypeInv, EventInv, TypeOK', EventInv', Background,
         NEW x \in Readers, ReadOK(x), Undisturbed(x)
  PROVE  ReadOK(x)'
<1>1. CASE read'[x] = NotReading
  <2>1. /\ read'[x].cursor = 0 /\ ~ read'[x].late
        /\ read'[x].pc \notin {"select", "done"}
    BY <1>1 DEF NotReading
  <2> QED
    BY <2>1, FreshRead
<1>2. CASE read'[x] # NotReading
  <2> DEFINE r == read[x].run
             cursor == read[x].cursor
             later == {y \in rows' : y.run = r}
  <2>1. read[x] \in Read
    BY DEF TypeInv, TypeOK
  <2>2. /\ read'[x].run = r /\ read'[x].cursor = cursor /\ read'[x].got = read[x].got
        /\ read'[x].late = read[x].late
        /\ \/ read'[x].pc = read[x].pc
           \/ read'[x].pc = "select" /\ queue' = <<>> /\ writing' = {}
    BY <1>2, <2>1 DEF Undisturbed, Read
  <2>3. \A y \in RowsOf(r) : y.seq <= cursor => y.ev \in read[x].got
    BY DEF ReadOK
  <2>4. cursor = 0 \/ \E y \in RowsOf(r) : y.seq = cursor
    BY DEF ReadOK
  <2>5. RowsOf(r) \subseteq later
    BY DEF Background, RowsOf, Numbered
  <2>6. ASSUME NEW y \in rows', y.run = r, y \notin rows PROVE ~ (y.seq <= cursor)
    <3>1. y \in writing /\ y.seq \in Nat /\ y.seq > 0
      BY <2>6 DEF Background, Numbered, EventInv, NumberInv, TypeInv, TypeOK, Row
    <3>2. ASSUME NEW z \in RowsOf(r) PROVE z.seq < y.seq
      <4>1. z \in rows /\ z.run = y.run
        BY <2>6 DEF RowsOf
      <4>2. z.ev < y.ev
        BY <3>1, <4>1 DEF EventInv, PlaceInv
      <4> QED
        BY <3>1, <4>1, <4>2 DEF EventInv, NumberInv, SeqFollowsArrival
    <3>3. cursor \in Nat
      BY <2>1 DEF Read
    <3>4. cursor < y.seq
      BY <2>4, <3>1, <3>2
    <3> QED
      BY <3>1, <3>3, <3>4
  <2>7. \A y \in later : y.seq <= cursor => y.ev \in read[x].got
    BY <2>3, <2>6 DEF RowsOf
  <2>8. read[x].late => r \in sealed /\ r \in sealed'
    BY DEF ReadOK, Background
  <2>9. ASSUME read[x].late, read'[x].pc = "select"
        PROVE  /\ \A i \in DOMAIN queue' : queue'[i].run # r
               /\ \A y \in writing' : y.run # r
    <3>1. CASE queue' = <<>> /\ writing' = {}
      BY <3>1
    <3>2. CASE read[x].pc = "select"
      <4>1. /\ \A i \in DOMAIN queue : queue[i].run # r
            /\ \A y \in writing : y.run # r
        BY <2>9, <3>2 DEF ReadOK
      <4> QED
        BY <2>8, <2>9, <4>1 DEF Background
    <3> QED
      BY <2>2, <2>9, <3>1, <3>2
  <2>10. ASSUME read[x].late, read'[x].pc = "done", NEW e \in DOMAIN accepted',
                accepted'[e] = r
         PROVE  e \in read[x].got \cup lost'
    <3>1. read[x].pc = "done"
      BY <2>2, <2>10
    <3>2. e \in DOMAIN accepted /\ accepted[e] = r
      BY <2>8, <2>10 DEF Background
    <3>3. e \in read[x].got \cup lost
      BY <2>10, <3>1, <3>2 DEF ReadOK
    <3> QED
      BY <3>3 DEF Background
  <2>11. cursor = 0 \/ \E y \in later : y.seq = cursor
    BY <2>4, <2>5
  <2>12. RowsOf(read[x].run)' = later
    BY <2>2 DEF RowsOf
  <2>13. (\A y \in RowsOf(read[x].run) : y.seq <= read[x].cursor => y.ev \in read[x].got)'
    BY <2>2, <2>7, <2>12
  <2>14. (read[x].cursor = 0 \/ \E y \in RowsOf(read[x].run) : y.seq = read[x].cursor)'
    BY <2>2, <2>11, <2>12
  <2> QED
    BY <2>2, <2>8, <2>9, <2>10, <2>13, <2>14 DEF ReadOK
<1> QED
  BY <1>1, <1>2

LEMMA IntakeBehind ==
  ASSUME RunInv, Intake
  PROVE  Background /\ \A x \in Readers : Undisturbed(x)
<1>1. UNCHANGED <<pointer, writing, rows, lost, sealed, read>>
  BY DEF Intake, Submit, RegisterCorrelation, RejectBody, database, history
<1>2. TypeOK
  BY DEF RunInv, TypeInv
<1>3. CASE UNCHANGED <<queue, accepted>>
  BY <1>1, <1>3 DEF Background, Undisturbed
<1>4. CASE pointer \in Runs /\ \E n \in Nat : Appends(n)
  <2>1. PICK n \in Nat : Appends(n)
    BY <1>4
  <2>2. pointer \notin sealed
    BY DEF RunInv, SealInv
  <2>3. \A e \in DOMAIN accepted' :
          \/ e \in DOMAIN accepted /\ accepted'[e] = accepted[e]
          \/ accepted'[e] = pointer
    BY <1>2, <2>1, AppendsDoes
  <2>4. \A i \in DOMAIN queue' :
          \/ queue'[i].run = pointer
          \/ i \in DOMAIN queue /\ queue'[i] = queue[i]
    BY <1>2, <2>1, AppendsDoes
  <2> QED
    BY <1>1, <2>2, <2>3, <2>4 DEF Background, Undisturbed
<1> QED
  BY <1>2, <1>3, <1>4, IntakeAppends

LEMMA WriterBehind ==
  ASSUME TypeInv, EventInv, Writer
  PROVE  Background /\ \A x \in Readers : Undisturbed(x)
<1>1. CASE WriterTake
  <2>1. PICK n \in DOMAIN queue : Takes(n)
    BY <1>1, TakeTakes DEF TypeInv
  <2>2. 1..n \subseteq DOMAIN queue
    BY DEF TypeInv, TypeOK
  <2>3. \A y \in writing' : \E j \in DOMAIN queue : queue[j].run = y.run
    BY <2>1, <2>2 DEF Takes, RowAt
  <2>4. \A i \in DOMAIN queue' : \E j \in DOMAIN queue : queue[j].run = queue'[i].run
    BY <2>1 DEF Takes
  <2> QED
    BY <2>1, <2>3, <2>4 DEF Takes, Background, Undisturbed
<1>2. CASE WriterCommit \/ WriterFail
  <2>1. /\ writing' = {} /\ WakeFlushed /\ UNCHANGED <<queue, accepted, sealed>>
        /\ lost \subseteq lost' /\ (rows' = rows \/ rows' = Numbered)
    BY <1>2 DEF WriterCommit, WriterFail, CommitRows, database, history, Numbered
  <2>2. \A x \in Readers : Undisturbed(x)
    BY <2>1 DEF WakeFlushed, Undisturbed
  <2> QED
    BY <2>1, <2>2 DEF Background
<1> QED
  BY <1>1, <1>2 DEF Writer

LEMMA OthersBehind ==
  ASSUME \/ \E c \in Callers : Begin(c) \/ Acquire(c) \/ Proceed(c)
         \/ Crash \/ Stop \/ Restart \/ UNCHANGED vars
  PROVE  Background /\ \A x \in Readers : Undisturbed(x)
<1>1. ASSUME NEW c \in Callers, Begin(c) \/ Acquire(c) \/ Proceed(c)
      PROVE  UNCHANGED <<queue, writing, rows, accepted, lost, read>> /\ sealed \subseteq sealed'
  BY <1>1 DEF Begin, CloseBegin, OpenBegin, Acquire, Proceed, CloseCommit, CloseFail, CloseClear,
     OpenInsert, OpenFail, OpenPublish, memory, database, history
<1>2. CASE Crash \/ Stop
  BY <1>2 DEF Crash, Stop, GoDown, database, Background, Undisturbed
<1>3. CASE Restart \/ UNCHANGED vars
  BY <1>3 DEF Restart, vars, memory, database, history, Background, Undisturbed
<1>4. UNCHANGED <<queue, writing, rows, accepted, lost, read>> /\ sealed \subseteq sealed'
        => Background /\ \A x \in Readers : Undisturbed(x)
  BY DEF Background, Undisturbed
<1> QED
  BY <1>1, <1>2, <1>3, <1>4

(* The page that an export of a sealed run ends with completes it.         *)
LEMMA SelectKeeps ==
  ASSUME TypeInv, EventInv, NEW x \in Readers, ReadOK(x), ReadSelect(x)
  PROVE  ReadOK(x)'
<1> DEFINE r == read[x].run
           cursor == read[x].cursor
           page == Page(r, cursor)
<1>1. /\ read[x] \in Read /\ TypeOK /\ IsFiniteSet(rows)
  BY DEF TypeInv, TypeOK, EventInv, CountInv
<1>2. /\ read[x].pc = "select"
      /\ UNCHANGED <<queue, writing, rows, accepted, lost, sealed>>
      /\ \/ /\ page = {} /\ Reading(x, [read[x] EXCEPT !.pc = "done"])
         \/ /\ page # {}
            /\ \E y \in page, next \in {"page", "done"} :
                 /\ \A z \in page : z.seq <= y.seq
                 /\ next = "done" => Cardinality(page) < PageLimit
                 /\ Reading(x, [read[x] EXCEPT !.pc = next, !.cursor = y.seq,
                                               !.got = @ \cup Events(page)])
  BY DEF ReadSelect, memory, database, history
<1>3. /\ \A y \in RowsOf(r) : y.seq <= cursor => y.ev \in read[x].got
      /\ cursor = 0 \/ \E y \in RowsOf(r) : y.seq = cursor
      /\ read[x].late => r \in sealed
  BY DEF ReadOK
<1>4. page \subseteq Rest(r, cursor) /\ Rest(r, cursor) \subseteq RowsOf(r)
      /\ (\A y \in RowsOf(r) : y.seq \in Nat) /\ cursor \in Nat
  <2>1. page \subseteq Rest(r, cursor)
    BY <1>1, RestCounted
  <2>2. Rest(r, cursor) \subseteq RowsOf(r) /\ \A y \in RowsOf(r) : y.seq \in Nat
    BY <1>1 DEF Rest, RowsOf, TypeOK, Row
  <2>3. cursor \in Nat
    BY <1>1 DEF Read
  <2> QED
    BY <2>1, <2>2, <2>3
<1>5. read[x].late => \A e \in DOMAIN accepted :
        accepted[e] = r => e \in lost \/ \E y \in RowsOf(r) : y.ev = e
  <2> SUFFICES ASSUME read[x].late, NEW e \in DOMAIN accepted, accepted[e] = r
               PROVE  e \in lost \/ \E y \in RowsOf(r) : y.ev = e
    OBVIOUS
  <2>1. /\ \A i \in DOMAIN queue : queue[i].run # r
        /\ \A y \in writing : y.run # r
    BY <1>2 DEF ReadOK
  <2>2. ~ \E i \in DOMAIN queue : queue[i].ev = e
    BY <2>1 DEF EventInv, QueueInv
  <2>3. e \in lost \/ \E y \in Numbered : y.ev = e
    BY <2>2 DEF EventInv, PlaceInv, Events
  <2>4. \A y \in Numbered : y.ev = e => y.run = r
    BY DEF EventInv, PlaceInv
  <2> QED
    BY <2>1, <2>3, <2>4 DEF Numbered, RowsOf
<1>6. CASE page = {} /\ Reading(x, [read[x] EXCEPT !.pc = "done"])
  <2>1. Rest(r, cursor) = {}
    <3>1. Cardinality(page) = 0 /\ 0 < PageLimit
      BY <1>6, FS_EmptySet, CollectorAssumption
    <3> QED
      BY <1>1, <1>6, <3>1, ShortPageIsAll
  <2>2. \A y \in RowsOf(r) : y.ev \in read[x].got
    BY <1>3, <1>4, <2>1 DEF Rest
  <2>3. /\ read'[x].pc = "done" /\ read'[x].run = r /\ read'[x].cursor = cursor
        /\ read'[x].got = read[x].got /\ read'[x].late = read[x].late
    BY <1>1, <1>6 DEF Reading, Read, TypeOK
  <2>4. RowsOf(read[x].run)' = RowsOf(r)
    BY <1>2, <2>3 DEF RowsOf
  <2> HIDE DEF r, cursor, page
  <2>5. read[x].late => \A e \in DOMAIN accepted : accepted[e] = r => e \in read[x].got \cup lost
    BY <1>5, <2>2
  <2>6. /\ \A y \in RowsOf(r) : y.seq <= cursor => y.ev \in read[x].got
        /\ cursor = 0 \/ \E y \in RowsOf(r) : y.seq = cursor
    BY <1>3
  <2> QED
    BY <1>2, <1>3, <2>3, <2>4, <2>5, <2>6 DEF ReadOK
<1>7. CASE \E y \in page, next \in {"page", "done"} :
             /\ \A z \in page : z.seq <= y.seq
             /\ next = "done" => Cardinality(page) < PageLimit
             /\ Reading(x, [read[x] EXCEPT !.pc = next, !.cursor = y.seq,
                                           !.got = @ \cup Events(page)])
  <2>1. PICK y \in page, next \in {"page", "done"} :
          /\ \A z \in page : z.seq <= y.seq
          /\ next = "done" => Cardinality(page) < PageLimit
          /\ Reading(x, [read[x] EXCEPT !.pc = next, !.cursor = y.seq,
                                        !.got = @ \cup Events(page)])
    BY <1>7
  <2> DEFINE e == [read[x] EXCEPT !.pc = next, !.cursor = y.seq,
                                  !.got = @ \cup Events(page)]
  <2>2. /\ e.pc = next /\ e.run = r /\ e.cursor = y.seq
        /\ e.got = read[x].got \cup Events(page) /\ e.late = read[x].late
    BY <1>1 DEF Read
  <2>3. read'[x] = e
    BY <1>1, <2>1 DEF Reading, TypeOK
  <2> HIDE DEF e, page
  <2>4. ASSUME NEW z \in RowsOf(r), z.seq <= y.seq PROVE z.ev \in e.got
    <3>1. CASE z.seq <= cursor
      BY <1>3, <2>2, <3>1
    <3>2. CASE ~ (z.seq <= cursor)
      <4>1. z \in Rest(r, cursor)
        BY <1>4, <3>2 DEF Rest
      <4>2. z \in page
        BY <1>1, <2>4, <4>1, PageSkipsNothing DEF page
      <4> QED
        BY <2>2, <4>2 DEF Events
    <3> QED
      BY <3>1, <3>2
  <2>5. y \in RowsOf(r)
    BY <1>4
  <2>6. next = "done" => \A z \in RowsOf(r) : z.ev \in e.got
    <3> SUFFICES ASSUME next = "done", NEW z \in RowsOf(r) PROVE z.ev \in e.got
      OBVIOUS
    <3>1. page = Rest(r, cursor)
      BY <1>1, <2>1, ShortPageIsAll DEF page
    <3>2. CASE z.seq <= cursor
      BY <1>3, <2>2, <3>2
    <3>3. CASE z \in page
      BY <2>2, <3>3 DEF Events
    <3> QED
      BY <1>4, <3>1, <3>2, <3>3 DEF Rest
  <2>7. RowsOf(read[x].run)' = RowsOf(r)
    BY <1>2, <2>2, <2>3 DEF RowsOf
  <2> HIDE DEF r, cursor
  <2>8. /\ \A z \in RowsOf(r) : z.seq <= e.cursor => z.ev \in e.got
        /\ e.cursor = 0 \/ \E z \in RowsOf(r) : z.seq = e.cursor
        /\ e.late => e.run \in sealed
        /\ e.pc # "select"
        /\ e.late /\ e.pc = "done" =>
             \A d \in DOMAIN accepted : accepted[d] = e.run => d \in e.got \cup lost
    BY <1>3, <1>5, <2>2, <2>4, <2>5, <2>6
  <2> QED
    BY <1>2, <2>3, <2>7, <2>8 DEF ReadOK
<1> QED
  BY <1>2, <1>6, <1>7

LEMMA ReaderKeeps ==
  ASSUME TypeInv, EventInv, TypeOK', EventInv', NEW x \in Readers, ReadOK(x),
         (\E r \in Runs : ReadBegin(x, r)) \/ ReadStep(x)
  PROVE  ReadOK(x)'
<1>1. read[x] \in Read /\ read \in [Readers -> Read]
  BY DEF TypeInv, TypeOK
<1>2. ASSUME NEW r \in Runs, ReadBegin(x, r) PROVE ReadOK(x)'
  <2> DEFINE late == r \in sealed
             e == [NotReading EXCEPT !.pc = "page", !.run = r, !.late = late]
  <2>1. read'[x] = e /\ sealed' = sealed
    BY <1>1, <1>2 DEF ReadBegin, Reading, history
  <2>2. e.pc = "page" /\ e.cursor = 0 /\ (e.late = late) /\ e.run = r
    BY DEF NotReading
  <2>3. late => r \in sealed
    OBVIOUS
  <2> HIDE DEF e, late
  <2>4. /\ read'[x].cursor = 0 /\ read'[x].pc = "page"
        /\ (read'[x].late => read'[x].run \in sealed')
    BY <2>1, <2>2, <2>3
  <2> QED
    BY <2>4, FreshRead
<1>3. CASE ReadRequest(x)
  <2> DEFINE next == IF Drained THEN "select" ELSE "flush"
  <2>1. /\ read[x].pc = "page" /\ read' = [read EXCEPT ![x] = [read[x] EXCEPT !.pc = next]]
        /\ UNCHANGED <<queue, writing, rows, accepted, lost, sealed>>
    BY <1>3 DEF ReadRequest, Reading, memory, database, history
  <2>2. next = "flush" \/ (next = "select" /\ queue = <<>> /\ writing = {})
    BY DEF Drained
  <2> HIDE DEF next
  <2>3. /\ read'[x].pc = next /\ read'[x].run = read[x].run
        /\ read'[x].cursor = read[x].cursor /\ read'[x].got = read[x].got
        /\ read'[x].late = read[x].late
    BY <1>1, <2>1 DEF Read
  <2>4. RowsOf(read[x].run)' = RowsOf(read[x].run)
    BY <2>1, <2>3 DEF RowsOf
  <2> QED
    BY <2>1, <2>2, <2>3, <2>4 DEF ReadOK
<1>4. CASE ReadSelect(x)
  BY <1>4, SelectKeeps
<1>5. CASE ReadFail(x)
  <2>1. read'[x] = NotReading
    BY <1>1, <1>5 DEF ReadFail, Reading
  <2>2. /\ read'[x].cursor = 0 /\ ~ read'[x].late
        /\ read'[x].pc \notin {"select", "done"}
    BY <2>1 DEF NotReading
  <2> QED
    BY <2>2, FreshRead
<1> QED
  BY <1>2, <1>3, <1>4, <1>5 DEF ReadStep

LEMMA ReadInit == Init => ReadInv
<1> SUFFICES ASSUME Init, NEW x \in Readers PROVE ReadOK(x)
  BY DEF ReadInv
<1>1. /\ rows = {} /\ read[x].cursor = 0 /\ ~ read[x].late
  BY DEF Init, NotReading
<1> QED
  BY <1>1 DEF ReadOK, RowsOf

LEMMA ReadInvStep ==
  ASSUME RunInv, EventInv, ReadInv, [Next]_vars
  PROVE  ReadInv'
<1>1. TypeInv /\ TypeOK' /\ EventInv'
  BY TypeStep, EventStep DEF RunInv, TypeInv
<1>2. Background /\ (\A x \in Readers : Undisturbed(x)) => ReadInv'
  BY <1>1, BackgroundKeeps DEF ReadInv
<1>3. ASSUME NEW x \in Readers, (\E r \in Runs : ReadBegin(x, r)) \/ ReadStep(x)
      PROVE  ReadInv'
  <2>1. /\ UNCHANGED <<queue, writing, rows, accepted, lost, sealed>>
        /\ \A w \in Readers : w # x => read'[w] = read[w]
    BY <1>1, <1>3 DEF ReadBegin, ReadStep, ReadRequest, ReadSelect, ReadFail, Reading,
       memory, database, history, TypeInv, TypeOK
  <2>2. Background /\ \A w \in Readers : w # x => Undisturbed(w)
    BY <2>1 DEF Background, Undisturbed
  <2>3. ReadOK(x)'
    BY <1>1, <1>3, ReaderKeeps DEF ReadInv
  <2>4. \A w \in Readers : w # x => ReadOK(w)'
    BY <1>1, <2>2, BackgroundKeeps DEF ReadInv
  <2> QED
    BY <2>3, <2>4 DEF ReadInv
<1> QED
  BY <1>1, <1>2, <1>3, IntakeBehind, WriterBehind, OthersBehind DEF Next

(* ExportComplete: an export begun after the close returned has every      *)
(* event of the run that no failure destroyed, and no export, however many *)
(* pages it takes while the writer stores more, passes a row over.         *)
THEOREM ExportsComplete == Spec => []ExportComplete
<1>1. Init => ReadInv
  BY ReadInit
<1>2. RunInv /\ EventInv /\ ReadInv /\ [Next]_vars => ReadInv'
  BY ReadInvStep
<1>3. ReadInv => ExportComplete
  BY DEF ReadInv, ReadOK, ExportComplete
<1> QED
  BY <1>1, <1>2, <1>3, EventInvariant, PTL DEF Spec
-----------------------------------------------------------------------------
(* A run's log.                                                            *)

(* Rows whose numbers are all different: ranks are places in the log.      *)
Apart(R) ==
  /\ IsFiniteSet(R) /\ \A y \in R : y.seq \in Nat
  /\ \A y, z \in R : y.seq = z.seq => y = z

LEMMA RankCounts ==
  ASSUME NEW R, Apart(R)
  PROVE  /\ Cardinality(R) \in Nat
         /\ \A y \in R : Rank(R, y) \in 1..Cardinality(R)
         /\ \A y, z \in R : y.seq < z.seq => Rank(R, y) < Rank(R, z)
         /\ \A y, z \in R : Rank(R, y) = Rank(R, z) => y = z
         /\ \A i \in 1..Cardinality(R) : \E y \in R : Rank(R, y) = i
<1> DEFINE n == Cardinality(R)
           upTo(y) == {z \in R : z.seq <= y.seq}
<1>1. n \in Nat /\ \A y : upTo(y) \in SUBSET R /\ IsFiniteSet(upTo(y))
                          /\ Cardinality(upTo(y)) \in Nat /\ Cardinality(upTo(y)) <= n
  BY FS_Subset, FS_CardinalityType, PartCountsLess DEF Apart
<1>2. ASSUME NEW y \in R PROVE Rank(R, y) \in 1..n
  <2>1. y \in upTo(y) /\ upTo(y) # {} /\ {} \in SUBSET upTo(y)
    BY DEF Apart
  <2> HIDE DEF upTo
  <2>2. Cardinality(upTo(y)) > 0
    BY <1>1, <2>1, PartCountsLess, FS_EmptySet
  <2>3. Rank(R, y) = Cardinality(upTo(y))
    BY DEF Rank, upTo
  <2> HIDE DEF n
  <2> QED
    BY <1>1, <2>2, <2>3
<1>3. ASSUME NEW y \in R, NEW z \in R, y.seq < z.seq PROVE Rank(R, y) < Rank(R, z)
  <2>1. y.seq \in Nat /\ z.seq \in Nat /\ \A w \in R : w.seq \in Nat
    BY DEF Apart
  <2>2. upTo(y) \in SUBSET upTo(z)
    BY <1>3, <2>1
  <2>3. z \in upTo(z) /\ z \notin upTo(y)
    BY <1>3, <2>1
  <2> HIDE DEF upTo
  <2>4. Cardinality(upTo(y)) < Cardinality(upTo(z))
    BY <1>1, <2>2, <2>3, PartCountsLess
  <2> QED
    BY <2>4 DEF Rank, upTo
<1>4. ASSUME NEW y \in R, NEW z \in R, Rank(R, y) = Rank(R, z) PROVE y = z
  <2>1. y.seq \in Nat /\ z.seq \in Nat /\ Rank(R, y) \in Nat
    BY <1>2 DEF Apart
  <2>2. ~ (y.seq < z.seq) /\ ~ (z.seq < y.seq)
    BY <1>3, <1>4, <2>1
  <2> QED
    BY <2>1, <2>2 DEF Apart
<1>5. \A i \in 1..n : \E y \in R : Rank(R, y) = i
  <2> DEFINE f == [y \in R |-> Rank(R, y)]
  <2> HIDE DEF n
  <2>1. f \in Injection(R, 1..n)
    BY <1>2, <1>4 DEF Injection, IsInjective
  <2>2. IsFiniteSet(1..n) /\ Cardinality(1..n) = n
    <3>1. n \in Nat
      BY <1>1 DEF n
    <3>2. IsFiniteSet(1..n) /\ Cardinality(1..n) = IF 1 > n THEN 0 ELSE n - 1 + 1
      BY <3>1, FS_Interval
    <3> QED
      BY <3>1, <3>2
  <2>3. f \in Surjection(R, 1..n)
    BY <2>1, <2>2, FS_Injection DEF n
  <2> QED
    BY <2>3 DEF Surjection
<1> QED
  BY <1>1, <1>2, <1>3, <1>4, <1>5

LEMMA InOrderPlaces ==
  ASSUME NEW R, Apart(R)
  PROVE  /\ InOrder(R) \in Seq({y.ev : y \in R}) /\ Len(InOrder(R)) = Cardinality(R)
         /\ DOMAIN InOrder(R) = 1..Cardinality(R)
         /\ \A y \in R : InOrder(R)[Rank(R, y)] = y.ev
<1> DEFINE n == Cardinality(R)
           row(i) == CHOOSE y \in R : Rank(R, y) = i
<1>1. n \in Nat
  BY RankCounts
<1>2. \A i \in 1..n : row(i) \in R /\ Rank(R, row(i)) = i
  BY RankCounts
<1>3. \A y \in R : Rank(R, y) \in 1..n /\ row(Rank(R, y)) = y
  <2> SUFFICES ASSUME NEW y \in R PROVE Rank(R, y) \in 1..n /\ row(Rank(R, y)) = y
    OBVIOUS
  <2>1. Rank(R, y) \in 1..n
    BY RankCounts
  <2> HIDE DEF row, n
  <2>2. row(Rank(R, y)) \in R /\ Rank(R, row(Rank(R, y))) = Rank(R, y)
    BY <1>2, <2>1
  <2> QED
    BY <2>1, <2>2, RankCounts
<1>4. InOrder(R) = [i \in 1..n |-> row(i).ev]
  BY DEF InOrder
<1> HIDE DEF n, row
<1>5. InOrder(R) \in [1..n -> {y.ev : y \in R}]
  BY <1>2, <1>4
<1>6. InOrder(R) \in Seq({y.ev : y \in R}) /\ Len(InOrder(R)) = n /\ DOMAIN InOrder(R) = 1..n
  BY <1>1, <1>5
<1>7. \A y \in R : InOrder(R)[Rank(R, y)] = y.ev
  BY <1>3, <1>4
<1> QED
  BY <1>6, <1>7 DEF n

(* Rows numbered past all the others make the log longer, in their order.  *)
LEMMA InOrderExtends ==
  ASSUME NEW R, NEW W, Apart(R \cup W), \A y \in R, z \in W : y.seq < z.seq,
         \A y, z \in W : y.seq < z.seq => y.ev < z.ev
  PROVE  Abstract!Extends(InOrder(R \cup W), InOrder(R), {y.ev : y \in W})
<1> DEFINE U == R \cup W
           n == Cardinality(R)
           m == Cardinality(U)
           s == InOrder(U)
           t == InOrder(R)
<1>1. Apart(R) /\ Apart(U) /\ \A y \in U : y.seq \in Nat
  BY FS_Subset DEF Apart
<1>2. \A y \in R : Rank(U, y) = Rank(R, y)
  <2> SUFFICES ASSUME NEW y \in R PROVE {z \in U : z.seq <= y.seq} = {z \in R : z.seq <= y.seq}
    BY DEF Rank
  <2>1. ASSUME NEW z \in W PROVE ~ (z.seq <= y.seq)
    <3>1. y.seq \in Nat /\ z.seq \in Nat /\ y.seq < z.seq
      BY <1>1
    <3> QED
      BY <3>1
  <2> QED
    BY <2>1
<1>3. ASSUME NEW y \in W PROVE Rank(U, y) > n
  <2> DEFINE upTo == {z \in U : z.seq <= y.seq}
  <2>1. R \in SUBSET upTo
    <3>1. ASSUME NEW z \in R PROVE z.seq <= y.seq
      <4>1. y.seq \in Nat /\ z.seq \in Nat /\ z.seq < y.seq
        BY <1>1
      <4> QED
        BY <4>1
    <3> QED
      BY <3>1
  <2>2. y \in upTo /\ y \notin R
    <3>1. y.seq \in Nat /\ y \in U
      BY <1>1
    <3>2. y \notin R
      <4>1. ~ (y.seq < y.seq)
        BY <3>1
      <4> QED
        BY <4>1
    <3> QED
      BY <3>1, <3>2
  <2>3. IsFiniteSet(upTo)
    BY <1>1, FS_Subset DEF Apart
  <2>4. Rank(U, y) = Cardinality(upTo)
    BY DEF Rank
  <2> HIDE DEF upTo, U
  <2>5. /\ Cardinality(R) \in Nat /\ Cardinality(upTo) \in Nat
        /\ Cardinality(R) < Cardinality(upTo)
    BY <2>1, <2>2, <2>3, PartCountsLess
  <2> QED
    BY <2>4, <2>5
<1>4. n \in Nat /\ m \in Nat /\ n <= m
  BY <1>1, PartCountsLess DEF Apart
<1>5. /\ Len(s) = m /\ DOMAIN s = 1..m /\ s \in Seq({y.ev : y \in U})
      /\ Len(t) = n /\ DOMAIN t = 1..n /\ t \in Seq({y.ev : y \in R})
      /\ \A y \in U : s[Rank(U, y)] = y.ev /\ Rank(U, y) \in 1..m
      /\ \A y \in R : t[Rank(R, y)] = y.ev
      /\ \A i \in 1..m : \E y \in U : Rank(U, y) = i
      /\ \A i \in 1..n : \E y \in R : Rank(R, y) = i
      /\ \A y \in R : Rank(R, y) \in 1..n
      /\ \A y, z \in U : Rank(U, y) < Rank(U, z) => y.seq < z.seq
  <2>1. ASSUME NEW y \in U, NEW z \in U, Rank(U, y) < Rank(U, z) PROVE y.seq < z.seq
    <3> HIDE DEF U
    <3>1. /\ y.seq \in Nat /\ z.seq \in Nat
          /\ Rank(U, y) \in Nat /\ Rank(U, z) \in Nat
      BY <1>1, RankCounts
    <3>2. ~ (z.seq < y.seq) /\ y # z
      BY <1>1, <2>1, <3>1, RankCounts
    <3>3. y.seq # z.seq
      BY <1>1, <3>2 DEF Apart
    <3> QED
      BY <3>1, <3>2, <3>3
  <2> HIDE DEF U
  <2>2. /\ Len(s) = m /\ DOMAIN s = 1..m /\ s \in Seq({y.ev : y \in U})
        /\ Len(t) = n /\ DOMAIN t = 1..n /\ t \in Seq({y.ev : y \in R})
        /\ \A y \in U : s[Rank(U, y)] = y.ev
        /\ \A y \in R : t[Rank(R, y)] = y.ev
    BY <1>1, InOrderPlaces
  <2>3. /\ \A y \in U : Rank(U, y) \in 1..m
        /\ \A i \in 1..m : \E y \in U : Rank(U, y) = i
        /\ \A i \in 1..n : \E y \in R : Rank(R, y) = i
        /\ \A y \in R : Rank(R, y) \in 1..n
    BY <1>1, RankCounts
  <2> QED
    BY <2>1, <2>2, <2>3
<1>6. U = R \cup W
  OBVIOUS
<1> HIDE DEF U, n, m, s, t
<1>7. \A i \in 1..n : s[i] = t[i]
  <2> SUFFICES ASSUME NEW i \in 1..n PROVE s[i] = t[i]
    OBVIOUS
  <2>1. PICK y \in R : Rank(R, y) = i
    BY <1>5
  <2> QED
    BY <1>2, <1>5, <1>6, <2>1
<1>8. SubSeq(s, 1, Len(t)) = t
  <2>1. SubSeq(s, 1, n) = [i \in 1..n |-> s[i]]
    BY <1>4, <1>5
  <2>2. t = [i \in 1..n |-> t[i]]
    BY <1>5
  <2>3. [i \in 1..n |-> s[i]] = [i \in 1..n |-> t[i]]
    BY <1>7
  <2> QED
    BY <1>5, <2>1, <2>2, <2>3
<1>9. \A i \in (n + 1)..m : \E y \in W : Rank(U, y) = i /\ s[i] = y.ev
  <2> SUFFICES ASSUME NEW i \in (n + 1)..m
               PROVE  \E y \in W : Rank(U, y) = i /\ s[i] = y.ev
    OBVIOUS
  <2>1. i \in 1..m /\ i > n /\ ~ (i \in 1..n)
    BY <1>4
  <2>2. PICK y \in U : Rank(U, y) = i
    BY <1>5, <2>1
  <2>3. y \notin R
    BY <1>2, <1>5, <2>1, <2>2
  <2> QED
    BY <1>5, <1>6, <2>2, <2>3
<1>10. {s[i] : i \in (n + 1)..m} = {y.ev : y \in W}
  <2>1. ASSUME NEW y \in W PROVE \E i \in (n + 1)..m : s[i] = y.ev
    <3>1. Rank(U, y) \in 1..m /\ Rank(U, y) > n /\ s[Rank(U, y)] = y.ev
      BY <1>3, <1>5, <1>6
    <3>2. Rank(U, y) \in (n + 1)..m
      BY <1>4, <3>1
    <3> QED
      BY <3>1, <3>2
  <2> QED
    BY <1>9, <2>1
<1>11. ASSUME NEW i \in (n + 1)..m, NEW j \in (n + 1)..m, i < j PROVE s[i] < s[j]
  <2>1. PICK y \in W : Rank(U, y) = i /\ s[i] = y.ev
    BY <1>9
  <2>2. PICK z \in W : Rank(U, z) = j /\ s[j] = z.ev
    BY <1>9
  <2>3. y.seq < z.seq
    BY <1>5, <1>6, <1>11, <2>1, <2>2
  <2> QED
    BY <2>1, <2>2, <2>3
<1>12. Abstract!Extends(s, t, {y.ev : y \in W})
  BY <1>4, <1>5, <1>8, <1>10, <1>11 DEF Abstract!Extends
<1> QED
  BY <1>6, <1>12 DEF s, t
-----------------------------------------------------------------------------
(* What RunLog sees of the collector.                                      *)

(* The rows of a run, stored or about to be, are numbered apart.           *)
LEMMA NumberedApart ==
  ASSUME TypeInv, EventInv, NEW r
  PROVE  Apart({y \in Numbered : y.run = r}) /\ Apart(RowsOf(r))
<1> DEFINE R == {y \in Numbered : y.run = r}
<1>1. IsFiniteSet(Numbered)
  BY FS_Union DEF TypeInv, EventInv, CountInv, Numbered
<1>2. IsFiniteSet(R) /\ IsFiniteSet(RowsOf(r)) /\ RowsOf(r) \subseteq R
  <2>1. R \in SUBSET Numbered /\ RowsOf(r) \in SUBSET R
    BY DEF RowsOf, Numbered
  <2> QED
    BY <1>1, <2>1, FS_Subset
<1>3. \A y \in R : y.seq \in Nat /\ y.ev \in Nat
  BY DEF TypeInv, TypeOK, Row, Numbered
<1>4. ASSUME NEW y \in R, NEW z \in R, y.seq = z.seq PROVE y = z
  <2>1. /\ y.seq < z.seq <=> y.ev < z.ev
        /\ z.seq < y.seq <=> z.ev < y.ev
    BY DEF EventInv, NumberInv, SeqFollowsArrival, Numbered
  <2>2. y.ev = z.ev
    BY <1>3, <1>4, <2>1
  <2> QED
    BY <2>2 DEF EventInv, PlaceInv
<1> QED
  BY <1>2, <1>3, <1>4 DEF Apart

LEMMA LoggedRows ==
  ASSUME TypeInv, EventInv, NEW r \in Runs
  PROVE  Abstract!LoggedIn(r) = Events(RowsOf(r))
<1> DEFINE R == RowsOf(r)
<1>1. Apart(R)
  BY NumberedApart
<1>2. Abstract!LoggedIn(r) = {InOrder(R)[i] : i \in DOMAIN InOrder(R)}
  BY DEF Abstract!LoggedIn, StoredLog
<1> HIDE DEF R
<1>3. /\ DOMAIN InOrder(R) = 1..Cardinality(R)
      /\ \A y \in R : InOrder(R)[Rank(R, y)] = y.ev /\ Rank(R, y) \in 1..Cardinality(R)
      /\ \A i \in 1..Cardinality(R) : \E y \in R : Rank(R, y) = i
  BY <1>1, InOrderPlaces, RankCounts
<1>4. Abstract!LoggedIn(r) = Events(R)
  BY <1>2, <1>3 DEF Events
<1> QED
  BY <1>4 DEF R

(* What RunLog calls pending is what is in memory.                         *)
LEMMA PendingEvents ==
  ASSUME TypeInv, EventInv
  PROVE  Abstract!Pending = Events(writing) \cup {queue[i].ev : i \in DOMAIN queue}
<1> DEFINE Q == {queue[i].ev : i \in DOMAIN queue}
<1>1. UNION {Abstract!LoggedIn(r) : r \in Runs} = Events(rows)
  <2>1. \A r \in Runs : Abstract!LoggedIn(r) = Events(RowsOf(r))
    BY LoggedRows
  <2>2. \A y \in rows : y.run \in Runs
    BY DEF TypeInv, TypeOK, Row
  <2> QED
    BY <2>1, <2>2 DEF Events, RowsOf
<1>2. Abstract!Pending = (DOMAIN accepted \ lost) \ Events(rows)
  BY <1>1 DEF Abstract!Pending
<1>3. \A e \in DOMAIN accepted : e \in Q \/ e \in Events(writing) \/ e \in Events(rows) \/ e \in lost
  BY DEF EventInv, PlaceInv, Numbered, Events
<1>4. DOMAIN accepted \subseteq Nat
  BY DEF TypeInv, TypeOK
<1>5. ASSUME NEW i \in DOMAIN queue
      PROVE  /\ queue[i].ev \in DOMAIN accepted /\ queue[i].ev \notin lost
             /\ queue[i].ev \notin Events(rows)
  <2>1. /\ queue[i].ev \in DOMAIN accepted
        /\ \A y \in Numbered : y.ev < queue[i].ev
        /\ \A e \in lost : e < queue[i].ev
    BY DEF EventInv, QueueInv
  <2>2. ~ (queue[i].ev < queue[i].ev)
    BY <1>4, <2>1
  <2> QED
    BY <2>1, <2>2 DEF Numbered, Events
<1>6. ASSUME NEW y \in writing
      PROVE  y.ev \in DOMAIN accepted /\ y.ev \notin lost /\ y.ev \notin Events(rows)
  <2>1. y.ev \in DOMAIN accepted /\ y.ev \notin lost
    BY DEF EventInv, PlaceInv, Numbered
  <2>2. \A z \in rows : z.ev < y.ev
    BY DEF EventInv, PlaceInv
  <2>3. ~ (y.ev < y.ev)
    BY <1>4, <2>1
  <2> QED
    BY <2>1, <2>2, <2>3 DEF Events
<1> QED
  BY <1>2, <1>3, <1>5, <1>6 DEF Events

(* Which run RunLog sees open.                                             *)
OpenFacts ==
  /\ up /\ (\A c \in Callers : call[c].pc # "publish") => OpenRun = pointer
  /\ up => \A c \in Callers : call[c].pc = "publish" => OpenRun = call[c].run
  /\ ~up /\ Active = {} => OpenRun = None
  /\ ~up /\ OneActiveRow => \A r \in Active : OpenRun = r

LEMMA OpenRunIs == RunInv => OpenFacts
<1> SUFFICES ASSUME RunInv PROVE OpenFacts
  OBVIOUS
<1> DEFINE publishing == {c \in Callers : call[c].pc = "publish"}
<1>1. OpenRun = IF ~up THEN (IF Active = {} THEN None ELSE CHOOSE r \in Active : TRUE)
                ELSE IF publishing # {} THEN call[CHOOSE c \in publishing : TRUE].run
                ELSE pointer
  BY DEF OpenRun
<1>2. \A c, d \in publishing : c = d
  BY DEF RunInv, LockInv, Holding
<1>3. \A c \in publishing : (CHOOSE d \in publishing : TRUE) = c
  BY <1>2
<1>4. OneActiveRow => \A r \in Active : (CHOOSE s \in Active : TRUE) = r
  BY DEF OneActiveRow
<1>5. \A c \in Callers : c \in publishing <=> call[c].pc = "publish"
  OBVIOUS
<1>6. publishing \subseteq Callers
  OBVIOUS
<1> HIDE DEF publishing
<1>7. up /\ (\A c \in Callers : call[c].pc # "publish") => OpenRun = pointer
  BY <1>1, <1>5, <1>6
<1>8. up => \A c \in Callers : call[c].pc = "publish" => OpenRun = call[c].run
  BY <1>1, <1>3, <1>5
<1>9. /\ ~up /\ Active = {} => OpenRun = None
      /\ ~up /\ OneActiveRow => \A r \in Active : OpenRun = r
  BY <1>1, <1>4
<1> QED
  BY <1>7, <1>8, <1>9 DEF OpenFacts

LEMMA OpenRunIsNext == RunInv' => OpenFacts'
  BY OpenRunIs, PTL

LEMMA Stutters ==
  ASSUME OpenRun' = OpenRun, UNCHANGED <<rows, accepted, lost>>,
         \A r \in Runs : runRow'[r].state = "none" <=> runRow[r].state = "none"
  PROVE  UNCHANGED Abstract!vars
<1>1. Fresh' = Fresh
  BY DEF Fresh
<1>2. [r \in Runs |-> StoredLog(r)]' = [r \in Runs |-> StoredLog(r)]
  BY DEF StoredLog, RowsOf
<1> QED
  BY <1>1, <1>2 DEF Abstract!vars

(* The open run changes only with the pointer or a publication.            *)
LEMMA OpenStays ==
  ASSUME RunInv, RunInv', up, up', pointer' = pointer,
         \A c \in Callers :
           /\ call'[c].pc = "publish" <=> call[c].pc = "publish"
           /\ call[c].pc = "publish" => call'[c].run = call[c].run
  PROVE  OpenRun' = OpenRun
<1>1. OpenFacts /\ OpenFacts'
  BY OpenRunIs, OpenRunIsNext
<1>2. CASE \A c \in Callers : call[c].pc # "publish"
  BY <1>1, <1>2 DEF OpenFacts
<1>3. ASSUME NEW c \in Callers, call[c].pc = "publish" PROVE OpenRun' = OpenRun
  BY <1>1, <1>3 DEF OpenFacts
<1> QED
  BY <1>2, <1>3

(* At most the open run is active in the database.                         *)
LEMMA ActiveIsOpen ==
  ASSUME RunInv, ActiveInv, up
  PROVE  Active \subseteq {OpenRun}
<1>1. OpenFacts
  BY OpenRunIs
<1>2. CASE \A c \in Callers : call[c].pc \notin Holding
  <2>1. lock = None
    BY <1>2 DEF RunInv, LockInv, TypeInv, TypeOK
  <2>2. OpenRun = pointer
    BY <1>1, <1>2 DEF OpenFacts, Holding
  <2> QED
    BY <2>1, <2>2 DEF ActiveInv
<1>3. ASSUME NEW c \in Callers, call[c].pc \in Holding PROVE Active \subseteq {OpenRun}
  <2>1. ActiveOK(c)
    BY DEF ActiveInv
  <2>2. CASE call[c].pc = "publish"
    BY <1>1, <2>1, <2>2 DEF ActiveOK, OpenFacts
  <2>3. CASE call[c].pc # "publish"
    <3>1. \A d \in Callers : call[d].pc # "publish"
      BY <1>3, <2>3 DEF RunInv, LockInv, Holding
    <3>2. OpenRun = pointer
      BY <1>1, <3>1 DEF OpenFacts
    <3> QED
      BY <1>3, <2>1, <2>3, <3>2 DEF ActiveOK, Holding
  <2> QED
    BY <2>2, <2>3
<1> QED
  BY <1>2, <1>3
-----------------------------------------------------------------------------
(* Every step is one of RunLog's or none.                                  *)
LogStep == [Abstract!Next]_(Abstract!vars)

LEMMA IntakeLogs ==
  ASSUME RunInv, RunInv', Intake
  PROVE  LogStep
<1>1. /\ up /\ UNCHANGED <<up, pointer, runRow, rows, call, lost>>
  BY DEF Intake, Submit, RegisterCorrelation, RejectBody, database, history
<1>2. OpenRun' = OpenRun
  BY <1>1, OpenStays
<1>3. TypeOK /\ accepted \in Seq(Runs)
  BY DEF RunInv, TypeInv, TypeOK
<1>4. CASE UNCHANGED accepted
  BY <1>1, <1>2, <1>4, Stutters DEF LogStep
<1>5. ASSUME pointer \in Runs, NEW n \in Nat, Appends(n), accepted' # accepted
      PROVE  Abstract!Accept
  <2> DEFINE stamps == [i \in 1..n |-> pointer]
  <2>1. stamps \in Seq(Runs) /\ Len(stamps) = n
    BY <1>5
  <2>2. accepted' = accepted \o stamps
    BY <1>5 DEF Appends
  <2>3. n # 0
    <3>1. CASE n = 0
      <4>1. stamps = <<>>
        BY <3>1
      <4> HIDE DEF stamps
      <4>2. accepted' = accepted
        BY <1>3, <2>2, <4>1
      <4> QED
        BY <1>5, <4>2
    <3> QED
      BY <3>1
  <2>4. Len(accepted') = Len(accepted) + n /\ Len(accepted) \in Nat
    <3> DEFINE both == accepted \o stamps
    <3> HIDE DEF stamps
    <3>1. Len(both) = Len(accepted) + Len(stamps) /\ Len(accepted) \in Nat
      BY <1>3, <2>1
    <3>2. accepted' = both
      BY <2>2
    <3> HIDE DEF both
    <3> QED
      BY <2>1, <3>1, <3>2
  <2>5. Len(accepted') > Len(accepted) /\ Len(accepted') - Len(accepted) = n
    BY <2>3, <2>4
  <2>6. OpenRun = pointer
    <3>1. \A c \in Callers : call[c].pc # "publish"
      BY <1>5, NoneIsNoRun DEF RunInv, HolderInv, HolderOK
    <3> QED
      BY <1>1, <3>1, OpenRunIs DEF OpenFacts
  <2>7. accepted' = accepted \o [i \in 1..(Len(accepted') - Len(accepted)) |-> OpenRun]
    <3>1. [i \in 1..(Len(accepted') - Len(accepted)) |-> OpenRun] = stamps
      BY <2>5, <2>6
    <3> QED
      BY <2>2, <3>1
  <2>8. OpenRun # None
    BY <1>5, <2>6, NoneIsNoRun
  <2>9. Fresh' = Fresh /\ [r \in Runs |-> StoredLog(r)]' = [r \in Runs |-> StoredLog(r)]
    BY <1>1 DEF Fresh, StoredLog, RowsOf
  <2> QED
    BY <1>1, <1>2, <2>5, <2>7, <2>8, <2>9 DEF Abstract!Accept
<1> QED
  BY <1>3, <1>4, <1>5, IntakeAppends DEF LogStep, Abstract!Next

(* What the writer has in hand is what RunLog may store or lose next.      *)
LEMMA InHandIsOldest ==
  ASSUME TypeInv, EventInv, writing # {}
  PROVE  Events(writing) \in SUBSET Abstract!Pending /\ Abstract!Oldest(Events(writing))
<1> DEFINE Q == {queue[i].ev : i \in DOMAIN queue}
<1>1. Abstract!Pending = Events(writing) \cup Q
  BY PendingEvents
<1>2. ASSUME NEW y \in writing, NEW i \in DOMAIN queue, queue[i].ev < y.ev PROVE FALSE
  <2>1. y.ev < queue[i].ev
    BY DEF EventInv, QueueInv, Numbered
  <2>2. y.ev \in Nat /\ queue[i].ev \in Nat
    BY DEF EventInv, QueueInv, PlaceInv, Numbered, TypeInv, TypeOK
  <2> QED
    BY <1>2, <2>1, <2>2
<1>3. \A e \in Events(writing), d \in Abstract!Pending : d < e => d \in Events(writing)
  BY <1>1, <1>2 DEF Events
<1>4. Events(writing) # {}
  BY DEF Events
<1> QED
  BY <1>1, <1>3, <1>4 DEF Abstract!Oldest

LEMMA WriterLogs ==
  ASSUME CommitErrors \subseteq {"refused"}, RunInv, RunInv', EventInv, Writer
  PROVE  LogStep
<1>1. TypeInv /\ TypeOK
  BY DEF RunInv, TypeInv
<1>2. CASE WriterTake
  <2>1. UNCHANGED <<up, pointer, runRow, rows, call, accepted, lost>> /\ up
    BY <1>2 DEF WriterTake, database, history
  <2>2. OpenRun' = OpenRun
    BY <2>1, OpenStays
  <2> QED
    BY <2>1, <2>2, Stutters DEF LogStep
<1>3. ASSUME WriterCommit \/ WriterFail PROVE OpenRun' = OpenRun /\ writing # {}
  <2>1. /\ up /\ UNCHANGED <<up, pointer>> /\ WakeFlushed /\ writing # {}
    BY <1>3 DEF WriterCommit, WriterFail
  <2>2. ASSUME NEW c \in Callers
        PROVE  /\ call'[c].pc = "publish" <=> call[c].pc = "publish"
               /\ call[c].pc = "publish" => call'[c].run = call[c].run
    <3>1. \/ call'[c] = call[c]
          \/ call[c].pc = "flush" /\ call'[c] = [call[c] EXCEPT !.pc = "lock"]
      BY <2>1 DEF WakeFlushed
    <3>2. call[c] \in Call
      BY <1>1 DEF TypeOK
    <3> QED
      BY <3>1, <3>2 DEF Call
  <2> QED
    BY <2>1, <2>2, OpenStays
<1>4. CASE WriterCommit
  <2>1. CommitRows /\ UNCHANGED <<accepted, lost>> /\ OpenRun' = OpenRun /\ writing # {}
    BY <1>3, <1>4 DEF WriterCommit, history
  <2>2. rows' = Numbered /\ \A r \in Runs : runRow'[r].state = runRow[r].state
    BY <1>1, <2>1, CommitCounts
  <2>3. Fresh' = Fresh
    BY <2>2 DEF Fresh
  <2> DEFINE S == Events(writing)
  <2>4. ASSUME NEW r \in Runs
        PROVE  Abstract!Extends(StoredLog(r)', StoredLog(r), {e \in S : accepted[e] = r})
    <3> DEFINE R == RowsOf(r)
               W == {y \in writing : y.run = r}
    <3>1. RowsOf(r)' = R \cup W /\ {y \in Numbered : y.run = r} = R \cup W
      BY <2>2 DEF RowsOf, Numbered
    <3>2. Apart(R \cup W)
      BY <1>1, <3>1, NumberedApart
    <3>3. \A y \in R, z \in W : y.seq < z.seq
      <4>1. \A y \in R, z \in W : y \in rows /\ z \in writing /\ y.run = z.run
        BY DEF RowsOf
      <4> QED
        BY <4>1 DEF EventInv, PlaceInv, NumberInv, SeqFollowsArrival
    <3>4. \A y, z \in W : y.seq < z.seq => y.ev < z.ev
      BY DEF EventInv, NumberInv, SeqFollowsArrival
    <3>5. {y.ev : y \in W} = {e \in S : accepted[e] = r}
      BY DEF Events, EventInv, PlaceInv, Numbered
    <3>6. StoredLog(r) = InOrder(R) /\ StoredLog(r)' = InOrder(R \cup W)
      BY <3>1 DEF StoredLog
    <3> HIDE DEF R, W, S
    <3>7. Abstract!Extends(InOrder(R \cup W), InOrder(R), {y.ev : y \in W})
      BY <3>2, <3>3, <3>4, InOrderExtends
    <3> QED
      BY <3>5, <3>6, <3>7
  <2>5. S \in SUBSET Abstract!Pending /\ Abstract!Oldest(S)
    BY <1>1, <2>1, InHandIsOldest
  <2> HIDE DEF S
  <2>6. Abstract!Store
    BY <2>1, <2>3, <2>4, <2>5 DEF Abstract!Store
  <2> QED
    BY <2>6 DEF LogStep, Abstract!Next
<1>5. CASE WriterFail
  <2>1. lost' = lost \cup Events(writing) /\ UNCHANGED <<runRow, rows, accepted>>
    BY <1>5 DEF WriterFail, database
  <2>2. OpenRun' = OpenRun /\ writing # {}
    BY <1>3, <1>5
  <2>3. Fresh' = Fresh /\ [r \in Runs |-> StoredLog(r)]' = [r \in Runs |-> StoredLog(r)]
    BY <2>1 DEF Fresh, StoredLog, RowsOf
  <2>4. Abstract!Lose
    BY <1>1, <2>1, <2>2, <2>3, InHandIsOldest DEF Abstract!Lose
  <2> QED
    BY <2>4 DEF LogStep, Abstract!Next
<1> QED
  BY <1>2, <1>4, <1>5 DEF Writer

(* A run opens with its INSERT and closes when active_run_id is cleared.   *)
LEMMA CallerLogs ==
  ASSUME CommitErrors \subseteq {"refused"}, RunInv, RunInv', NEW c \in Callers,
         Begin(c) \/ Acquire(c) \/ Proceed(c)
  PROVE  LogStep
<1>1. call[c] \in Call /\ call \in [Callers -> Call]
  BY DEF RunInv, TypeInv, TypeOK
<1>2. /\ up /\ up' /\ UNCHANGED <<rows, accepted, lost>>
      /\ \A d \in Callers : d # c => call'[d] = call[d]
  <2>1. /\ up /\ up' /\ UNCHANGED <<rows, accepted, lost>>
    <3>1. ASSUME NEW r \in Runs, NEW apps, CloseBegin(c, r, apps)
          PROVE  up /\ up' = up /\ UNCHANGED <<rows, accepted, lost>>
      BY <3>1 DEF CloseBegin, At, memory, database, history
    <3>2. ASSUME NEW force, OpenBegin(c, force)
          PROVE  up /\ up' = up /\ UNCHANGED <<rows, accepted, lost>>
      BY <3>2 DEF OpenBegin, At, memory, database, history
    <3>3. CASE Acquire(c)
      <4>1. up /\ up' = up
        BY <3>3 DEF Acquire, At, memory
      <4>2. UNCHANGED <<rows, accepted, lost>>
        BY <3>3 DEF Acquire, database, history
      <4> QED
        BY <4>1, <4>2
    <3>4. CASE CloseCommit(c)
      BY <3>4 DEF CloseCommit, At, memory, history
    <3>5. CASE CloseFail(c)
      BY <3>5 DEF CloseFail, At, history
    <3>6. CASE CloseClear(c)
      BY <3>6 DEF CloseClear, At, database, history
    <3>7. CASE OpenInsert(c)
      BY <3>7 DEF OpenInsert, At, memory, history
    <3>8. CASE OpenFail(c)
      BY <3>8 DEF OpenFail, At, history
    <3>9. CASE OpenPublish(c)
      BY <3>9 DEF OpenPublish, At, database, history
    <3> QED
      BY <3>1, <3>2, <3>3, <3>4, <3>5, <3>6, <3>7, <3>8, <3>9 DEF Begin, Proceed
  <2>2. \E e : Advance(c, e)
    <3>1. CASE Acquire(c)
      <4> DEFINE r == IF call[c].op = "close" THEN call[c].run ELSE pointer
                 held == [call[c] EXCEPT !.pc = "commit", !.run = r, !.seen = runRow[r]]
                 free == [call[c] EXCEPT !.pc = "insert"]
      <4>1. Advance(c, held) \/ Advance(c, free) \/ Advance(c, Idle)
        BY <3>1 DEF Acquire, Return
      <4> HIDE DEF r, held, free
      <4> QED
        BY <4>1
    <3>2. CASE Begin(c)
      BY <3>2 DEF Begin, CloseBegin, OpenBegin
    <3>3. CASE CloseCommit(c) \/ CloseClear(c) \/ OpenInsert(c)
      BY <3>3 DEF CloseCommit, CloseClear, OpenInsert, Return
    <3>4. CASE CloseFail(c) \/ OpenFail(c) \/ OpenPublish(c)
      BY <3>4 DEF CloseFail, OpenFail, OpenPublish, Return
    <3> QED
      BY <3>1, <3>2, <3>3, <3>4 DEF Proceed
  <2>3. \A d \in Callers : d # c => call'[d] = call[d]
    BY <1>1, <2>2 DEF Advance
  <2> QED
    BY <2>1, <2>3
<1>3. OpenFacts /\ OpenFacts'
  BY OpenRunIs, OpenRunIsNext
<1>4. [r \in Runs |-> StoredLog(r)]' = [r \in Runs |-> StoredLog(r)]
  BY <1>2 DEF StoredLog, RowsOf
<1>5. ASSUME UNCHANGED pointer, call[c].pc # "publish", call'[c].pc # "publish",
             \A r \in Runs : runRow'[r].state = "none" <=> runRow[r].state = "none"
      PROVE  LogStep
  <2>1. OpenRun' = OpenRun
    BY <1>2, <1>5, OpenStays
  <2> QED
    BY <1>2, <1>5, <2>1, Stutters DEF LogStep
<1>6. CASE Begin(c)
  <2>1. UNCHANGED <<pointer, runRow>> /\ call[c].pc = "idle" /\ call'[c].pc # "publish"
    BY <1>1, <1>6 DEF Begin, CloseBegin, OpenBegin, At, Advance, Idle, memory, database
  <2> QED
    BY <1>5, <2>1
<1>7. CASE Acquire(c)
  <2> DEFINE r == IF call[c].op = "close" THEN call[c].run ELSE pointer
             held == [call[c] EXCEPT !.pc = "commit", !.run = r, !.seen = runRow[r]]
             free == [call[c] EXCEPT !.pc = "insert"]
  <2>1. Advance(c, held) \/ Advance(c, free) \/ Advance(c, Idle)
    BY <1>7 DEF Acquire, Return
  <2>2. held.pc # "publish" /\ free.pc # "publish" /\ Idle.pc # "publish"
    BY <1>1 DEF Call, Idle
  <2> HIDE DEF r, held, free
  <2>3. call'[c].pc # "publish"
    BY <1>1, <2>1, <2>2 DEF Advance
  <2>4. UNCHANGED <<pointer, runRow>> /\ call[c].pc = "lock"
    BY <1>7 DEF Acquire, At, database
  <2> QED
    BY <1>5, <2>3, <2>4
<1>8. CASE CloseCommit(c) \/ CloseFail(c)
  <2>1. /\ UNCHANGED pointer /\ call[c].pc = "commit"
        /\ UNCHANGED runRow \/ MarkClosed(c)
        /\ Advance(c, [call[c] EXCEPT !.pc = "clear"]) \/ Advance(c, Idle)
    BY <1>8 DEF CloseCommit, CloseFail, At, Return, memory
  <2>2. call'[c].pc # "publish"
    <3> DEFINE done == [call[c] EXCEPT !.pc = "clear"]
    <3>1. done.pc # "publish" /\ Idle.pc # "publish"
      BY <1>1 DEF Call, Idle
    <3>2. Advance(c, done) \/ Advance(c, Idle)
      BY <2>1
    <3> HIDE DEF done
    <3> QED
      BY <1>1, <3>1, <3>2 DEF Advance
  <2>3. \A r \in Runs : runRow'[r].state = "none" <=> runRow[r].state = "none"
    <3>1. ASSUME MarkClosed(c), NEW r \in Runs
          PROVE  runRow'[r].state = "none" <=> runRow[r].state = "none"
      <4>1. /\ call[c].run \in Runs /\ runRow'[call[c].run].state = "closed"
            /\ \A s \in Runs : s # call[c].run => runRow'[s] = runRow[s]
        BY <2>1, <3>1, MarkClosedDoes
      <4>2. runRow[call[c].run].state # "none"
        BY <2>1 DEF RunInv, HolderInv, HolderOK
      <4> QED
        BY <4>1, <4>2
    <3> QED
      BY <2>1, <3>1
  <2> QED
    BY <1>5, <2>1, <2>2, <2>3
<1>9. CASE CloseClear(c)
  <2> DEFINE free == [call[c] EXCEPT !.pc = "insert", !.run = None]
  <2>1. /\ call[c].pc = "clear" /\ pointer' \in {pointer, None} /\ UNCHANGED runRow
        /\ Advance(c, Idle) \/ Advance(c, free)
    BY <1>9 DEF CloseClear, At, Cleared, Return, database
  <2>2. free.pc # "publish" /\ Idle.pc # "publish"
    BY <1>1 DEF Call, Idle
  <2> HIDE DEF free
  <2>3. call'[c].pc # "publish"
    BY <1>1, <2>1, <2>2 DEF Advance
  <2>4. \A d \in Callers : call[d].pc # "publish" /\ call'[d].pc # "publish"
    BY <1>2, <2>1, <2>3 DEF RunInv, LockInv, Holding
  <2>5. OpenRun = pointer /\ OpenRun' = pointer'
    BY <1>2, <1>3, <2>4 DEF OpenFacts
  <2>6. CASE pointer' = pointer
    BY <1>5, <2>1, <2>3, <2>6
  <2>7. CASE pointer' # pointer
    <3>1. OpenRun # None /\ OpenRun' = None
      BY <2>1, <2>5, <2>7
    <3>2. Fresh' = Fresh
      BY <2>1 DEF Fresh
    <3>3. Abstract!Close
      BY <1>2, <1>4, <3>1, <3>2 DEF Abstract!Close
    <3> QED
      BY <3>3 DEF LogStep, Abstract!Next
  <2> QED
    BY <2>6, <2>7
<1>10. CASE OpenInsert(c)
  <2>1. /\ call[c].pc = "insert" /\ UNCHANGED pointer
    BY <1>10 DEF OpenInsert, At, memory
  <2>2. PICK r \in Runs :
          InsertRun(r) /\ Advance(c, [call[c] EXCEPT !.pc = "publish", !.run = r])
    BY <1>10 DEF OpenInsert
  <2> DEFINE e == [call[c] EXCEPT !.pc = "publish", !.run = r]
  <2>3. e.pc = "publish" /\ e.run = r
    BY <1>1 DEF Call
  <2>4. call'[c] = e
    BY <1>1, <2>2 DEF Advance
  <2> HIDE DEF e
  <2>5. OpenRun' = r
    BY <1>2, <1>3, <2>3, <2>4 DEF OpenFacts
  <2>6. OpenRun = None
    <3>1. \A d \in Callers : call[d].pc # "publish"
      BY <2>1 DEF RunInv, LockInv, Holding
    <3>2. pointer = None
      BY <2>1 DEF RunInv, HolderInv, HolderOK
    <3> QED
      BY <1>2, <1>3, <3>1, <3>2 DEF OpenFacts
  <2>7. r \in Fresh /\ Fresh' = Fresh \ {r}
    <3>1. /\ runRow[r].state = "none" /\ runRow'[r].state = "active"
          /\ \A s \in Runs : s # r => runRow'[s] = runRow[s]
      BY <2>2, InsertRunDoes
    <3> QED
      BY <3>1 DEF Fresh
  <2>8. Runs \ Fresh' = (Runs \ Fresh) \cup {r} /\ r \notin Runs \ Fresh
    BY <2>7
  <2>9. Abstract!Open(r)
    BY <1>2, <1>4, <2>5, <2>6, <2>8 DEF Abstract!Open
  <2> QED
    BY <2>9 DEF LogStep, Abstract!Next
<1>11. CASE OpenFail(c)
  <2>1. /\ call[c].pc = "insert" /\ UNCHANGED <<pointer, runRow>> /\ Advance(c, Idle)
    BY <1>11 DEF OpenFail, At, Return
  <2>2. call'[c].pc # "publish"
    BY <1>1, <2>1 DEF Advance, Idle
  <2> QED
    BY <1>5, <2>1, <2>2
<1>12. CASE OpenPublish(c)
  <2>1. /\ call[c].pc = "publish" /\ pointer' = call[c].run /\ UNCHANGED runRow
        /\ Advance(c, Idle)
    BY <1>12 DEF OpenPublish, At, Return, database
  <2>2. call'[c].pc # "publish"
    BY <1>1, <2>1 DEF Advance, Idle
  <2>3. \A d \in Callers : call'[d].pc # "publish"
    BY <1>2, <2>1, <2>2 DEF RunInv, LockInv, Holding
  <2>4. OpenRun = call[c].run /\ OpenRun' = pointer'
    BY <1>2, <1>3, <2>1, <2>3 DEF OpenFacts
  <2> QED
    BY <1>2, <2>1, <2>4, Stutters DEF LogStep
<1> QED
  BY <1>6, <1>7, <1>8, <1>9, <1>10, <1>11, <1>12 DEF Proceed

(* Going down loses what is pending and leaves open what a restart adopts. *)
LEMMA DownLogs ==
  ASSUME RunInv, RunInv', ActiveInv, EventInv, Crash \/ Stop
  PROVE  LogStep
<1>1. /\ up /\ ~up' /\ UNCHANGED <<runRow, rows, accepted>>
  BY DEF Crash, Stop, GoDown, database
<1>2. lost' = lost \cup Events(writing) \cup {queue[i].ev : i \in DOMAIN queue}
  <2>1. CASE Stop
    <3>1. queue = <<>> /\ writing = {} /\ lost' = lost
      BY <2>1 DEF Stop, Drained
    <3> QED
      BY <3>1 DEF Events
  <2> QED
    BY <2>1 DEF Crash
<1>3. lost' = lost \cup Abstract!Pending
  BY <1>2, PendingEvents DEF RunInv
<1>4. Active \subseteq {OpenRun} /\ Active' = Active
  BY <1>1, ActiveIsOpen DEF Active
<1>5. OpenRun' \in {OpenRun, None}
  <2>1. OneActiveRow'
    BY <1>4 DEF OneActiveRow
  <2> QED
    BY <1>1, <1>4, <2>1, OpenRunIsNext DEF OpenFacts
<1>6. Fresh' = Fresh /\ [r \in Runs |-> StoredLog(r)]' = [r \in Runs |-> StoredLog(r)]
  BY <1>1 DEF Fresh, StoredLog, RowsOf
<1>7. Abstract!Interrupt
  BY <1>1, <1>3, <1>5, <1>6 DEF Abstract!Interrupt
<1> QED
  BY <1>7 DEF LogStep, Abstract!Next

(* A restart finds open the run the database names, and nothing moves.     *)
LEMMA RestartLogs ==
  ASSUME RunInv, RunInv', ActiveInv, Restart
  PROVE  LogStep
<1>1. /\ ~up /\ up' /\ UNCHANGED <<runRow, rows, call, accepted, lost>>
  BY DEF Restart, database, history
<1>2. \A c \in Callers : call[c].pc # "publish"
  BY <1>1, CollectorAssumption DEF RunInv, LockInv, Holding
<1>3. OpenRun' = pointer' /\ pointer = None
  BY <1>1, <1>2, OpenRunIsNext DEF OpenFacts, RunInv, LockInv
<1>4. OpenFacts /\ OneActiveRow
  BY <1>1, OpenRunIs DEF ActiveInv
<1>5. \/ Active = {} /\ pointer' = pointer
      \/ \E r \in Active : pointer' = r
  BY DEF Restart, Adoptable
<1>6. OpenRun' = OpenRun
  BY <1>1, <1>3, <1>4, <1>5 DEF OpenFacts
<1> QED
  BY <1>1, <1>6, Stutters DEF LogStep

LEMMA ReaderLogs ==
  ASSUME UNCHANGED <<memory, database, call, history>>
  PROVE  LogStep
<1>1. OpenRun' = OpenRun
  BY DEF OpenRun, Active, memory, database
<1> QED
  BY <1>1, Stutters DEF LogStep, memory, database, history

LEMMA InitLogs == Init => Abstract!Init
<1> SUFFICES ASSUME Init PROVE Abstract!Init
  OBVIOUS
<1>1. /\ up /\ pointer = None /\ rows = {} /\ accepted = <<>> /\ lost = {}
      /\ \A c \in Callers : call[c].pc # "publish"
      /\ \A r \in Runs : runRow[r].state = "none"
  BY DEF Init, Idle, NoRun
<1>2. OpenRun = None
  BY <1>1 DEF OpenRun
<1>3. Runs \ Fresh = {}
  BY <1>1 DEF Fresh
<1>4. ASSUME NEW r \in Runs PROVE StoredLog(r) = <<>>
  <2>1. RowsOf(r) = {} /\ Cardinality({}) = 0
    BY <1>1, FS_EmptySet DEF RowsOf
  <2> QED
    BY <2>1 DEF StoredLog, InOrder
<1>5. [r \in Runs |-> StoredLog(r)] = [r \in Runs |-> <<>>]
  BY <1>4
<1> QED
  BY <1>1, <1>2, <1>3, <1>5 DEF Abstract!Init

(* ImplementsRunLog: with a queue, a writer, a lock, failing writes,       *)
(* crashes and restarts, the collector still does only what the run log    *)
(* allows, if a refused COMMIT was not applied.                            *)
THEOREM CollectorImplementsRunLog ==
  ASSUME CommitErrors \subseteq {"refused"}
  PROVE  Spec => ImplementsRunLog
<1>1. Init => Abstract!Init
  BY InitLogs
<1>2. RunInv /\ ActiveInv /\ EventInv /\ RunInv' /\ [Next]_vars => [Abstract!Next]_(Abstract!vars)
  <2> SUFFICES ASSUME RunInv, ActiveInv, EventInv, RunInv', [Next]_vars PROVE LogStep
    BY DEF LogStep
  <2>1. ASSUME NEW x \in Readers, (\E r \in Runs : ReadBegin(x, r)) \/ ReadStep(x)
        PROVE  LogStep
    <3>1. UNCHANGED <<memory, database, call, history>>
      BY <2>1 DEF ReadBegin, ReadStep, ReadRequest, ReadSelect, ReadFail
    <3> QED
      BY <3>1, ReaderLogs
  <2>2. CASE UNCHANGED vars
    BY <2>2, ReaderLogs DEF vars
  <2> QED
    BY <2>1, <2>2, IntakeLogs, WriterLogs, CallerLogs, DownLogs, RestartLogs DEF Next
<1> QED
  BY <1>1, <1>2, RunInvariant, ActiveInvariant, EventInvariant, PTL
     DEF Spec, ImplementsRunLog, Abstract!Spec
=============================================================================
