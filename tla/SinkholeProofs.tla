----------------------------- MODULE SinkholeProofs -----------------------------
(***************************************************************************)
(* Proofs about Sinkhole: for any hosts, queue sizes and numbers of        *)
(* observations and hints, each observation is reported once, its          *)
(* attribution is never replaced by a weaker one, the hint poller leaves   *)
(* no gap, and a hint registered before a callback joins it.               *)
(***************************************************************************)
EXTENDS Sinkhole, FiniteSetTheorems, TLAPS

(* What waits for a lookup waits once, is not looked up meanwhile, and has *)
(* no high confidence that a lookup could replace.                         *)
Improvable(s, i) == i \in DOMAIN s /\ s[i].conf # "high"

Lookups(s, w, at) ==
  /\ \A k \in DOMAIN w : Improvable(s, w[k]) /\ w[k] # at.obs
  /\ \A j, k \in DOMAIN w : w[j] = w[k] => j = k
  /\ at.obs # None => Improvable(s, at.obs)
  /\ at.pc \in {"lookup", "match"} <=> at.obs # None

LookupsOK == Lookups(store, work, worker)

(* No hint is of the future, and the watermark is behind the clock.        *)
HintsOK ==
  /\ \A j \in DOMAIN hints : hints[j].at <= clock
  /\ watermark < clock

SinkholeInv == TypeOK /\ LookupsOK /\ HintsOK /\ NoHintSkipped

(* An event more, or a drop more, is well typed.                           *)
LEMMA SubmitOK ==
  ASSUME TypeOK, NEW i \in Ids, NEW conf \in Confidence, Submit(i, conf)
  PROVE  /\ queue' \in Seq(Event) /\ Len(queue') <= TelemetryMax
         /\ stats' \in [enqueued : Nat, dropped : Nat, posted : Nat, failed : Nat]
         /\ gone' \in [Ids -> {"no", "dropped", "posted", "failed"}]
<1>1. [obs |-> i, conf |-> conf] \in Event
  BY DEF Event
<1>2. queue' \in Seq(Event) /\ Len(queue') <= TelemetryMax
  <2> DEFINE e == [obs |-> i, conf |-> conf]
  <2>1. queue' = IF Room THEN Append(queue, e) ELSE queue
    BY DEF Submit
  <2> HIDE DEF e
  <2>2. QED
    BY <1>1, <2>1, SinkholeAssumption DEF TypeOK, Room, e
<1>3. stats' \in [enqueued : Nat, dropped : Nat, posted : Nat, failed : Nat]
  <2> DEFINE Stats == [enqueued : Nat, dropped : Nat, posted : Nat, failed : Nat]
  <2>1. ASSUME NEW t \in Stats, NEW d \in Nat
        PROVE  [t EXCEPT !.enqueued = @ + 1, !.dropped = @ + d] \in Stats
    <3>1. [t EXCEPT !.enqueued = @ + 1] \in Stats
      OBVIOUS
    <3>2. \A u \in Stats : [u EXCEPT !.dropped = @ + d] \in Stats
      OBVIOUS
    <3>3. [t EXCEPT !.enqueued = @ + 1, !.dropped = @ + d]
            = [[t EXCEPT !.enqueued = @ + 1] EXCEPT !.dropped = @ + d]
      OBVIOUS
    <3>4. QED
      BY <3>1, <3>2, <3>3
  <2>2. stats' = [stats EXCEPT !.enqueued = @ + 1, !.dropped = @ + (IF Room THEN 0 ELSE 1)]
    BY DEF Submit
  <2>3. QED
    BY <2>1, <2>2 DEF TypeOK
<1>4. gone' \in [Ids -> {"no", "dropped", "posted", "failed"}]
  BY DEF Submit, TypeOK
<1>5. QED
  BY <1>2, <1>3, <1>4

(* What is stored keeps its place and its host, and none but the one that  *)
(* is reported changes.                                                    *)
LEMMA FinaliseOK ==
  ASSUME TypeOK, NEW i \in DOMAIN store, NEW conf \in Confidence, Finalise(i, conf)
  PROVE  /\ store' \in Seq(Observation) /\ Len(store') = Len(store)
         /\ \A k \in DOMAIN store : k # i => store'[k] = store[k]
         /\ store'[i].conf = Improved(i, conf)
         /\ queue' \in Seq(Event) /\ Len(queue') <= TelemetryMax
         /\ stats' \in [enqueued : Nat, dropped : Nat, posted : Nat, failed : Nat]
         /\ gone' \in [Ids -> {"no", "dropped", "posted", "failed"}]
<1>1. store[i] \in Observation /\ i \in Ids
  BY SinkholeAssumption DEF TypeOK, Ids
<1>2. Improved(i, conf) \in Confidence
  BY <1>1 DEF Improved, Observation
<1>3. store' = [store EXCEPT ![i].conf = Improved(i, conf)]
  BY DEF Finalise
<1>4. [store[i] EXCEPT !.conf = Improved(i, conf)] \in Observation
      /\ [store[i] EXCEPT !.conf = Improved(i, conf)].conf = Improved(i, conf)
  BY <1>1, <1>2 DEF Observation
<1>5. /\ store' \in Seq(Observation) /\ Len(store') = Len(store)
      /\ \A k \in DOMAIN store : k # i => store'[k] = store[k]
      /\ store'[i].conf = Improved(i, conf)
  <2> DEFINE o == [store[i] EXCEPT !.conf = Improved(i, conf)]
  <2>1. store' = [store EXCEPT ![i] = o]
    BY <1>3
  <2>2. o \in Observation /\ o.conf = Improved(i, conf)
    BY <1>4
  <2> HIDE DEF o
  <2>3. QED
    BY <2>1, <2>2 DEF TypeOK
<1>6. Submit(i, Improved(i, conf))
  BY DEF Finalise, Reported
<1>7. QED
  BY <1>1, <1>2, <1>5, <1>6, SubmitOK

(* So what waits for a lookup still does, if it is another.                *)
LEMMA StaysImprovable ==
  ASSUME TypeOK, NEW i \in DOMAIN store, NEW conf \in Confidence, Finalise(i, conf)
  PROVE  \A k : k # i /\ Improvable(store, k) => Improvable(store', k)
<1>1. /\ store' \in Seq(Observation) /\ Len(store') = Len(store)
      /\ \A k \in DOMAIN store : k # i => store'[k] = store[k]
  BY FinaliseOK
<1>2. store \in Seq(Observation)
  BY DEF TypeOK
<1>3. DOMAIN store' = DOMAIN store
  BY <1>1, <1>2
<1>4. QED
  BY <1>1, <1>3 DEF Improvable

(* A hint carries the second it was registered in.                         *)
LEMMA HintTyped ==
  ASSUME TypeOK
  PROVE  \A j \in DOMAIN hints : hints[j].at \in Nat
<1>1. \A j \in DOMAIN hints : hints[j] \in Hint
  BY DEF TypeOK
<1>2. QED
  BY <1>1 DEF Hint

(* A match is one of the three confidences.                                *)
LEMMA MatchTyped ==
  ASSUME NEW host, NEW c \in Match(host)
  PROVE  c \in Confidence
  BY DEF Match, Confidence

(* The hints, the clock and the poller left alone keep their invariant.    *)
LEMMA SameHints ==
  ASSUME SinkholeInv, UNCHANGED <<clock, hints, watermark>>, known \subseteq known'
  PROVE  HintsOK' /\ NoHintSkipped'
  BY DEF SinkholeInv, HintsOK, NoHintSkipped, Live

(* So do the store, the lookups that wait and the worker.                  *)
LEMMA SameLookups ==
  ASSUME SinkholeInv, UNCHANGED <<store, work, worker>>
  PROVE  LookupsOK'
  BY DEF SinkholeInv, LookupsOK, Lookups

(* One lemma for each action: it preserves the invariant.                  *)
LEMMA RecordInv ==
  ASSUME SinkholeInv, NEW host \in Hosts \cup {None}, NEW owned \in BOOLEAN, Record(host, owned)
  PROVE  SinkholeInv'
<1> DEFINE i == Len(store) + 1
<1>1. PICK c \in Confidence :
        LET conf == IF c = "none" /\ owned THEN "high" ELSE c IN
        /\ store' = Append(store, [host |-> host, conf |-> conf])
        /\ before' = Append(before, Len(hints))
        /\ IF Deferred(host, conf)
           THEN /\ work' = Offered(i)
                /\ UNCHANGED <<reporting, shortcut>>
           ELSE /\ Submit(i, conf) /\ shortcut' = [shortcut EXCEPT ![i] = "inline"]
                /\ UNCHANGED work
  BY MatchTyped DEF Record, Confidence
<1> DEFINE conf == IF c = "none" /\ owned THEN "high" ELSE c
           o == [host |-> host, conf |-> conf]
<1>2. conf \in Confidence /\ i \in Ids /\ o \in Observation /\ o.conf = conf
  BY SinkholeAssumption DEF Record, SinkholeInv, TypeOK, Ids, Confidence, Observation
<1>3. UNCHANGED <<phase, clock, hints, known, watermark, worker, flusher, delivered>>
  BY DEF Record
<1>4. store' = Append(store, o)
  BY <1>1
<1> HIDE DEF o
<1>5. /\ store' \in Seq(Observation) /\ Len(store') = Len(store) + 1 /\ Len(store') <= MaxObservations
      /\ store'[i] = o /\ \A k \in DOMAIN store : k \in DOMAIN store' /\ store'[k] = store[k]
  BY <1>2, <1>4, SinkholeAssumption DEF Record, SinkholeInv, TypeOK
<1>6. before' \in Seq(Nat)
  BY <1>1 DEF SinkholeInv, TypeOK
<1>7. \A k : Improvable(store, k) => Improvable(store', k) /\ k # i
  BY <1>5 DEF Improvable, SinkholeInv, TypeOK
<1>8. CASE Deferred(host, conf)
  <2>1. work' = Append(work, i) /\ UNCHANGED <<queue, stats, gone, shortcut>> /\ conf # "high"
        /\ Len(work) < LookupQueueMax
    BY <1>1, <1>8 DEF Deferred, Offered, HasRoom, reporting
  <2>2. /\ work' \in Seq(Ids) /\ Len(work') <= LookupQueueMax /\ Len(work') = Len(work) + 1
        /\ work'[Len(work) + 1] = i /\ \A k \in DOMAIN work : work'[k] = work[k]
    BY <1>2, <2>1, SinkholeAssumption DEF SinkholeInv, TypeOK
  <2>3. TypeOK'
    BY <1>3, <1>5, <1>6, <2>1, <2>2 DEF SinkholeInv, TypeOK
  <2>4. Improvable(store', i)
    BY <1>2, <1>5, <2>1 DEF Improvable
  <2>5. LookupsOK'
    <3>1. \A k \in DOMAIN work' : k \in DOMAIN work \/ work'[k] = i
      BY <2>2 DEF SinkholeInv, TypeOK
    <3>2. worker.obs # i
      BY <1>2, <1>7, SinkholeAssumption DEF SinkholeInv, LookupsOK, Lookups, Ids
    <3>3. \A k \in DOMAIN work : work[k] # i
      BY <1>7 DEF SinkholeInv, LookupsOK, Lookups
    <3>4. \A k \in DOMAIN work' : Improvable(store', work'[k]) /\ work'[k] # worker'.obs
      BY <1>3, <1>7, <2>2, <2>4, <3>1, <3>2 DEF SinkholeInv, LookupsOK, Lookups
    <3>5. \A j, k \in DOMAIN work' : work'[j] = work'[k] => j = k
      <4>1. \A k \in DOMAIN work' : k \in DOMAIN work \/ k = Len(work) + 1
        BY <2>2 DEF SinkholeInv, TypeOK
      <4>2. \A j, k \in DOMAIN work : work[j] = work[k] => j = k
        BY DEF SinkholeInv, LookupsOK, Lookups
      <4>3. QED
        BY <2>2, <3>3, <4>1, <4>2
    <3>6. worker'.obs # None => Improvable(store', worker'.obs)
      BY <1>3, <1>7 DEF SinkholeInv, LookupsOK, Lookups
    <3>7. QED
      BY <1>3, <3>4, <3>5, <3>6 DEF SinkholeInv, LookupsOK, Lookups
  <2>6. QED
    BY <1>3, <2>3, <2>5, SameHints DEF SinkholeInv
<1>9. CASE ~Deferred(host, conf)
  <2>1. Submit(i, conf) /\ shortcut' = [shortcut EXCEPT ![i] = "inline"] /\ UNCHANGED work
    BY <1>1, <1>9
  <2>2. /\ queue' \in Seq(Event) /\ Len(queue') <= TelemetryMax
        /\ stats' \in [enqueued : Nat, dropped : Nat, posted : Nat, failed : Nat]
        /\ gone' \in [Ids -> {"no", "dropped", "posted", "failed"}]
    BY <1>2, <2>1, SubmitOK DEF SinkholeInv
  <2>3. shortcut' \in [Ids -> {"no", "inline", "failed", "drained"}]
    BY <2>1 DEF SinkholeInv, TypeOK
  <2>4. TypeOK'
    BY <1>3, <1>5, <1>6, <2>1, <2>2, <2>3 DEF SinkholeInv, TypeOK
  <2>5. LookupsOK'
    <3>1. \A k \in DOMAIN work : Improvable(store', work[k])
      BY <1>7 DEF SinkholeInv, LookupsOK, Lookups
    <3>2. worker.obs # None => Improvable(store', worker.obs)
      BY <1>7 DEF SinkholeInv, LookupsOK, Lookups
    <3>3. QED
      BY <1>3, <2>1, <3>1, <3>2 DEF SinkholeInv, LookupsOK, Lookups
  <2>6. QED
    BY <1>3, <2>4, <2>5, SameHints DEF SinkholeInv
<1>10. QED
  BY <1>8, <1>9

LEMMA AnnounceInv ==
  ASSUME SinkholeInv, NEW host \in Hosts, Announce(host)
  PROVE  SinkholeInv'
<1> DEFINE h == [host |-> host, at |-> clock]
<1>1. /\ UNCHANGED <<phase, clock, known, watermark, store, work, worker, queue, stats, gone,
                    flusher, delivered, before, shortcut>>
      /\ hints' = Append(hints, h)
  BY DEF Announce, reporting
<1>2. h \in Hint /\ h.at = clock
  BY DEF Hint, SinkholeInv, TypeOK
<1> HIDE DEF h
<1>3. /\ hints' \in Seq(Hint) /\ Len(hints') = Len(hints) + 1
      /\ hints'[Len(hints) + 1] = h
      /\ \A j \in DOMAIN hints : hints'[j] = hints[j] /\ j \in DOMAIN hints'
      /\ \A j \in DOMAIN hints' : j \in DOMAIN hints \/ j = Len(hints) + 1
  BY <1>1, <1>2 DEF SinkholeInv, TypeOK
<1>4. TypeOK'
  BY <1>1, <1>3 DEF SinkholeInv, TypeOK
<1>5. HintsOK'
  BY <1>1, <1>2, <1>3 DEF SinkholeInv, HintsOK, TypeOK
<1>6. NoHintSkipped'
  BY <1>1, <1>2, <1>3 DEF SinkholeInv, HintsOK, NoHintSkipped, Live, TypeOK
<1>7. QED
  BY <1>1, <1>4, <1>5, <1>6, SameLookups DEF SinkholeInv

LEMMA TickInv ==
  ASSUME SinkholeInv, Tick
  PROVE  SinkholeInv'
<1>1. /\ UNCHANGED <<phase, hints, known, watermark, store, work, worker, queue, stats, gone,
                    flusher, delivered, before, shortcut>>
      /\ clock' = clock + 1
  BY DEF Tick, reporting
<1>2. TypeOK'
  BY <1>1 DEF SinkholeInv, TypeOK
<1>3. \A j \in DOMAIN hints : hints[j].at \in Nat
  BY HintTyped DEF SinkholeInv
<1>4. HintsOK'
  BY <1>1, <1>3 DEF SinkholeInv, HintsOK, TypeOK
<1>5. NoHintSkipped'
  <2>1. clock \in Nat /\ clock' = clock + 1 /\ hints' = hints /\ HintTtl \in Nat
    BY <1>1, SinkholeAssumption DEF SinkholeInv, TypeOK
  <2>2. \A j \in DOMAIN hints : clock' < hints[j].at + HintTtl => clock < hints[j].at + HintTtl
    BY <1>3, <2>1
  <2>3. QED
    BY <1>1, <2>2 DEF SinkholeInv, NoHintSkipped, Live
<1>6. QED
  BY <1>1, <1>2, <1>4, <1>5, SameLookups DEF SinkholeInv

LEMMA PollInv ==
  ASSUME SinkholeInv, Poll
  PROVE  SinkholeInv'
<1> DEFINE fetched == {j \in DOMAIN hints : Live(j) /\ (watermark = 0 \/ hints[j].at > watermark)}
<1>1. UNCHANGED <<phase, clock, hints, store, work, worker, queue, stats, gone,
                  flusher, delivered, before, shortcut>>
  BY DEF Poll, reporting
<1>2. PICK j \in fetched :
        /\ known' = known \cup fetched
        /\ \A k \in fetched : hints[k].at <= hints[j].at
        /\ watermark' = IF Rewound(hints[j].at) > watermark
                        THEN Rewound(hints[j].at) ELSE watermark
  BY DEF Poll
<1>3. \A k \in DOMAIN hints : hints[k].at \in Nat
  BY HintTyped DEF SinkholeInv
<1>4. /\ watermark' \in Nat /\ watermark' < clock /\ watermark' >= watermark
      /\ watermark' = watermark \/ watermark' < hints[j].at
  <2> DEFINE at == hints[j].at
  <2>1. watermark' = IF at - 1 > watermark THEN at - 1 ELSE watermark
    BY <1>2 DEF Rewound
  <2>2. at \in Nat /\ at <= clock /\ clock \in Nat /\ watermark \in Nat /\ watermark < clock
    BY <1>3 DEF SinkholeInv, HintsOK, TypeOK
  <2> HIDE DEF at
  <2>3. /\ watermark' \in Nat /\ watermark' < clock /\ watermark' >= watermark
        /\ watermark' = watermark \/ watermark' < at
    BY <2>1, <2>2
  <2>4. QED
    BY <2>3 DEF at
<1>5. TypeOK'
  BY <1>1, <1>2, <1>4 DEF SinkholeInv, TypeOK
<1>6. HintsOK'
  BY <1>1, <1>4 DEF SinkholeInv, HintsOK
<1>7. NoHintSkipped'
  BY <1>1, <1>2 DEF SinkholeInv, NoHintSkipped, Live
<1>8. QED
  BY <1>1, <1>5, <1>6, <1>7, SameLookups DEF SinkholeInv

LEMMA WorkerTakeInv ==
  ASSUME SinkholeInv, WorkerTake
  PROVE  SinkholeInv'
<1>1. UNCHANGED <<phase, clock, hints, known, watermark, store, queue, stats, gone,
                  flusher, delivered, before, shortcut>>
  BY DEF WorkerTake, reporting
<1>2. /\ work' \in Seq(Ids) /\ Len(work') = Len(work) - 1 /\ 1 \in DOMAIN work
      /\ \A k \in DOMAIN work' : k + 1 \in DOMAIN work /\ work'[k] = work[k + 1]
      /\ Head(work) = work[1] /\ \A k \in DOMAIN work' : k \in Nat /\ k # 0
  BY DEF WorkerTake, SinkholeInv, TypeOK
<1>3. worker.pc = "get" /\ worker' = [pc |-> "lookup", obs |-> work[1], found |-> worker.found]
  BY <1>2 DEF WorkerTake, SinkholeInv, TypeOK
<1>4. work[1] \in Ids /\ Improvable(store, work[1]) /\ work[1] # None
  <2>1. work[1] \in Ids
    BY <1>2 DEF SinkholeInv, TypeOK
  <2>2. Improvable(store, work[1])
    BY <1>2 DEF SinkholeInv, LookupsOK, Lookups
  <2>3. QED
    BY <2>1, <2>2, SinkholeAssumption DEF Ids
<1>5. worker' \in [pc : {"get", "lookup", "match", "exited"},
                 obs : Ids \cup {None}, found : BOOLEAN]
  BY <1>3, <1>4 DEF SinkholeInv, TypeOK
<1>6. Len(work') <= LookupQueueMax
  BY <1>2, SinkholeAssumption DEF SinkholeInv, TypeOK
<1>7. TypeOK'
  BY <1>1, <1>2, <1>5, <1>6 DEF SinkholeInv, TypeOK
<1>8. LookupsOK'
  <2>1. \A j, k \in DOMAIN work : work[j] = work[k] => j = k
    BY DEF SinkholeInv, LookupsOK, Lookups
  <2>2. \A k \in DOMAIN work' : Improvable(store, work'[k]) /\ work'[k] # work[1]
    BY <1>2, <2>1 DEF SinkholeInv, LookupsOK, Lookups
  <2>3. \A j, k \in DOMAIN work' : work'[j] = work'[k] => j = k
    BY <1>2, <2>1
  <2>4. worker'.obs = work[1] /\ worker'.pc = "lookup"
    BY <1>3
  <2>5. QED
    BY <1>1, <1>4, <2>2, <2>3, <2>4 DEF LookupsOK, Lookups
<1>9. QED
  BY <1>1, <1>7, <1>8, SameHints DEF SinkholeInv

LEMMA WorkerLookupInv ==
  ASSUME SinkholeInv, WorkerLookup
  PROVE  SinkholeInv'
<1>1. PICK ok \in BOOLEAN :
        /\ worker' = [worker EXCEPT !.pc = "match", !.found = ok]
        /\ known' = IF ok THEN Learned(store[worker.obs].host) ELSE known
        /\ shortcut' = IF ok THEN shortcut ELSE [shortcut EXCEPT ![worker.obs] = "failed"]
  BY DEF WorkerLookup
<1>2. /\ UNCHANGED <<phase, clock, hints, watermark, store, work, queue, stats, gone,
                    flusher, delivered, before>>
      /\ worker.pc = "lookup"
  BY DEF WorkerLookup, reporting
<1>3. /\ worker' \in [pc : {"get", "lookup", "match", "exited"},
                      obs : Ids \cup {None}, found : BOOLEAN]
      /\ worker'.pc = "match" /\ worker'.obs = worker.obs
  BY <1>1 DEF SinkholeInv, TypeOK
<1>4. known \subseteq known' /\ known' \subseteq DOMAIN hints
  BY <1>1 DEF Learned, LiveFor, SinkholeInv, TypeOK
<1>5. shortcut' \in [Ids -> {"no", "inline", "failed", "drained"}]
  BY <1>1 DEF SinkholeInv, TypeOK
<1>6. TypeOK'
  BY <1>2, <1>3, <1>4, <1>5 DEF SinkholeInv, TypeOK
<1>7. LookupsOK'
  BY <1>2, <1>3 DEF SinkholeInv, LookupsOK, Lookups
<1>8. QED
  BY <1>2, <1>4, <1>6, <1>7, SameHints DEF SinkholeInv

LEMMA WorkerFinishInv ==
  ASSUME SinkholeInv, WorkerFinish
  PROVE  SinkholeInv'
<1>1. PICK conf \in Confidence : Finalise(worker.obs, conf)
  BY MatchTyped DEF WorkerFinish, Finished, Confidence
<1>2. /\ UNCHANGED <<phase, clock, hints, known, watermark, work, flusher, delivered,
                    before, shortcut>>
      /\ worker.pc = "match"
      /\ worker' = [pc |-> IF Stopping THEN "exited" ELSE "get", obs |-> None, found |-> FALSE]
  BY DEF WorkerFinish
<1>3. worker.obs \in DOMAIN store /\ Improvable(store, worker.obs)
  BY <1>2 DEF SinkholeInv, LookupsOK, Lookups, Improvable
<1>4. /\ store' \in Seq(Observation) /\ Len(store') = Len(store)
      /\ \A k \in DOMAIN store : k # worker.obs => store'[k] = store[k]
      /\ queue' \in Seq(Event) /\ Len(queue') <= TelemetryMax
      /\ stats' \in [enqueued : Nat, dropped : Nat, posted : Nat, failed : Nat]
      /\ gone' \in [Ids -> {"no", "dropped", "posted", "failed"}]
  BY <1>1, <1>3, FinaliseOK DEF SinkholeInv
<1>5. /\ worker' \in [pc : {"get", "lookup", "match", "exited"},
                      obs : Ids \cup {None}, found : BOOLEAN]
      /\ worker'.pc \in {"get", "exited"} /\ worker'.obs = None
  BY <1>2
<1>6. TypeOK'
  BY <1>2, <1>4, <1>5 DEF SinkholeInv, TypeOK
<1>7. LookupsOK'
  <2>1. \A k \in DOMAIN work : Improvable(store, work[k]) /\ work[k] # worker.obs
    BY DEF SinkholeInv, LookupsOK, Lookups
  <2>2. \A k \in DOMAIN work : Improvable(store', work[k])
    BY <1>1, <1>3, <2>1, StaysImprovable DEF SinkholeInv
  <2>3. \A k \in DOMAIN work : work[k] # None
    BY SinkholeAssumption DEF SinkholeInv, TypeOK, Ids
  <2>4. \A j, k \in DOMAIN work : work[j] = work[k] => j = k
    BY DEF SinkholeInv, LookupsOK, Lookups
  <2>5. QED
    BY <1>2, <1>5, <2>2, <2>3, <2>4 DEF LookupsOK, Lookups
<1>8. QED
  BY <1>2, <1>6, <1>7, SameHints DEF SinkholeInv

LEMMA WorkerExitInv ==
  ASSUME SinkholeInv, WorkerExit
  PROVE  SinkholeInv'
<1>1. /\ UNCHANGED <<phase, clock, hints, known, watermark, store, work, queue, stats, gone,
                    flusher, delivered, before, shortcut>>
      /\ worker.pc = "get" /\ worker' = [worker EXCEPT !.pc = "exited"]
  BY DEF WorkerExit, reporting
<1>2. /\ worker' \in [pc : {"get", "lookup", "match", "exited"},
                      obs : Ids \cup {None}, found : BOOLEAN]
      /\ worker'.pc = "exited" /\ worker'.obs = worker.obs
  BY <1>1 DEF SinkholeInv, TypeOK
<1>3. TypeOK'
  BY <1>1, <1>2 DEF SinkholeInv, TypeOK
<1>4. LookupsOK'
  BY <1>1, <1>2 DEF SinkholeInv, LookupsOK, Lookups
<1>5. QED
  BY <1>1, <1>3, <1>4, SameHints DEF SinkholeInv

LEMMA FlusherGetInv ==
  ASSUME SinkholeInv, FlusherGet
  PROVE  SinkholeInv'
<1>1. /\ UNCHANGED <<phase, clock, hints, known, watermark, store, work, worker, stats,
                    gone, delivered, before, shortcut>>
      /\ queue # <<>> /\ queue' = Tail(queue) /\ Len(flusher.batch) < BatchSize
      /\ flusher' = [flusher EXCEPT !.batch = Append(flusher.batch, Head(queue))]
  BY DEF FlusherGet
<1>2. queue' \in Seq(Event) /\ Len(queue') <= TelemetryMax /\ Head(queue) \in Event
  <2>1. \A q \in Seq(Event) : q # <<>> => /\ Tail(q) \in Seq(Event) /\ Head(q) \in Event
                                         /\ Len(Tail(q)) = Len(q) - 1 /\ Len(q) \in Nat
    OBVIOUS
  <2>2. queue \in Seq(Event) /\ Len(queue) <= TelemetryMax
    BY DEF SinkholeInv, TypeOK
  <2>3. QED
    BY <1>1, <2>1, <2>2, SinkholeAssumption
<1>3. flusher.batch \in Seq(Event)
  BY DEF SinkholeInv, TypeOK
<1>4. /\ Append(flusher.batch, Head(queue)) \in Seq(Event)
      /\ Len(Append(flusher.batch, Head(queue))) <= BatchSize
  BY <1>1, <1>2, <1>3, SinkholeAssumption
<1>5. /\ flusher' \in [pc : {"collect", "post", "final", "last", "exited"}, batch : Seq(Event)]
      /\ Len(flusher'.batch) <= BatchSize
  BY <1>1, <1>4 DEF SinkholeInv, TypeOK
<1>6. TypeOK'
  BY <1>1, <1>2, <1>5 DEF SinkholeInv, TypeOK
<1>7. QED
  BY <1>1, <1>6, SameHints, SameLookups DEF SinkholeInv

LEMMA FlusherEnoughInv ==
  ASSUME SinkholeInv, FlusherEnough
  PROVE  SinkholeInv'
<1>1. UNCHANGED <<phase, clock, hints, known, watermark, store, work, worker, queue, stats,
                  gone, delivered, before, shortcut>>
  BY DEF FlusherEnough, reporting
<1>2. PICK pc \in {"post", "last", "exited", "final"} : flusher' = [flusher EXCEPT !.pc = pc]
  BY DEF FlusherEnough
<1>3. /\ flusher' \in [pc : {"collect", "post", "final", "last", "exited"}, batch : Seq(Event)]
      /\ flusher'.batch = flusher.batch
  BY <1>2 DEF SinkholeInv, TypeOK
<1>4. TypeOK'
  BY <1>1, <1>3 DEF SinkholeInv, TypeOK
<1>5. QED
  BY <1>1, <1>4, SameHints, SameLookups DEF SinkholeInv

LEMMA FlusherPostInv ==
  ASSUME SinkholeInv, FlusherPost
  PROVE  SinkholeInv'
<1> DEFINE sent == {flusher.batch[k] : k \in DOMAIN flusher.batch}
<1>1. PICK answer \in {"posted", "failed"}, arrived \in BOOLEAN :
        /\ delivered' = IF arrived THEN delivered \cup sent ELSE delivered
        /\ gone' = [i \in Ids |-> IF \E e \in sent : e.obs = i THEN answer ELSE gone[i]]
        /\ stats' = IF answer = "posted"
                    THEN [stats EXCEPT !.posted = @ + Len(flusher.batch)]
                    ELSE [stats EXCEPT !.failed = @ + Failure(flusher.batch)]
  BY DEF FlusherPost
<1>2. /\ UNCHANGED <<phase, clock, hints, known, watermark, store, work, worker, queue,
                    before, shortcut>>
      /\ flusher' = [batch |-> <<>>,
                     pc |-> IF flusher.pc = "last" THEN "exited"
                            ELSE IF Told THEN "final" ELSE "collect"]
  BY DEF FlusherPost
<1>3. flusher.batch \in Seq(Event)
  BY DEF SinkholeInv, TypeOK
<1>4. delivered' \subseteq Event
  BY <1>1, <1>3 DEF SinkholeInv, TypeOK
<1>5. gone' \in [Ids -> {"no", "dropped", "posted", "failed"}]
  BY <1>1 DEF SinkholeInv, TypeOK
<1>6. stats' \in [enqueued : Nat, dropped : Nat, posted : Nat, failed : Nat]
  <2>1. Len(flusher.batch) \in Nat
    BY <1>3
  <2> DEFINE Stats == [enqueued : Nat, dropped : Nat, posted : Nat, failed : Nat]
  <2>2. \A t \in Stats, n \in Nat : /\ [t EXCEPT !.posted = @ + n] \in Stats
                                   /\ [t EXCEPT !.failed = @ + n] \in Stats
    OBVIOUS
  <2>3. stats \in Stats
    BY DEF SinkholeInv, TypeOK
  <2>4. \/ stats' = [stats EXCEPT !.posted = @ + Len(flusher.batch)]
        \/ stats' = [stats EXCEPT !.failed = @ + Len(flusher.batch)]
    BY <1>1 DEF Failure
  <2>5. QED
    BY <2>1, <2>2, <2>3, <2>4
<1>7. /\ flusher' \in [pc : {"collect", "post", "final", "last", "exited"}, batch : Seq(Event)]
      /\ Len(flusher'.batch) <= BatchSize
  <2>1. flusher'.batch = <<>> /\ flusher' = [pc |-> flusher'.pc, batch |-> <<>>]
        /\ flusher'.pc \in {"exited", "final", "collect"}
    BY <1>2
  <2>2. <<>> \in Seq(Event) /\ Len(<<>>) = 0
    OBVIOUS
  <2>3. \A pc \in {"exited", "final", "collect"}, batch \in Seq(Event) :
          [pc |-> pc, batch |-> batch]
            \in [pc : {"collect", "post", "final", "last", "exited"}, batch : Seq(Event)]
    OBVIOUS
  <2>4. flusher' \in [pc : {"collect", "post", "final", "last", "exited"}, batch : Seq(Event)]
    BY <2>1, <2>2, <2>3, Zenon
  <2>5. Len(flusher'.batch) <= BatchSize
    BY <2>1, <2>2, SinkholeAssumption
  <2>6. QED
    BY <2>4, <2>5
<1>8. TypeOK'
  BY <1>2, <1>4, <1>5, <1>6, <1>7 DEF SinkholeInv, TypeOK
<1>9. QED
  BY <1>2, <1>8, SameHints, SameLookups DEF SinkholeInv

(* A step of the teardown that only says where it is.                      *)
LEMMA MoveInv ==
  ASSUME SinkholeInv, NEW next \in {"closing", "worker", "drain", "telemetry", "stopped"},
         MoveTo(next)
  PROVE  SinkholeInv'
<1>1. /\ UNCHANGED <<clock, hints, known, watermark, store, work, worker, queue, stats, gone,
                    flusher, delivered, before, shortcut>>
      /\ phase' = next
  BY DEF MoveTo, reporting
<1>2. TypeOK'
  BY <1>1 DEF SinkholeInv, TypeOK
<1>3. QED
  BY <1>1, <1>2, SameHints, SameLookups DEF SinkholeInv

LEMMA DrainInv ==
  ASSUME SinkholeInv, Drain
  PROVE  SinkholeInv'
<1>1. /\ UNCHANGED <<phase, clock, hints, known, watermark, worker, flusher, delivered, before>>
      /\ Finalise(Head(work), "none")
      /\ shortcut' = [shortcut EXCEPT ![Head(work)] = "drained"]
  BY DEF Drain
<1>2. /\ work' \in Seq(Ids) /\ Len(work') = Len(work) - 1 /\ 1 \in DOMAIN work
      /\ \A k \in DOMAIN work' : k + 1 \in DOMAIN work /\ work'[k] = work[k + 1]
      /\ Head(work) = work[1] /\ \A k \in DOMAIN work' : k \in Nat /\ k # 0
  BY DEF Drain, SinkholeInv, TypeOK
<1>3. work[1] \in DOMAIN store /\ Improvable(store, work[1]) /\ work[1] # worker.obs
  BY <1>2 DEF SinkholeInv, LookupsOK, Lookups, Improvable
<1>4. Finalise(work[1], "none")
  BY <1>1, <1>2
<1>5. /\ store' \in Seq(Observation) /\ Len(store') = Len(store)
      /\ \A k \in DOMAIN store : k # work[1] => store'[k] = store[k]
      /\ queue' \in Seq(Event) /\ Len(queue') <= TelemetryMax
      /\ stats' \in [enqueued : Nat, dropped : Nat, posted : Nat, failed : Nat]
      /\ gone' \in [Ids -> {"no", "dropped", "posted", "failed"}]
  <2>1. "none" \in Confidence
    BY DEF Confidence
  <2>2. QED
    BY <1>3, <1>4, <2>1, FinaliseOK DEF SinkholeInv
<1>6. Len(work') <= LookupQueueMax
  BY <1>2, SinkholeAssumption DEF SinkholeInv, TypeOK
<1>7. shortcut' \in [Ids -> {"no", "inline", "failed", "drained"}]
  BY <1>1 DEF SinkholeInv, TypeOK
<1>8. TypeOK'
  BY <1>1, <1>2, <1>5, <1>6, <1>7 DEF SinkholeInv, TypeOK
<1>9. LookupsOK'
  <2>1. \A j, k \in DOMAIN work : work[j] = work[k] => j = k
    BY DEF SinkholeInv, LookupsOK, Lookups
  <2>2. \A k \in DOMAIN work' : Improvable(store, work'[k]) /\ work'[k] # work[1]
                               /\ work'[k] # worker.obs
    BY <1>2, <2>1 DEF SinkholeInv, LookupsOK, Lookups
  <2>3. \A j, k \in DOMAIN work' : work'[j] = work'[k] => j = k
    BY <1>2, <2>1
  <2>4. "none" \in Confidence
    BY DEF Confidence
  <2>5. \A k \in DOMAIN work' : Improvable(store', work'[k])
    BY <1>3, <1>4, <2>2, <2>4, StaysImprovable DEF SinkholeInv
  <2>6. worker.obs # None => Improvable(store', worker.obs)
    BY <1>3, <1>4, <2>4, StaysImprovable DEF SinkholeInv, LookupsOK, Lookups
  <2>7. worker.pc \in {"lookup", "match"} <=> worker.obs # None
    BY DEF SinkholeInv, LookupsOK, Lookups
  <2>8. QED
    BY <1>1, <2>2, <2>3, <2>5, <2>6, <2>7 DEF LookupsOK, Lookups
<1>10. QED
  BY <1>1, <1>8, <1>9, SameHints DEF SinkholeInv

(* The invariant holds at first,                                           *)
LEMMA SinkholeInit ==
  Init => SinkholeInv
<1> SUFFICES ASSUME Init PROVE SinkholeInv
  OBVIOUS
<1>1. /\ hints \in Seq(Hint) /\ DOMAIN hints = {} /\ store \in Seq(Observation) /\ Len(store) = 0
      /\ work \in Seq(Ids) /\ Len(work) = 0 /\ DOMAIN work = {}
      /\ queue \in Seq(Event) /\ Len(queue) = 0 /\ before \in Seq(Nat)
  BY DEF Init
<1>2. /\ flusher \in [pc : {"collect", "post", "final", "last", "exited"}, batch : Seq(Event)]
      /\ Len(flusher.batch) = 0
  <2>1. <<>> \in Seq(Event) /\ Len(<<>>) = 0
    OBVIOUS
  <2>2. flusher = [pc |-> "collect", batch |-> <<>>]
    BY DEF Init
  <2>3. QED
    BY <2>1, <2>2
<1>3. /\ gone \in [Ids -> {"no", "dropped", "posted", "failed"}]
      /\ shortcut \in [Ids -> {"no", "inline", "failed", "drained"}]
  BY DEF Init
<1>4. /\ worker \in [pc : {"get", "lookup", "match", "exited"}, obs : Ids \cup {None}, found : BOOLEAN]
      /\ worker.pc = "get" /\ worker.obs = None
  BY DEF Init
<1>5. stats \in [enqueued : Nat, dropped : Nat, posted : Nat, failed : Nat]
  BY DEF Init
<1>6. TypeOK
  BY <1>1, <1>2, <1>3, <1>4, <1>5, SinkholeAssumption DEF Init, TypeOK
<1>7. LookupsOK
  BY <1>1, <1>4 DEF LookupsOK, Lookups
<1>8. HintsOK /\ NoHintSkipped
  BY <1>1 DEF Init, HintsOK, NoHintSkipped
<1>9. QED
  BY <1>6, <1>7, <1>8 DEF SinkholeInv

(* and every step keeps it.                                                *)
LEMMA SinkholeStep ==
  SinkholeInv /\ [Next]_vars => SinkholeInv'
<1> SUFFICES ASSUME SinkholeInv, [Next]_vars PROVE SinkholeInv'
  OBVIOUS
<1>1. CASE \E host \in Hosts : Announce(host)
  BY <1>1, AnnounceInv
<1>2. CASE \E host \in Hosts \cup {None}, owned \in BOOLEAN : Record(host, owned)
  BY <1>2, RecordInv
<1>3. CASE Tick
  BY <1>3, TickInv
<1>4. CASE Poll
  BY <1>4, PollInv
<1>5. CASE Worker
  BY <1>5, WorkerTakeInv, WorkerLookupInv, WorkerFinishInv, WorkerExitInv DEF Worker
<1>6. CASE Flusher
  BY <1>6, FlusherGetInv, FlusherEnoughInv, FlusherPostInv DEF Flusher
<1>7. CASE Signal
  BY <1>7, MoveInv DEF Signal
<1>8. CASE Teardown
  BY <1>8, MoveInv, DrainInv DEF Teardown, Closed, WorkerJoined, Drained, Stopped
<1>9. CASE UNCHANGED vars
  <2>1. UNCHANGED <<phase, clock, hints, known, watermark, store, work, worker, queue,
                    flusher, stats, gone, delivered, before, shortcut>>
    BY <1>9 DEF vars
  <2>2. TypeOK'
    BY <2>1 DEF SinkholeInv, TypeOK
  <2>3. QED
    BY <2>1, <2>2, SameHints, SameLookups DEF SinkholeInv
<1>10. QED
  BY <1>1, <1>2, <1>3, <1>4, <1>5, <1>6, <1>7, <1>8, <1>9 DEF Next

(* The queues stay within their limits and every value in its type.        *)
THEOREM SinkholeTypeCorrect == Spec => []TypeOK
<1>1. SinkholeInv => TypeOK
  BY DEF SinkholeInv
<1>2. QED
  BY <1>1, SinkholeInit, SinkholeStep, PTL DEF Spec

(* The poller leaves no gap: a live hint it has not brought is past its    *)
(* watermark, also one registered in the second of its last answer.        *)
THEOREM PollerLeavesNoGap == Spec => []NoHintSkipped
<1>1. SinkholeInv => NoHintSkipped
  BY DEF SinkholeInv
<1>2. QED
  BY <1>1, SinkholeInit, SinkholeStep, PTL DEF Spec

(* An attribution that arrives late is at least as good as the one stored, *)
(* when that one could be improved.                                        *)
LEMMA FinaliseImproves ==
  ASSUME SinkholeInv, NEW i \in DOMAIN store, Improvable(store, i),
         NEW conf \in Confidence, Finalise(i, conf)
  PROVE  \A k \in DOMAIN store : Rank(store[k].conf) <= Rank(store'[k].conf)
<1>1. /\ \A k \in DOMAIN store : k # i => store'[k] = store[k]
      /\ store'[i].conf = Improved(i, conf)
  BY FinaliseOK DEF SinkholeInv
<1>2. store[i].conf \in {"low", "none"}
  <2>1. store[i] \in Observation
    BY DEF SinkholeInv, TypeOK
  <2>2. QED
    BY <2>1 DEF Improvable, Observation, Confidence
<1>3. Rank(store[i].conf) <= Rank(store'[i].conf)
  BY <1>1, <1>2 DEF Improved, Rank, Confidence
<1>4. \A c : Rank(c) <= Rank(c)
  BY DEF Rank
<1>5. QED
  BY <1>1, <1>3, <1>4

(* An attribution is never replaced by a weaker one, by whichever of the   *)
(* recorder, the worker and the teardown reports the observation.          *)
THEOREM ConfidenceKept == Spec => ConfidenceNeverDrops
<1> DEFINE Kept == \A i \in DOMAIN store : Rank(store[i].conf) <= Rank(store'[i].conf)
<1>1. SinkholeInv /\ [Next]_vars => [Kept]_vars
  <2> SUFFICES ASSUME SinkholeInv, Next PROVE Kept
    OBVIOUS
  <2>1. \A c : Rank(c) <= Rank(c)
    BY DEF Rank
  <2>2. CASE UNCHANGED store
    BY <2>1, <2>2
  <2>3. CASE \E host \in Hosts \cup {None}, owned \in BOOLEAN : Record(host, owned)
    <3>1. PICK o : store' = Append(store, o)
      BY <2>3 DEF Record
    <3>2. \A i \in DOMAIN store : store'[i] = store[i]
      BY <3>1 DEF SinkholeInv, TypeOK
    <3>3. QED
      BY <2>1, <3>2
  <2>4. CASE WorkerFinish
    <3>1. PICK conf \in Confidence : Finalise(worker.obs, conf)
      BY <2>4, MatchTyped DEF WorkerFinish, Finished, Confidence
    <3>2. worker.obs \in DOMAIN store /\ Improvable(store, worker.obs)
      BY <2>4 DEF WorkerFinish, SinkholeInv, LookupsOK, Lookups, Improvable
    <3>3. QED
      BY <3>1, <3>2, FinaliseImproves
  <2>5. CASE Drain
    <3>1. Head(work) = work[1] /\ 1 \in DOMAIN work /\ Finalise(Head(work), "none")
      BY <2>5 DEF Drain, SinkholeInv, TypeOK
    <3>2. Finalise(work[1], "none")
      BY <3>1
    <3>3. work[1] \in DOMAIN store /\ Improvable(store, work[1])
      BY <3>1 DEF SinkholeInv, LookupsOK, Lookups, Improvable
    <3>4. "none" \in Confidence
      BY DEF Confidence
    <3>5. QED
      BY <3>2, <3>3, <3>4, FinaliseImproves
  <2>6. QED
    BY <2>2, <2>3, <2>4, <2>5
       DEF Next, Announce, Tick, Poll, Worker, WorkerTake, WorkerLookup, WorkerExit, Flusher,
           FlusherGet, FlusherEnough, FlusherPost, Signal, Teardown, Closed, WorkerJoined,
           Drained, Stopped, MoveTo
<1>2. QED
  BY <1>1, SinkholeInit, SinkholeStep, PTL DEF Spec, ConfidenceNeverDrops
-----------------------------------------------------------------------------
(* Where an observation can be on its way out, as sets of observations:    *)
(* waiting for a lookup, being looked up, queued as an event, in the       *)
(* flusher's hands, or gone.  The five share out what is in the store.     *)
Line(s) == {s[k] : k \in DOMAIN s}
Obs(s) == {s[k].obs : k \in DOMAIN s}
Looked(at) == IF at.obs = None THEN {} ELSE {at.obs}
Gone(g) == {i \in Ids : g[i] # "no"}

SharedOut(W, L, Q, B, G, D) ==
  /\ W \cup L \cup Q \cup B \cup G = D
  /\ W \cap (L \cup Q \cup B \cup G) = {} /\ L \cap (Q \cup B \cup G) = {}
  /\ Q \cap (B \cup G) = {} /\ B \cap G = {}

EachOnce(s) == \A j, k \in DOMAIN s : s[j].obs = s[k].obs => j = k

OnePlace ==
  /\ EachOnce(queue) /\ EachOnce(flusher.batch)
  /\ SharedOut(Line(work), Looked(worker), Obs(queue), Obs(flusher.batch), Gone(gone),
               DOMAIN store)

(* One at the end of a queue.                                              *)
LEMMA OneMore ==
  ASSUME NEW s \in Seq(Event), NEW e \in Event, EachOnce(s), e.obs \notin Obs(s)
  PROVE  EachOnce(Append(s, e)) /\ Obs(Append(s, e)) = Obs(s) \cup {e.obs}
<1> DEFINE t == Append(s, e)
<1>1. /\ \A k \in DOMAIN s : k \in DOMAIN t /\ t[k] = s[k]
      /\ \A k \in DOMAIN t : k \in DOMAIN s \/ k = Len(s) + 1
      /\ Len(s) + 1 \in DOMAIN t /\ t[Len(s) + 1] = e
  OBVIOUS
<1> HIDE DEF t
<1>2. EachOnce(t)
  BY <1>1 DEF EachOnce, Obs
<1>3. Obs(t) = Obs(s) \cup {e.obs}
  BY <1>1 DEF Obs
<1>4. QED
  BY <1>2, <1>3 DEF t

(* One less at its head.                                                   *)
LEMMA OneLess ==
  ASSUME NEW s \in Seq(Event), s # <<>>, EachOnce(s)
  PROVE  /\ EachOnce(Tail(s)) /\ Head(s).obs \notin Obs(Tail(s))
         /\ Obs(s) = Obs(Tail(s)) \cup {Head(s).obs}
<1> DEFINE t == Tail(s)
<1>1. /\ \A k \in DOMAIN t : k + 1 \in DOMAIN s /\ t[k] = s[k + 1] /\ k \in Nat /\ k # 0
      /\ \A k \in DOMAIN s : k = 1 \/ (k - 1 \in DOMAIN t /\ t[k - 1] = s[k])
      /\ 1 \in DOMAIN s /\ Head(s) = s[1]
  OBVIOUS
<1> HIDE DEF t
<1>2. EachOnce(t) /\ s[1].obs \notin Obs(t)
  BY <1>1 DEF EachOnce, Obs
<1>3. Obs(s) = Obs(t) \cup {s[1].obs}
  BY <1>1 DEF Obs
<1>4. QED
  BY <1>1, <1>2, <1>3 DEF t

(* The same of the observations that wait for a lookup.                    *)
LEMMA LineMore ==
  ASSUME NEW s \in Seq(Ids), NEW i \in Ids
  PROVE  Line(Append(s, i)) = Line(s) \cup {i}
<1> DEFINE t == Append(s, i)
<1>1. /\ \A k \in DOMAIN s : k \in DOMAIN t /\ t[k] = s[k]
      /\ \A k \in DOMAIN t : k \in DOMAIN s \/ k = Len(s) + 1
      /\ Len(s) + 1 \in DOMAIN t /\ t[Len(s) + 1] = i
  OBVIOUS
<1> HIDE DEF t
<1>2. Line(t) = Line(s) \cup {i}
  BY <1>1 DEF Line
<1>3. QED
  BY <1>2 DEF t

LEMMA LineLess ==
  ASSUME NEW s \in Seq(Ids), s # <<>>, \A j, k \in DOMAIN s : s[j] = s[k] => j = k
  PROVE  Line(s) = Line(Tail(s)) \cup {Head(s)} /\ Head(s) \notin Line(Tail(s))
<1> DEFINE t == Tail(s)
<1>1. /\ \A k \in DOMAIN t : k + 1 \in DOMAIN s /\ t[k] = s[k + 1] /\ k \in Nat /\ k # 0
      /\ \A k \in DOMAIN s : k = 1 \/ (k - 1 \in DOMAIN t /\ t[k - 1] = s[k])
      /\ 1 \in DOMAIN s /\ Head(s) = s[1]
  OBVIOUS
<1> HIDE DEF t
<1>2. Line(s) = Line(t) \cup {s[1]} /\ s[1] \notin Line(t)
  BY <1>1 DEF Line
<1>3. QED
  BY <1>1, <1>2 DEF t

(* What is submitted and was nowhere beyond the worker's queue is in the   *)
(* telemetry queue or gone, and the rest is where it was.                  *)
LEMMA SubmitOnce ==
  ASSUME TypeOK, NEW i \in Ids, NEW conf \in Confidence, Submit(i, conf),
         EachOnce(queue), i \notin Obs(queue)
  PROVE  /\ EachOnce(queue')
         /\ \/ Obs(queue') = Obs(queue) \cup {i} /\ Gone(gone') = Gone(gone)
            \/ Obs(queue') = Obs(queue) /\ Gone(gone') = Gone(gone) \cup {i}
<1> DEFINE e == [obs |-> i, conf |-> conf]
<1>1. e \in Event /\ e.obs = i
  BY DEF Event
<1>2. /\ queue' = IF Room THEN Append(queue, e) ELSE queue
      /\ gone' = IF Room THEN gone ELSE [gone EXCEPT ![i] = "dropped"]
  BY DEF Submit
<1> HIDE DEF e
<1>3. CASE Room
  BY <1>1, <1>2, <1>3, OneMore DEF TypeOK
<1>4. CASE ~Room
  <2>1. queue' = queue /\ gone' = [gone EXCEPT ![i] = "dropped"]
    BY <1>2, <1>4
  <2>2. Gone(gone') = Gone(gone) \cup {i}
    BY <2>1 DEF Gone, TypeOK
  <2>3. QED
    BY <2>1, <2>2
<1>5. QED
  BY <1>3, <1>4

(* Nothing that says where an observation is has changed.                  *)
LEMMA SamePlaces ==
  ASSUME OnePlace, UNCHANGED <<queue, work, gone>>, flusher'.batch = flusher.batch,
         worker'.obs = worker.obs, DOMAIN store' = DOMAIN store
  PROVE  OnePlace'
<1>1. Looked(worker') = Looked(worker)
  BY DEF Looked
<1>2. QED
  BY <1>1 DEF OnePlace

(* A recorded observation waits for a lookup or is reported.               *)
LEMMA RecordOnce ==
  ASSUME SinkholeInv, OnePlace, NEW host \in Hosts \cup {None}, NEW owned \in BOOLEAN,
         Record(host, owned)
  PROVE  OnePlace'
<1> DEFINE i == Len(store) + 1
<1>1. PICK c \in Confidence :
        LET conf == IF c = "none" /\ owned THEN "high" ELSE c IN
        /\ store' = Append(store, [host |-> host, conf |-> conf])
        /\ IF Deferred(host, conf)
           THEN work' = Offered(i) /\ UNCHANGED reporting
           ELSE Submit(i, conf) /\ UNCHANGED work
  BY MatchTyped DEF Record, Confidence
<1> DEFINE conf == IF c = "none" /\ owned THEN "high" ELSE c
<1>2. conf \in Confidence /\ i \in Ids
  BY SinkholeAssumption DEF Record, SinkholeInv, TypeOK, Ids, Confidence
<1>3. worker' = worker /\ flusher' = flusher
  BY DEF Record
<1>4. DOMAIN store' = DOMAIN store \cup {i} /\ i \notin DOMAIN store
  <2>1. PICK o : store' = Append(store, o)
    BY <1>1
  <2>2. QED
    BY <2>1 DEF SinkholeInv, TypeOK
<1>5. work \in Seq(Ids)
  BY DEF SinkholeInv, TypeOK
<1> HIDE DEF i
<1>6. CASE Deferred(host, conf)
  <2>1. work' = Append(work, i) /\ UNCHANGED <<queue, stats, gone>>
    BY <1>1, <1>6 DEF Deferred, Offered, HasRoom, reporting
  <2>2. Line(work') = Line(work) \cup {i}
    BY <1>2, <1>5, <2>1, LineMore
  <2>3. SharedOut(Line(work'), Looked(worker), Obs(queue), Obs(flusher.batch), Gone(gone),
                  DOMAIN store')
    BY <1>4, <2>2 DEF OnePlace, SharedOut
  <2>4. QED
    BY <1>3, <2>1, <2>3 DEF OnePlace
<1>7. CASE ~Deferred(host, conf)
  <2>1. Submit(i, conf) /\ UNCHANGED work
    BY <1>1, <1>7
  <2>2. EachOnce(queue) /\ i \notin Obs(queue)
    BY <1>4 DEF OnePlace, SharedOut
  <2>3. /\ EachOnce(queue')
        /\ \/ Obs(queue') = Obs(queue) \cup {i} /\ Gone(gone') = Gone(gone)
           \/ Obs(queue') = Obs(queue) /\ Gone(gone') = Gone(gone) \cup {i}
    BY <1>2, <2>1, <2>2, SubmitOnce DEF SinkholeInv
  <2>4. SharedOut(Line(work), Looked(worker), Obs(queue'), Obs(flusher.batch), Gone(gone'),
                  DOMAIN store')
    BY <1>4, <2>3 DEF OnePlace, SharedOut
  <2>5. QED
    BY <1>3, <2>1, <2>3, <2>4 DEF OnePlace
<1>8. QED
  BY <1>6, <1>7

(* The worker takes one over.                                              *)
LEMMA WorkerTakeOnce ==
  ASSUME SinkholeInv, OnePlace, WorkerTake
  PROVE  OnePlace'
<1>1. /\ UNCHANGED <<store, queue, gone, flusher>> /\ work # <<>> /\ work' = Tail(work)
      /\ worker.pc = "get" /\ worker' = [worker EXCEPT !.pc = "lookup", !.obs = Head(work)]
  BY DEF WorkerTake, reporting
<1>2. work \in Seq(Ids) /\ Head(work) \in Ids
  BY <1>1 DEF SinkholeInv, TypeOK
<1>3. Line(work) = Line(work') \cup {Head(work)} /\ Head(work) \notin Line(work')
  BY <1>1, <1>2, LineLess DEF SinkholeInv, LookupsOK, Lookups
<1>4. Looked(worker) = {}
  BY <1>1 DEF Looked, SinkholeInv, LookupsOK, Lookups
<1>5. Looked(worker') = {Head(work)}
  <2>1. worker'.obs = Head(work)
    BY <1>1 DEF SinkholeInv, TypeOK
  <2>2. QED
    BY <1>2, <2>1, SinkholeAssumption DEF Looked, Ids
<1>6. SharedOut(Line(work'), Looked(worker'), Obs(queue), Obs(flusher.batch), Gone(gone),
                DOMAIN store)
  BY <1>3, <1>4, <1>5 DEF OnePlace, SharedOut
<1>7. QED
  BY <1>1, <1>6 DEF OnePlace

(* The worker reports what it had looked up.                               *)
LEMMA WorkerFinishOnce ==
  ASSUME SinkholeInv, OnePlace, WorkerFinish
  PROVE  OnePlace'
<1> DEFINE i == worker.obs
<1>1. PICK conf \in Confidence : Finalise(i, conf)
  BY MatchTyped DEF WorkerFinish, Finished, Confidence
<1>2. /\ UNCHANGED <<work, flusher>> /\ worker.pc = "match"
      /\ worker' = [pc |-> IF Stopping THEN "exited" ELSE "get", obs |-> None, found |-> FALSE]
  BY DEF WorkerFinish
<1>3. i \in DOMAIN store /\ i # None /\ i \in Ids
  BY <1>2, SinkholeAssumption DEF SinkholeInv, LookupsOK, Lookups, Improvable, TypeOK, Ids
<1>4. Looked(worker) = {i} /\ Looked(worker') = {}
  BY <1>2, <1>3 DEF Looked
<1>5. Improved(i, conf) \in Confidence /\ Submit(i, Improved(i, conf))
  <2>1. store[i] \in Observation
    BY <1>3 DEF SinkholeInv, TypeOK
  <2>2. QED
    BY <1>1, <2>1 DEF Finalise, Reported, Improved, Observation
<1>6. DOMAIN store' = DOMAIN store
  BY <1>1 DEF Finalise
<1>7. EachOnce(queue) /\ i \notin Obs(queue)
  BY <1>4 DEF OnePlace, SharedOut
<1> HIDE DEF i
<1>8. /\ EachOnce(queue')
      /\ \/ Obs(queue') = Obs(queue) \cup {i} /\ Gone(gone') = Gone(gone)
         \/ Obs(queue') = Obs(queue) /\ Gone(gone') = Gone(gone) \cup {i}
  BY <1>3, <1>5, <1>7, SubmitOnce DEF SinkholeInv
<1>9. SharedOut(Line(work), Looked(worker'), Obs(queue'), Obs(flusher.batch), Gone(gone'),
                DOMAIN store)
  BY <1>4, <1>8 DEF OnePlace, SharedOut
<1>10. QED
  BY <1>2, <1>6, <1>8, <1>9 DEF OnePlace

(* So does the teardown, beside a worker that has outlived its join.       *)
LEMMA DrainOnce ==
  ASSUME SinkholeInv, OnePlace, Drain
  PROVE  OnePlace'
<1> DEFINE i == Head(work)
<1>1. UNCHANGED <<worker, flusher>> /\ work # <<>> /\ work' = Tail(work) /\ Finalise(i, "none")
  BY DEF Drain
<1>2. work \in Seq(Ids) /\ i \in Ids
  BY <1>1 DEF SinkholeInv, TypeOK
<1>3. Line(work) = Line(work') \cup {i} /\ i \notin Line(work')
  BY <1>1, <1>2, LineLess DEF SinkholeInv, LookupsOK, Lookups
<1>4. i \in DOMAIN store
  BY <1>3 DEF OnePlace, SharedOut
<1>5. store[i].conf \in Confidence /\ Submit(i, store[i].conf) /\ DOMAIN store' = DOMAIN store
  <2>1. store[i] \in Observation
    BY <1>4 DEF SinkholeInv, TypeOK
  <2>2. QED
    BY <1>1, <2>1 DEF Finalise, Reported, Improved, Observation
<1>6. EachOnce(queue) /\ i \notin Obs(queue)
  BY <1>3 DEF OnePlace, SharedOut
<1> HIDE DEF i
<1>7. /\ EachOnce(queue')
      /\ \/ Obs(queue') = Obs(queue) \cup {i} /\ Gone(gone') = Gone(gone)
         \/ Obs(queue') = Obs(queue) /\ Gone(gone') = Gone(gone) \cup {i}
  BY <1>2, <1>5, <1>6, SubmitOnce DEF SinkholeInv
<1>8. SharedOut(Line(work'), Looked(worker), Obs(queue'), Obs(flusher.batch), Gone(gone'),
                DOMAIN store)
  BY <1>3, <1>7 DEF OnePlace, SharedOut
<1>9. QED
  BY <1>1, <1>5, <1>7, <1>8 DEF OnePlace

(* The flusher takes an event over,                                        *)
LEMMA FlusherGetOnce ==
  ASSUME SinkholeInv, OnePlace, FlusherGet
  PROVE  OnePlace'
<1> DEFINE e == Head(queue)
           batch == flusher.batch
<1>1. /\ UNCHANGED <<store, work, worker, gone>> /\ queue # <<>> /\ queue' = Tail(queue)
      /\ flusher' = [flusher EXCEPT !.batch = Append(batch, e)]
  BY DEF FlusherGet
<1>2. queue \in Seq(Event) /\ e \in Event /\ batch \in Seq(Event)
  <2>1. \A q \in Seq(Event) : q # <<>> => Head(q) \in Event
    OBVIOUS
  <2>2. QED
    BY <1>1, <2>1 DEF SinkholeInv, TypeOK
<1>3. flusher'.batch = Append(batch, e)
  BY <1>1 DEF SinkholeInv, TypeOK
<1>4. EachOnce(queue') /\ e.obs \notin Obs(queue') /\ Obs(queue) = Obs(queue') \cup {e.obs}
  BY <1>1, <1>2, OneLess DEF OnePlace
<1>5. EachOnce(batch) /\ e.obs \notin Obs(batch)
  BY <1>4 DEF OnePlace, SharedOut
<1> HIDE DEF e, batch
<1>6. EachOnce(flusher'.batch) /\ Obs(flusher'.batch) = Obs(batch) \cup {e.obs}
  BY <1>2, <1>3, <1>5, OneMore
<1>7. SharedOut(Line(work), Looked(worker), Obs(queue'), Obs(flusher'.batch), Gone(gone),
                DOMAIN store)
  BY <1>4, <1>5, <1>6 DEF OnePlace, SharedOut, batch
<1>8. QED
  BY <1>1, <1>4, <1>6, <1>7 DEF OnePlace

(* and what it posts is gone, whatever the answer.                         *)
LEMMA FlusherPostOnce ==
  ASSUME SinkholeInv, OnePlace, FlusherPost
  PROVE  OnePlace'
<1> DEFINE sent == {flusher.batch[k] : k \in DOMAIN flusher.batch}
<1>1. PICK answer \in {"posted", "failed"} :
        gone' = [i \in Ids |-> IF \E e \in sent : e.obs = i THEN answer ELSE gone[i]]
  BY DEF FlusherPost
<1>2. UNCHANGED <<store, work, worker, queue>> /\ flusher'.batch = <<>>
  BY DEF FlusherPost
<1>3. Obs(flusher.batch) \subseteq Ids
  <2>1. \A k \in DOMAIN flusher.batch : flusher.batch[k] \in Event
    BY DEF SinkholeInv, TypeOK
  <2>2. QED
    BY <2>1 DEF Obs, Event
<1>4. \A i : (\E e \in sent : e.obs = i) <=> i \in Obs(flusher.batch)
  BY DEF Obs
<1>5. Gone(gone') = Gone(gone) \cup Obs(flusher.batch)
  <2> HIDE DEF sent
  <2>1. gone' = [i \in Ids |-> IF i \in Obs(flusher.batch) THEN answer ELSE gone[i]]
    BY <1>1, <1>4
  <2>2. QED
    BY <1>3, <2>1 DEF Gone
<1>6. Obs(<<>>) = {} /\ EachOnce(<<>>)
  BY DEF Obs, EachOnce
<1>7. SharedOut(Line(work), Looked(worker), Obs(queue), Obs(flusher'.batch), Gone(gone'),
                DOMAIN store)
  BY <1>2, <1>5, <1>6 DEF OnePlace, SharedOut
<1>8. QED
  BY <1>2, <1>6, <1>7 DEF OnePlace

(* Every step leaves each observation in one place.                        *)
LEMMA OnePlaceStep ==
  SinkholeInv /\ OnePlace /\ [Next]_vars => OnePlace'
<1> SUFFICES ASSUME SinkholeInv, OnePlace, [Next]_vars PROVE OnePlace'
  OBVIOUS
<1>1. CASE UNCHANGED <<queue, work, gone, flusher, worker, store>>
  BY <1>1, SamePlaces
<1>2. CASE WorkerLookup
  <2>1. worker'.obs = worker.obs
    BY <1>2 DEF WorkerLookup, SinkholeInv, TypeOK
  <2>2. QED
    BY <1>2, <2>1, SamePlaces DEF WorkerLookup, reporting
<1>3. CASE WorkerExit
  <2>1. worker'.obs = worker.obs
    BY <1>3 DEF WorkerExit, SinkholeInv, TypeOK
  <2>2. QED
    BY <1>3, <2>1, SamePlaces DEF WorkerExit, reporting
<1>4. CASE FlusherEnough
  <2>1. flusher'.batch = flusher.batch
    BY <1>4 DEF FlusherEnough, SinkholeInv, TypeOK
  <2>2. QED
    BY <1>4, <2>1, SamePlaces DEF FlusherEnough, reporting
<1>5. CASE \E host \in Hosts \cup {None}, owned \in BOOLEAN : Record(host, owned)
  BY <1>5, RecordOnce
<1>6. QED
  BY <1>1, <1>2, <1>3, <1>4, <1>5, WorkerTakeOnce, WorkerFinishOnce, DrainOnce, FlusherGetOnce,
     FlusherPostOnce
     DEF Next, Announce, Tick, Poll, Worker, Flusher, Signal, Teardown, Closed, WorkerJoined,
         Drained, Stopped, MoveTo, reporting, vars

(* An observation occurs in one place, once: its copies add up to one.     *)
LEMMA CountedOnce ==
  SinkholeInv /\ OnePlace => EachReportedOnce
<1> SUFFICES ASSUME SinkholeInv, OnePlace, NEW i \in DOMAIN store PROVE Copies(i) = 1
  BY DEF EachReportedOnce
<1> DEFINE W == {k \in DOMAIN work : work[k] = i}
           Q == {k \in DOMAIN queue : queue[k].obs = i}
           B == {k \in DOMAIN flusher.batch : flusher.batch[k].obs = i}
<1>1. \A S, x : S = {x} => Cardinality(S) = 1
  BY FS_Singleton
<1>2. Cardinality({}) = 0
  BY FS_EmptySet
<1>3. /\ i \in Line(work) => \E k : W = {k}
      /\ i \notin Line(work) => W = {}
  BY DEF Line, SinkholeInv, LookupsOK, Lookups
<1>4. /\ i \in Obs(queue) => \E k : Q = {k}
      /\ i \notin Obs(queue) => Q = {}
  BY DEF Obs, OnePlace, EachOnce
<1>5. /\ i \in Obs(flusher.batch) => \E k : B = {k}
      /\ i \notin Obs(flusher.batch) => B = {}
  BY DEF Obs, OnePlace, EachOnce
<1>6. i \in Ids /\ i # None
  BY SinkholeAssumption DEF SinkholeInv, TypeOK, Ids
<1>7. worker.obs = i <=> i \in Looked(worker)
  BY <1>6 DEF Looked
<1>8. gone[i] # "no" <=> i \in Gone(gone)
  BY <1>6 DEF Gone
<1>9. Copies(i) = Cardinality(W) + (IF worker.obs = i THEN 1 ELSE 0)
                  + Cardinality(Q) + Cardinality(B) + (IF gone[i] = "no" THEN 0 ELSE 1)
  BY DEF Copies
<1>10. /\ Cardinality(W) = IF i \in Line(work) THEN 1 ELSE 0
       /\ Cardinality(Q) = IF i \in Obs(queue) THEN 1 ELSE 0
       /\ Cardinality(B) = IF i \in Obs(flusher.batch) THEN 1 ELSE 0
  <2> HIDE DEF W, Q, B
  <2>1. QED
    BY <1>1, <1>2, <1>3, <1>4, <1>5
<1> HIDE DEF W, Q, B
<1>11. QED
  BY <1>7, <1>8, <1>9, <1>10 DEF OnePlace, SharedOut

(* Nothing has been recorded yet.                                          *)
LEMMA OnePlaceInit ==
  Init => OnePlace
<1> SUFFICES ASSUME Init PROVE OnePlace
  OBVIOUS
<1>1. /\ DOMAIN store = {} /\ DOMAIN work = {} /\ DOMAIN queue = {} /\ DOMAIN flusher.batch = {}
      /\ worker.obs = None /\ \A i \in Ids : gone[i] = "no"
  BY DEF Init
<1>2. EachOnce(queue) /\ EachOnce(flusher.batch)
  BY <1>1 DEF EachOnce
<1>3. /\ Line(work) = {} /\ Looked(worker) = {} /\ Obs(queue) = {} /\ Obs(flusher.batch) = {}
      /\ Gone(gone) = {}
  BY <1>1 DEF Line, Looked, Obs, Gone
<1>4. QED
  BY <1>1, <1>2, <1>3 DEF OnePlace, SharedOut

(* None is forgotten and none reported twice, whoever reports it.          *)
THEOREM ReportedOnce == Spec => []EachReportedOnce
<1>1. Init => SinkholeInv /\ OnePlace
  BY SinkholeInit, OnePlaceInit
<1>2. SinkholeInv /\ OnePlace /\ [Next]_vars => (SinkholeInv /\ OnePlace)'
  BY SinkholeStep, OnePlaceStep
<1>3. SinkholeInv /\ OnePlace => EachReportedOnce
  BY CountedOnce
<1>4. QED
  BY <1>1, <1>2, <1>3, PTL DEF Spec
-----------------------------------------------------------------------------
(* An early hint has joined an observation that nothing will improve any   *)
(* more; what the worker has looked up brought every early hint.           *)
Joined(i) == store[i].conf = "high" \/ \A j \in LiveFor(store[i].host) : j > before[i]
Settled(i) == shortcut[i] = "no" /\ i \notin Line(work) /\ worker.obs # i
Brought(i) == \A j \in LiveFor(store[i].host) : j <= before[i] => j \in known

JoinInv ==
  /\ DOMAIN before = DOMAIN store /\ \A i \in DOMAIN before : before[i] <= Len(hints)
  /\ worker.pc = "match" /\ worker.found => Brought(worker.obs)
  /\ worker.pc = "match" /\ ~worker.found => shortcut[worker.obs] = "failed"
  /\ \A i \in DOMAIN store : Settled(i) => Joined(i)

(* Hints age, and new ones come last.                                      *)
HintsAge ==
  /\ \A h : \A j \in LiveFor(h)' : j \in LiveFor(h) \/ j > Len(hints)
  /\ Len(hints) <= Len(hints') /\ known \subseteq known'

LEMMA HintsGrow ==
  ASSUME SinkholeInv, [Next]_vars
  PROVE  HintsAge
<1>1. hints \in Seq(Hint) /\ clock \in Nat
  BY DEF SinkholeInv, TypeOK
<1>2. CASE UNCHANGED <<clock, hints>>
  <2>1. \A h : LiveFor(h)' = LiveFor(h)
    BY <1>2 DEF LiveFor, Live
  <2>2. known \subseteq known'
    <3>1. CASE Poll
      BY <3>1 DEF Poll
    <3>2. CASE WorkerLookup
      BY <3>2 DEF WorkerLookup, Learned
    <3> QED
      BY <1>2, <3>1, <3>2
         DEF Next, Announce, Record, Tick, Worker, WorkerTake, WorkerFinish, WorkerExit, Flusher,
             FlusherGet, FlusherEnough, FlusherPost, Signal, Teardown, Closed, WorkerJoined, Drain,
             Drained, Stopped, MoveTo, vars
  <2> QED
    BY <1>1, <1>2, <2>1, <2>2 DEF HintsAge
<1>3. ASSUME NEW host \in Hosts, Announce(host) PROVE HintsAge
  <2> DEFINE new == [host |-> host, at |-> clock]
  <2>1. hints' = Append(hints, new) /\ clock' = clock /\ known' = known
    BY <1>3 DEF Announce
  <2> HIDE DEF new
  <2>2. /\ Len(hints') = Len(hints) + 1 /\ Len(hints) \in Nat
        /\ \A j \in DOMAIN hints' : (j \in DOMAIN hints /\ hints'[j] = hints[j]) \/ j = Len(hints) + 1
    BY <1>1, <2>1
  <2>3. \A j \in DOMAIN hints' : (j \in DOMAIN hints /\ hints'[j] = hints[j]) \/ j > Len(hints)
    BY <2>2
  <2>4. \A h : \A j \in LiveFor(h)' : j \in LiveFor(h) \/ j > Len(hints)
    BY <2>1, <2>3 DEF LiveFor, Live
  <2> QED
    BY <2>1, <2>2, <2>4 DEF HintsAge
<1>4. CASE Tick
  <2>1. clock' = clock + 1 /\ hints' = hints /\ known' = known
    BY <1>4 DEF Tick
  <2>2. \A j \in DOMAIN hints : hints[j].at + HintTtl \in Nat
    BY HintTyped, SinkholeAssumption DEF SinkholeInv
  <2>3. \A j \in DOMAIN hints : clock + 1 < hints[j].at + HintTtl => clock < hints[j].at + HintTtl
    BY <1>1, <2>2
  <2>4. \A h : \A j \in LiveFor(h)' : j \in LiveFor(h)
    BY <2>1, <2>3 DEF LiveFor, Live
  <2> QED
    BY <1>1, <2>1, <2>4 DEF HintsAge
<1> QED
  BY <1>2, <1>3, <1>4
     DEF Next, Record, Poll, Worker, WorkerTake, WorkerLookup, WorkerFinish, WorkerExit, Flusher,
         FlusherGet, FlusherEnough, FlusherPost, Signal, Teardown, Closed, WorkerJoined, Drain,
         Drained, Stopped, MoveTo, vars

LEMMA JoinedStays ==
  ASSUME SinkholeInv, SinkholeInv', JoinInv, HintsAge, NEW i \in DOMAIN store,
         store'[i].host = store[i].host, before'[i] = before[i]
  PROVE  /\ Joined(i) /\ (store[i].conf = "high" => store'[i].conf = "high") => Joined(i)'
         /\ Brought(i) => Brought(i)'
<1>1. before[i] \in Nat /\ before[i] <= Len(hints) /\ Len(hints) \in Nat
  <2>1. before \in Seq(Nat) /\ i \in DOMAIN before /\ hints \in Seq(Hint)
    BY DEF SinkholeInv, TypeOK, JoinInv
  <2> QED
    BY <2>1 DEF JoinInv
<1>2. PICK h : h = store[i].host
  OBVIOUS
<1>3. \A j \in LiveFor(h)' : j \in LiveFor(h) \/ j > before[i]
  <2>1. \A j \in LiveFor(h)' : j \in LiveFor(h) \/ j > Len(hints)
    BY DEF HintsAge
  <2>2. hints' \in Seq(Hint)
    BY DEF SinkholeInv, TypeOK
  <2>3. \A j \in LiveFor(h)' : j \in Nat
    BY <2>2 DEF LiveFor
  <2> QED
    BY <1>1, <2>1, <2>3
<1>4. /\ Joined(i) <=> store[i].conf = "high" \/ \A j \in LiveFor(h) : j > before[i]
      /\ Brought(i) <=> \A j \in LiveFor(h) : j <= before[i] => j \in known
  BY <1>2 DEF Joined, Brought
<1>5. LiveFor(store[i].host)' = LiveFor(h)'
  BY <1>2 DEF LiveFor
<1>6. /\ Joined(i)' <=> store'[i].conf = "high" \/ \A j \in LiveFor(h)' : j > before[i]
      /\ Brought(i)' <=> \A j \in LiveFor(h)' : j <= before[i] => j \in known'
  BY <1>5 DEF Joined, Brought
<1>7. \A j \in LiveFor(h)' : j <= before[i] => j \in LiveFor(h)
  <2>1. hints' \in Seq(Hint)
    BY DEF SinkholeInv, TypeOK
  <2>2. \A j \in LiveFor(h)' : j \in Nat
    BY <2>1 DEF LiveFor
  <2> QED
    BY <1>1, <1>3, <2>2
<1>8. known \subseteq known'
  BY DEF HintsAge
<1> QED
  BY <1>3, <1>4, <1>6, <1>7, <1>8

(* A step that settles nothing, and after which the worker is not about to *)
(* match unless it was.                                                    *)
LEMMA JoinKept ==
  ASSUME SinkholeInv, SinkholeInv', JoinInv, HintsAge, DOMAIN store' = DOMAIN store, before' = before,
         \A i \in DOMAIN store :
           /\ store'[i].host = store[i].host
           /\ store[i].conf = "high" => store'[i].conf = "high"
           /\ Settled(i)' => Settled(i),
         worker'.pc = "match" =>
           worker' = worker /\ shortcut'[worker.obs] = shortcut[worker.obs]
  PROVE  JoinInv'
<1>1. \A i \in DOMAIN store' : Settled(i)' => Joined(i)'
  BY JoinedStays DEF JoinInv
<1>2. worker'.pc = "match" /\ worker'.found => Brought(worker.obs)'
  <2> SUFFICES ASSUME worker'.pc = "match", worker'.found PROVE Brought(worker.obs)'
    OBVIOUS
  <2>1. PICK o : o = worker.obs
    OBVIOUS
  <2>2. worker' = worker /\ o \in DOMAIN store /\ Brought(o)
    BY <2>1 DEF SinkholeInv, LookupsOK, Lookups, Improvable, JoinInv
  <2>3. Brought(o)'
    BY <2>2, JoinedStays
  <2>4. Brought(worker.obs)' <=> Brought(o)'
    BY <2>1, <2>2 DEF Brought, LiveFor
  <2> QED
    BY <2>3, <2>4
<1>3. \A i \in DOMAIN before' : before'[i] <= Len(hints')
  <2>1. before \in Seq(Nat) /\ hints \in Seq(Hint) /\ hints' \in Seq(Hint)
    BY DEF SinkholeInv, TypeOK
  <2> DEFINE n == Len(hints)
             m == Len(hints')
  <2>2. n \in Nat /\ m \in Nat /\ n <= m /\ \A i \in DOMAIN before : before[i] \in Nat /\ before[i] <= n
    BY <2>1 DEF JoinInv, HintsAge
  <2> HIDE DEF n, m
  <2> QED
    BY <2>2 DEF m
<1> QED
  BY <1>1, <1>2, <1>3 DEF JoinInv

(* A change of one confidence leaves every host and the others alone.      *)
Rated(s, t, o, c) ==
  /\ DOMAIN t = DOMAIN s
  /\ \A i \in DOMAIN s : t[i].host = s[i].host
  /\ \A i \in DOMAIN s : i # o => t[i] = s[i]
  /\ t[o].conf = c

LEMMA ConfidenceOnly ==
  ASSUME NEW s \in Seq(Observation), NEW o \in DOMAIN s, NEW c,
         NEW t, t = [s EXCEPT ![o].conf = c]
  PROVE  Rated(s, t, o, c)
<1> DEFINE r == [s[o] EXCEPT !.conf = c]
<1>1. s[o] \in Observation
  OBVIOUS
<1>2. r.host = s[o].host /\ r.conf = c
  BY <1>1 DEF Observation
<1>3. t = [s EXCEPT ![o] = r]
  OBVIOUS
<1> HIDE DEF r
<1>4. /\ DOMAIN t = DOMAIN s /\ t[o] = r
      /\ \A i \in DOMAIN s : i # o => t[i] = s[i]
  BY <1>3
<1> QED
  BY <1>2, <1>4 DEF Rated

LEMMA RecordJoins ==
  ASSUME SinkholeInv, SinkholeInv', JoinInv, HintsAge,
         NEW host \in Hosts \cup {None}, NEW owned \in BOOLEAN, Record(host, owned)
  PROVE  JoinInv'
<1>11. PICK new : new = Len(store) + 1
  OBVIOUS
<1>1. PICK o :
        /\ store' = Append(store, o) /\ before' = Append(before, Len(hints))
        /\ UNCHANGED <<hints, known, clock, worker>>
        /\ \/ work' = Append(work, new) /\ shortcut' = shortcut
           \/ work' = work /\ shortcut' = [shortcut EXCEPT ![new] = "inline"]
  BY <1>11 DEF Record, Offered, Deferred
<1>2. /\ store \in Seq(Observation) /\ before \in Seq(Nat) /\ work \in Seq(Ids)
      /\ store' \in Seq(Observation) /\ hints \in Seq(Hint)
      /\ shortcut \in [Ids -> {"no", "inline", "failed", "drained"}]
      /\ DOMAIN before = DOMAIN store
      /\ Len(store') <= MaxObservations /\ MaxObservations \in Nat
  BY SinkholeAssumption DEF SinkholeInv, TypeOK, JoinInv
<1>3. /\ DOMAIN store' = DOMAIN store \cup {new} /\ new \notin DOMAIN store
      /\ \A i \in DOMAIN store : store'[i] = store[i]
      /\ Len(store') = new /\ new \in Nat
  BY <1>1, <1>2, <1>11
<1>12. Len(before) = Len(store)
  <2> DEFINE n == Len(before)
             m == Len(store)
  <2>1. 1..n = 1..m /\ n \in Nat /\ m \in Nat
    BY <1>2
  <2> HIDE DEF n, m
  <2>2. n = m
    BY <2>1
  <2> QED
    BY <2>2 DEF n, m
<1>4. /\ DOMAIN before' = DOMAIN store' /\ before'[new] = Len(hints)
      /\ \A i \in DOMAIN store : before'[i] = before[i]
  BY <1>1, <1>2, <1>3, <1>11, <1>12
<1>5. new \in Ids
  BY <1>2, <1>3 DEF Ids
<1>6. /\ \A i \in DOMAIN store : i \in Line(work) => i \in Line(work')
      /\ \A i \in DOMAIN store : shortcut'[i] = shortcut[i]
      /\ new \in Line(work') \/ shortcut'[new] = "inline"
  <2>1. CASE work' = Append(work, new) /\ shortcut' = shortcut
    BY <1>2, <1>5, <2>1, LineMore
  <2>2. CASE work' = work /\ shortcut' = [shortcut EXCEPT ![new] = "inline"]
    BY <1>2, <1>3, <1>5, <2>2
  <2> QED
    BY <1>1, <2>1, <2>2
<1>7. ~Settled(new)'
  BY <1>6 DEF Settled
<1>8. \A i \in DOMAIN store : Settled(i)' => Joined(i)'
  <2> SUFFICES ASSUME NEW i \in DOMAIN store, Settled(i)' PROVE Joined(i)'
    OBVIOUS
  <2>1. Settled(i)
    BY <1>1, <1>6 DEF Settled
  <2> QED
    BY <1>3, <1>4, <2>1, JoinedStays DEF JoinInv
<1>9. ASSUME worker'.pc = "match"
      PROVE  /\ worker'.found => Brought(worker.obs)'
             /\ ~worker'.found => shortcut'[worker'.obs] = "failed"
  <2>1. PICK k : k = worker.obs
    OBVIOUS
  <2>2. k \in DOMAIN store /\ worker' = worker /\ worker.pc = "match"
    BY <1>1, <1>9, <2>1 DEF SinkholeInv, LookupsOK, Lookups, Improvable
  <2>3. Brought(k) => Brought(k)'
    BY <1>3, <1>4, <2>2, JoinedStays
  <2>4. Brought(worker.obs)' <=> Brought(k)'
    BY <2>1, <2>2 DEF Brought, LiveFor
  <2> QED
    BY <1>6, <2>1, <2>2, <2>3, <2>4 DEF JoinInv
<1>10. \A i \in DOMAIN before' : before'[i] <= Len(hints')
  <2> DEFINE n == Len(hints)
  <2>1. n \in Nat /\ hints' = hints /\ \A i \in DOMAIN before : before[i] <= n
    BY <1>1, <1>2 DEF JoinInv
  <2>2. before'[new] = n
    BY <1>4
  <2> HIDE DEF n
  <2>3. \A i \in DOMAIN before' : before'[i] <= n
    BY <1>2, <1>3, <1>4, <2>1, <2>2
  <2> QED
    BY <2>1, <2>3 DEF n
<1> QED
  BY <1>3, <1>4, <1>7, <1>8, <1>9, <1>10 DEF JoinInv

(* An answer brings every hint that is live, so all that came early.       *)
LEMMA LookupJoins ==
  ASSUME SinkholeInv, SinkholeInv', JoinInv, HintsAge, WorkerLookup
  PROVE  JoinInv'
<1>1. PICK ok \in BOOLEAN :
        /\ worker' = [worker EXCEPT !.pc = "match", !.found = ok]
        /\ known' = IF ok THEN Learned(store[worker.obs].host) ELSE known
        /\ shortcut' = IF ok THEN shortcut ELSE [shortcut EXCEPT ![worker.obs] = "failed"]
        /\ UNCHANGED <<clock, hints, store, before, work>>
  BY DEF WorkerLookup
<1>2. PICK o : o = worker.obs
  OBVIOUS
<1>3. worker.pc = "lookup"
  BY DEF WorkerLookup
<1>4. worker'.obs = o /\ worker'.found = ok
  BY <1>1, <1>2 DEF SinkholeInv, TypeOK
<1>5. o \in DOMAIN store /\ o \in Ids
  BY <1>2, <1>3, SinkholeAssumption DEF SinkholeInv, TypeOK, LookupsOK, Lookups, Improvable, Ids
<1>6. shortcut' = IF ok THEN shortcut ELSE [shortcut EXCEPT ![o] = "failed"]
  BY <1>1, <1>2
<1>7. ~worker'.found => shortcut'[worker'.obs] = "failed"
  BY <1>4, <1>5, <1>6 DEF SinkholeInv, TypeOK
<1>8. worker'.found => Brought(worker.obs)'
  BY <1>1, <1>2, <1>4 DEF Brought, Learned, LiveFor, Live
<1>9. \A i \in DOMAIN store : Settled(i)' => Settled(i)
  BY <1>2, <1>4, <1>1, <1>5, <1>6 DEF Settled, SinkholeInv, TypeOK
<1>10. \A i \in DOMAIN store' : Settled(i)' => Joined(i)'
  BY <1>1, <1>9, JoinedStays DEF JoinInv
<1> QED
  BY <1>1, <1>7, <1>8, <1>10 DEF JoinInv

(* What the worker reports has joined, if the lookup answered.             *)
LEMMA FinishJoins ==
  ASSUME SinkholeInv, SinkholeInv', JoinInv, HintsAge, WorkerFinish
  PROVE  JoinInv'
<1>1. PICK o : o = worker.obs
  OBVIOUS
<1>2. /\ UNCHANGED <<clock, hints, known, work, before, shortcut>>
      /\ worker.pc = "match" /\ worker'.pc # "match"
  BY DEF WorkerFinish
<1>3. o \in DOMAIN store /\ Improvable(store, o)
  BY <1>1, <1>2 DEF SinkholeInv, LookupsOK, Lookups, Improvable
<1>4. PICK conf : conf \in (IF worker.found THEN Match(store[o].host) ELSE {"none"}) /\ Finalise(o, conf)
  BY <1>1 DEF WorkerFinish, Finished
<1>5. conf \in Confidence
  BY <1>4, MatchTyped DEF Confidence
<1>6. store' = [store EXCEPT ![o].conf = Improved(o, conf)]
  BY <1>4 DEF Finalise
<1>7. /\ DOMAIN store' = DOMAIN store /\ \A i \in DOMAIN store : store'[i].host = store[i].host
      /\ \A i \in DOMAIN store : i # o => store'[i] = store[i]
      /\ store'[o].conf = Improved(o, conf)
  <2>1. store \in Seq(Observation)
    BY DEF SinkholeInv, TypeOK
  <2>2. PICK c : c = Improved(o, conf)
    OBVIOUS
  <2>3. store' = [store EXCEPT ![o].conf = c]
    BY <1>6, <2>2
  <2>4. Rated(store, store', o, c)
    BY <1>3, <2>1, <2>3, ConfidenceOnly
  <2> QED
    BY <2>2, <2>4 DEF Rated
<1>8. ASSUME NEW i \in DOMAIN store, i # o, Settled(i)' PROVE Joined(i)'
  <2>1. Settled(i)
    BY <1>1, <1>2, <1>8 DEF Settled
  <2> QED
    BY <1>2, <1>7, <1>8, <2>1, JoinedStays DEF JoinInv
<1>9. ASSUME Settled(o)' PROVE Joined(o)'
  <2>1. worker.found /\ Brought(o)
    BY <1>1, <1>2, <1>9 DEF Settled, JoinInv, SinkholeInv, TypeOK
  <2>2. PICK h : h = store[o].host
    OBVIOUS
  <2>3. LiveFor(store[o].host)' = LiveFor(h) /\ before'[o] = before[o]
    BY <1>2, <1>3, <1>7, <2>2 DEF LiveFor, Live
  <2>4. CASE known \cap LiveFor(h) # {}
    <3>1. conf = "high"
      BY <1>4, <2>1, <2>2, <2>4 DEF Match
    <3> QED
      BY <1>7, <3>1 DEF Joined, Improved
  <2>5. CASE known \cap LiveFor(h) = {}
    <3>1. \A j \in LiveFor(h) : ~ (j <= before[o])
      BY <2>1, <2>2, <2>5 DEF Brought
    <3>2. before \in Seq(Nat) /\ o \in DOMAIN before /\ hints \in Seq(Hint)
      BY <1>3 DEF SinkholeInv, TypeOK, JoinInv
    <3>3. \A j \in LiveFor(h) : j \in Nat
      BY <3>2 DEF LiveFor
    <3>4. \A j \in LiveFor(h) : j > before[o]
      BY <3>1, <3>2, <3>3
    <3> QED
      BY <2>3, <3>4 DEF Joined
  <2> QED
    BY <2>4, <2>5
<1> QED
  BY <1>2, <1>7, <1>8, <1>9 DEF JoinInv

LEMMA DrainJoins ==
  ASSUME SinkholeInv, SinkholeInv', JoinInv, HintsAge, Drain
  PROVE  JoinInv'
<1>1. PICK h : h = Head(work)
  OBVIOUS
<1>2. /\ work # <<>> /\ work' = Tail(work) /\ Finalise(h, "none")
      /\ shortcut' = [shortcut EXCEPT ![h] = "drained"]
      /\ UNCHANGED <<before, worker>>
  BY <1>1 DEF Drain
<1>3. work \in Seq(Ids) /\ h \in Ids
  BY <1>1, <1>2 DEF SinkholeInv, TypeOK
<1>4. Line(work) = Line(work') \cup {h} /\ h \notin Line(work')
  BY <1>1, <1>2, <1>3, LineLess DEF SinkholeInv, LookupsOK, Lookups
<1>5. h \in DOMAIN store /\ h # worker.obs
  BY <1>4 DEF Line, SinkholeInv, LookupsOK, Lookups, Improvable
<1>6. store' = [store EXCEPT ![h].conf = store[h].conf]
  BY <1>2 DEF Finalise, Improved
<1>7. DOMAIN store' = DOMAIN store
      /\ \A i \in DOMAIN store : store'[i].host = store[i].host /\ store'[i].conf = store[i].conf
  <2>1. store \in Seq(Observation)
    BY DEF SinkholeInv, TypeOK
  <2>2. PICK c : c = store[h].conf
    OBVIOUS
  <2>3. store' = [store EXCEPT ![h].conf = c]
    BY <1>6, <2>2
  <2>4. Rated(store, store', h, c)
    BY <1>5, <2>1, <2>3, ConfidenceOnly
  <2> QED
    BY <2>2, <2>4 DEF Rated
<1>8. \A i \in DOMAIN store : Settled(i)' => Settled(i)
  <2> SUFFICES ASSUME NEW i \in DOMAIN store, Settled(i)' PROVE Settled(i)
    OBVIOUS
  <2>1. shortcut \in [Ids -> {"no", "inline", "failed", "drained"}]
    BY DEF SinkholeInv, TypeOK
  <2>2. i # h
    BY <1>2, <1>3, <2>1 DEF Settled
  <2> QED
    BY <1>2, <1>4, <2>1, <2>2 DEF Settled
<1>9. shortcut'[worker.obs] = shortcut[worker.obs]
  BY <1>2, <1>3, <1>5 DEF SinkholeInv, TypeOK
<1> QED
  BY <1>2, <1>7, <1>8, <1>9, JoinKept

LEMMA TakeJoins ==
  ASSUME SinkholeInv, SinkholeInv', JoinInv, HintsAge, WorkerTake
  PROVE  JoinInv'
<1>1. PICK h : h = Head(work)
  OBVIOUS
<1>2. /\ UNCHANGED <<store, before, shortcut>> /\ work # <<>> /\ work' = Tail(work)
      /\ worker.pc = "get" /\ worker' = [worker EXCEPT !.pc = "lookup", !.obs = h]
  BY <1>1 DEF WorkerTake
<1>3. work \in Seq(Ids) /\ h \in Ids
  <2>1. work \in Seq(Ids)
    BY DEF SinkholeInv, TypeOK
  <2> QED
    BY <1>1, <1>2, <2>1
<1>4. Line(work) = Line(work') \cup {h}
  <2>1. \A j, k \in DOMAIN work : work[j] = work[k] => j = k
    BY DEF SinkholeInv, LookupsOK, Lookups
  <2>2. Line(work) = Line(Tail(work)) \cup {Head(work)}
    BY <1>2, <1>3, <2>1, LineLess
  <2> QED
    BY <1>1, <1>2, <2>2 DEF Line
<1>5. worker.obs = None /\ worker'.obs = h /\ worker'.pc = "lookup"
  <2>1. worker \in [pc : {"get", "lookup", "match", "exited"},
                    obs : Ids \cup {None}, found : BOOLEAN]
    BY DEF SinkholeInv, TypeOK
  <2>2. worker'.obs = h /\ worker'.pc = "lookup"
    BY <1>2, <2>1
  <2> QED
    BY <1>2, <2>2 DEF SinkholeInv, LookupsOK, Lookups
<1>6. \A i \in DOMAIN store : i # None
  <2>1. store \in Seq(Observation)
    BY DEF SinkholeInv, TypeOK
  <2>2. \A i \in DOMAIN store : i \in Nat
    BY <2>1
  <2> QED
    BY <2>2, SinkholeAssumption
<1>7. \A i \in DOMAIN store : Settled(i)' => Settled(i)
  BY <1>2, <1>4, <1>5, <1>6 DEF Settled
<1> QED
  BY <1>2, <1>5, <1>7, JoinKept

LEMMA JoinStep ==
  SinkholeInv /\ JoinInv /\ [Next]_vars => JoinInv'
<1> SUFFICES ASSUME SinkholeInv, JoinInv, [Next]_vars PROVE JoinInv'
  OBVIOUS
<1>1. SinkholeInv' /\ HintsAge
  BY SinkholeStep, HintsGrow
<1>2. CASE UNCHANGED <<store, before, work, worker, shortcut>>
  <2>1. \A i \in DOMAIN store : Settled(i)' => Settled(i)
    BY <1>2 DEF Settled
  <2> QED
    BY <1>1, <1>2, <2>1, JoinKept
<1>3. CASE WorkerExit
  <2>1. /\ UNCHANGED <<store, before, work, shortcut>> /\ worker'.obs = worker.obs
        /\ worker'.pc = "exited"
    BY <1>3 DEF WorkerExit, SinkholeInv, TypeOK
  <2>2. \A i \in DOMAIN store : Settled(i)' => Settled(i)
    BY <2>1 DEF Settled
  <2> QED
    BY <1>1, <2>1, <2>2, JoinKept
<1>4. CASE \E host \in Hosts \cup {None}, owned \in BOOLEAN : Record(host, owned)
  BY <1>1, <1>4, RecordJoins
<1>5. CASE WorkerTake \/ WorkerLookup \/ WorkerFinish \/ Drain
  BY <1>1, <1>5, TakeJoins, LookupJoins, FinishJoins, DrainJoins
<1> QED
  BY <1>2, <1>3, <1>4, <1>5
     DEF Next, Announce, Tick, Poll, Worker, Flusher, FlusherGet, FlusherEnough, FlusherPost,
         Signal, Teardown, Closed, WorkerJoined, Drained, Stopped, MoveTo, vars

(* A hint that came before its callback, and is live, has joined it by the *)
(* time it is reported, unless the worker was passed over or failed.       *)
THEOREM EarlyHintsJoin == Spec => []EarlyHintJoins
<1>1. Init => JoinInv
  BY DEF Init, JoinInv
<1>2. SinkholeInv /\ JoinInv => EarlyHintJoins
  <2> SUFFICES ASSUME SinkholeInv, JoinInv, NEW i \in DOMAIN store, shortcut[i] = "no",
                      Cardinality({k \in DOMAIN work : work[k] = i}) = 0, worker.obs # i,
                      store[i].conf # "high"
               PROVE  \A j \in LiveFor(store[i].host) : j > before[i]
    BY DEF EarlyHintJoins
  <2> DEFINE S == {k \in DOMAIN work : work[k] = i}
  <2>1. IsFiniteSet(S)
    <3>1. work \in Seq(Ids)
      BY DEF SinkholeInv, TypeOK
    <3>2. DOMAIN work = 1..Len(work) /\ Len(work) \in Nat
      BY <3>1
    <3> DEFINE n == Len(work)
    <3> HIDE DEF n
    <3>3. IsFiniteSet(1..n)
      BY <3>2, FS_Interval DEF n
    <3> QED
      BY <3>2, <3>3, FS_Subset DEF n
  <2>2. S = {}
    BY <2>1, FS_EmptySet
  <2>3. i \notin Line(work)
    BY <2>2 DEF Line
  <2> QED
    BY <2>3 DEF JoinInv, Settled, Joined
<1> QED
  BY <1>1, <1>2, SinkholeInit, SinkholeStep, JoinStep, PTL DEF Spec
=============================================================================
