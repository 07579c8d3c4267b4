----------------------------- MODULE ResolverProofs -----------------------------
(***************************************************************************)
(* Proofs about UpstreamResolver: for any queries, names, number of slots  *)
(* and cache limit, slots are neither lost nor made up, none lies idle     *)
(* while a query waits for one, answers are in time, and only what is      *)
(* unknown is looked up.                                                   *)
(***************************************************************************)
EXTENDS UpstreamResolver, FiniteSetTheorems, TLAPS

Asking == [pc : {"ask"}, name : Names, server : 1..Servers, age : {0, 1},
           reply : {"none", "claimed", "unclaimed", "failed"}]
Step == {Idle} \cup {Waits(n) : n \in Names} \cup {Woken(n) : n \in Names} \cup Asking
Held == {"woken", "ask"}
Entry == [claimed : {TRUE}, left : 0..PositiveTtl] \cup [claimed : {FALSE}, left : 0..NegativeTtl]
Replies == [got : {"nothing", "malformed", "formerr", "denied"}]
             \cup [got : {"forwarded", "servfail", "captured", "busy"}, name : Names]

Line(w) == {w[k] : k \in DOMAIN w}
Holders(at) == {q \in Queries : at[q].pc \in Held}

CacheOK ==
  /\ DOMAIN cache \subseteq Names /\ IsFiniteSet(DOMAIN cache)
  /\ Cardinality(DOMAIN cache) <= CacheMax + 1
  /\ \A n \in DOMAIN cache : cache[n] \in Entry

TimesOK ==
  /\ up \subseteq Names /\ sinceUp \in [Names -> 0..LongUp]
  /\ sinceDown \in [Names -> 0..LongDown] /\ sinceFail \in [Names -> 0..NegativeTtl]

(* The waiters are the queries that wait, each in one place.               *)
InLine(w, at) ==
  /\ w \in Seq(Queries)
  /\ \A i, j \in DOMAIN w : w[i] = w[j] => i = j
  /\ \A q \in Queries : at[q].pc = "wait" <=> q \in Line(w)

(* Every slot is free or held by one query.                                *)
SlotsOK ==
  /\ free \in Nat /\ IsFiniteSet(Holders(query))
  /\ free + Cardinality(Holders(query)) = Slots

ResolverInv ==
  /\ CacheOK /\ TimesOK /\ query \in [Queries -> Step] /\ sent \in Replies
  /\ InLine(waiting, query) /\ SlotsOK /\ NoSlotIdle

-----------------------------------------------------------------------------
(* What the steps of a query look like.                                    *)
LEMMA StepFacts ==
  /\ Idle \in Step /\ Idle.pc = "idle"
  /\ \A n \in Names : /\ Waits(n) \in Step /\ Waits(n).pc = "wait" /\ Waits(n).name = n
                      /\ Woken(n) \in Step /\ Woken(n).pc = "woken" /\ Woken(n).name = n
                      /\ Asks(n) \in Step /\ Asks(n).pc = "ask" /\ Asks(n).name = n
  /\ \A s \in Step : s.pc \in {"idle", "wait", "woken", "ask"}
  /\ \A s \in Step : s.pc # "idle" => s.name \in Names
  /\ \A s \in Step : s.pc = "ask" => s \in Asking
<1>1. Idle \in Step /\ Idle.pc = "idle"
  BY DEF Step, Idle
<1>2. ASSUME NEW n \in Names
      PROVE  /\ Waits(n) \in Step /\ Waits(n).pc = "wait" /\ Waits(n).name = n
             /\ Woken(n) \in Step /\ Woken(n).pc = "woken" /\ Woken(n).name = n
  BY DEF Step, Waits, Woken
<1>3. ASSUME NEW n \in Names
      PROVE  Asks(n) \in Asking /\ Asks(n).pc = "ask" /\ Asks(n).name = n
  BY ResolverAssumption DEF Asking, Asks
<1>4. \A s \in Step : s.pc \in {"idle", "wait", "woken", "ask"}
  BY DEF Step, Idle, Waits, Woken, Asking
<1>5. \A s \in Step : s.pc # "idle" => s.name \in Names
  BY DEF Step, Idle, Waits, Woken, Asking
<1>6. \A s \in Step : s.pc = "ask" => s \in Asking
  BY DEF Step, Idle, Waits, Woken
<1>7. Asking \subseteq Step
  BY DEF Step
<1>8. QED
  BY <1>1, <1>2, <1>3, <1>4, <1>5, <1>6, <1>7

(* Taking the first n off a line of waiters.                               *)
LEMMA FirstInLine ==
  ASSUME NEW w \in Seq(Queries), NEW n \in Nat, n <= Len(w),
         \A i, j \in DOMAIN w : w[i] = w[j] => i = j
  PROVE  LET first == {w[k] : k \in 1..n}
             rest == SubSeq(w, n + 1, Len(w)) IN
         /\ IsFiniteSet(first) /\ Cardinality(first) = n /\ first \subseteq Line(w)
         /\ rest \in Seq(Queries) /\ Len(rest) = Len(w) - n
         /\ \A i, j \in DOMAIN rest : rest[i] = rest[j] => i = j
         /\ \A q : q \in Line(rest) <=> q \in Line(w) \ first
<1> DEFINE first == {w[k] : k \in 1..n}
           rest == SubSeq(w, n + 1, Len(w))
           f == [k \in 1..n |-> w[k]]
<1>1. 1..n \subseteq DOMAIN w /\ first \subseteq Line(w)
  BY DEF Line
<1>2. IsFiniteSet(first) /\ Cardinality(first) = n
  <2>1. f \in Bijection(1..n, first)
    <3>1. f \in [1..n -> first] /\ \A x \in first : \E k \in 1..n : f[k] = x
      OBVIOUS
    <3>2. \A i, j \in 1..n : f[i] = f[j] => i = j
      BY <1>1
    <3> HIDE DEF f, first
    <3>3. QED
      BY <3>1, <3>2 DEF Bijection, Injection, Surjection, IsInjective
  <2>2. IsFiniteSet(1..n) /\ Cardinality(1..n) = n
    BY FS_Interval
  <2>3. ExistsBijection(1..n, first)
    BY <2>1 DEF ExistsBijection
  <2> HIDE DEF first
  <2>4. IsFiniteSet(first) /\ Cardinality(first) = Cardinality(1..n)
    BY <2>2, <2>3, FS_Bijection
  <2>5. QED
    BY <2>2, <2>4
<1>3. /\ rest \in Seq(Queries) /\ Len(rest) = Len(w) - n
      /\ \A i \in DOMAIN rest : i + n \in DOMAIN w /\ rest[i] = w[i + n]
  OBVIOUS
<1>4. \A i, j \in DOMAIN rest : rest[i] = rest[j] => i = j
  <2> HIDE DEF rest
  <2> QED BY <1>3
<1>5. ASSUME NEW q PROVE q \in Line(rest) <=> q \in Line(w) \ first
  <2>1. ASSUME q \in Line(rest) PROVE q \in Line(w) \ first
    <3>1. PICK i \in DOMAIN rest : q = rest[i]
      BY <2>1 DEF Line
    <3>2. i + n \in DOMAIN w /\ q = w[i + n] /\ i > 0
      BY <1>3, <3>1
    <3>3. \A k \in 1..n : w[k] # q
      BY <1>1, <3>2
    <3>4. QED
      BY <3>2, <3>3 DEF Line
  <2>2. ASSUME q \in Line(w) \ first PROVE q \in Line(rest)
    <3>1. PICK k \in DOMAIN w : q = w[k]
      BY <2>2 DEF Line
    <3>2. k \in (n + 1)..Len(w)
      BY <2>2, <3>1
    <3>3. k - n \in DOMAIN rest /\ rest[k - n] = q
      BY <1>3, <3>1, <3>2
    <3>4. QED
      BY <3>3 DEF Line
  <2>3. QED
    BY <2>1, <2>2
<1>6. QED
  BY <1>1, <1>2, <1>3, <1>4, <1>5

(* Slots given back, however many, go to the waiters that came first, and  *)
(* none is left over while somebody waits.                                 *)
LEMMA ReleaseOK ==
  ASSUME NEW slots \in Nat, NEW at \in [Queries -> Step], InLine(waiting, at),
         IsFiniteSet(Holders(at)), slots + Cardinality(Holders(at)) = Slots, Release(slots, at)
  PROVE  query' \in [Queries -> Step] /\ InLine(waiting', query') /\ SlotsOK' /\ NoSlotIdle'
<1> DEFINE n == IF slots < Len(waiting) THEN slots ELSE Len(waiting)
           first == {waiting[k] : k \in 1..n}
           rest == SubSeq(waiting, n + 1, Len(waiting))
<1>1. n \in Nat /\ n <= Len(waiting) /\ n <= slots /\ (n = slots \/ n = Len(waiting))
  BY DEF InLine
<1>2. /\ free' = slots - n /\ waiting' = rest
      /\ query' = [q \in Queries |-> IF q \in first THEN Woken(at[q].name) ELSE at[q]]
  BY DEF Release, HandOn
<1> HIDE DEF n
<1>3. /\ IsFiniteSet(first) /\ Cardinality(first) = n /\ first \subseteq Line(waiting)
      /\ rest \in Seq(Queries) /\ Len(rest) = Len(waiting) - n
      /\ \A i, j \in DOMAIN rest : rest[i] = rest[j] => i = j
      /\ \A q : q \in Line(rest) <=> q \in Line(waiting) \ first
  BY <1>1, FirstInLine DEF InLine
<1> HIDE DEF first, rest
<1>4. \A q \in Queries : q \in first => at[q].pc = "wait"
  BY <1>3 DEF InLine
<1>5. ASSUME NEW q \in Queries, q \in first
      PROVE  query'[q] = Woken(at[q].name) /\ query'[q] \in Step /\ query'[q].pc = "woken"
  <2>1. at[q].name \in Names
    BY <1>4, <1>5, StepFacts
  <2>2. query'[q] = Woken(at[q].name)
    BY <1>2, <1>5
  <2>3. QED
    BY <2>1, <2>2, StepFacts
<1>6. ASSUME NEW q \in Queries, q \notin first  PROVE query'[q] = at[q]
  BY <1>2, <1>6
<1>7. query' \in [Queries -> Step]
  BY <1>2, <1>5, <1>6
<1>8. InLine(waiting', query')
  <2>1. ASSUME NEW q \in Queries PROVE query'[q].pc = "wait" <=> q \in Line(waiting')
    BY <1>2, <1>3, <1>5, <1>6 DEF InLine
  <2>2. QED
    BY <1>2, <1>3, <2>1 DEF InLine
<1>9. SlotsOK'
  <2>1. Holders(query') = Holders(at) \cup first
    <3>1. first \subseteq Queries
      BY <1>3 DEF InLine, Line
    <3>2. QED
      BY <1>5, <1>6, <3>1 DEF Holders, Held
  <2>2. Holders(at) \cap first = {}
    BY <1>4 DEF Holders, Held
  <2>3. IsFiniteSet(Holders(at) \cup first)
        /\ Cardinality(Holders(at) \cup first) = Cardinality(Holders(at)) + Cardinality(first) - Cardinality({})
    <3>1. IsFiniteSet(Holders(at) \cup first)
          /\ Cardinality(Holders(at) \cup first)
             = Cardinality(Holders(at)) + Cardinality(first) - Cardinality(Holders(at) \cap first)
      BY <1>3, FS_Union
    <3>2. QED
      BY <2>2, <3>1
  <2>4. Cardinality({}) = 0 /\ Cardinality(Holders(at)) \in Nat
    BY FS_EmptySet, FS_CardinalityType
  <2>5. free' + Cardinality(Holders(query')) = Slots
    <3>1. Cardinality(Holders(query')) = Cardinality(Holders(at)) + Cardinality(first) - Cardinality({})
      BY <2>1, <2>3
    <3>2. QED
      BY <1>1, <1>2, <1>3, <2>4, <3>1
  <2>6. free' \in Nat
    BY <1>1, <1>2
  <2>7. IsFiniteSet(Holders(query'))
    BY <2>1, <2>3
  <2>8. QED
    BY <2>5, <2>6, <2>7 DEF SlotsOK, Holders
<1>10. NoSlotIdle'
  <2>1. waiting' # <<>> => Len(rest) > 0
    BY <1>2, <1>3
  <2>2. waiting' # <<>> => free' = 0
    BY <1>1, <1>2, <1>3, <2>1 DEF InLine
  <2>3. QED
    BY <2>2 DEF NoSlotIdle
<1>11. QED
  BY <1>7, <1>8, <1>9, <1>10

(* Looking a name up in the cache may drop it there.                       *)
LEMMA ForgettingOK ==
  ASSUME CacheOK, NEW n, cache' = Forgetting(n)
  PROVE  CacheOK'
<1>1. DOMAIN cache' \in SUBSET DOMAIN cache /\ \A m \in DOMAIN cache' : cache'[m] = cache[m]
  BY DEF Forgetting
<1>2. /\ IsFiniteSet(DOMAIN cache') /\ Cardinality(DOMAIN cache') <= Cardinality(DOMAIN cache)
      /\ Cardinality(DOMAIN cache') \in Nat /\ Cardinality(DOMAIN cache) \in Nat
  BY <1>1, FS_Subset, FS_CardinalityType DEF CacheOK
<1>3. QED
  BY <1>1, <1>2, ResolverAssumption DEF CacheOK

(* An outcome remembered does not make the cache outgrow its limit by more *)
(* than the one.                                                           *)
LEMMA RememberingOK ==
  ASSUME CacheOK, NEW n \in Names, NEW claimed \in BOOLEAN, cache' = Remembering(n, claimed)
  PROVE  CacheOK'
<1> DEFINE old == IF Cardinality(DOMAIN cache) > CacheMax THEN {} ELSE DOMAIN cache
<1>1. /\ DOMAIN cache' = old \cup {n}
      /\ \A m \in old \cup {n} :
           cache'[m] = IF m = n THEN [claimed |-> claimed, left |-> Ttl(claimed)] ELSE cache[m]
  BY DEF Remembering, Remembered
<1>2. IsFiniteSet(old) /\ Cardinality(old) \in Nat /\ Cardinality(old) <= CacheMax
  <2>1. IsFiniteSet({}) /\ Cardinality({}) = 0
    BY FS_EmptySet
  <2>2. Cardinality(DOMAIN cache) \in Nat
    BY FS_CardinalityType DEF CacheOK
  <2>3. CASE Cardinality(DOMAIN cache) > CacheMax
    BY <2>1, <2>3, ResolverAssumption
  <2>4. CASE ~ (Cardinality(DOMAIN cache) > CacheMax)
    BY <2>2, <2>4, ResolverAssumption DEF CacheOK
  <2>5. QED
    BY <2>3, <2>4
<1>3. old \subseteq DOMAIN cache
  OBVIOUS
<1> HIDE DEF old
<1>4. IsFiniteSet(DOMAIN cache') /\ Cardinality(DOMAIN cache') <= CacheMax + 1
  <2>1. /\ IsFiniteSet(old \cup {n})
        /\ Cardinality(old \cup {n}) = IF n \in old THEN Cardinality(old) ELSE Cardinality(old) + 1
    BY <1>2, FS_AddElement
  <2>2. Cardinality(old \cup {n}) <= CacheMax + 1
    BY <1>2, <2>1, ResolverAssumption
  <2>3. QED
    BY <1>1, <2>1, <2>2
<1>5. [claimed |-> claimed, left |-> Ttl(claimed)] \in Entry
  <2>1. [claimed |-> TRUE, left |-> Ttl(TRUE)] \in Entry
    BY ResolverAssumption DEF Ttl, Entry
  <2>2. [claimed |-> FALSE, left |-> Ttl(FALSE)] \in Entry
    BY ResolverAssumption DEF Ttl, Entry
  <2>3. claimed = TRUE \/ claimed = FALSE
    OBVIOUS
  <2>4. QED
    BY <2>1, <2>2, <2>3, Zenon
<1>6. DOMAIN cache' \subseteq Names /\ \A m \in DOMAIN cache' : cache'[m] \in Entry
  BY <1>1, <1>3, <1>5 DEF CacheOK
<1>7. QED
  BY <1>4, <1>6 DEF CacheOK

(* What a query may be told.                                               *)
LEMMA RepliesFacts ==
  /\ Nothing \in Replies
  /\ \A n \in Names : \A claimed \in BOOLEAN :
       Reply(n, Verdict(n, claimed)) \in Replies /\ Reply(n, "busy") \in Replies
<1>1. Nothing \in Replies
  BY DEF Nothing, Replies
<1>2. ASSUME NEW n \in Names, NEW got \in {"forwarded", "servfail", "captured", "busy"}
      PROVE  Reply(n, got) \in Replies
  BY DEF Reply, Replies
<1>3. ASSUME NEW n \in Names, NEW claimed \in BOOLEAN
      PROVE  Verdict(n, claimed) \in {"forwarded", "servfail", "captured", "busy"}
  BY DEF Verdict
<1>4. QED
  BY <1>1, <1>2, <1>3

(* What the cache says of a name is a truth value.                         *)
LEMMA CachedClaim ==
  ASSUME CacheOK, NEW n, Fresh(n)
  PROVE  cache[n].claimed \in BOOLEAN
  BY DEF CacheOK, Fresh, Entry

(* Slots, waiters and their steps left alone stay as they are.             *)
LEMMA SameSlots ==
  ASSUME ResolverInv, UNCHANGED <<free, waiting, query>>
  PROVE  query' \in [Queries -> Step] /\ InLine(waiting', query') /\ SlotsOK' /\ NoSlotIdle'
  BY DEF ResolverInv, InLine, Line, SlotsOK, Holders, NoSlotIdle, Busy

(* A datagram answered at once touches no slot.                            *)
LEMMA ArriveBadInv ==
  ASSUME ResolverInv, NEW q \in Queries, ArriveBad(q)
  PROVE  ResolverInv'
<1>1. sent' \in Replies /\ CacheOK' /\ TimesOK'
  BY DEF ArriveBad, ResolverInv, CacheOK, TimesOK, truth, Replies
<1>2. QED
  BY <1>1, SameSlots DEF ArriveBad, ResolverInv

(* A query is answered, gets a slot, or is the last in the line.           *)
LEMMA ArriveInv ==
  ASSUME ResolverInv, NEW q \in Queries, NEW n \in Names, Arrive(q, n)
  PROVE  ResolverInv'
<1>1. CacheOK' /\ TimesOK'
  BY ForgettingOK DEF Arrive, ResolverInv, TimesOK, truth
<1>2. sent' \in Replies
  <2>1. Fresh(n) => cache[n].claimed \in BOOLEAN
    BY CachedClaim DEF ResolverInv
  <2>2. QED
    BY <2>1, RepliesFacts DEF Arrive
<1>3. /\ \A s \in Step : query' = With(q, s) => /\ query' \in [Queries -> Step] /\ query'[q] = s
                                               /\ \A p \in Queries \ {q} : query'[p] = query[p]
  BY DEF ResolverInv, With
<1>4. q \notin Holders(query) /\ q \notin Line(waiting)
  BY DEF Arrive, Busy, Holders, Held, ResolverInv, InLine
<1>5. CASE UNCHANGED <<free, waiting, query>>
  BY <1>1, <1>2, <1>5, SameSlots DEF ResolverInv
<1>6. CASE /\ Locked /\ query' = With(q, Waits(n)) /\ waiting' = Append(waiting, q)
           /\ UNCHANGED free
  <2>1. query' \in [Queries -> Step] /\ query'[q].pc = "wait"
        /\ \A p \in Queries \ {q} : query'[p] = query[p]
    BY <1>3, <1>6, StepFacts
  <2>2. /\ waiting' \in Seq(Queries) /\ Len(waiting') = Len(waiting) + 1
        /\ waiting'[Len(waiting) + 1] = q
        /\ \A k \in 1..Len(waiting) : waiting'[k] = waiting[k]
    BY <1>6 DEF ResolverInv, InLine
  <2>3. \A p : p \in Line(waiting') <=> p \in Line(waiting) \/ p = q
    BY <2>2 DEF Line, ResolverInv, InLine
  <2>4. \A i, j \in DOMAIN waiting' : waiting'[i] = waiting'[j] => i = j
    BY <1>4, <2>2 DEF Line, ResolverInv, InLine
  <2>5. InLine(waiting', query')
    BY <2>1, <2>2, <2>3, <2>4 DEF InLine, ResolverInv
  <2>6. Holders(query') = Holders(query)
    BY <1>4, <2>1 DEF Holders, Held
  <2>7. SlotsOK'
    BY <1>6, <2>6 DEF SlotsOK, ResolverInv, Holders
  <2>8. NoSlotIdle'
    <3>1. free = 0 \/ \E p \in Queries : query[p].pc = "woken"
      <4>1. (\E p \in Queries : query[p].pc = "wait") => waiting # <<>>
        BY DEF ResolverInv, InLine, Line
      <4>2. QED
        BY <1>6, <4>1 DEF Locked, ResolverInv, NoSlotIdle, Busy
    <3>2. \A p \in Queries : query[p].pc = "woken" => query'[p].pc = "woken"
      BY <1>4, <2>1 DEF Holders, Held
    <3>3. QED
      BY <1>6, <3>1, <3>2 DEF NoSlotIdle, Busy
  <2>9. QED
    BY <1>1, <1>2, <2>1, <2>5, <2>7, <2>8 DEF ResolverInv
<1>7. CASE /\ ~Locked /\ query' = With(q, Asks(n)) /\ free' = free - 1
           /\ UNCHANGED waiting
  <2>1. query' \in [Queries -> Step] /\ query'[q].pc = "ask"
        /\ \A p \in Queries \ {q} : query'[p] = query[p]
    BY <1>3, <1>7, StepFacts
  <2>2. InLine(waiting', query')
    BY <1>4, <1>7, <2>1 DEF InLine, Line, ResolverInv
  <2>3. Holders(query') = Holders(query) \cup {q}
    BY <2>1 DEF Holders, Held
  <2>4. /\ IsFiniteSet(Holders(query) \cup {q})
        /\ Cardinality(Holders(query) \cup {q}) = Cardinality(Holders(query)) + 1
        /\ Cardinality(Holders(query)) \in Nat
    BY <1>4, FS_AddElement, FS_CardinalityType DEF ResolverInv, SlotsOK
  <2>5. free' \in Nat
    BY <1>7 DEF Locked, ResolverInv, SlotsOK
  <2>6. IsFiniteSet(Holders(query')) /\ Cardinality(Holders(query')) = Cardinality(Holders(query)) + 1
    BY <2>3, <2>4
  <2>7. free' + Cardinality(Holders(query')) = Slots
    BY <1>7, <2>4, <2>5, <2>6 DEF ResolverInv, SlotsOK
  <2>8. SlotsOK'
    BY <2>5, <2>6, <2>7 DEF SlotsOK, Holders
  <2>9. NoSlotIdle'
    <3>1. \A p \in Queries : p \notin Line(waiting)
      BY <1>7 DEF Locked, ResolverInv, InLine
    <3>2. waiting = <<>>
      BY <3>1 DEF ResolverInv, InLine, Line
    <3>3. QED
      BY <1>7, <3>2 DEF NoSlotIdle
  <2>10. QED
    BY <1>1, <1>2, <2>1, <2>2, <2>8, <2>9 DEF ResolverInv
<1>8. QED
  BY <1>5, <1>6, <1>7 DEF Arrive

(* One query's step replaced by another, where neither is a wait: the      *)
(* waiters stay, and the holders are the others and perhaps that query.    *)
LEMMA WithOK ==
  ASSUME ResolverInv, NEW q \in Queries, query[q].pc # "wait", NEW s \in Step, s.pc # "wait"
  PROVE  /\ With(q, s) \in [Queries -> Step] /\ InLine(waiting, With(q, s))
         /\ With(q, s)[q] = s /\ \A p \in Queries \ {q} : With(q, s)[p] = query[p]
<1>1. /\ With(q, s) \in [Queries -> Step] /\ With(q, s)[q] = s
      /\ \A p \in Queries \ {q} : With(q, s)[p] = query[p]
  BY DEF ResolverInv, With
<1>2. \A p \in Queries : With(q, s)[p].pc = "wait" <=> query[p].pc = "wait"
  BY <1>1
<1>3. QED
  BY <1>1, <1>2 DEF InLine, ResolverInv

(* A query that is done gives its slot back.                               *)
LEMMA DoneOK ==
  ASSUME ResolverInv, NEW q \in Queries, query[q].pc \in Held, Release(free + 1, With(q, Idle))
  PROVE  query' \in [Queries -> Step] /\ InLine(waiting', query') /\ SlotsOK' /\ NoSlotIdle'
<1> DEFINE at == With(q, Idle)
<1>1. /\ at \in [Queries -> Step] /\ InLine(waiting, at)
      /\ at[q] = Idle /\ \A p \in Queries \ {q} : at[p] = query[p]
  BY WithOK, StepFacts DEF Held
<1> HIDE DEF at
<1>2. Holders(at) = Holders(query) \ {q} /\ q \in Holders(query)
  BY <1>1, StepFacts DEF Holders, Held
<1>3. /\ IsFiniteSet(Holders(query) \ {q})
      /\ Cardinality(Holders(query) \ {q}) = Cardinality(Holders(query)) - 1
      /\ Cardinality(Holders(query)) \in Nat
  BY <1>2, FS_RemoveElement, FS_CardinalityType DEF ResolverInv, SlotsOK
<1>4. IsFiniteSet(Holders(at)) /\ Cardinality(Holders(at)) = Cardinality(Holders(query)) - 1
  BY <1>2, <1>3
<1>5. free + 1 \in Nat /\ free + 1 + Cardinality(Holders(at)) = Slots
  BY <1>3, <1>4 DEF ResolverInv, SlotsOK
<1>6. Release(free + 1, at)
  BY DEF at
<1>7. QED
  BY <1>1, <1>4, <1>5, <1>6, ReleaseOK

(* A waiter that goes on asks with its slot or hands it on.                *)
LEMMA ResumeInv ==
  ASSUME ResolverInv, NEW q \in Queries, Resume(q)
  PROVE  ResolverInv'
<1> DEFINE n == query[q].name
<1>1. query[q] \in Step /\ query[q].pc = "woken" /\ n \in Names
  BY StepFacts DEF Resume, Busy, ResolverInv
<1> HIDE DEF n
<1>2. CacheOK' /\ TimesOK'
  BY ForgettingOK DEF Resume, ResolverInv, TimesOK, truth
<1>3. CASE Release(free + 1, With(q, Idle)) /\ sent' = Reply(n, Verdict(n, cache[n].claimed)) /\ Fresh(n)
  <2>1. sent' \in Replies
    BY <1>1, <1>3, CachedClaim, RepliesFacts DEF ResolverInv
  <2>2. QED
    BY <1>1, <1>2, <1>3, <2>1, DoneOK DEF ResolverInv, Held
<1>4. CASE Release(free, With(q, Asks(n))) /\ sent' = Nothing
  <2> DEFINE at == With(q, Asks(n))
  <2>1. /\ at \in [Queries -> Step] /\ InLine(waiting, at)
        /\ at[q] = Asks(n) /\ \A p \in Queries \ {q} : at[p] = query[p]
    BY <1>1, WithOK, StepFacts
  <2> HIDE DEF at
  <2>2. Holders(at) = Holders(query)
    BY <1>1, <2>1, StepFacts DEF Holders, Held
  <2>3. /\ free \in Nat /\ IsFiniteSet(Holders(at))
        /\ free + Cardinality(Holders(at)) = Slots
    BY <2>2 DEF ResolverInv, SlotsOK
  <2>4. Release(free, at)
    BY <1>4 DEF at
  <2>5. query' \in [Queries -> Step] /\ InLine(waiting', query') /\ SlotsOK' /\ NoSlotIdle'
    BY <2>1, <2>3, <2>4, ReleaseOK
  <2>6. sent' \in Replies
    BY <1>4, RepliesFacts
  <2>7. QED
    BY <1>2, <2>5, <2>6 DEF ResolverInv
<1>5. QED
  BY <1>3, <1>4 DEF Resume, AnsweredMeanwhile, n

(* A lookup that goes on holds its slot and no place in the line.          *)
LEMMA GoesOnOK ==
  ASSUME ResolverInv, NEW q \in Queries, query[q].pc = "ask", NEW s \in Asking,
         query' = [query EXCEPT ![q] = s], UNCHANGED <<free, waiting>>
  PROVE  query' \in [Queries -> Step] /\ InLine(waiting', query') /\ SlotsOK' /\ NoSlotIdle'
<1>1. s \in Step /\ s.pc = "ask"
  BY DEF Step, Asking
<1>2. query' = With(q, s)
  BY DEF With
<1>3. /\ query' \in [Queries -> Step] /\ InLine(waiting, query')
      /\ query'[q] = s /\ \A p \in Queries \ {q} : query'[p] = query[p]
  <2>1. /\ With(q, s) \in [Queries -> Step] /\ InLine(waiting, With(q, s))
        /\ With(q, s)[q] = s /\ \A p \in Queries \ {q} : With(q, s)[p] = query[p]
    BY <1>1, WithOK
  <2>2. QED
    BY <1>2, <2>1, Zenon
<1>4. Holders(query') = Holders(query)
  BY <1>1, <1>3 DEF Holders, Held
<1>5. SlotsOK'
  BY <1>4 DEF ResolverInv, SlotsOK, Holders
<1>6. \A p \in Queries : query[p].pc = "woken" => query'[p].pc = "woken"
  BY <1>3
<1>7. NoSlotIdle'
  BY <1>6 DEF ResolverInv, NoSlotIdle, Busy
<1>8. InLine(waiting', query')
  BY <1>3
<1>9. QED
  BY <1>3, <1>5, <1>7, <1>8

(* An answer on its way touches no slot.                                   *)
LEMMA ServeInv ==
  ASSUME ResolverInv, NEW q \in Queries, Serve(q)
  PROVE  ResolverInv'
<1>1. PICK reply \in {"claimed", "unclaimed", "failed"} : query' = [query EXCEPT ![q].reply = reply]
  BY DEF Serve
<1>2. query[q] \in Asking /\ query[q].pc = "ask"
  BY StepFacts DEF Serve, Busy, ResolverInv
<1>3. [query[q] EXCEPT !.reply = reply] \in Asking
  BY <1>2 DEF Asking
<1>4. query' \in [Queries -> Step] /\ InLine(waiting', query') /\ SlotsOK' /\ NoSlotIdle'
  BY <1>1, <1>2, <1>3, GoesOnOK DEF Serve
<1>5. sent' \in Replies /\ CacheOK' /\ TimesOK'
  BY RepliesFacts DEF Serve, ResolverInv, CacheOK, TimesOK, truth
<1>6. QED
  BY <1>4, <1>5 DEF ResolverInv

(* A question put to another server is one like it.                        *)
LEMMA NextServerOK ==
  ASSUME NEW e \in Asking, e.server + 1 \in 1..Servers
  PROVE  [e EXCEPT !.server = @ + 1, !.reply = "none"] \in Asking
<1>1. [e EXCEPT !.server = @ + 1] \in Asking
  BY DEF Asking
<1>2. \A f \in Asking : [f EXCEPT !.reply = "none"] \in Asking
  BY DEF Asking
<1>3. [e EXCEPT !.server = @ + 1, !.reply = "none"] = [[e EXCEPT !.server = @ + 1] EXCEPT !.reply = "none"]
  OBVIOUS
<1>4. QED
  BY <1>1, <1>2, <1>3

(* A lookup goes on to the next server or is done with its slot.           *)
LEMMA ReceiveInv ==
  ASSUME ResolverInv, NEW q \in Queries, Receive(q)
  PROVE  ResolverInv'
<1> DEFINE n == query[q].name
           reply == query[q].reply
<1>1. query[q] \in Asking /\ query[q].pc = "ask" /\ n \in Names
  BY StepFacts DEF Receive, Busy, ResolverInv
<1>2. CASE reply = "failed" /\ query[q].server < Servers
  <2> DEFINE s == [query[q] EXCEPT !.server = @ + 1, !.reply = "none"]
  <2>1. query' = [query EXCEPT ![q] = s]
    <3>1. query' = [query EXCEPT ![q].server = @ + 1, ![q].reply = "none"]
      BY <1>2 DEF Receive
    <3>2. q \in DOMAIN query
      BY DEF ResolverInv
    <3>3. QED
      BY <3>1, <3>2
  <2>2. s \in Asking
    <3>1. query[q].server + 1 \in 1..Servers
      BY <1>1, <1>2, ResolverAssumption DEF Asking
    <3>2. QED
      BY <1>1, <3>1, NextServerOK
  <2> HIDE DEF s
  <2>3. query' \in [Queries -> Step] /\ InLine(waiting', query') /\ SlotsOK' /\ NoSlotIdle'
    BY <1>1, <1>2, <2>1, <2>2, GoesOnOK DEF Receive
  <2>4. sent' \in Replies /\ CacheOK' /\ TimesOK'
    BY <1>2, RepliesFacts DEF Receive, ResolverInv, CacheOK, TimesOK, truth
  <2>5. QED
    BY <2>3, <2>4 DEF ResolverInv
<1>3. CASE ~ (reply = "failed" /\ query[q].server < Servers)
  <2>1. /\ cache' = Remembering(n, reply = "claimed")
        /\ Release(free + 1, With(q, Idle)) /\ sent' = Reply(n, Verdict(n, reply = "claimed"))
        /\ sinceFail' = IF reply = "failed" THEN [sinceFail EXCEPT ![n] = 0] ELSE sinceFail
        /\ UNCHANGED truth
    BY <1>3 DEF Receive
  <2> HIDE DEF n, reply
  <2>2. CacheOK' /\ sent' \in Replies
    BY <1>1, <2>1, RememberingOK, RepliesFacts DEF ResolverInv
  <2>3. TimesOK'
    <3>1. sinceFail' \in [Names -> 0..NegativeTtl]
      BY <1>1, <2>1, ResolverAssumption DEF ResolverInv, TimesOK
    <3>2. QED
      BY <2>1, <3>1 DEF ResolverInv, TimesOK, truth
  <2>4. QED
    BY <1>1, <2>1, <2>2, <2>3, DoneOK DEF ResolverInv, Held
<1>4. QED
  BY <1>2, <1>3

(* Time alone makes nobody wait and serves nobody.                         *)
LEMMA TickInv ==
  ASSUME ResolverInv, Tick
  PROVE  ResolverInv'
<1>1. ASSUME NEW q \in Queries
      PROVE  query'[q] \in Step /\ query'[q].pc = query[q].pc
  <2>1. CASE Busy(q, "ask")
    <3>1. query[q] \in Asking /\ query'[q] = [query[q] EXCEPT !.age = 1]
      BY <2>1, StepFacts DEF ResolverInv, Tick, Busy
    <3>2. query'[q] \in Asking
      BY <3>1 DEF Asking
    <3>3. QED
      BY <2>1, <3>2 DEF Step, Asking, Busy
  <2>2. CASE ~Busy(q, "ask")
    BY <2>2 DEF ResolverInv, Tick
  <2>3. QED
    BY <2>1, <2>2
<1>2. query' \in [Queries -> Step]
  BY <1>1 DEF Tick
<1>3. InLine(waiting', query')
  BY <1>1 DEF ResolverInv, Tick, InLine, Line
<1>4. Holders(query') = Holders(query)
  BY <1>1 DEF Holders
<1>5. SlotsOK'
  BY <1>4 DEF ResolverInv, Tick, SlotsOK, Holders
<1>6. NoSlotIdle'
  BY <1>1 DEF ResolverInv, Tick, NoSlotIdle, Busy
<1>7. CacheOK'
  <2>1. DOMAIN cache' = DOMAIN cache
        /\ \A n \in DOMAIN cache : cache'[n] = [cache[n] EXCEPT !.left = IF @ = 0 THEN 0 ELSE @ - 1]
    BY DEF Tick
  <2>2. \A e \in Entry : [e EXCEPT !.left = IF @ = 0 THEN 0 ELSE @ - 1] \in Entry
    <3>1. \A k \in 0..PositiveTtl : (IF k = 0 THEN 0 ELSE k - 1) \in 0..PositiveTtl
      BY ResolverAssumption
    <3>2. \A k \in 0..NegativeTtl : (IF k = 0 THEN 0 ELSE k - 1) \in 0..NegativeTtl
      BY ResolverAssumption
    <3>3. QED
      BY <3>1, <3>2 DEF Entry
  <2>3. QED
    BY <2>1, <2>2 DEF ResolverInv, CacheOK
<1>8. TimesOK'
  BY ResolverAssumption DEF ResolverInv, Tick, TimesOK, Later, LongUp, LongDown
<1>9. sent' \in Replies
  BY RepliesFacts DEF Tick
<1>10. QED
  BY <1>2, <1>3, <1>5, <1>6, <1>7, <1>8, <1>9 DEF ResolverInv

(* Nor do containers that come and go.                                     *)
LEMMA ContainersInv ==
  ASSUME ResolverInv, NEW n \in Names, Deploy(n) \/ Remove(n)
  PROVE  ResolverInv'
<1>1. TimesOK' /\ sent' \in Replies
  BY ResolverAssumption, RepliesFacts DEF ResolverInv, TimesOK, Deploy, Remove, LongUp, LongDown
<1>2. CacheOK'
  BY DEF ResolverInv, CacheOK, Deploy, Remove
<1>3. UNCHANGED <<free, waiting, query>>
  BY DEF Deploy, Remove
<1>4. QED
  BY <1>1, <1>2, <1>3, SameSlots DEF ResolverInv

(* The invariant holds while nothing has been asked yet.                   *)
LEMMA InitInv == Init => ResolverInv
<1> SUFFICES ASSUME Init PROVE ResolverInv
  OBVIOUS
<1>1. CacheOK
  <2>1. DOMAIN cache = {}
    BY DEF Init
  <2>2. IsFiniteSet({}) /\ Cardinality({}) = 0
    BY FS_EmptySet
  <2>3. IsFiniteSet(DOMAIN cache) /\ Cardinality(DOMAIN cache) = 0
    BY <2>1, <2>2
  <2>4. QED
    BY <2>1, <2>3, ResolverAssumption DEF CacheOK
<1>2. TimesOK
  BY ResolverAssumption DEF Init, TimesOK, LongUp, LongDown
<1>3. query \in [Queries -> Step] /\ \A q \in Queries : query[q].pc = "idle"
  BY StepFacts DEF Init
<1>4. InLine(waiting, query)
  BY <1>3 DEF Init, InLine, Line
<1>5. SlotsOK
  <2>1. Holders(query) = {}
    BY <1>3 DEF Holders, Held
  <2>2. IsFiniteSet({}) /\ Cardinality({}) = 0
    BY FS_EmptySet
  <2>3. IsFiniteSet(Holders(query)) /\ Cardinality(Holders(query)) = 0
    BY <2>1, <2>2
  <2>4. QED
    BY <2>3, ResolverAssumption DEF SlotsOK, Init
<1>6. sent \in Replies /\ NoSlotIdle
  BY RepliesFacts DEF Init, NoSlotIdle
<1>7. QED
  BY <1>1, <1>2, <1>3, <1>4, <1>5, <1>6 DEF ResolverInv

(* ResolverInv is inductive, so that it holds all the time.                *)
LEMMA AlwaysResolverInv == Spec => []ResolverInv
<1>1. ASSUME ResolverInv, [Next]_vars  PROVE ResolverInv'
  <2>1. ASSUME NEW q \in Queries, ArriveBad(q) \/ (\E n \in Names : Arrive(q, n)) \/ Handle(q)
        PROVE  ResolverInv'
    BY <1>1, <2>1, ArriveBadInv, ArriveInv, ResumeInv, ServeInv, ReceiveInv DEF Handle
  <2>2. ASSUME NEW n \in Names, Deploy(n) \/ Remove(n)  PROVE ResolverInv'
    BY <1>1, <2>2, ContainersInv
  <2>3. CASE Tick
    BY <1>1, <2>3, TickInv
  <2>4. CASE UNCHANGED vars
    <3>1. sent' \in Replies /\ CacheOK' /\ TimesOK'
      BY <1>1, <2>4 DEF vars, ResolverInv, CacheOK, TimesOK
    <3>2. QED
      BY <1>1, <2>4, <3>1, SameSlots DEF vars, ResolverInv
  <2>5. QED
    BY <1>1, <2>1, <2>2, <2>3, <2>4 DEF Next
<1>2. QED
  BY <1>1, InitInv, PTL DEF Spec

(* Every state of the resolver is well typed: in particular every slot is  *)
(* free or held by one query, so that there are never more lookups at once *)
(* than upstream_concurrency, and the cache outgrows its limit by one      *)
(* entry at most.                                                          *)
THEOREM ResolverTypeCorrect == Spec => []TypeOK
<1>1. ResolverInv => TypeOK
  <2> SUFFICES ASSUME ResolverInv PROVE TypeOK
    OBVIOUS
  <2>1. \A q \in Queries : Busy(q, "wait") <=> \E k \in DOMAIN waiting : waiting[k] = q
    BY DEF ResolverInv, InLine, Line, Busy
  <2>2. free + Cardinality({q \in Queries : query[q].pc \in {"woken", "ask"}}) = Slots
    BY DEF ResolverInv, SlotsOK, Holders, Held
  <2>3. free \in 0..Slots
    <3>1. Cardinality(Holders(query)) \in Nat
      BY FS_CardinalityType DEF ResolverInv, SlotsOK
    <3>2. QED
      BY <3>1, ResolverAssumption DEF ResolverInv, SlotsOK
  <2>4. \A q \in Queries :
          query[q] \in {Idle} \cup {Waits(n) : n \in Names} \cup {Woken(n) : n \in Names}
            \cup [pc : {"ask"}, name : Names, server : 1..Servers, age : {0, 1},
                  reply : {"none", "claimed", "unclaimed", "failed"}]
    BY DEF ResolverInv, Step, Asking
  <2>5. QED
    BY <2>1, <2>2, <2>3, <2>4 DEF ResolverInv, CacheOK, TimesOK, InLine, Entry, Replies, TypeOK
<1>2. QED
  BY <1>1, AlwaysResolverInv, PTL

(* No slot lies idle while a query waits for one.                          *)
THEOREM SlotsArePassedOn == Spec => []NoSlotIdle
<1>1. ResolverInv => NoSlotIdle
  BY DEF ResolverInv
<1>2. QED
  BY <1>1, AlwaysResolverInv, PTL
-----------------------------------------------------------------------------
(* How old what is known of a name may be: what the cache holds, as long   *)
(* as it counts, and an answer that a lookup has got but not read yet.     *)
CacheTimes ==
  \A n \in DOMAIN cache : cache[n].left > 0 =>
    IF cache[n].claimed THEN sinceUp[n] + cache[n].left <= PositiveTtl + 1
    ELSE \/ sinceDown[n] + cache[n].left <= NegativeTtl + 1
         \/ sinceFail[n] + cache[n].left <= NegativeTtl

ReplyTimes ==
  \A q \in Queries : query[q].pc = "ask" =>
    /\ query[q].reply = "claimed" => sinceUp[query[q].name] <= query[q].age
    /\ query[q].reply = "unclaimed" => sinceDown[query[q].name] <= query[q].age

TruthNow ==
  \A n \in Names : IF n \in up THEN sinceUp[n] = 0 ELSE sinceDown[n] = 0

TimesInv == ResolverInv /\ TruthNow /\ CacheTimes /\ ReplyTimes /\ AnswersInTime

(* A step of a query other than by waking leaves it what it was, and what  *)
(* a release does to the queries is to wake some.                          *)
LEMMA ReleaseAsks ==
  ASSUME NEW slots, NEW at \in [Queries -> Step], Release(slots, at), NEW q \in Queries,
         query'[q].pc = "ask"
  PROVE  query'[q] = at[q]
  BY DEF Release, HandOn, Woken

(* Dropping an entry tells nobody anything.                                *)
LEMMA ForgettingTimes ==
  ASSUME CacheTimes, NEW n, cache' = Forgetting(n), UNCHANGED <<sinceUp, sinceDown, sinceFail>>
  PROVE  CacheTimes'
  BY DEF CacheTimes, Forgetting

(* What an entry of the cache is made of.                                  *)
LEMMA EntryFacts ==
  \A e \in Entry : e.left \in Nat /\ e.claimed \in BOOLEAN
<1>1. ASSUME NEW e \in Entry  PROVE e.left \in Nat
  <2>1. e.left \in 0..PositiveTtl \/ e.left \in 0..NegativeTtl
    BY DEF Entry
  <2>2. QED
    BY <2>1, ResolverAssumption
<1>2. \A e \in Entry : e.claimed \in BOOLEAN
  BY DEF Entry
<1>3. QED
  BY <1>1, <1>2

(* What is told from the cache is recent enough.                           *)
LEMMA CachedInTime ==
  ASSUME TimesInv, NEW n \in Names, Fresh(n), sent' = Reply(n, Verdict(n, cache[n].claimed)),
         UNCHANGED <<sinceUp, sinceDown, sinceFail>>
  PROVE  AnswersInTime'
<1>1. cache[n] \in Entry /\ cache[n].left > 0 /\ cache[n].left \in Nat
  BY EntryFacts DEF TimesInv, ResolverInv, CacheOK, Fresh
<1>2. /\ sinceUp[n] \in Nat /\ sinceDown[n] \in Nat /\ sinceFail[n] \in Nat
  BY ResolverAssumption DEF TimesInv, ResolverInv, TimesOK, LongUp, LongDown
<1>3. sent'.name = n /\ sent'.got = Verdict(n, cache[n].claimed)
  BY DEF Reply
<1>4. IF cache[n].claimed THEN sinceUp[n] <= PositiveTtl
      ELSE sinceDown[n] <= NegativeTtl \/ sinceFail[n] < NegativeTtl
  BY <1>1, <1>2, ResolverAssumption DEF TimesInv, CacheTimes, Fresh
<1>5. cache[n].claimed => Verdict(n, cache[n].claimed) = "forwarded"
  BY DEF Verdict
<1>6. ~cache[n].claimed => Verdict(n, cache[n].claimed) # "forwarded"
  BY DEF Verdict
<1>7. CASE cache[n].claimed
  <2>1. sent'.got = "forwarded" /\ sinceUp'[sent'.name] <= PositiveTtl
    BY <1>3, <1>4, <1>5, <1>7
  <2>2. QED
    BY <2>1 DEF AnswersInTime
<1>8. CASE ~cache[n].claimed
  <2>1. sent'.got # "forwarded"
    BY <1>3, <1>6, <1>8
  <2>2. sinceDown'[sent'.name] <= NegativeTtl \/ sinceFail'[sent'.name] < NegativeTtl
    BY <1>3, <1>4, <1>8
  <2>3. QED
    BY <2>1, <2>2 DEF AnswersInTime
<1>9. QED
  BY <1>7, <1>8

(* Nothing, or "busy", or a refusal is never too late.                     *)
LEMMA NothingInTime ==
  ASSUME sent'.got \notin {"forwarded", "captured", "servfail"}
  PROVE  AnswersInTime'
  BY DEF AnswersInTime

(* A new query knows nothing that could be late.                           *)
LEMMA ArriveTimes ==
  ASSUME TimesInv, NEW q \in Queries, NEW n \in Names, Arrive(q, n)
  PROVE  CacheTimes' /\ ReplyTimes' /\ AnswersInTime'
<1>1. UNCHANGED <<sinceUp, sinceDown, sinceFail>>
  BY DEF Arrive, truth
<1>2. CacheTimes'
  BY <1>1, ForgettingTimes DEF Arrive, TimesInv
<1>3. ASSUME NEW p \in Queries, query'[p].pc = "ask"
      PROVE  query'[p] = query[p] \/ query'[p].reply = "none"
  <2>1. \A s : query' = With(q, s) => query'[q] = s /\ (p # q => query'[p] = query[p])
    BY DEF With, TimesInv, ResolverInv
  <2>2. Asks(n).reply = "none" /\ Waits(n).pc = "wait"
    BY DEF Asks, Waits
  <2>3. QED
    BY <1>3, <2>1, <2>2 DEF Arrive
<1>4. ReplyTimes'
  BY <1>1, <1>3 DEF ReplyTimes, TimesInv
<1>5. AnswersInTime'
  <2>1. CASE Fresh(n) /\ sent' = Reply(n, Verdict(n, cache[n].claimed))
    BY <1>1, <2>1, CachedInTime
  <2>2. CASE sent' = Reply(n, "busy") \/ sent' = Nothing
    BY <2>2, NothingInTime DEF Reply, Nothing
  <2>3. QED
    BY <2>1, <2>2 DEF Arrive
<1>6. QED
  BY <1>2, <1>4, <1>5

(* Nor does one that goes on after its wait.                               *)
LEMMA ResumeTimes ==
  ASSUME TimesInv, NEW q \in Queries, Resume(q)
  PROVE  CacheTimes' /\ ReplyTimes' /\ AnswersInTime'
<1> DEFINE n == query[q].name
<1>1. UNCHANGED <<sinceUp, sinceDown, sinceFail>>
  BY DEF Resume, truth
<1>2. CacheTimes'
  BY <1>1, ForgettingTimes DEF Resume, TimesInv
<1>3. query[q].pc = "woken" /\ n \in Names
  BY StepFacts DEF Resume, Busy, TimesInv, ResolverInv
<1>4. ASSUME NEW s \in {Idle, Asks(n)}, NEW slots, Release(slots, With(q, s)),
             NEW p \in Queries, query'[p].pc = "ask"
      PROVE  query'[p] = query[p] \/ query'[p].reply = "none"
  <2>1. s \in Step /\ s.pc # "wait" /\ (s.pc = "ask" => s.reply = "none")
    BY <1>3, StepFacts DEF Asks, Idle
  <2>2. /\ With(q, s) \in [Queries -> Step]
        /\ With(q, s)[q] = s /\ \A r \in Queries \ {q} : With(q, s)[r] = query[r]
    BY <1>3, <2>1, WithOK DEF TimesInv
  <2>3. query'[p] = With(q, s)[p]
    BY <1>4, <2>2, ReleaseAsks
  <2>4. QED
    BY <1>4, <2>1, <2>2, <2>3
<1>5. ReplyTimes'
  <2>1. \A p \in Queries : query'[p].pc = "ask" => query'[p] = query[p] \/ query'[p].reply = "none"
    BY <1>4 DEF Resume
  <2>2. QED
    BY <1>1, <2>1 DEF ReplyTimes, TimesInv
<1>6. AnswersInTime'
  <2>1. CASE Fresh(n) /\ sent' = Reply(n, Verdict(n, cache[n].claimed))
    BY <1>1, <1>3, <2>1, CachedInTime
  <2>2. CASE sent' = Nothing
    BY <2>2, NothingInTime DEF Nothing
  <2>3. QED
    BY <2>1, <2>2 DEF Resume, AnsweredMeanwhile
<1>7. QED
  BY <1>2, <1>5, <1>6

(* An answer is of the moment it is given.                                 *)
LEMMA ServeTimes ==
  ASSUME TimesInv, NEW q \in Queries, Serve(q)
  PROVE  CacheTimes' /\ ReplyTimes' /\ AnswersInTime'
<1>1. UNCHANGED <<cache, sinceUp, sinceDown, sinceFail>> /\ sent' = Nothing
  BY DEF Serve, truth
<1>2. CacheTimes' /\ AnswersInTime'
  BY <1>1, NothingInTime DEF CacheTimes, TimesInv, Nothing
<1>3. PICK reply \in {IF query[q].name \in up THEN "claimed" ELSE "unclaimed", "failed"} :
        query' = [query EXCEPT ![q].reply = reply]
  BY DEF Serve
<1>4. query[q] \in Asking /\ query[q].name \in Names /\ query[q].age \in {0, 1}
  BY StepFacts DEF Serve, Busy, TimesInv, ResolverInv, Asking
<1>5. /\ query'[q].name = query[q].name /\ query'[q].age = query[q].age /\ query'[q].reply = reply
      /\ \A p \in Queries \ {q} : query'[p] = query[p]
  BY <1>3, <1>4 DEF TimesInv, ResolverInv, Asking
<1>6. \A n \in Names : IF n \in up THEN sinceUp[n] = 0 ELSE sinceDown[n] = 0
  BY DEF TimesInv, TruthNow
<1>7. /\ reply = "claimed" => sinceUp[query[q].name] <= query[q].age
      /\ reply = "unclaimed" => sinceDown[query[q].name] <= query[q].age
  BY <1>4, <1>6
<1>8. ReplyTimes'
  BY <1>1, <1>5, <1>7 DEF ReplyTimes, TimesInv
<1>9. QED
  BY <1>2, <1>8

(* What a lookup ends with is at most a tick old, and counts from then.    *)
LEMMA ReceiveTimes ==
  ASSUME TimesInv, NEW q \in Queries, Receive(q)
  PROVE  CacheTimes' /\ ReplyTimes' /\ AnswersInTime'
<1> DEFINE n == query[q].name
           reply == query[q].reply
<1>1. /\ query[q] \in Asking /\ query[q].pc = "ask" /\ n \in Names /\ query[q].age \in {0, 1}
      /\ reply \in {"claimed", "unclaimed", "failed"}
  BY StepFacts DEF Receive, Busy, TimesInv, ResolverInv, Asking
<1>2. UNCHANGED <<sinceUp, sinceDown>>
  BY DEF Receive, truth
<1>3. CASE reply = "failed" /\ query[q].server < Servers
  <2>1. /\ query' = [query EXCEPT ![q].server = @ + 1, ![q].reply = "none"]
        /\ sent' = Nothing /\ UNCHANGED <<cache, sinceFail>>
    BY <1>3 DEF Receive
  <2>2. query'[q].reply = "none" /\ \A p \in Queries \ {q} : query'[p] = query[p]
    BY <1>1, <2>1 DEF TimesInv, ResolverInv, Asking
  <2>3. ReplyTimes'
    BY <1>2, <2>1, <2>2 DEF ReplyTimes, TimesInv
  <2>4. CacheTimes' /\ AnswersInTime'
    BY <1>2, <2>1, NothingInTime DEF CacheTimes, TimesInv, Nothing
  <2>5. QED
    BY <2>3, <2>4
<1>4. CASE ~ (reply = "failed" /\ query[q].server < Servers)
  <2>1. /\ cache' = Remembering(n, reply = "claimed")
        /\ Release(free + 1, With(q, Idle)) /\ sent' = Reply(n, Verdict(n, reply = "claimed"))
        /\ sinceFail' = IF reply = "failed" THEN [sinceFail EXCEPT ![n] = 0] ELSE sinceFail
    BY <1>4 DEF Receive
  <2>2. /\ sinceUp \in [Names -> Nat] /\ sinceDown \in [Names -> Nat] /\ sinceFail \in [Names -> Nat]
    BY ResolverAssumption DEF TimesInv, ResolverInv, TimesOK, LongUp, LongDown
  <2>3. IF reply = "claimed" THEN sinceUp[n] <= 1
        ELSE sinceDown[n] <= 1 \/ sinceFail'[n] = 0
    <3>1. /\ reply = "claimed" => sinceUp[n] <= 1
          /\ reply = "unclaimed" => sinceDown[n] <= 1
      BY <1>1, <2>2 DEF TimesInv, ReplyTimes
    <3>2. reply = "failed" => sinceFail'[n] = 0
      BY <1>1, <2>1, <2>2
    <3>3. QED
      BY <1>1, <3>1, <3>2
  <2>4. \A m \in Names : m # n => sinceFail'[m] = sinceFail[m]
    BY <1>1, <2>1, <2>2
  <2>5. sinceFail'[n] <= sinceFail[n]
    BY <1>1, <2>1, <2>2
  <2>6. ReplyTimes'
    <3>1. With(q, Idle) \in [Queries -> Step] /\ With(q, Idle)[q] = Idle
          /\ \A p \in Queries \ {q} : With(q, Idle)[p] = query[p]
      BY <1>1, WithOK, StepFacts DEF TimesInv
    <3>2. ASSUME NEW p \in Queries, query'[p].pc = "ask"  PROVE query'[p] = query[p]
      <4>1. query'[p] = With(q, Idle)[p]
        BY <2>1, <3>1, <3>2, ReleaseAsks
      <4>2. QED
        BY <3>1, <3>2, <4>1, StepFacts
    <3>3. QED
      BY <1>2, <3>2 DEF ReplyTimes, TimesInv
  <2> DEFINE claimed == reply = "claimed"
  <2>7. /\ \A m \in DOMAIN cache' : m # n => m \in DOMAIN cache /\ cache'[m] = cache[m]
        /\ n \in DOMAIN cache' => cache'[n] = [claimed |-> claimed, left |-> Ttl(claimed)]
    BY <2>1 DEF Remembering, Remembered
  <2>8. /\ claimed => sinceUp'[n] + Ttl(claimed) <= PositiveTtl + 1
        /\ ~claimed => \/ sinceDown'[n] + Ttl(claimed) <= NegativeTtl + 1
                       \/ sinceFail'[n] + Ttl(claimed) <= NegativeTtl
    BY <1>1, <1>2, <2>2, <2>3, ResolverAssumption DEF Ttl
  <2>9. CacheTimes'
    <3>1. ASSUME NEW m \in DOMAIN cache', cache'[m].left > 0
          PROVE  IF cache'[m].claimed THEN sinceUp'[m] + cache'[m].left <= PositiveTtl + 1
                 ELSE \/ sinceDown'[m] + cache'[m].left <= NegativeTtl + 1
                      \/ sinceFail'[m] + cache'[m].left <= NegativeTtl
      <4> HIDE DEF claimed
      <4>1. CASE m = n
        BY <2>7, <2>8, <4>1
      <4>2. CASE m # n
        <5>1. m \in DOMAIN cache /\ cache'[m] = cache[m] /\ m \in Names
          BY <2>7, <4>2 DEF TimesInv, ResolverInv, CacheOK
        <5>2. QED
          BY <1>2, <2>4, <3>1, <4>2, <5>1 DEF TimesInv, CacheTimes
      <4>3. QED
        BY <4>1, <4>2
    <3>2. QED
      BY <3>1 DEF CacheTimes
  <2>10. AnswersInTime'
    <3>1. sent'.name = n /\ sent'.got = Verdict(n, claimed)
      BY <2>1 DEF Reply
    <3>2. /\ claimed => Verdict(n, claimed) = "forwarded"
          /\ ~claimed => Verdict(n, claimed) # "forwarded"
      BY DEF Verdict
    <3>3. /\ claimed => sinceUp'[n] <= PositiveTtl
          /\ ~claimed => sinceDown'[n] <= NegativeTtl \/ sinceFail'[n] < NegativeTtl
      BY <1>1, <1>2, <2>2, <2>3, ResolverAssumption
    <3> HIDE DEF claimed, n
    <3>4. QED
      BY <3>1, <3>2, <3>3 DEF AnswersInTime
  <2>11. QED
    BY <2>6, <2>9, <2>10
<1>5. QED
  BY <1>3, <1>4

(* A tick takes one from what is left and adds one to what has gone by.    *)
LEMMA TickTimes ==
  ASSUME TimesInv, Tick
  PROVE  CacheTimes' /\ ReplyTimes' /\ AnswersInTime'
<1>1. AnswersInTime'
  BY NothingInTime DEF Tick, Nothing
<1>2. ASSUME NEW n \in Names
      PROVE  /\ sinceUp[n] \in Nat /\ sinceDown[n] \in Nat /\ sinceFail[n] \in Nat
             /\ sinceUp'[n] <= sinceUp[n] + 1 /\ sinceDown'[n] <= sinceDown[n] + 1
             /\ sinceFail'[n] <= sinceFail[n] + 1
             /\ sinceUp'[n] \in Nat /\ sinceDown'[n] \in Nat /\ sinceFail'[n] \in Nat
  <2>1. /\ sinceUp[n] \in 0..LongUp /\ sinceDown[n] \in 0..LongDown /\ sinceFail[n] \in 0..NegativeTtl
        /\ LongUp \in Nat /\ LongDown \in Nat /\ NegativeTtl \in Nat
    BY ResolverAssumption DEF TimesInv, ResolverInv, TimesOK, LongUp, LongDown
  <2>2. /\ sinceUp'[n] = IF n \in up THEN 0 ELSE Later(sinceUp[n], LongUp)
        /\ sinceDown'[n] = IF n \in up THEN Later(sinceDown[n], LongDown) ELSE 0
        /\ sinceFail'[n] = Later(sinceFail[n], NegativeTtl)
    BY DEF Tick
  <2>3. QED
    BY <2>1, <2>2 DEF Later
<1>3. CacheTimes'
  <2>1. ASSUME NEW n \in DOMAIN cache', cache'[n].left > 0
        PROVE  IF cache'[n].claimed THEN sinceUp'[n] + cache'[n].left <= PositiveTtl + 1
               ELSE \/ sinceDown'[n] + cache'[n].left <= NegativeTtl + 1
                    \/ sinceFail'[n] + cache'[n].left <= NegativeTtl
    <3>1. n \in DOMAIN cache /\ n \in Names /\ cache[n] \in Entry
      BY DEF Tick, TimesInv, ResolverInv, CacheOK
    <3>2. cache'[n] = [cache[n] EXCEPT !.left = IF @ = 0 THEN 0 ELSE @ - 1]
      BY <3>1 DEF Tick
    <3>3. DOMAIN cache[n] = {"claimed", "left"} /\ cache[n].left \in Nat
      BY <3>1, EntryFacts DEF Entry
    <3>4. cache'[n].claimed = cache[n].claimed
      BY <3>2, <3>3
    <3>5. cache[n].left > 0 /\ cache'[n].left = cache[n].left - 1
      BY <2>1, <3>2, <3>3
    <3>6. QED
      BY <1>2, <3>1, <3>3, <3>4, <3>5, ResolverAssumption DEF TimesInv, CacheTimes
  <2>2. QED
    BY <2>1 DEF CacheTimes
<1>4. ReplyTimes'
  <2>1. ASSUME NEW q \in Queries, query'[q].pc = "ask"
        PROVE  /\ query'[q].reply = "claimed" => sinceUp'[query'[q].name] <= query'[q].age
               /\ query'[q].reply = "unclaimed" => sinceDown'[query'[q].name] <= query'[q].age
    <3>1. query[q].pc = "ask" /\ query[q] \in Asking /\ query[q].age = 0
      BY <2>1, StepFacts DEF Tick, Busy, TimesInv, ResolverInv
    <3>2. query'[q] = [query[q] EXCEPT !.age = 1] /\ query[q].name \in Names
      BY <3>1 DEF Tick, Busy, Asking
    <3>3. /\ query'[q].name = query[q].name /\ query'[q].reply = query[q].reply /\ query'[q].age = 1
      BY <3>1, <3>2 DEF Asking
    <3>4. QED
      BY <1>2, <3>1, <3>2, <3>3 DEF TimesInv, ReplyTimes
  <2>2. QED
    BY <2>1 DEF ReplyTimes
<1>5. QED
  BY <1>1, <1>3, <1>4

(* A container that comes or goes makes what is known of it no older.      *)
LEMMA ContainersTimes ==
  ASSUME TimesInv, NEW n \in Names, Deploy(n) \/ Remove(n)
  PROVE  CacheTimes' /\ ReplyTimes' /\ AnswersInTime'
<1>1. AnswersInTime'
  BY NothingInTime DEF Deploy, Remove, Nothing
<1>2. UNCHANGED <<cache, query, sinceFail>>
  BY DEF Deploy, Remove
<1>3. \A m \in Names : /\ sinceUp[m] \in Nat /\ sinceDown[m] \in Nat
                      /\ sinceUp'[m] \in Nat /\ sinceDown'[m] \in Nat
                      /\ sinceUp'[m] <= sinceUp[m] /\ sinceDown'[m] <= sinceDown[m]
  BY ResolverAssumption DEF Deploy, Remove, TimesInv, ResolverInv, TimesOK, LongUp, LongDown
<1>4. ASSUME NEW m \in DOMAIN cache
      PROVE  m \in Names /\ cache[m].left \in Nat
  BY EntryFacts DEF TimesInv, ResolverInv, CacheOK
<1>5. CacheTimes'
  BY <1>2, <1>3, <1>4, ResolverAssumption DEF TimesInv, CacheTimes
<1>6. \A q \in Queries : query[q].pc = "ask" => query[q].name \in Names /\ query[q].age \in {0, 1}
  BY StepFacts DEF TimesInv, ResolverInv, Asking
<1>7. ReplyTimes'
  BY <1>2, <1>3, <1>6 DEF TimesInv, ReplyTimes
<1>8. QED
  BY <1>1, <1>5, <1>7

(* TruthNow is inductive by itself: a container that is there was there    *)
(* no tick ago.                                                            *)
LEMMA TruthNowStep ==
  ASSUME TimesOK, TruthNow, [Next]_vars
  PROVE  TruthNow'
<1> USE DEF TimesOK, TruthNow
<1>1. ASSUME NEW q \in Queries, ArriveBad(q) \/ (\E n \in Names : Arrive(q, n)) \/ Handle(q)
      PROVE  TruthNow'
  BY <1>1 DEF ArriveBad, Arrive, Handle, Resume, Serve, Receive, truth
<1>2. ASSUME NEW n \in Names, Deploy(n) \/ Remove(n)  PROVE TruthNow'
  BY <1>2 DEF Deploy, Remove
<1>3. CASE Tick
  BY <1>3 DEF Tick
<1>4. QED
  BY <1>1, <1>2, <1>3 DEF Next, vars

(* Nothing else makes anything told late.                                  *)
LEMMA TimesStep ==
  ASSUME TimesInv, [Next]_vars
  PROVE  CacheTimes' /\ ReplyTimes' /\ AnswersInTime'
<1>1. ASSUME NEW q \in Queries, ArriveBad(q)
      PROVE  CacheTimes' /\ ReplyTimes' /\ AnswersInTime'
  <2>1. AnswersInTime'
    BY <1>1, NothingInTime DEF ArriveBad
  <2>2. QED
    BY <1>1, <2>1 DEF ArriveBad, truth, TimesInv, CacheTimes, ReplyTimes
<1>2. ASSUME NEW q \in Queries, NEW n \in Names, Arrive(q, n)
      PROVE  CacheTimes' /\ ReplyTimes' /\ AnswersInTime'
  BY <1>2, ArriveTimes
<1>3. ASSUME NEW q \in Queries, Handle(q)
      PROVE  CacheTimes' /\ ReplyTimes' /\ AnswersInTime'
  BY <1>3, ResumeTimes, ServeTimes, ReceiveTimes DEF Handle
<1>4. ASSUME NEW n \in Names, Deploy(n) \/ Remove(n)
      PROVE  CacheTimes' /\ ReplyTimes' /\ AnswersInTime'
  BY <1>4, ContainersTimes
<1>5. CASE Tick
  BY <1>5, TickTimes
<1>6. CASE UNCHANGED vars
  BY <1>6 DEF vars, TimesInv, CacheTimes, ReplyTimes, AnswersInTime
<1>7. QED
  BY <1>1, <1>2, <1>3, <1>4, <1>5, <1>6 DEF Next

(* What a query gets is never older than the cache may be.                 *)
THEOREM AnswersAreInTime == Spec => []AnswersInTime
<1>1. Init => TruthNow /\ CacheTimes /\ ReplyTimes /\ AnswersInTime
  BY StepFacts DEF Init, TruthNow, CacheTimes, ReplyTimes, AnswersInTime, Nothing
<1>2. TruthNow /\ ResolverInv /\ [Next]_vars => TruthNow'
  BY TruthNowStep DEF ResolverInv
<1>3. ResolverInv /\ TruthNow /\ CacheTimes /\ ReplyTimes /\ AnswersInTime /\ [Next]_vars
        => CacheTimes' /\ ReplyTimes' /\ AnswersInTime'
  BY TimesStep DEF TimesInv
<1>4. QED
  BY <1>1, <1>2, <1>3, AlwaysResolverInv, PTL DEF Spec

(* No lookup begins for a name whose answer is at hand.                    *)
THEOREM OnlyUnknownLookedUp == Spec => LooksUpOnlyUnknown
<1> DEFINE Unknown == \A p \in Queries :
             query'[p].pc = "ask" /\ query[p].pc # "ask" => ~Fresh(query'[p].name)
<1>1. ASSUME ResolverInv, Next  PROVE Unknown
  <2>1. ASSUME NEW q \in Queries, NEW n \in Names, Arrive(q, n)  PROVE Unknown
    <3>1. \A s : query' = With(q, s) => query'[q] = s /\ \A p \in Queries \ {q} : query'[p] = query[p]
      BY <1>1 DEF With, ResolverInv
    <3>2. Waits(n).pc = "wait" /\ Asks(n).name = n
      BY DEF Waits, Asks
    <3>3. QED
      BY <2>1, <3>1, <3>2 DEF Arrive
  <2>2. ASSUME NEW q \in Queries, Resume(q)  PROVE Unknown
    <3> DEFINE n == query[q].name
    <3>1. query[q].pc = "woken" /\ n \in Names
      BY <1>1, <2>2, StepFacts DEF Resume, Busy, ResolverInv
    <3>2. ASSUME NEW s \in {Idle, Asks(n)}, NEW slots, Release(slots, With(q, s)),
                 s.pc = "ask" => ~Fresh(n)
          PROVE  Unknown
      <4>1. s \in Step /\ s.pc # "wait" /\ (s.pc = "ask" => s.name = n)
        BY <3>1, StepFacts
      <4>2. /\ With(q, s) \in [Queries -> Step]
            /\ With(q, s)[q] = s /\ \A r \in Queries \ {q} : With(q, s)[r] = query[r]
        BY <1>1, <3>1, <4>1, WithOK
      <4>3. \A p \in Queries : query'[p].pc = "ask" => query'[p] = With(q, s)[p]
        BY <3>2, <4>2, ReleaseAsks
      <4>4. QED
        BY <3>2, <4>1, <4>2, <4>3
    <3>3. Idle.pc # "ask"
      BY StepFacts
    <3>4. QED
      BY <2>2, <3>2, <3>3 DEF Resume, AnsweredMeanwhile
  <2>3. ASSUME NEW q \in Queries, Serve(q)  PROVE Unknown
    <3>1. PICK reply : query' = [query EXCEPT ![q].reply = reply]
      BY <2>3 DEF Serve
    <3>2. QED
      BY <1>1, <2>3, <3>1 DEF Serve, Busy, ResolverInv
  <2>4. ASSUME NEW q \in Queries, Receive(q)  PROVE Unknown
    <3>1. query[q].pc = "ask"
      BY <2>4 DEF Receive, Busy
    <3>2. CASE query' = [query EXCEPT ![q].server = @ + 1, ![q].reply = "none"]
      BY <1>1, <3>1, <3>2 DEF ResolverInv
    <3>3. CASE Release(free + 1, With(q, Idle))
      <4>1. /\ With(q, Idle) \in [Queries -> Step] /\ With(q, Idle)[q] = Idle
            /\ \A r \in Queries \ {q} : With(q, Idle)[r] = query[r]
        BY <1>1, <3>1, WithOK, StepFacts
      <4>2. \A p \in Queries : query'[p].pc = "ask" => query'[p] = With(q, Idle)[p]
        BY <3>3, <4>1, ReleaseAsks
      <4>3. QED
        BY <4>1, <4>2, StepFacts
    <3>4. QED
      BY <2>4, <3>2, <3>3 DEF Receive
  <2>5. CASE Tick
    BY <1>1, <2>5 DEF Tick, Busy, ResolverInv
  <2>6. CASE UNCHANGED query
    BY <2>6
  <2>7. QED
    BY <1>1, <2>1, <2>2, <2>3, <2>4, <2>5, <2>6 DEF Next, Handle, ArriveBad, Deploy, Remove
<1>2. ASSUME ResolverInv, [Next]_vars
      PROVE  [\A q \in Queries : Busy(q, "ask")' /\ ~Busy(q, "ask") => ~Fresh(query'[q].name)]_vars
  BY <1>1, <1>2 DEF Busy
<1>3. QED
  BY <1>2, AlwaysResolverInv, PTL DEF Spec, LooksUpOnlyUnknown
=============================================================================
