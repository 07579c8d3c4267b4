--------------------------- MODULE RegistryProofs ---------------------------
(***************************************************************************)
(* CorrelationRegistry, for every cap, lifetime, set of ids and number of  *)
(* long polls: the registry is well formed and within its cap, accounts    *)
(* for each registration, strands no waiter, and pushes out a live hint    *)
(* only when it is full of live hints.                                     *)
(***************************************************************************)
EXTENDS CorrelationRegistry, FiniteSetTheorems, TLAPS

(* Any entries of S have a first among them.  Said of every subset, this   *)
(* is kept by adding one entry and by removing any, so that no induction   *)
(* over the size of the registry is needed.                                *)
Ordered(S) == \A T \in SUBSET S : T # {} => \E e \in T : \A d \in T : e.pos <= d.pos

(* No entry is placed past the last registration.                          *)
PlacedInTurn == \A e \in entries : e.pos <= counts.registered

RegistryInv == TypeOK /\ PlacedInTurn /\ Ordered(entries) /\ HintsAccounted /\ NoLostWakeup

(* What a look at the registry leaves, and what it needs of the clock.     *)
Shape(S) ==
  /\ S \subseteq Entry /\ IsFiniteSet(S) /\ Cardinality(S) <= MaxEntries
  /\ \A d, e \in S : (d.id = e.id \/ d.pos = e.pos) => d = e

-----------------------------------------------------------------------------
(* The part of the type invariant that speaks of the map.                 *)
LEMMA TypeShape == TypeOK => Shape(entries)
BY DEF TypeOK, Shape

(* A part of a well-shaped registry is well shaped.                        *)
LEMMA ShapePart ==
  ASSUME NEW S, NEW T \in SUBSET S, Shape(S), Ordered(S)
  PROVE  /\ Shape(T) /\ Ordered(T) /\ IsFiniteSet(S \ T)
         /\ Cardinality(T) \in Nat /\ Cardinality(S \ T) \in Nat
         /\ Cardinality(T) = Cardinality(S) - Cardinality(S \ T)
<1>1. IsFiniteSet(S) BY DEF Shape
<1>2. IsFiniteSet(T) /\ Cardinality(T) <= Cardinality(S)
  BY <1>1, FS_Subset
<1>3. IsFiniteSet(S \ T) /\ Cardinality(S \ T) = Cardinality(S) - Cardinality(S \cap T)
  BY <1>1, FS_Difference
<1>4. S \cap T = T OBVIOUS
<1>9. Cardinality(S \ T) = Cardinality(S) - Cardinality(T)
  BY <1>3, <1>4, Zenon
<1>5. Cardinality(S) \in Nat /\ Cardinality(T) \in Nat /\ Cardinality(S \ T) \in Nat
  BY <1>1, <1>2, <1>3, FS_CardinalityType
<1>6. Cardinality(T) <= MaxEntries
  BY <1>2, <1>5, RegistryAssumption DEF Shape
<1>7. Shape(T) BY <1>2, <1>6 DEF Shape
<1>8. Ordered(T) BY DEF Ordered
<1>10. Cardinality(T) = Cardinality(S) - Cardinality(S \ T)
  BY <1>5, <1>9
<1> QED BY <1>3, <1>5, <1>7, <1>8, <1>10

(* Of a set that has a first entry and one entry per place, Oldest takes   *)
(* exactly one.                                                            *)
LEMMA OldestIsOne ==
  ASSUME NEW S, S # {}, S \subseteq Entry, Ordered(S),
         \A d, e \in S : d.pos = e.pos => d = e
  PROVE  \E e \in S : Oldest(S) = {e}
<1>1. PICK e \in S : \A d \in S : e.pos <= d.pos BY DEF Ordered
<1>2. \A d \in S : d.pos \in Nat BY DEF Entry
<1>3. \A d \in Oldest(S) : d = e BY <1>1, <1>2 DEF Oldest
<1>4. e \in Oldest(S) BY <1>1 DEF Oldest
<1> QED BY <1>3, <1>4

(* An entry with a place of its own, added to an ordered set, leaves it    *)
(* ordered.                                                                *)
LEMMA OrderedGrows ==
  ASSUME NEW S, S \subseteq Entry, Ordered(S), NEW x \in Entry
  PROVE  Ordered(S \cup {x})
<1> SUFFICES ASSUME NEW T \in SUBSET (S \cup {x}), T # {}
             PROVE  \E e \in T : \A d \in T : e.pos <= d.pos
  BY DEF Ordered
<1>0. \A d \in T : d.pos \in Nat BY DEF Entry
<1>1. CASE T \ {x} = {}
  <2>1. T = {x} BY <1>1
  <2> QED BY <2>1, <1>0
<1>2. CASE T \ {x} # {}
  <2>1. T \ {x} \in SUBSET S OBVIOUS
  <2>2. PICK e \in T \ {x} : \A d \in T \ {x} : e.pos <= d.pos
    BY <1>2, <2>1 DEF Ordered
  <2>3. CASE x \in T /\ x.pos < e.pos
    <3>1. \A d \in T : x.pos <= d.pos BY <1>0, <2>2, <2>3
    <3> QED BY <2>3, <3>1
  <2>4. CASE x \notin T \/ ~(x.pos < e.pos)
    <3>1. \A d \in T : e.pos <= d.pos BY <1>0, <2>2, <2>4
    <3> QED BY <2>2, <3>1
  <2> QED BY <2>3, <2>4
<1> QED BY <1>1, <1>2

-----------------------------------------------------------------------------
(* What register() does to the map, whoever calls it: live entries are     *)
(* kept, one is added or overwritten, at most one is pushed out, and every *)
(* one of these is counted.                                                *)
LEMMA Registering ==
  ASSUME RegistryInv, NEW id \in Ids, NEW host \in Hosts, NEW ttl \in Ttls,
         Register(id, host, ttl)
  PROVE  /\ Shape(entries') /\ Ordered(entries')
         /\ counts' \in Counts /\ PlacedInTurn' /\ replaced' \in Nat /\ HintsAccounted'
         /\ \A e \in Live : (\A d \in entries' : d.id # e.id) =>
              Cardinality(entries') = MaxEntries /\ \A d \in entries' : d.exp > clock
<1> DEFINE again == {e \in Kept : e.id = id}
           entry == [id |-> id, host |-> host, at |-> clock, exp |-> clock + ttl,
                     pos |-> IF again = {} THEN Place ELSE (CHOOSE e \in again : TRUE).pos]
           rest == Kept \ again
           grown == rest \cup {entry}
<1>1. /\ TypeOK /\ PlacedInTurn /\ Ordered(entries) /\ HintsAccounted
      /\ Shape(entries) /\ clock \in Nat /\ ttl \in Nat \ {0} /\ replaced \in Nat
      /\ counts \in Counts /\ counts.registered \in Nat /\ counts.expired \in Nat
      /\ counts.overflowed \in Nat /\ MaxEntries \in Nat \ {0}
  BY TypeShape, RegistryAssumption DEF RegistryInv, TypeOK, Counts
<1>2. /\ entries' = grown \ PushedOut(grown)
      /\ counts' = [registered |-> counts.registered + 1,
                    expired |-> counts.expired + Cardinality(entries \ Kept),
                    overflowed |-> counts.overflowed + Cardinality(PushedOut(grown))]
      /\ replaced' = replaced + Cardinality(again)
  BY DEF Register
<1>3. Kept \in SUBSET entries /\ rest \in SUBSET Kept /\ Kept \ rest = again
  BY DEF Kept, Live
<1>4. /\ Shape(Kept) /\ Ordered(Kept) /\ Cardinality(Kept) \in Nat
      /\ Cardinality(entries \ Kept) \in Nat
      /\ Cardinality(Kept) = Cardinality(entries) - Cardinality(entries \ Kept)
  BY <1>1, <1>3, ShapePart
<1>5. /\ Shape(rest) /\ Ordered(rest) /\ Cardinality(rest) \in Nat
      /\ Cardinality(Kept \ rest) \in Nat
      /\ Cardinality(rest) = Cardinality(Kept) - Cardinality(Kept \ rest)
  BY <1>3, <1>4, ShapePart
<1>6. /\ Cardinality(again) \in Nat
      /\ Cardinality(rest) = Cardinality(Kept) - Cardinality(again)
  BY <1>3, <1>5
<1>7. entry \in Entry /\ entry.id = id /\ entry.exp > clock /\ entry.pos <= counts.registered + 1
  <2>1. CASE again = {}
    <3>1. entry.pos = counts.registered + 1 BY <2>1 DEF Place
    <3> QED BY <1>1, <3>1 DEF Entry
  <2>2. CASE again # {}
    <3>1. (CHOOSE e \in again : TRUE) \in again BY <2>2
    <3>2. (CHOOSE e \in again : TRUE) \in entries BY <1>3, <3>1
    <3>3. entry.pos \in Nat /\ entry.pos <= counts.registered
      BY <2>2, <3>2, <1>1 DEF TypeOK, Entry, PlacedInTurn
    <3> QED BY <1>1, <3>3 DEF Entry
  <2> QED BY <2>1, <2>2
<1>8. \A d \in rest : d \in entries /\ d.id # id /\ d.pos # entry.pos
  <2> SUFFICES ASSUME NEW d \in rest PROVE d \in entries /\ d.id # id /\ d.pos # entry.pos
    OBVIOUS
  <2>1. d \in entries /\ d \in Kept /\ d.id # id /\ d.pos \in Nat
    BY <1>3, <1>1 DEF TypeOK, Entry
  <2>2. CASE again = {}
    <3>1. entry.pos = counts.registered + 1 BY <2>2 DEF Place
    <3>2. d.pos <= counts.registered BY <2>1, <1>1 DEF PlacedInTurn
    <3> QED BY <2>1, <3>1, <3>2, <1>1
  <2>3. CASE again # {}
    <3>1. PICK e \in again : e = (CHOOSE x \in again : TRUE) BY <2>3
    <3>2. e \in entries /\ e.id = id /\ entry.pos = e.pos BY <1>3, <2>3, <3>1
    <3>3. d.pos = e.pos => d = e BY <2>1, <3>2, <1>1 DEF TypeOK
    <3> QED BY <2>1, <3>2, <3>3
  <2> QED BY <2>2, <2>3
<1> HIDE DEF entry, again, rest
<1>9. entry \notin rest BY <1>7, <1>8
<1>10. IsFiniteSet(rest) /\ Cardinality(rest) <= MaxEntries /\ rest \subseteq Entry
  BY <1>5 DEF Shape
<1>11. IsFiniteSet(grown) /\ Cardinality(grown) = Cardinality(rest) + 1
  BY <1>9, <1>10, FS_AddElement
<1>12. Ordered(grown) /\ grown \subseteq Entry
  BY <1>5, <1>7, <1>10, OrderedGrows
<1>13. \A d, e \in grown : (d.id = e.id \/ d.pos = e.pos) => d = e
  BY <1>5, <1>7, <1>8 DEF Shape
<1> HIDE DEF grown
<1>14. PushedOut(grown) = {} \/ \E e \in grown : PushedOut(grown) = {e}
  <2>1. entry \in grown BY DEF grown
  <2> QED BY <2>1, <1>12, <1>13, OldestIsOne DEF PushedOut
<1>15. /\ IsFiniteSet(entries') /\ Cardinality(PushedOut(grown)) \in {0, 1}
       /\ Cardinality(entries') = Cardinality(grown) - Cardinality(PushedOut(grown))
       /\ Cardinality(grown) > MaxEntries <=> PushedOut(grown) # {}
       /\ PushedOut(grown) # {} => Cardinality(PushedOut(grown)) = 1
  <2>0. Cardinality(grown) \in Nat BY <1>11, FS_CardinalityType
  <2>1. CASE Cardinality(grown) > MaxEntries
    <3>1. PushedOut(grown) # {}
      <4>1. grown # {} BY DEF grown
      <4>2. PushedOut(grown) = Oldest(grown) BY <2>1 DEF PushedOut
      <4> QED BY <4>1, <4>2, <1>12, <1>13, OldestIsOne
    <3>2. PICK e \in grown : PushedOut(grown) = {e} BY <3>1, <1>14
    <3>3. Cardinality(PushedOut(grown)) = 1 BY <3>2, FS_Singleton
    <3>4. entries' = grown \ {e} BY <1>2, <3>2
    <3>5. IsFiniteSet(entries') /\ Cardinality(entries') = Cardinality(grown) - 1
      BY <3>4, <1>11, FS_RemoveElement
    <3> QED BY <2>1, <3>1, <3>3, <3>5
  <2>2. CASE ~(Cardinality(grown) > MaxEntries)
    <3>1. PushedOut(grown) = {} BY <2>2 DEF PushedOut
    <3>2. entries' = grown BY <1>2, <3>1
    <3>3. Cardinality(PushedOut(grown)) = 0 BY <3>1, FS_EmptySet
    <3> QED BY <2>0, <2>2, <3>1, <3>2, <3>3, <1>11
  <2> QED BY <2>1, <2>2
<1>16. entries' \in SUBSET grown BY <1>2
<1>17. Cardinality(entries') <= MaxEntries /\ Cardinality(entries') \in Nat
  BY <1>1, <1>5, <1>10, <1>11, <1>15
<1>18. Shape(entries') /\ Ordered(entries')
  BY <1>12, <1>13, <1>15, <1>16, <1>17 DEF Shape, Ordered
<1>19. counts' \in Counts /\ replaced' \in Nat
  BY <1>1, <1>2, <1>4, <1>6, <1>15 DEF Counts
<1>20. PlacedInTurn'
  <2> SUFFICES ASSUME NEW e \in entries' PROVE e.pos <= counts'.registered
    BY DEF PlacedInTurn
  <2>1. e \in rest \/ e = entry BY <1>16 DEF grown
  <2>2. e \in rest => e.pos \in Nat /\ e.pos <= counts.registered
    BY <1>8, <1>1 DEF PlacedInTurn, TypeOK, Entry
  <2> QED BY <2>1, <2>2, <1>1, <1>2, <1>7
<1>21. HintsAccounted'
  <2>1. counts'.registered = counts.registered + 1
    /\ counts'.expired = counts.expired + Cardinality(entries \ Kept)
    /\ counts'.overflowed = counts.overflowed + Cardinality(PushedOut(grown))
    BY <1>2
  <2>2. Cardinality(entries) \in Nat BY <1>1, FS_CardinalityType DEF Shape
  <2>3. counts.registered =
          Cardinality(entries) + counts.expired + counts.overflowed + replaced
    BY <1>1 DEF HintsAccounted
  <2>4. counts'.registered =
          Cardinality(entries') + counts'.expired + counts'.overflowed + replaced'
    BY <2>1, <2>2, <2>3, <1>1, <1>2, <1>4, <1>5, <1>6, <1>11, <1>15
  <2> QED BY <2>4 DEF HintsAccounted
<1>22. ASSUME NEW e \in Live, \A d \in entries' : d.id # e.id
       PROVE  Cardinality(entries') = MaxEntries /\ \A d \in entries' : d.exp > clock
  <2>1. \A d \in grown : d.exp > clock
    <3>1. \A d \in rest : d.exp > clock BY <1>3 DEF rest, Kept, Live
    <3> QED BY <3>1, <1>7 DEF grown
  <2>2. PushedOut(grown) # {}
    <3> SUFFICES ASSUME PushedOut(grown) = {} PROVE FALSE OBVIOUS
    <3>1. entries' = grown BY <1>2
    <3>2. e.id = id \/ e \in grown BY DEF grown, rest, again, Kept
    <3>3. entry \in grown BY DEF grown
    <3> QED BY <1>22, <3>1, <3>2, <3>3, <1>7
  <2>3. Cardinality(entries') = MaxEntries
    BY <2>2, <1>1, <1>5, <1>10, <1>11, <1>15, <1>17
  <2> QED BY <2>1, <2>3, <1>16
<1> QED BY <1>18, <1>19, <1>20, <1>21, <1>22
(* A look at the registry removes and counts what has expired, and shows   *)
(* what was pending before it.                                             *)
LEMMA Looking ==
  ASSUME RegistryInv, Look, UNCHANGED <<clock, used, replaced>>
  PROVE  /\ Shape(entries') /\ Ordered(entries')
         /\ counts' \in Counts /\ PlacedInTurn' /\ HintsAccounted'
         /\ counts'.registered = counts.registered
         /\ Live' = Live
<1>1. /\ PlacedInTurn /\ Ordered(entries) /\ HintsAccounted /\ Shape(entries)
      /\ replaced \in Nat /\ counts \in Counts /\ counts.registered \in Nat
      /\ counts.expired \in Nat /\ counts.overflowed \in Nat
  BY TypeShape DEF RegistryInv, TypeOK, Counts
<1>2. entries' = Live /\ counts' = [counts EXCEPT !.expired = @ + Evicted]
  BY DEF Look
<1>3. Live \in SUBSET entries BY DEF Live
<1>4. /\ Shape(Live) /\ Ordered(Live) /\ Cardinality(Live) \in Nat
      /\ Cardinality(entries \ Live) \in Nat
      /\ Cardinality(Live) = Cardinality(entries) - Cardinality(entries \ Live)
  BY <1>1, <1>3, ShapePart
<1>5. /\ counts'.registered = counts.registered /\ counts'.overflowed = counts.overflowed
      /\ counts'.expired = counts.expired + Cardinality(entries \ Live)
      /\ counts' \in Counts
  BY <1>1, <1>2, <1>4 DEF Counts, Evicted
<1>6. HintsAccounted'
  <2>1. Cardinality(entries) \in Nat BY <1>1, FS_CardinalityType DEF Shape
  <2>2. counts.registered =
          Cardinality(entries) + counts.expired + counts.overflowed + replaced
    BY <1>1 DEF HintsAccounted
  <2>3. counts'.registered =
          Cardinality(Live) + counts'.expired + counts'.overflowed + replaced'
    BY <2>1, <2>2, <1>1, <1>4, <1>5
  <2> QED BY <2>3, <1>2 DEF HintsAccounted
<1>7. PlacedInTurn' BY <1>1, <1>2, <1>3, <1>5 DEF PlacedInTurn
<1>8. Live' = Live BY <1>2 DEF Live
<1> QED BY <1>2, <1>4, <1>5, <1>6, <1>7, <1>8

(* The invariant, put together from its parts.                             *)
LEMMA InvariantParts ==
  ASSUME Shape(entries'), Ordered(entries'), counts' \in Counts, PlacedInTurn',
         HintsAccounted', NoLostWakeup', clock' \in Nat, used' \subseteq Ids,
         replaced' \in Nat, waiter' \in [Waiters -> Waiter]
  PROVE  RegistryInv'
BY DEF RegistryInv, TypeOK, Shape

(* The empty registry of CorrelationRegistry.__init__ is well formed.      *)
LEMMA RegistryInit == Init => RegistryInv
<1> SUFFICES ASSUME Init PROVE RegistryInv OBVIOUS
<1>1. IsFiniteSet(entries) /\ Cardinality(entries) = 0
  BY FS_EmptySet DEF Init
<1>2. TypeOK
  BY <1>1, RegistryAssumption DEF Init, TypeOK, Counts, Waiter, NotWaiting
<1>3. PlacedInTurn /\ Ordered(entries) BY DEF Init, PlacedInTurn, Ordered
<1>4. HintsAccounted BY <1>1 DEF Init, HintsAccounted
<1>5. NoLostWakeup BY DEF Init, NoLostWakeup, NotWaiting
<1> QED BY <1>2, <1>3, <1>4, <1>5 DEF RegistryInv

(* Every operation of the registry, and the passing of time, keep the      *)
(* invariant.                                                              *)
LEMMA RegistryStep == RegistryInv /\ [Next]_vars => RegistryInv'
<1> SUFFICES ASSUME RegistryInv, [Next]_vars PROVE RegistryInv' OBVIOUS
<1>0. /\ TypeOK /\ PlacedInTurn /\ Ordered(entries) /\ HintsAccounted /\ NoLostWakeup
      /\ Shape(entries) /\ waiter \in [Waiters -> Waiter] /\ clock \in Nat
      /\ used \subseteq Ids /\ replaced \in Nat /\ counts \in Counts
  BY TypeShape DEF RegistryInv, TypeOK
<1>1. ASSUME NEW id \in Ids, NEW host \in Hosts, NEW ttl \in Ttls, Register(id, host, ttl)
      PROVE  RegistryInv'
  <2>1. /\ Shape(entries') /\ Ordered(entries') /\ counts' \in Counts /\ PlacedInTurn'
        /\ replaced' \in Nat /\ HintsAccounted'
    BY <1>1, Registering
  <2>2. clock' = clock /\ used' \subseteq Ids /\ Wake
    BY <1>0, <1>1 DEF Register
  <2>3. waiter' \in [Waiters -> Waiter] /\ \A w \in Waiters : waiter'[w].pc # "parked"
    <3>1. ASSUME NEW w \in Waiters
          PROVE  waiter'[w] \in Waiter /\ waiter'[w].pc # "parked"
      <4>1. waiter[w] \in Waiter BY <1>0
      <4> QED BY <2>2, <4>1 DEF Wake, Waiter
    <3>2. waiter' = [w \in Waiters |-> waiter'[w]] BY <2>2 DEF Wake
    <3> QED BY <3>1, <3>2
  <2>4. NoLostWakeup' BY <2>3 DEF NoLostWakeup
  <2> QED BY <1>0, <2>1, <2>2, <2>3, <2>4, InvariantParts
<1>2. ASSUME Look, UNCHANGED <<clock, used, replaced>>,
             waiter' \in [Waiters -> Waiter],
             \A w \in Waiters : waiter'[w].pc = "parked" =>
               Pending(waiter'[w].host, waiter'[w].after) = {}
      PROVE  RegistryInv'
  <2>1. /\ Shape(entries') /\ Ordered(entries') /\ counts' \in Counts /\ PlacedInTurn'
        /\ HintsAccounted' /\ Live' = Live
    BY <1>2, Looking
  <2>2. NoLostWakeup'
    BY <1>2, <2>1 DEF NoLostWakeup, Pending
  <2> QED BY <1>0, <1>2, <2>1, <2>2, InvariantParts
<1>3. CASE Stats
  <2>1. \A w \in Waiters : waiter[w].pc = "parked" =>
          Pending(waiter[w].host, waiter[w].after) = {}
    BY <1>0 DEF NoLostWakeup
  <2> QED BY <1>0, <1>2, <1>3, <2>1 DEF Stats
<1>4. ASSUME NEW w \in Waiters, NEW host \in Hosts \cup {None}, NEW after \in Int,
             NEW patient \in BOOLEAN, WaitBegin(w, host, after, patient)
      PROVE  RegistryInv'
  <2> DEFINE asked == [pc |-> "parked", host |-> host, after |-> after]
  <2>1. asked \in Waiter /\ NotWaiting \in Waiter BY DEF Waiter, NotWaiting
  <2>2. \/ waiter' = [waiter EXCEPT ![w] = NotWaiting]
        \/ /\ waiter' = [waiter EXCEPT ![w] = asked]
           /\ Pending(host, after) = {}
    BY <1>4 DEF WaitBegin
  <2>3. waiter' \in [Waiters -> Waiter] BY <1>0, <2>1, <2>2
  <2>4. ASSUME NEW v \in Waiters, waiter'[v].pc = "parked"
        PROVE  Pending(waiter'[v].host, waiter'[v].after) = {}
    <3>1. CASE v # w
      <4>1. waiter'[v] = waiter[v] BY <1>0, <2>2, <3>1
      <4> QED BY <1>0, <2>4, <4>1 DEF NoLostWakeup
    <3>2. CASE v = w
      <4>1. waiter'[v] = asked /\ Pending(host, after) = {}
        BY <1>0, <2>2, <2>4, <3>2 DEF NotWaiting
      <4> QED BY <4>1
    <3> QED BY <3>1, <3>2
  <2> QED BY <1>2, <1>4, <2>3, <2>4 DEF WaitBegin
<1>5. ASSUME NEW w \in Waiters, WaitResume(w) \/ WaitTimeout(w)
      PROVE  RegistryInv'
  <2> DEFINE again == [waiter[w] EXCEPT !.pc = "parked"]
  <2>1. /\ again \in Waiter /\ NotWaiting \in Waiter
        /\ again.host = waiter[w].host /\ again.after = waiter[w].after
    BY <1>0 DEF Waiter, NotWaiting
  <2>2. \/ waiter' = [waiter EXCEPT ![w] = NotWaiting]
        \/ /\ waiter' = [waiter EXCEPT ![w] = again]
           /\ Pending(waiter[w].host, waiter[w].after) = {}
    BY <1>5 DEF WaitResume, WaitTimeout
  <2> HIDE DEF again
  <2>3. waiter' \in [Waiters -> Waiter] BY <1>0, <2>1, <2>2
  <2>4. ASSUME NEW v \in Waiters, waiter'[v].pc = "parked"
        PROVE  Pending(waiter'[v].host, waiter'[v].after) = {}
    <3>1. CASE v # w
      <4>1. waiter'[v] = waiter[v] BY <1>0, <2>2, <3>1
      <4> QED BY <1>0, <2>4, <4>1 DEF NoLostWakeup
    <3>2. CASE v = w
      <4>1. waiter'[v] = again /\ Pending(waiter[w].host, waiter[w].after) = {}
        BY <1>0, <2>2, <2>4, <3>2 DEF NotWaiting
      <4> QED BY <2>1, <4>1
    <3> QED BY <3>1, <3>2
  <2> QED BY <1>2, <1>5, <2>3, <2>4 DEF WaitResume, WaitTimeout
<1>6. CASE Tick
  <2>1. /\ UNCHANGED <<entries, counts, waiter, used, replaced>>
        /\ clock' = clock + 1
    BY <1>6 DEF Tick
  <2>2. Live' \subseteq Live
    BY <2>1, <1>0 DEF Live, TypeOK, Entry
  <2>3. NoLostWakeup' BY <1>0, <2>1, <2>2 DEF NoLostWakeup, Pending
  <2>4. Shape(entries') /\ Ordered(entries') BY <1>0, <2>1
  <2>5. PlacedInTurn' /\ HintsAccounted'
    BY <1>0, <2>1 DEF PlacedInTurn, HintsAccounted
  <2> QED BY <1>0, <2>1, <2>3, <2>4, <2>5, InvariantParts
<1>7. CASE Restart
  <2>1. IsFiniteSet(entries') /\ Cardinality(entries') = 0 /\ entries' = {}
    BY <1>7, FS_EmptySet DEF Restart
  <2>2. Shape(entries') /\ Ordered(entries')
    BY <2>1, RegistryAssumption DEF Shape, Ordered
  <2>3. counts' \in Counts /\ PlacedInTurn' /\ HintsAccounted' /\ replaced' \in Nat
    BY <1>7, <2>1 DEF Restart, Counts, PlacedInTurn, HintsAccounted
  <2>4. waiter' \in [Waiters -> Waiter] /\ NoLostWakeup'
    BY <1>7 DEF Restart, NotWaiting, Waiter, NoLostWakeup
  <2>5. clock' = clock /\ used' = used BY <1>7 DEF Restart
  <2> QED BY <1>0, <2>2, <2>3, <2>4, <2>5, InvariantParts
<1>8. CASE UNCHANGED vars
  <2>1. Live' = Live BY <1>8 DEF vars, Live
  <2> QED BY <1>0, <1>8, <2>1
      DEF vars, RegistryInv, TypeOK, PlacedInTurn, Ordered, HintsAccounted, NoLostWakeup, Pending
<1> QED
  <2>1. \A after \in -1..MaxClock : after \in Int OBVIOUS
  <2> QED BY <1>1, <1>3, <1>4, <1>5, <1>6, <1>7, <1>8, <2>1 DEF Next

(* The registry is well formed, within its cap and accounts for every      *)
(* registration, and a long poll sleeps only while nothing is pending that *)
(* it asks for.                                                            *)
THEOREM RegistryInvariant == Spec => []RegistryInv
BY RegistryInit, RegistryStep, PTL DEF Spec

(* Each registration is pending, expired, pushed out or overwritten: the   *)
(* counters of stats() lose none.                                          *)
THEOREM EveryHintAccounted == Spec => []HintsAccounted
<1>1. RegistryInv => HintsAccounted BY DEF RegistryInv
<1> QED BY <1>1, RegistryInvariant, PTL

(* Setting and replacing the arrival event strands no waiter: one that is  *)
(* parked would get an empty answer if it looked.                          *)
THEOREM NoWaiterStranded == Spec => []NoLostWakeup
<1>1. RegistryInv => NoLostWakeup BY DEF RegistryInv
<1> QED BY <1>1, RegistryInvariant, PTL

(* A hint that has not expired leaves only for the cap, and only from a    *)
(* registry that is full of hints that have not expired.                   *)
THEOREM LiveHintsKept == Spec => LiveHintsStay
<1>1. ASSUME RegistryInv, [Next]_vars, counts'.registered > counts.registered
      PROVE  \A e \in Live : (\A d \in entries' : d.id # e.id) =>
               Cardinality(entries') = MaxEntries /\ \A d \in entries' : d.exp > clock
  <2>0. counts.registered \in Nat BY <1>1 DEF RegistryInv, TypeOK, Counts
  <2>1. ASSUME NEW id \in Ids, NEW host \in Hosts, NEW ttl \in Ttls, Register(id, host, ttl)
        PROVE  \A e \in Live : (\A d \in entries' : d.id # e.id) =>
                 Cardinality(entries') = MaxEntries /\ \A d \in entries' : d.exp > clock
    BY <1>1, <2>1, Registering
  <2>2. ~Look
    BY <1>1, <2>0 DEF Look, RegistryInv, TypeOK, Counts
  <2>3. ~Tick /\ ~Restart /\ ~UNCHANGED vars
    BY <1>1, <2>0 DEF Tick, Restart, vars
  <2> QED BY <1>1, <2>1, <2>2, <2>3 DEF Next, Stats, WaitBegin, WaitResume, WaitTimeout
<1>2. RegistryInv /\ [Next]_vars =>
        [counts'.registered > counts.registered =>
           \A e \in Live : (\A d \in entries' : d.id # e.id) =>
             /\ Cardinality(entries') = MaxEntries
             /\ \A d \in entries' : d.exp > clock]_vars
  BY <1>1
<1> QED BY <1>2, RegistryInvariant, PTL DEF Spec, LiveHintsStay
=============================================================================
