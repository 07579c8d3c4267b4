----------------------------- MODULE ScoreProofs -----------------------------
(***************************************************************************)
(* Theorems about ScoreDocument, for every catalog, inventory, export and  *)
(* report.  Each property is a consequence of the types of the two         *)
(* variables, so the proofs are about the functions of the modules below.  *)
(***************************************************************************)
EXTENDS ScoreDocument, FiniteSetTheorems, SequenceTheorems, WellFoundedInduction, TLAPS

Typed == log \in Seq(Inputs) /\ report \in Seq(Reports)

(* The export holds events and the report findings, of the kinds there     *)
(* are.                                                                    *)
THEOREM DocumentTypeCorrect == Spec => []Typed
<1>1. Init => Typed
  BY DEF Init, Typed
<1>2. Typed /\ [Next]_vars => Typed'
  <2> SUFFICES ASSUME Typed, [Next]_vars PROVE Typed'
    OBVIOUS
  <2>1. Inputs = Requests \cup Signals \cup Correlations \cup Callbacks
    BY ScoringAssumption
  <2>2. ASSUME NEW events \in SUBSET Inputs, Exporting(events) PROVE Typed'
    BY <2>2 DEF Exporting, Typed
  <2>3. CASE Reporting
    BY <2>3 DEF Reporting, Typed
  <2>4. CASE UNCHANGED vars
    BY <2>4 DEF vars, Typed
  <2> QED
    BY <2>1, <2>2, <2>3, <2>4 DEF Next
<1> QED
  BY <1>1, <1>2, PTL DEF Spec
-----------------------------------------------------------------------------
(* The least of a set of places.                                           *)

LEMMA LeastNatural ==
  ASSUME NEW S \in SUBSET Nat, S # {}
  PROVE  \E x \in S : \A y \in S : x <= y
<1> DEFINE R == {p \in Nat \X Nat : p[1] < p[2]}
<1>1. IsWellFoundedOn(R, Nat)
  BY NatLessThanWellFounded DEF OpToRel
<1>2. \A x, y \in Nat : x < y => <<x, y>> \in R
  OBVIOUS
<1> HIDE DEF R
<1>3. PICK x \in S : \A y \in S : ~ (<<y, x>> \in R)
  BY <1>1, WFMin
<1>4. ASSUME NEW y \in S PROVE x <= y
  <2>1. x \in Nat /\ y \in Nat
    OBVIOUS
  <2>2. ~ (y < x)
    BY <1>2, <1>3, <2>1
  <2> QED
    BY <2>1, <2>2
<1> QED
  BY <1>4

LEMMA MinIsLeast ==
  ASSUME NEW S \in SUBSET Nat, S # {}
  PROVE  Min(S) \in S /\ \A y \in S : Min(S) <= y
BY LeastNatural DEF Min

LEMMA MinIs ==
  ASSUME NEW S \in SUBSET Nat, NEW x \in S, \A y \in S : x <= y
  PROVE  Min(S) = x
<1>1. Min(S) \in S /\ Min(S) <= x /\ x <= Min(S)
  BY MinIsLeast
<1>2. Min(S) \in Nat /\ x \in Nat
  BY <1>1
<1> QED
  BY <1>1, <1>2

LEMMA FirstSomeIs ==
  ASSUME NEW n \in Nat, NEW sets, DOMAIN sets = 1..n,
         NEW k \in 1..n, sets[k] # {}, \A j \in 1..n : j < k => sets[j] = {}
  PROVE  FirstSome(sets) = sets[k]
<1> DEFINE some == {j \in DOMAIN sets : sets[j] # {}}
<1>1. some \in SUBSET Nat /\ k \in some /\ \A j \in some : k <= j
  OBVIOUS
<1>2. Min(some) = k
  BY <1>1, MinIs
<1> QED
  BY <1>1, <1>2 DEF FirstSome

LEMMA FirstOfThree ==
  ASSUME NEW a, NEW b, NEW c
  PROVE  FirstSome(<<a, b, c>>) = IF a # {} THEN a ELSE IF b # {} THEN b ELSE c
<1> DEFINE s == <<a, b, c>>
<1> SUFFICES FirstSome(s) = IF a # {} THEN a ELSE IF b # {} THEN b ELSE c
  OBVIOUS
<1>1. DOMAIN s = 1..3 /\ s[1] = a /\ s[2] = b /\ s[3] = c
  OBVIOUS
<1> HIDE DEF s
<1>2. ASSUME NEW k \in 1..3, s[k] # {}, \A j \in 1..3 : j < k => s[j] = {}
      PROVE  FirstSome(s) = s[k]
  BY <1>1, <1>2, FirstSomeIs, 3 \in Nat
<1>3. CASE a # {}
  BY <1>1, <1>2, <1>3
<1>4. CASE a = {} /\ b # {}
  BY <1>1, <1>2, <1>4
<1>5. CASE a = {} /\ b = {} /\ c # {}
  BY <1>1, <1>2, <1>5
<1>6. CASE a = {} /\ b = {} /\ c = {}
  <2>1. {k \in DOMAIN s : s[k] # {}} = {}
    BY <1>1, <1>6
  <2> QED
    BY <1>6, <2>1 DEF FirstSome
<1> QED
  BY <1>3, <1>4, <1>5, <1>6

LEMMA FirstOfFour ==
  ASSUME NEW a, NEW b, NEW c, NEW d
  PROVE  FirstSome(<<a, b, c, d>>)
           = IF a # {} THEN a ELSE IF b # {} THEN b ELSE IF c # {} THEN c ELSE d
<1> DEFINE s == <<a, b, c, d>>
<1> SUFFICES FirstSome(s) = IF a # {} THEN a ELSE IF b # {} THEN b
                            ELSE IF c # {} THEN c ELSE d
  OBVIOUS
<1>1. DOMAIN s = 1..4 /\ s[1] = a /\ s[2] = b /\ s[3] = c /\ s[4] = d
  OBVIOUS
<1> HIDE DEF s
<1>2. ASSUME NEW k \in 1..4, s[k] # {}, \A j \in 1..4 : j < k => s[j] = {}
      PROVE  FirstSome(s) = s[k]
  BY <1>1, <1>2, FirstSomeIs, 4 \in Nat
<1>3. CASE a # {}
  BY <1>1, <1>2, <1>3
<1>4. CASE a = {} /\ b # {}
  BY <1>1, <1>2, <1>4
<1>5. CASE a = {} /\ b = {} /\ c # {}
  BY <1>1, <1>2, <1>5
<1>6. CASE a = {} /\ b = {} /\ c = {} /\ d # {}
  BY <1>1, <1>2, <1>6
<1>7. CASE a = {} /\ b = {} /\ c = {} /\ d = {}
  <2>1. {k \in DOMAIN s : s[k] # {}} = {}
    BY <1>1, <1>7
  <2> QED
    BY <1>7, <2>1 DEF FirstSome
<1> QED
  BY <1>3, <1>4, <1>5, <1>6, <1>7
-----------------------------------------------------------------------------
(* What is read of an event.                                               *)

LEMMA ReadOutside ==
  ASSUME NEW e \in Inputs, ~(e.type = "oob" /\ e.nested)
  PROVE  Read(e) = e
BY DEF Read

LEMMA ReadCallback ==
  ASSUME NEW e \in Inputs, e.type = "oob"
  PROVE  /\ Read(e).type = "oob" /\ Read(e).token = e.token /\ Read(e).id = e.id
         /\ Read(e).weak = e.weak /\ Read(e).app = e.app
         /\ e.nested => /\ Read(e).signal = "none" /\ Read(e).request = "none"
                        /\ Read(e).host = "none" /\ e.id = "none"
<1>1. e \in Callbacks
  BY DEF Callbacks
<1>2. /\ DOMAIN e = {"type", "nested", "app", "token", "signal", "id", "host", "request", "weak",
                     "said", "source", "container", "synthetic"}
      /\ e.nested => e.id = "none"
  BY <1>1, ScoringAssumption
<1>3. CASE e.nested
  BY <1>2, <1>3 DEF Read
<1>4. CASE ~e.nested
  BY <1>4 DEF Read
<1> QED
  BY <1>3, <1>4

LEMMA ReadType ==
  ASSUME NEW e \in Inputs
  PROVE  Read(e).type = e.type
BY ReadOutside, ReadCallback

(* A registration is what it was exported as.                              *)
LEMMA ReadRegistration ==
  ASSUME NEW e \in Inputs, Registers(Read(e))
  PROVE  Read(e) = e
BY ReadOutside, ReadCallback DEF Registers
LEMMA ScoredPlaces ==
  ASSUME NEW export \in Seq(Inputs)
  PROVE  /\ DOMAIN Scored(export) \in SUBSET Nat /\ DOMAIN Scored(export) \subseteq 1..Len(export)
         /\ \A k \in DOMAIN Scored(export) :
              /\ export[k] \in Inputs /\ ~export[k].synthetic
              /\ Scored(export)[k] = Read(export[k])
         /\ \A k \in 1..Len(export) : ~export[k].synthetic => k \in DOMAIN Scored(export)
BY DEF Scored

LEMMA ToolEvents ==
  ASSUME Typed
  PROVE  /\ \A k \in DOMAIN Scored(log) :
              /\ log[k] \in Tools /\ log[k] \in Inputs /\ Scored(log)[k] = Read(log[k])
         /\ \A e \in Tools : e \in Inputs /\ \E k \in DOMAIN Scored(log) : e = log[k]
BY ScoredPlaces DEF Typed, Tools, Scored

(* A registration in question is one of them, the first.                   *)
LEMMA ClaimedIs ==
  ASSUME NEW es, NEW ks \in SUBSET Nat
  PROVE  /\ ks = {} => Claimed(es, ks) = "none"
         /\ ks # {} => \E k \in ks : Claimed(es, ks) = es[k].signal
BY MinIsLeast DEF Claimed
-----------------------------------------------------------------------------
(* Proof of a trigger.                                                     *)

(* The first of its ties that ties a callback to anything.                 *)
Tie(es, e) ==
  IF With("token", e.token) # {} THEN With("token", e.token)
  ELSE IF With("signal", e.signal) # {} THEN With("signal", e.signal)
  ELSE IF {e.id} \cap DOMAIN Catalog # {} THEN {e.id} \cap DOMAIN Catalog
  ELSE With("signal", Joined(es, e))

LEMMA AttributionIsTie ==
  ASSUME NEW es, NEW e
  PROVE  /\ Tie(es, e) # {} =>
              Attribution(es, e).to = Tie(es, e) /\ Attribution(es, e).strength = Strength(e)
         /\ Tie(es, e) = {} => Attribution(es, e).strength = "low"
<1> DEFINE tied == FirstSome(<<With("token", e.token), With("signal", e.signal),
                               {e.id} \cap DOMAIN Catalog, With("signal", Joined(es, e))>>)
<1>1. tied = Tie(es, e)
  BY FirstOfFour DEF Tie
<1> QED
  BY <1>1 DEF Attribution

LEMMA OwnWordIs ==
  ASSUME NEW e
  PROVE  OwnWord(e) = IF With("token", e.token) # {} THEN With("token", e.token)
                      ELSE IF With("signal", e.signal) # {} THEN With("signal", e.signal)
                      ELSE {e.id} \cap DOMAIN Catalog
BY FirstOfThree DEF OwnWord

(* Who registered something that a callback shares with it.                *)
LEMMA JoinedIsRegistered ==
  ASSUME Typed, NEW e \in CallsMade
  PROVE  /\ Joined(Scored(log), Read(e)) # "none" =>
              \E r \in Registered(e) : Joined(Scored(log), Read(e)) = r.signal
         /\ ~e.nested /\ Registered(e) # {} => Joined(Scored(log), Read(e)) # "none"
<1> DEFINE es == Scored(log)
           c == Read(e)
           byRequest == {k \in DOMAIN es : c.request # "none" /\ Registers(es[k])
                                           /\ es[k].request = c.request}
           very == {k \in DOMAIN es : Registers(es[k]) /\ HostOf(es[k]) # "none"
                                      /\ HostOf(es[k]) = c.host}
           near == {k \in DOMAIN es : Registers(es[k]) /\ HostOf(es[k]) # "none"
                                      /\ Related(HostOf(es[k]), c.host)}
<1>1. e \in Inputs /\ e.type = "oob"
  BY ToolEvents DEF CallsMade
<1>2. DOMAIN es \in SUBSET Nat
  BY ScoredPlaces DEF Typed
<1>3. ASSUME NEW k \in DOMAIN es, Registers(es[k])
      PROVE  log[k] \in Tools /\ Registers(Read(log[k])) /\ es[k] = log[k] /\ log[k].signal # "none"
  <2>1. es[k] = Read(log[k]) /\ log[k] \in Tools /\ log[k] \in Inputs
    BY ToolEvents
  <2> QED
    BY <1>3, <2>1, ReadRegistration DEF Registers
<1>4. Joined(es, c) = IF Claimed(es, byRequest) # "none" THEN Claimed(es, byRequest)
                      ELSE IF c.host = "none" THEN "none"
                      ELSE IF very # {} THEN Claimed(es, very) ELSE Claimed(es, near)
  BY DEF Joined, ForRequest, ForHost
<1>5. ~e.nested => c = e
  BY <1>1, ReadOutside
<1>6. e.nested => c.request = "none" /\ c.host = "none"
  BY <1>1, ReadCallback
<1>7. ASSUME NEW k \in byRequest PROVE log[k] \in Registered(e) /\ es[k] = log[k]
  BY <1>3, <1>5, <1>6, <1>7 DEF Registered, SharesWith
<1>8. ASSUME NEW k \in very, c.host # "none" PROVE log[k] \in Registered(e) /\ es[k] = log[k]
  BY <1>3, <1>5, <1>6, <1>8 DEF Registered, SharesWith, Related
<1>9. ASSUME NEW k \in near, c.host # "none" PROVE log[k] \in Registered(e) /\ es[k] = log[k]
  BY <1>3, <1>5, <1>6, <1>9 DEF Registered, SharesWith
<1>10. byRequest \in SUBSET Nat /\ very \in SUBSET Nat /\ near \in SUBSET Nat
  BY <1>2
<1>11. ASSUME Joined(es, c) # "none" PROVE \E r \in Registered(e) : Joined(es, c) = r.signal
  <2> HIDE DEF es, c, byRequest, very, near
  <2>1. CASE Claimed(es, byRequest) # "none"
    BY <1>4, <1>7, <1>10, <2>1, ClaimedIs
  <2>2. CASE Claimed(es, byRequest) = "none" /\ very # {} /\ c.host # "none"
    BY <1>4, <1>8, <1>10, <2>2, ClaimedIs
  <2>3. CASE Claimed(es, byRequest) = "none" /\ very = {} /\ c.host # "none"
    <3>1. Joined(es, c) = Claimed(es, near)
      BY <1>4, <2>3
    <3>2. near # {}
      BY <1>10, <1>11, <3>1, ClaimedIs
    <3> QED
      BY <1>9, <1>10, <2>3, <3>1, <3>2, ClaimedIs
  <2> QED
    BY <1>4, <1>11, <2>1, <2>2, <2>3
<1>12. ASSUME ~e.nested, NEW r \in Registered(e) PROVE Joined(es, c) # "none"
  <2>1. PICK k \in DOMAIN es : r = log[k]
    BY ToolEvents DEF Registered
  <2>2. Registers(es[k]) /\ es[k] = r
    BY <1>3, <2>1, ToolEvents DEF Registered
  <2>3. k \in byRequest \/ (c.host # "none" /\ k \in near)
    BY <1>5, <1>12, <2>2 DEF Registered, SharesWith
  <2>4. ASSUME NEW ks \in {byRequest, very, near}, ks # {} PROVE Claimed(es, ks) # "none"
    <3>1. ks \in SUBSET Nat /\ \A j \in ks : j \in DOMAIN es /\ Registers(es[j])
      BY <1>10, <2>4
    <3> HIDE DEF es, byRequest, very, near
    <3>2. PICK j \in ks : Claimed(es, ks) = es[j].signal
      BY <2>4, <3>1, ClaimedIs
    <3> QED
      BY <3>1, <3>2 DEF Registers
  <2> HIDE DEF es, c, byRequest, very, near
  <2> QED
    BY <1>4, <2>3, <2>4
<1> QED
  BY <1>11, <1>12

(* What a flaw's trigger comes from.                                       *)
LEMMA TriggerIs ==
  ASSUME NEW v, NEW es, NEW at
  PROVE  Outcome(v, es, at).trigger <=>
           \/ \E k \in DOMAIN es : es[k].type = "signal"
                                   /\ (v \in With("signal", es[k].signal) \/ es[k].id = v)
           \/ \E k \in DOMAIN at : v \in at[k].to /\ at[k].strength = "high"
BY DEF Outcome

LEMMA FiredIs ==
  ASSUME Typed, NEW v
  PROVE  Fired(v) <=> \E k \in DOMAIN Scored(log) :
                        /\ Scored(log)[k].type = "signal"
                        /\ \/ v \in With("signal", Scored(log)[k].signal)
                           \/ Scored(log)[k].id = v
<1> DEFINE es == Scored(log)
<1>1. ASSUME NEW k \in DOMAIN es, es[k].type = "signal" \/ log[k].type = "signal"
      PROVE  log[k] \in Tools /\ es[k] = log[k]
  <2>1. log[k] \in Tools /\ log[k] \in Inputs /\ es[k] = Read(log[k])
    BY ToolEvents
  <2>2. log[k].type = "signal"
    BY <1>1, <2>1, ReadType
  <2> QED
    BY <2>1, <2>2, ReadOutside
<1>2. ASSUME NEW e \in Tools PROVE \E k \in DOMAIN es : e = log[k]
  BY ToolEvents
<1> HIDE DEF es
<1> QED
  BY <1>1, <1>2 DEF Fired, es

(* A callback that counts is backed.                                       *)
LEMMA HighIsBacked ==
  ASSUME Typed, NEW e \in CallsMade, NEW v,
         v \in Attribution(Scored(log), Read(e)).to,
         Attribution(Scored(log), Read(e)).strength = "high"
  PROVE  /\ ~e.weak
         /\ v \in OwnWord(e) \/ \E r \in Registered(e) : v \in With("signal", r.signal)
<1> DEFINE es == Scored(log)
           c == Read(e)
<1>1. e \in Inputs /\ e.type = "oob"
  BY ToolEvents DEF CallsMade
<1>2. c.token = e.token /\ c.id = e.id /\ c.weak = e.weak /\ (~e.nested => c = e)
      /\ (e.nested => c.signal = "none" /\ e.id = "none")
  BY <1>1, ReadCallback, ReadOutside
<1>3. e.nested => With("signal", c.signal) = {} /\ {e.id} \cap DOMAIN Catalog = {}
  BY <1>2, ScoringAssumption DEF With
<1> HIDE DEF es, c
<1>4. v \in Tie(es, c) /\ Strength(c) = "high"
  BY AttributionIsTie DEF es, c
<1>5. ~e.weak
  BY <1>2, <1>4 DEF Strength
<1>6. CASE v \in With("signal", Joined(es, c))
  <2>1. Joined(es, c) # "none"
    BY <1>6 DEF With
  <2> QED
    BY <1>5, <1>6, <2>1, JoinedIsRegistered DEF es, c
<1>7. CASE v \notin With("signal", Joined(es, c))
  <2>1. v \in OwnWord(e)
    BY <1>2, <1>3, <1>4, <1>7, OwnWordIs DEF Tie
  <2> QED
    BY <1>5, <2>1
<1> QED
  BY <1>6, <1>7

(* A callback that nobody disputes counts.                                 *)
LEMMA UndisputedIsHigh ==
  ASSUME Typed, NEW e \in CallsMade, NEW v,
         ~e.weak, e.nested => v \in With("token", e.token),
         \/ v \in OwnWord(e)
         \/ /\ OwnWord(e) = {} /\ Registered(e) # {}
            /\ \A r \in Registered(e) : v \in With("signal", r.signal)
  PROVE  /\ v \in Attribution(Scored(log), Read(e)).to
         /\ Attribution(Scored(log), Read(e)).strength = "high"
<1> DEFINE es == Scored(log)
           c == Read(e)
<1>1. e \in Inputs /\ e.type = "oob"
  BY ToolEvents DEF CallsMade
<1>2. c.token = e.token /\ c.id = e.id /\ c.weak = e.weak /\ (~e.nested => c = e)
  BY <1>1, ReadCallback, ReadOutside
<1> HIDE DEF es, c
<1>3. CASE v \in With("token", e.token)
  BY <1>2, <1>3, AttributionIsTie DEF es, c, Tie, Strength
<1>4. CASE v \in OwnWord(e) /\ ~e.nested
  <2>1. c = e /\ OwnWord(e) # {}
    BY <1>2, <1>4
  <2>2. Tie(es, c) = OwnWord(e)
    BY <2>1, OwnWordIs DEF Tie
  <2>3. Strength(c) = "high"
    BY <1>2 DEF Strength
  <2> QED
    BY <1>4, <2>1, <2>2, <2>3, AttributionIsTie DEF es, c
<1>5. CASE OwnWord(e) = {} /\ ~e.nested
  <2>1. PICK r \in Registered(e) : Joined(es, c) = r.signal
    BY <1>5, JoinedIsRegistered DEF es, c
  <2>2. v \in With("signal", Joined(es, c))
    BY <1>5, <2>1
  <2>3. Tie(es, c) = With("signal", Joined(es, c))
    BY <1>2, <1>5, OwnWordIs DEF Tie
  <2> QED
    BY <1>2, <2>2, <2>3, AttributionIsTie DEF es, c, Strength
<1> QED
  BY <1>3, <1>4, <1>5

LEMMA TypedTriggers == Typed => TriggerIsProven
<1> SUFFICES ASSUME Typed PROVE TriggerIsProven
  OBVIOUS
<1> DEFINE es == Scored(log)
           at == Attributions(es)
           outcome == Score(log).outcome
           backed(v) == \E e \in CallsMade :
                          ~e.weak /\ \/ v \in OwnWord(e)
                                     \/ \E r \in Registered(e) : v \in With("signal", r.signal)
           undisputed(v) == \E e \in CallsMade :
                              /\ ~e.weak /\ (e.nested => v \in With("token", e.token))
                              /\ \/ v \in OwnWord(e)
                                 \/ /\ OwnWord(e) = {} /\ Registered(e) # {}
                                    /\ \A r \in Registered(e) : v \in With("signal", r.signal)
           called(v) == \E k \in DOMAIN at : v \in at[k].to /\ at[k].strength = "high"
<1>1. outcome = [v \in InScope(es) |-> Outcome(v, es, at)]
  BY DEF Score
<1>2. ASSUME NEW v \in DOMAIN outcome PROVE outcome[v].trigger <=> Fired(v) \/ called(v)
  BY <1>1, TriggerIs, FiredIs
<1>3. /\ DOMAIN at = {k \in DOMAIN es : es[k].type = "oob"}
      /\ \A k \in DOMAIN at : at[k] = Attribution(es, es[k])
  BY DEF Attributions
<1>4. ASSUME NEW k \in DOMAIN at PROVE log[k] \in CallsMade /\ es[k] = Read(log[k])
  BY <1>3, ToolEvents, ReadType DEF CallsMade
<1>5. ASSUME NEW e \in CallsMade PROVE \E k \in DOMAIN at : e = log[k]
  BY <1>3, ToolEvents, ReadType DEF CallsMade
<1>6. ASSUME NEW v, called(v) PROVE backed(v)
  <2>1. PICK k \in DOMAIN at : v \in at[k].to /\ at[k].strength = "high"
    BY <1>6
  <2> QED
    BY <1>3, <1>4, <2>1, HighIsBacked
<1>7. ASSUME NEW v, undisputed(v) PROVE called(v)
  <2>1. PICK e \in CallsMade :
          /\ ~e.weak /\ (e.nested => v \in With("token", e.token))
          /\ \/ v \in OwnWord(e)
             \/ /\ OwnWord(e) = {} /\ Registered(e) # {}
                /\ \A r \in Registered(e) : v \in With("signal", r.signal)
    BY <1>7
  <2>2. PICK k \in DOMAIN at : e = log[k]
    BY <1>5
  <2> QED
    BY <1>3, <1>4, <2>1, <2>2, UndisputedIsHigh
<1> HIDE DEF es, at, outcome
<1> QED
  BY <1>2, <1>6, <1>7 DEF TriggerIsProven, outcome

(* The headline number counts proof and nothing else, and all of it that   *)
(* is not disputed.                                                        *)
THEOREM TriggersAreProven == Spec => []TriggerIsProven
BY DocumentTypeCorrect, TypedTriggers, PTL
-----------------------------------------------------------------------------
(* Two neighbours in the export change places.                             *)

Turn(n, k) == IF k = n THEN n + 1 ELSE IF k = n + 1 THEN n ELSE k

(* What is a function of the places of one is the same of the other.       *)
Turned(es, fs, n) ==
  /\ n \in Nat /\ DOMAIN es \in SUBSET Nat /\ IsFiniteSet(DOMAIN es)
  /\ DOMAIN fs \in SUBSET Nat /\ IsFiniteSet(DOMAIN fs)
  /\ \A k \in DOMAIN es : Turn(n, k) \in DOMAIN fs /\ fs[Turn(n, k)] = es[k]
  /\ \A k \in DOMAIN fs : Turn(n, k) \in DOMAIN es /\ es[Turn(n, k)] = fs[k]

(* The same places, before and after.                                      *)
SamePlaces(es, fs, n, S, T) ==
  /\ S \subseteq DOMAIN es /\ T \subseteq DOMAIN fs
  /\ \A k \in DOMAIN es : k \in S <=> Turn(n, k) \in T

LEMMA TurnTwice ==
  ASSUME NEW n \in Nat, NEW k \in Nat
  PROVE  Turn(n, k) \in Nat /\ Turn(n, Turn(n, k)) = k
BY DEF Turn

LEMMA SamePlacesBack ==
  ASSUME NEW es, NEW fs, NEW n, Turned(es, fs, n), NEW S, NEW T, SamePlaces(es, fs, n, S, T)
  PROVE  /\ \A k \in S : Turn(n, k) \in T
         /\ \A k \in T : Turn(n, k) \in S
         /\ S = {} <=> T = {}
<1>1. \A k \in S : Turn(n, k) \in T
  BY DEF SamePlaces
<1>2. ASSUME NEW k \in T PROVE Turn(n, k) \in S
  <2>1. k \in DOMAIN fs /\ k \in Nat /\ n \in Nat /\ Turn(n, k) \in DOMAIN es
    BY DEF Turned, SamePlaces
  <2>2. Turn(n, Turn(n, k)) = k
    BY <2>1, TurnTwice
  <2> QED
    BY <2>1, <2>2 DEF SamePlaces
<1> QED
  BY <1>1, <1>2

LEMMA SameCount ==
  ASSUME NEW es, NEW fs, NEW n, Turned(es, fs, n), NEW S, NEW T, SamePlaces(es, fs, n, S, T)
  PROVE  Cardinality(S) = Cardinality(T)
<1> DEFINE f == [k \in S |-> Turn(n, k)]
<1>1. n \in Nat /\ S \in SUBSET Nat /\ T \in SUBSET Nat
  BY DEF Turned, SamePlaces
<1>2. \A k \in Nat : Turn(n, k) \in Nat /\ Turn(n, Turn(n, k)) = k
  BY <1>1, TurnTwice
<1>3. (\A k \in S : Turn(n, k) \in T) /\ (\A k \in T : Turn(n, k) \in S)
  BY SamePlacesBack
<1>4. f \in [S -> T] /\ \A k \in S : f[k] = Turn(n, k)
  BY <1>3
<1>5. \A j, k \in S : f[j] = f[k] => j = k
  BY <1>1, <1>2, <1>4
<1>6. \A k \in T : \E j \in S : f[j] = k
  BY <1>1, <1>2, <1>3, <1>4
<1> HIDE DEF f
<1>7. f \in Bijection(S, T)
  BY <1>4, <1>5, <1>6 DEF Bijection, Injection, Surjection, IsInjective
<1>8. IsFiniteSet(S)
  BY FS_Subset DEF Turned, SamePlaces
<1> QED
  BY <1>7, <1>8, FS_Bijection DEF ExistsBijection

(* Who is first is the same, unless the two are the first of all and       *)
(* claim different things.                                                 *)
LEMMA SameClaim ==
  ASSUME NEW es, NEW fs, NEW n, Turned(es, fs, n), NEW S, NEW T, SamePlaces(es, fs, n, S, T),
         ~ (n \in S /\ n + 1 \in S /\ es[n].signal # es[n + 1].signal)
  PROVE  Claimed(es, S) = Claimed(fs, T)
<1>1. n \in Nat /\ S \in SUBSET Nat /\ T \in SUBSET Nat
  BY DEF Turned, SamePlaces
<1>2. (\A k \in S : Turn(n, k) \in T) /\ (\A k \in T : Turn(n, k) \in S) /\ (S = {} <=> T = {})
  BY SamePlacesBack
<1>3. \A k \in S : fs[Turn(n, k)] = es[k]
  BY DEF Turned, SamePlaces
<1>4. CASE S = {}
  BY <1>2, <1>4 DEF Claimed
<1>5. CASE S # {}
  <2>1. PICK m \in S : \A k \in S : m <= k
    BY <1>1, <1>5, LeastNatural
  <2>2. Claimed(es, S) = es[m].signal
    <3>1. Min(S) = m
      BY <1>1, <2>1, MinIs
    <3> QED
      BY <1>5, <3>1 DEF Claimed
  <2>3. PICK t \in T : \A k \in T : t <= k
    BY <1>1, <1>2, <1>5, LeastNatural
  <2>4. Claimed(fs, T) = fs[t].signal
    <3>1. Min(T) = t
      BY <1>1, <2>3, MinIs
    <3> QED
      BY <2>3, <3>1 DEF Claimed
  <2>5. m \in Nat /\ t \in Nat /\ Turn(n, m) \in T /\ Turn(n, t) \in S
    BY <1>1, <1>2
  <2>6. m <= Turn(n, t) /\ t <= Turn(n, m)
    BY <2>1, <2>3, <2>5
  <2>7. t = Turn(n, m) \/ (m = n /\ t = n)
    BY <1>1, <2>5, <2>6 DEF Turn
  <2>8. CASE t = Turn(n, m)
    BY <1>3, <2>2, <2>4, <2>8
  <2>9. CASE m = n /\ t = n
    <3>1. Turn(n, n) = n + 1 /\ Turn(n, n + 1) = n
      BY <1>1 DEF Turn
    <3>2. n \in S /\ n + 1 \in S
      BY <2>5, <2>9, <3>1
    <3>3. fs[n] = es[n + 1]
      BY <1>3, <3>1, <3>2
    <3> QED
      BY <2>2, <2>4, <2>9, <3>2, <3>3
  <2> QED
    BY <2>7, <2>8, <2>9
<1> QED
  BY <1>4, <1>5

(* The two registrations contend for a callback.                           *)
Contend(es, n, c) ==
  /\ {n, n + 1} \subseteq DOMAIN es /\ Registers(es[n]) /\ Registers(es[n + 1])
  /\ es[n].signal # es[n + 1].signal /\ SharesWith(es[n], c) /\ SharesWith(es[n + 1], c)

LEMMA SameJoined ==
  ASSUME NEW es, NEW fs, NEW n, Turned(es, fs, n), NEW c, ~Contend(es, n, c)
  PROVE  Joined(es, c) = Joined(fs, c)
<1> DEFINE byRequest(s) == {k \in DOMAIN s : c.request # "none" /\ Registers(s[k])
                                             /\ s[k].request = c.request}
           very(s) == {k \in DOMAIN s : Registers(s[k]) /\ HostOf(s[k]) # "none"
                                        /\ HostOf(s[k]) = c.host}
           near(s) == {k \in DOMAIN s : Registers(s[k]) /\ HostOf(s[k]) # "none"
                                        /\ Related(HostOf(s[k]), c.host)}
           joined(s) == IF Claimed(s, byRequest(s)) # "none" THEN Claimed(s, byRequest(s))
                        ELSE IF c.host = "none" THEN "none"
                        ELSE IF very(s) # {} THEN Claimed(s, very(s)) ELSE Claimed(s, near(s))
<1>1. Joined(es, c) = joined(es) /\ Joined(fs, c) = joined(fs)
  BY DEF Joined, ForRequest, ForHost
<1>2. \A k \in DOMAIN es : Turn(n, k) \in DOMAIN fs /\ fs[Turn(n, k)] = es[k]
  BY DEF Turned
<1>3. SamePlaces(es, fs, n, byRequest(es), byRequest(fs))
  BY <1>2 DEF SamePlaces
<1>4. SamePlaces(es, fs, n, very(es), very(fs))
  BY <1>2 DEF SamePlaces
<1>5. SamePlaces(es, fs, n, near(es), near(fs))
  BY <1>2 DEF SamePlaces
<1>6. Claimed(es, byRequest(es)) = Claimed(fs, byRequest(fs))
  <2>1. ~ (n \in byRequest(es) /\ n + 1 \in byRequest(es) /\ es[n].signal # es[n + 1].signal)
    BY DEF Contend, SharesWith
  <2> QED
    BY <1>3, <2>1, SameClaim
<1>7. c.host # "none" => Claimed(es, very(es)) = Claimed(fs, very(fs))
  <2>1. c.host # "none" =>
          ~ (n \in very(es) /\ n + 1 \in very(es) /\ es[n].signal # es[n + 1].signal)
    BY DEF Contend, SharesWith, Related
  <2> QED
    BY <1>4, <2>1, SameClaim
<1>8. c.host # "none" => Claimed(es, near(es)) = Claimed(fs, near(fs))
  <2>1. c.host # "none" =>
          ~ (n \in near(es) /\ n + 1 \in near(es) /\ es[n].signal # es[n + 1].signal)
    BY DEF Contend, SharesWith
  <2> QED
    BY <1>5, <2>1, SameClaim
<1>9. very(es) = {} <=> very(fs) = {}
  BY <1>4, SamePlacesBack
<1> HIDE DEF byRequest, very, near
<1> QED
  BY <1>1, <1>6, <1>7, <1>8, <1>9

LEMMA SameAttributions ==
  ASSUME NEW es, NEW fs, NEW n, Turned(es, fs, n),
         \A k \in DOMAIN es : es[k].type = "oob" => ~Contend(es, n, es[k])
  PROVE  Turned(Attributions(es), Attributions(fs), n)
<1> DEFINE at == Attributions(es)
           bt == Attributions(fs)
<1>1. /\ DOMAIN at = {k \in DOMAIN es : es[k].type = "oob"}
      /\ \A k \in DOMAIN at : at[k] = Attribution(es, es[k])
      /\ DOMAIN bt = {k \in DOMAIN fs : fs[k].type = "oob"}
      /\ \A k \in DOMAIN bt : bt[k] = Attribution(fs, fs[k])
  BY DEF Attributions
<1>2. ASSUME NEW k \in DOMAIN at PROVE Attribution(es, es[k]) = Attribution(fs, es[k])
  <2>1. Joined(es, es[k]) = Joined(fs, es[k])
    BY <1>1, SameJoined
  <2> QED
    BY <2>1 DEF Attribution
<1> HIDE DEF at, bt
<1>3. \A k \in DOMAIN es : Turn(n, k) \in DOMAIN fs /\ fs[Turn(n, k)] = es[k]
  BY DEF Turned
<1>4. \A k \in DOMAIN fs : Turn(n, k) \in DOMAIN es /\ es[Turn(n, k)] = fs[k]
  BY DEF Turned
<1>5. ASSUME NEW k \in DOMAIN at PROVE Turn(n, k) \in DOMAIN bt /\ bt[Turn(n, k)] = at[k]
  BY <1>1, <1>2, <1>3
<1>6. ASSUME NEW k \in DOMAIN bt PROVE Turn(n, k) \in DOMAIN at /\ at[Turn(n, k)] = bt[k]
  BY <1>1, <1>2, <1>4
<1>7. DOMAIN at \in SUBSET DOMAIN es /\ DOMAIN bt \in SUBSET DOMAIN fs
  BY <1>1
<1>8. IsFiniteSet(DOMAIN at) /\ IsFiniteSet(DOMAIN bt)
  BY <1>7, FS_Subset DEF Turned
<1> QED
  BY <1>5, <1>6, <1>7, <1>8 DEF Turned, at, bt

ReachingAt(v, es) == {k \in DOMAIN es : es[k].type = "request" /\ Reaches(v, es[k])}
FiredAt(v, es) ==
  {k \in DOMAIN es : es[k].type = "signal" /\ (v \in With("signal", es[k].signal) \/ es[k].id = v)}
CallsAt(v, at, strength) == {k \in DOMAIN at : v \in at[k].to /\ at[k].strength = strength}

LEMMA SameOutcome ==
  ASSUME NEW es, NEW fs, NEW at, NEW bt, NEW n, Turned(es, fs, n), Turned(at, bt, n), NEW v
  PROVE  Outcome(v, es, at) = Outcome(v, fs, bt)
<1> DEFINE exercised(s) == \E k \in ReachingAt(v, s) : IsExercised(v, s[k])
           trigger(s, t) == FiredAt(v, s) # {} \/ CallsAt(v, t, "high") # {}
           out(s, t) ==
             [reach |-> ReachingAt(v, s) # {} \/ trigger(s, t),
              inferred |-> ReachingAt(v, s) = {} /\ trigger(s, t),
              exercise |-> IF Catalog[v].param = "none" THEN "not applicable"
                           ELSE IF exercised(s) THEN "yes" ELSE "no",
              trigger |-> trigger(s, t), low |-> CallsAt(v, t, "low") # {},
              reachEvents |-> Cardinality(ReachingAt(v, s)),
              triggerEvents |-> Cardinality(FiredAt(v, s)) + Cardinality(CallsAt(v, t, "high"))
                                + Cardinality(CallsAt(v, t, "low"))]
<1>1. Outcome(v, es, at) = out(es, at) /\ Outcome(v, fs, bt) = out(fs, bt)
  BY Zenon DEF Outcome, ReachingAt, FiredAt, CallsAt
<1>2. \A k \in DOMAIN es : Turn(n, k) \in DOMAIN fs /\ fs[Turn(n, k)] = es[k]
  BY DEF Turned
<1>3. \A k \in DOMAIN fs : Turn(n, k) \in DOMAIN es /\ es[Turn(n, k)] = fs[k]
  BY DEF Turned
<1>4. \A k \in DOMAIN at : Turn(n, k) \in DOMAIN bt /\ bt[Turn(n, k)] = at[k]
  BY DEF Turned
<1>5. SamePlaces(es, fs, n, ReachingAt(v, es), ReachingAt(v, fs))
  BY <1>2 DEF SamePlaces, ReachingAt
<1>6. SamePlaces(es, fs, n, FiredAt(v, es), FiredAt(v, fs))
  BY <1>2 DEF SamePlaces, FiredAt
<1>7. ASSUME NEW s PROVE SamePlaces(at, bt, n, CallsAt(v, at, s), CallsAt(v, bt, s))
  BY <1>4 DEF SamePlaces, CallsAt
<1>8. /\ Cardinality(ReachingAt(v, es)) = Cardinality(ReachingAt(v, fs))
      /\ ReachingAt(v, es) = {} <=> ReachingAt(v, fs) = {}
  BY <1>5, SameCount, SamePlacesBack
<1>9. /\ Cardinality(FiredAt(v, es)) = Cardinality(FiredAt(v, fs))
      /\ FiredAt(v, es) = {} <=> FiredAt(v, fs) = {}
  BY <1>6, SameCount, SamePlacesBack
<1>10. ASSUME NEW s
       PROVE  /\ Cardinality(CallsAt(v, at, s)) = Cardinality(CallsAt(v, bt, s))
              /\ CallsAt(v, at, s) = {} <=> CallsAt(v, bt, s) = {}
  BY <1>7, SameCount, SamePlacesBack
<1>11. exercised(es) <=> exercised(fs)
  <2>1. (\A k \in ReachingAt(v, es) : Turn(n, k) \in ReachingAt(v, fs))
        /\ (\A k \in ReachingAt(v, fs) : Turn(n, k) \in ReachingAt(v, es))
    BY <1>5, SamePlacesBack
  <2>2. ReachingAt(v, es) \subseteq DOMAIN es /\ ReachingAt(v, fs) \subseteq DOMAIN fs
    BY DEF ReachingAt
  <2> QED
    BY <1>2, <1>3, <2>1, <2>2
<1>12. trigger(es, at) = trigger(fs, bt)
  BY <1>9, <1>10
<1>13. /\ (ReachingAt(v, es) # {} \/ trigger(es, at)) = (ReachingAt(v, fs) # {} \/ trigger(fs, bt))
       /\ (ReachingAt(v, es) = {} /\ trigger(es, at)) = (ReachingAt(v, fs) = {} /\ trigger(fs, bt))
       /\ (CallsAt(v, at, "low") # {}) = (CallsAt(v, bt, "low") # {})
  BY <1>8, <1>10, <1>12
<1> HIDE DEF exercised, trigger
<1>14. (IF exercised(es) THEN "yes" ELSE "no") = (IF exercised(fs) THEN "yes" ELSE "no")
  BY <1>11
<1>15. /\ Cardinality(CallsAt(v, at, "high")) = Cardinality(CallsAt(v, bt, "high"))
       /\ Cardinality(CallsAt(v, at, "low")) = Cardinality(CallsAt(v, bt, "low"))
       /\ Cardinality(FiredAt(v, es)) = Cardinality(FiredAt(v, fs))
       /\ Cardinality(ReachingAt(v, es)) = Cardinality(ReachingAt(v, fs))
  BY <1>8, <1>9, <1>10
<1>16. out(es, at) = out(fs, bt)
  BY <1>12, <1>13, <1>14, <1>15, Zenon
<1> QED
  BY <1>1, <1>16

LEMMA SameScope ==
  ASSUME NEW es, NEW fs, NEW n, Turned(es, fs, n)
  PROVE  Scope(es) = Scope(fs) /\ InScope(es) = InScope(fs)
<1>1. {es[k].app : k \in DOMAIN es} = {fs[k].app : k \in DOMAIN fs}
  BY DEF Turned
<1>2. Scope(es) = Scope(fs)
  BY <1>1 DEF Scope
<1> QED
  BY <1>2 DEF InScope

LEMMA SameWarnings ==
  ASSUME NEW es, NEW fs, NEW n, Turned(es, fs, n), NEW outcome
  PROVE  Warnings(es, outcome) = Warnings(fs, outcome)
<1> DEFINE signals(s) ==
             {<<"unknown-signal", s[k].signal>> :
                k \in {k \in DOMAIN s : s[k].type = "signal" /\ s[k].signal # "none"
                                         /\ With("signal", s[k].signal) = {}}}
           ids(s) ==
             {<<"unknown-trigger-id", s[k].id>> :
                k \in {k \in DOMAIN s : s[k].type = "signal"
                                         /\ s[k].id \notin DOMAIN Catalog \cup {"none"}}}
<1>1. \A k \in DOMAIN es : Turn(n, k) \in DOMAIN fs /\ fs[Turn(n, k)] = es[k]
  BY DEF Turned
<1>2. \A k \in DOMAIN fs : Turn(n, k) \in DOMAIN es /\ es[Turn(n, k)] = fs[k]
  BY DEF Turned
<1>3. signals(es) = signals(fs)
  BY <1>1, <1>2
<1>4. ids(es) = ids(fs)
  BY <1>1, <1>2
<1> QED
  BY <1>3, <1>4 DEF Warnings

LEMMA TurnedScored ==
  ASSUME NEW x \in Seq(Inputs), NEW n \in 1..(Len(x) - 1)
  PROVE  Turned(Scored(x), Scored([x EXCEPT ![n] = x[n + 1], ![n + 1] = x[n]]), n)
<1> DEFINE y == [x EXCEPT ![n] = x[n + 1], ![n + 1] = x[n]]
<1>1. n \in Nat /\ n + 1 \in 1..Len(x) /\ n \in 1..Len(x) /\ Len(x) \in Nat /\ n # n + 1
  OBVIOUS
<1>2. DOMAIN y = 1..Len(x) /\ DOMAIN x = 1..Len(x)
  OBVIOUS
<1>3. \A k \in 1..Len(x) : y[k] = IF k = n + 1 THEN x[n] ELSE IF k = n THEN x[n + 1] ELSE x[k]
  BY <1>1, <1>2
<1> HIDE DEF y
<1>4. \A k \in 1..Len(x) : /\ Turn(n, k) \in 1..Len(x) /\ y[Turn(n, k)] = x[k]
                           /\ x[Turn(n, k)] = y[k]
  BY <1>1, <1>3 DEF Turn
<1>5. /\ DOMAIN Scored(x) = {k \in 1..Len(x) : ~x[k].synthetic}
      /\ \A k \in DOMAIN Scored(x) : Scored(x)[k] = Read(x[k])
      /\ DOMAIN Scored(y) = {k \in 1..Len(x) : ~y[k].synthetic}
      /\ \A k \in DOMAIN Scored(y) : Scored(y)[k] = Read(y[k])
  BY <1>2 DEF Scored
<1>6. IsFiniteSet(1..Len(x)) /\ 1..Len(x) \subseteq Nat
  BY <1>1, FS_Interval
<1>7. IsFiniteSet(DOMAIN Scored(x)) /\ IsFiniteSet(DOMAIN Scored(y))
  BY <1>5, <1>6, FS_Subset
<1>8. \A k \in DOMAIN Scored(x) : Turn(n, k) \in DOMAIN Scored(y)
                                 /\ Scored(y)[Turn(n, k)] = Scored(x)[k]
  BY <1>4, <1>5
<1>9. \A k \in DOMAIN Scored(y) : Turn(n, k) \in DOMAIN Scored(x)
                                 /\ Scored(x)[Turn(n, k)] = Scored(y)[k]
  BY <1>4, <1>5
<1>10. Turned(Scored(x), Scored(y), n)
  BY <1>1, <1>5, <1>6, <1>7, <1>8, <1>9 DEF Turned
<1> QED
  BY <1>10 DEF y

LEMMA SameScore ==
  ASSUME NEW x, NEW y, NEW n, Turned(Scored(x), Scored(y), n),
         \A k \in DOMAIN Scored(x) :
           Scored(x)[k].type = "oob" => ~Contend(Scored(x), n, Scored(x)[k])
  PROVE  Score(x) = Score(y)
<1> DEFINE es == Scored(x)
           fs == Scored(y)
           at == Attributions(es)
           bt == Attributions(fs)
           outcome(s, t) == [v \in InScope(s) |-> Outcome(v, s, t)]
           score(s, t) ==
             [scope |-> Scope(s), outcome |-> outcome(s, t), warnings |-> Warnings(s, outcome(s, t)),
              orphans |-> Cardinality({k \in DOMAIN t : t[k].to = {}})]
<1>1. Score(x) = score(es, at) /\ Score(y) = score(fs, bt)
  BY Zenon DEF Score
<1>2. Turned(es, fs, n) /\ Turned(at, bt, n)
  BY SameAttributions
<1> HIDE DEF es, fs, at, bt
<1>3. Scope(es) = Scope(fs) /\ InScope(es) = InScope(fs)
  BY <1>2, SameScope
<1>4. \A v \in InScope(es) : Outcome(v, es, at) = Outcome(v, fs, bt)
  BY <1>2, SameOutcome
<1>5. outcome(es, at) = outcome(fs, bt)
  BY <1>3, <1>4
<1>6. Warnings(es, outcome(es, at)) = Warnings(fs, outcome(es, at))
  BY <1>2, SameWarnings
<1>7. Cardinality({k \in DOMAIN at : at[k].to = {}}) = Cardinality({k \in DOMAIN bt : bt[k].to = {}})
  <2>1. SamePlaces(at, bt, n, {k \in DOMAIN at : at[k].to = {}}, {k \in DOMAIN bt : bt[k].to = {}})
    BY <1>2 DEF SamePlaces, Turned
  <2> QED
    BY <1>2, <2>1, SameCount
<1> HIDE DEF outcome
<1>8. score(es, at) = score(fs, bt)
  BY <1>3, <1>5, <1>6, <1>7, Zenon
<1> QED
  BY <1>1, <1>8

LEMMA TypedOrder == Typed => ScoreIgnoresOrder
<1> SUFFICES ASSUME Typed, NEW n \in 1..(Len(log) - 1), ~Rivals(log[n], log[n + 1])
             PROVE  Score([log EXCEPT ![n] = log[n + 1], ![n + 1] = log[n]]) = Score(log)
  BY DEF ScoreIgnoresOrder
<1> DEFINE es == Scored(log)
           y == [log EXCEPT ![n] = log[n + 1], ![n + 1] = log[n]]
<1>1. Turned(es, Scored(y), n)
  BY TurnedScored DEF Typed
<1>2. ASSUME NEW k \in DOMAIN es, es[k].type = "oob", Contend(es, n, es[k]) PROVE FALSE
  <2>1. n \in DOMAIN es /\ n + 1 \in DOMAIN es
    BY <1>2 DEF Contend
  <2>2. /\ log[n] \in Tools /\ log[n] \in Inputs /\ es[n] = Read(log[n])
        /\ log[n + 1] \in Tools /\ log[n + 1] \in Inputs /\ es[n + 1] = Read(log[n + 1])
    BY <2>1, ToolEvents
  <2>3. es[n] = log[n] /\ es[n + 1] = log[n + 1]
    BY <1>2, <2>2, ReadRegistration DEF Contend
  <2>4. PICK e \in Inputs : e = log[k] /\ es[k] = Read(e) /\ e \in CallsMade /\ e.type = "oob"
    <3>1. log[k] \in Tools /\ log[k] \in Inputs /\ es[k] = Read(log[k])
      BY ToolEvents
    <3> QED
      BY <1>2, <3>1, ReadType DEF CallsMade
  <2>5. SharesWith(log[n], Read(e)) /\ SharesWith(log[n + 1], Read(e))
    BY <1>2, <2>3, <2>4 DEF Contend
  <2>6. ~e.nested
    BY <2>4, <2>5, ReadCallback DEF SharesWith
  <2>7. Read(e) = e
    BY <2>6, ReadOutside
  <2>8. log[n].signal # log[n + 1].signal
    BY <1>2, <2>3 DEF Contend
  <2>9. Registers(Read(log[n])) /\ Registers(Read(log[n + 1]))
    BY <1>2, <2>2 DEF Contend
  <2> QED
    BY <2>2, <2>4, <2>5, <2>7, <2>8, <2>9 DEF Rivals
<1> HIDE DEF es, y
<1>3. Score(log) = Score(y)
  BY <1>1, <1>2, SameScore DEF es
<1> QED
  BY <1>3 DEF y

(* The score does not depend on the order of the export, but for two       *)
(* registrations that claim one callback.                                  *)
THEOREM OrderDoesNotMatter == Spec => []ScoreIgnoresOrder
BY DocumentTypeCorrect, TypedOrder, PTL
-----------------------------------------------------------------------------
(* Two routes are one endpoint.                                            *)

Segments == Seq(STRING)

LEMMA AfterIs ==
  ASSUME NEW s \in Segments, NEW k \in 0..Len(s)
  PROVE  /\ After(s, k) \in Segments /\ Len(After(s, k)) = Len(s) - k
         /\ \A i \in 1..(Len(s) - k) : After(s, k)[i] = s[k + i]
<1>1. Len(s) \in Nat /\ k \in Nat /\ k <= Len(s)
  BY DEF Segments
<1>2. \A i \in (k + 1)..Len(s) : s[i] \in STRING
  BY <1>1 DEF Segments
<1>3. /\ SubSeq(s, k + 1, Len(s)) \in Seq(STRING)
      /\ Len(SubSeq(s, k + 1, Len(s)))
           = IF k + 1 <= Len(s) THEN Len(s) - (k + 1) + 1 ELSE 0
      /\ \A i \in 1..(Len(s) - (k + 1) + 1) : SubSeq(s, k + 1, Len(s))[i] = s[k + 1 + i - 1]
  BY <1>1, <1>2, SubSeqProperties
<1> QED
  BY <1>1, <1>3 DEF After, Segments

LEMMA AfterNone ==
  ASSUME NEW s \in Segments
  PROVE  After(s, 0) = s
<1>1. Len(s) \in Nat /\ 0 \in 0..Len(s)
  BY DEF Segments
<1>2. After(s, 0) \in Segments /\ Len(After(s, 0)) = Len(s)
      /\ \A i \in 1..Len(s) : After(s, 0)[i] = s[i]
  BY <1>1, AfterIs DEF Segments
<1> QED
  BY <1>2, SeqEqual DEF Segments

LEMMA AfterAfter ==
  ASSUME NEW s \in Segments, NEW j \in 0..Len(s), NEW k \in 0..(Len(s) - j)
  PROVE  After(After(s, j), k) = After(s, j + k)
<1>1. Len(s) \in Nat /\ j \in Nat /\ k \in Nat /\ j + k \in 0..Len(s)
  BY DEF Segments
<1>2. /\ After(s, j) \in Segments /\ Len(After(s, j)) = Len(s) - j
      /\ \A i \in 1..(Len(s) - j) : After(s, j)[i] = s[j + i]
  BY AfterIs
<1>3. /\ After(After(s, j), k) \in Segments /\ Len(After(After(s, j), k)) = Len(s) - j - k
      /\ \A i \in 1..(Len(s) - j - k) : After(After(s, j), k)[i] = After(s, j)[k + i]
  BY <1>2, AfterIs
<1>4. /\ After(s, j + k) \in Segments /\ Len(After(s, j + k)) = Len(s) - (j + k)
      /\ \A i \in 1..(Len(s) - (j + k)) : After(s, j + k)[i] = s[j + k + i]
  BY <1>1, AfterIs
<1>5. Len(After(After(s, j), k)) = Len(After(s, j + k))
  BY <1>1, <1>3, <1>4
<1>6. ASSUME NEW i \in 1..Len(After(After(s, j), k))
      PROVE  After(After(s, j), k)[i] = After(s, j + k)[i]
  <2>1. i \in 1..(Len(s) - j - k) /\ i \in 1..(Len(s) - (j + k)) /\ k + i \in 1..(Len(s) - j)
    BY <1>1, <1>3
  <2>2. After(After(s, j), k)[i] = After(s, j)[k + i]
    BY <1>3, <2>1
  <2>3. After(s, j)[k + i] = s[j + (k + i)]
    BY <1>2, <2>1
  <2>4. After(s, j + k)[i] = s[j + k + i]
    BY <1>4, <2>1
  <2>5. j + (k + i) = j + k + i
    BY <1>1, <2>1
  <2> QED
    BY <2>2, <2>3, <2>4, <2>5
<1> QED
  BY <1>3, <1>4, <1>5, <1>6, SeqEqual DEF Segments

(* The rests of two routes: what a match goes through.                     *)
Closed(R) ==
  /\ R \subseteq Segments
  /\ \A s \in R : \A k \in 0..Len(s) : After(s, k) \in R

LEMMA RestsClosed ==
  ASSUME NEW s \in Segments
  PROVE  Closed(Rests(s)) /\ s \in Rests(s) /\ \A t \in Rests(s) : Len(t) <= Len(s)
<1>1. Len(s) \in Nat
  BY DEF Segments
<1>2. s \in Rests(s)
  <2>1. 0 \in 0..Len(s)
    BY <1>1
  <2> QED
    BY <2>1, AfterNone DEF Rests
<1>3. ASSUME NEW t \in Rests(s)
      PROVE  /\ t \in Segments /\ Len(t) <= Len(s)
             /\ \A k \in 0..Len(t) : After(t, k) \in Rests(s)
  <2>1. PICK j \in 0..Len(s) : t = After(s, j)
    BY DEF Rests
  <2>2. t \in Segments /\ Len(t) = Len(s) - j
    BY <2>1, AfterIs
  <2>3. ASSUME NEW k \in 0..Len(t) PROVE After(t, k) \in Rests(s)
    <3>1. k \in 0..(Len(s) - j) /\ j + k \in 0..Len(s)
      BY <1>1, <2>2
    <3>2. After(t, k) = After(s, j + k)
      BY <2>1, <3>1, AfterAfter
    <3> QED
      BY <3>1, <3>2 DEF Rests
  <2> QED
    BY <1>1, <2>2, <2>3
<1> QED
  BY <1>2, <1>3 DEF Closed

(* One step of a match, by what is known of what is left.                  *)
MatchStep(match, pair, lenient) ==
  LET a == pair[1]
      b == pair[2]
  IN IF a = <<>> \/ b = <<>> THEN a = b
     ELSE IF Head(a) = Greedy THEN \E k \in Eaten(Len(b)) : match[<<After(a, 1), After(b, k)>>]
     ELSE IF Head(b) = Greedy THEN \E k \in Eaten(Len(a)) : match[<<After(b, 1), After(a, k)>>]
     ELSE Agree(Head(a), Head(b), lenient) /\ match[<<After(a, 1), After(b, 1)>>]

IsMatching(match, R, lenient) ==
  match = [pair \in R \X R |-> MatchStep(match, pair, lenient)]

LEMMA MatchChosen ==
  ASSUME NEW a, NEW b, NEW lenient
  PROVE  LET R == Rests(a) \cup Rests(b)
         IN Match(a, b, lenient)
              = (CHOOSE match : match = [pair \in R \X R |-> MatchStep(match, pair, lenient)])[<<a, b>>]
BY DEF Match, MatchStep

(* A step depends on shorter rests only.                                   *)
AgreeAhead(f, g, R, a, b) ==
  \A p \in R \X R : Len(p[1]) + Len(p[2]) < Len(a) + Len(b) => f[p] = g[p]

LEMMA StepLooksAhead ==
  ASSUME NEW R, Closed(R), NEW f, NEW g, NEW lenient, NEW a \in R, NEW b \in R,
         AgreeAhead(f, g, R, a, b)
  PROVE  MatchStep(f, <<a, b>>, lenient) = MatchStep(g, <<a, b>>, lenient)
<1>1. a \in Segments /\ b \in Segments /\ Len(a) \in Nat /\ Len(b) \in Nat
  BY DEF Closed, Segments
<1>2. CASE a = <<>> \/ b = <<>>
  BY <1>2 DEF MatchStep
<1>3. CASE a # <<>> /\ b # <<>>
  <2>1. Len(a) >= 1 /\ Len(b) >= 1
    BY <1>1, <1>3, EmptySeq DEF Segments
  <2>2. ASSUME NEW j \in 1..Len(a), NEW k \in 1..Len(b)
        PROVE  /\ f[<<After(a, j), After(b, k)>>] = g[<<After(a, j), After(b, k)>>]
               /\ f[<<After(b, k), After(a, j)>>] = g[<<After(b, k), After(a, j)>>]
    <3>1. j \in 0..Len(a) /\ k \in 0..Len(b)
      BY <1>1
    <3>2. After(a, j) \in R /\ After(b, k) \in R
      BY <3>1 DEF Closed
    <3>3. Len(After(a, j)) = Len(a) - j /\ Len(After(b, k)) = Len(b) - k
      BY <1>1, <3>1, AfterIs
    <3>4. /\ Len(After(a, j)) + Len(After(b, k)) < Len(a) + Len(b)
          /\ Len(After(b, k)) + Len(After(a, j)) < Len(a) + Len(b)
      BY <1>1, <3>3
    <3> QED
      BY <3>2, <3>4 DEF AgreeAhead
  <2>3. 1 \in 1..Len(a) /\ 1 \in 1..Len(b)
    BY <1>1, <2>1
  <2>4. (\E k \in Eaten(Len(b)) : f[<<After(a, 1), After(b, k)>>])
          = (\E k \in Eaten(Len(b)) : g[<<After(a, 1), After(b, k)>>])
    BY <2>2, <2>3 DEF Eaten
  <2>5. (\E k \in Eaten(Len(a)) : f[<<After(b, 1), After(a, k)>>])
          = (\E k \in Eaten(Len(a)) : g[<<After(b, 1), After(a, k)>>])
    BY <2>2, <2>3 DEF Eaten
  <2>6. f[<<After(a, 1), After(b, 1)>>] = g[<<After(a, 1), After(b, 1)>>]
    BY <2>2, <2>3
  <2> QED
    BY <1>3, <2>4, <2>5, <2>6 DEF MatchStep
<1> QED
  BY <1>2, <1>3

(* The recursion of a match is well founded: built up by what is left.     *)
Left(pair) == Len(pair[1]) + Len(pair[2])
Shorter(R, n) == {pair \in R \X R : Left(pair) < n}
MatchesUpto(f, R, lenient, n) == f = [pair \in Shorter(R, n) |-> MatchStep(f, pair, lenient)]

LEMMA LeftIsNatural ==
  ASSUME NEW R, Closed(R), NEW pair \in R \X R
  PROVE  Left(pair) \in Nat
<1>1. pair[1] \in R /\ pair[2] \in R
  OBVIOUS
<1>2. Len(pair[1]) \in Nat /\ Len(pair[2]) \in Nat
  BY <1>1 DEF Closed, Segments
<1> QED
  BY <1>2 DEF Left

LEMMA OneLonger ==
  ASSUME NEW R, Closed(R), NEW lenient, NEW n \in Nat, NEW g, MatchesUpto(g, R, lenient, n)
  PROVE  \E h : MatchesUpto(h, R, lenient, n + 1)
<1> DEFINE h == [pair \in Shorter(R, n + 1) |-> MatchStep(g, pair, lenient)]
<1>1. \A p \in R \X R : Left(p) \in Nat
  BY LeftIsNatural
<1>2. \A p \in Shorter(R, n) : g[p] = MatchStep(g, p, lenient)
  BY Zenon DEF MatchesUpto
<1>3. \A p \in Shorter(R, n) : p \in Shorter(R, n + 1)
  BY <1>1 DEF Shorter
<1>4. \A p \in Shorter(R, n + 1) : h[p] = MatchStep(g, p, lenient)
  OBVIOUS
<1> HIDE DEF h
<1>5. \A p \in Shorter(R, n) : g[p] = h[p]
  BY <1>2, <1>3, <1>4
<1>6. ASSUME NEW p \in Shorter(R, n + 1) PROVE MatchStep(g, p, lenient) = MatchStep(h, p, lenient)
  <2>1. p \in R \X R /\ Left(p) < n + 1
    BY DEF Shorter
  <2>2. PICK a \in R, b \in R : p = <<a, b>>
    BY <2>1
  <2>3. ASSUME NEW q \in R \X R, Len(q[1]) + Len(q[2]) < Len(a) + Len(b) PROVE g[q] = h[q]
    <3>1. Left(p) = Len(a) + Len(b)
      BY <2>2 DEF Left
    <3>2. Left(q) < Left(p)
      BY <2>3, <3>1 DEF Left
    <3>3. Left(q) < n
      BY <1>1, <2>1, <3>2
    <3>4. q \in Shorter(R, n)
      BY <3>3 DEF Shorter
    <3> QED
      BY <1>5, <3>4
  <2>4. AgreeAhead(g, h, R, a, b)
    BY <2>3 DEF AgreeAhead
  <2>5. MatchStep(g, <<a, b>>, lenient) = MatchStep(h, <<a, b>>, lenient)
    BY <2>4, StepLooksAhead
  <2> QED
    BY <2>2, <2>5
<1>7. h = [pair \in Shorter(R, n + 1) |-> MatchStep(h, pair, lenient)]
  BY <1>6 DEF h
<1> QED
  BY <1>7 DEF MatchesUpto

LEMMA MatchingExists ==
  ASSUME NEW R, Closed(R), NEW lenient, NEW M \in Nat, \A s \in R : Len(s) <= M
  PROVE  \E match : IsMatching(match, R, lenient)
<1> DEFINE bad == {n \in Nat : \A f : ~MatchesUpto(f, R, lenient, n)}
<1>1. \A p \in R \X R : Left(p) \in Nat
  BY LeftIsNatural
<1>2. ASSUME bad # {} PROVE FALSE
  <2>1. PICK n \in bad : \A m \in bad : n <= m
    BY <1>2, LeastNatural
  <2>2. n \in Nat /\ \A f : ~MatchesUpto(f, R, lenient, n)
    OBVIOUS
  <2>3. n # 0
    <3>1. Shorter(R, 0) = {}
      BY <1>1 DEF Shorter
    <3> DEFINE f == [pair \in {} |-> TRUE]
    <3>2. f = [pair \in {} |-> MatchStep(f, pair, lenient)]
      OBVIOUS
    <3>3. MatchesUpto(f, R, lenient, 0)
      BY <3>1, <3>2 DEF MatchesUpto
    <3> QED
      BY <2>2, <3>3
  <2>4. n - 1 \in Nat /\ n - 1 \notin bad
    <3> HIDE DEF bad
    <3> QED
      BY <2>1, <2>2, <2>3
  <2>5. PICK g : MatchesUpto(g, R, lenient, n - 1)
    BY <2>4
  <2>6. (n - 1) + 1 = n
    BY <2>2
  <2> QED
    BY <2>2, <2>4, <2>5, <2>6, OneLonger
<1>3. PICK f : MatchesUpto(f, R, lenient, M + M + 1)
  <2>1. M + M + 1 \in Nat
    OBVIOUS
  <2> QED
    BY <1>2, <2>1
<1>4. Shorter(R, M + M + 1) = R \X R
  <2>1. ASSUME NEW p \in R \X R PROVE Left(p) < M + M + 1
    <3>1. p[1] \in R /\ p[2] \in R
      OBVIOUS
    <3>2. Len(p[1]) \in Nat /\ Len(p[2]) \in Nat /\ Len(p[1]) <= M /\ Len(p[2]) <= M
      BY <3>1 DEF Closed, Segments
    <3> QED
      BY <3>2 DEF Left
  <2> QED
    BY <2>1 DEF Shorter
<1> QED
  BY <1>3, <1>4 DEF IsMatching, MatchesUpto

LEMMA MatchIs ==
  ASSUME NEW a \in Segments, NEW b \in Segments, NEW lenient
  PROVE  \E match, R : /\ Closed(R) /\ a \in R /\ b \in R
                       /\ IsMatching(match, R, lenient) /\ Match(a, b, lenient) = match[<<a, b>>]
<1> DEFINE R == Rests(a) \cup Rests(b)
           match == CHOOSE match : match = [pair \in R \X R |-> MatchStep(match, pair, lenient)]
           M == Len(a) + Len(b)
<1>1. Closed(R) /\ a \in R /\ b \in R
  BY RestsClosed DEF Closed
<1>2. Len(a) \in Nat /\ Len(b) \in Nat /\ M \in Nat
  BY DEF Segments
<1>3. \A s \in R : Len(s) <= M
  <2>1. \A s \in R : Len(s) \in Nat
    BY <1>1 DEF Closed, Segments
  <2> QED
    BY <1>2, <2>1, RestsClosed
<1>4. Match(a, b, lenient) = match[<<a, b>>]
  BY MatchChosen
<1> HIDE DEF R, M
<1>5. \E m : IsMatching(m, R, lenient)
  BY <1>1, <1>2, <1>3, MatchingExists
<1>6. \E m : m = [pair \in R \X R |-> MatchStep(m, pair, lenient)]
  BY <1>5 DEF IsMatching
<1>7. match = [pair \in R \X R |-> MatchStep(match, pair, lenient)]
  BY <1>6
<1> HIDE DEF match
<1>8. IsMatching(match, R, lenient)
  BY <1>7 DEF IsMatching
<1> QED
  BY <1>1, <1>4, <1>8

(* The reference, one segment at a time.                                   *)
Stands(route, path, lenient) == Ends(route, path, lenient) # {}

(* The first segment of a route ends at k in a path.                       *)
First(route, path, lenient, k) ==
  route[1] # Greedy => k = 1 /\ Agree(route[1], path[1], lenient)

LEMMA EndsIs ==
  ASSUME NEW x \in Segments, NEW y \in Segments, NEW lenient, NEW ends
  PROVE  ends \in Ends(x, y, lenient) <=>
           /\ ends \in [0..Len(x) -> 0..Len(y)] /\ ends[0] = 0 /\ ends[Len(x)] = Len(y)
           /\ \A k \in 1..Len(x) :
                /\ x[k] = Greedy => ends[k] > ends[k - 1]
                /\ x[k] # Greedy => /\ ends[k] = ends[k - 1] + 1
                                    /\ Agree(x[k], y[ends[k]], lenient)
BY DEF Ends

LEMMA EndsGrow ==
  ASSUME NEW x \in Segments, NEW y \in Segments, NEW lenient, NEW ends \in Ends(x, y, lenient)
  PROVE  /\ \A k \in 0..Len(x) : ends[k] \in 0..Len(y)
         /\ \A k \in 1..Len(x) : ends[k] >= ends[k - 1] + 1 /\ ends[k] >= ends[1]
<1>1. Len(x) \in Nat /\ Len(y) \in Nat
  BY DEF Segments
<1>2. \A k \in 0..Len(x) : ends[k] \in 0..Len(y)
  BY EndsIs
<1>3. \A k \in 0..Len(x) : ends[k] \in Nat
  BY <1>1, <1>2
<1>4. ASSUME NEW k \in 1..Len(x) PROVE ends[k] >= ends[k - 1] + 1
  <2>1. k \in 0..Len(x) /\ k - 1 \in 0..Len(x)
    BY <1>1
  <2>2. ends[k] \in Nat /\ ends[k - 1] \in Nat
    BY <1>3, <2>1
  <2>3. ends[k] > ends[k - 1] \/ ends[k] = ends[k - 1] + 1
    BY EndsIs
  <2> QED
    BY <2>2, <2>3
<1> DEFINE bad == {k \in 1..Len(x) : ends[k] < ends[1]}
<1>5. ASSUME bad # {} PROVE FALSE
  <2>1. bad \in SUBSET Nat
    BY <1>1
  <2>2. PICK k \in bad : \A j \in bad : k <= j
    BY <1>5, <2>1, LeastNatural
  <2>3. k \in 1..Len(x) /\ ends[k] < ends[1] /\ k \in Nat
    BY <1>1
  <2>4. 1 \in 1..Len(x) /\ ends[1] \in Nat /\ k # 1
    BY <1>1, <1>3, <2>3
  <2>5. k - 1 \in 1..Len(x)
    BY <1>1, <2>3, <2>4
  <2>6. k - 1 \notin bad
    <3> HIDE DEF bad
    <3> QED
      BY <2>2, <2>3
  <2>7. ends[k - 1] >= ends[1] /\ ends[k] >= ends[k - 1] + 1 /\ ends[k] \in Nat /\ ends[k - 1] \in Nat
    BY <1>1, <1>3, <1>4, <2>3, <2>4, <2>5, <2>6
  <2> QED
    BY <2>3, <2>4, <2>7
<1>6. ASSUME NEW k \in 1..Len(x) PROVE ends[k] >= ends[1]
  <2>1. k \in 0..Len(x) /\ 1 \in 0..Len(x)
    BY <1>1
  <2>2. ends[k] \in Nat /\ ends[1] \in Nat
    BY <1>3, <2>1
  <2>3. ~ (ends[k] < ends[1])
    BY <1>5
  <2> QED
    BY <2>2, <2>3
<1> QED
  BY <1>2, <1>4, <1>6

LEMMA OneOn ==
  ASSUME NEW p \in Nat, NEW q \in 0..p, NEW r \in 0..p, r = q + 1
  PROVE  r \in 1..p
OBVIOUS

LEMMA ShiftBack ==
  ASSUME NEW e \in Nat, NEW k \in Nat, NEW r, r = e - k
  PROVE  k + r = e
OBVIOUS

LEMMA StandsEmpty ==
  ASSUME NEW x \in Segments, NEW y \in Segments, NEW lenient, x = <<>> \/ y = <<>>
  PROVE  Stands(x, y, lenient) <=> x = y
<1>1. Len(x) \in Nat /\ Len(y) \in Nat
  BY DEF Segments
<1>2. (x = <<>> <=> Len(x) = 0) /\ (y = <<>> <=> Len(y) = 0)
  BY <1>1, EmptySeq DEF Segments
<1>3. ASSUME NEW ends \in Ends(x, y, lenient) PROVE x = y
  <2>1. ends[0] = 0 /\ ends[Len(x)] = Len(y)
    BY EndsIs
  <2>2. CASE Len(x) = 0
    BY <1>2, <2>1, <2>2
  <2>3. CASE Len(y) = 0 /\ Len(x) # 0
    <3>1. 1 \in 1..Len(x) /\ 1 \in 0..Len(x) /\ 1 - 1 = 0
      BY <1>1, <2>3
    <3>2. ends[1] >= 0 + 1 /\ ends[1] \in 0..0
      BY <2>1, <2>3, <3>1, EndsGrow
    <3> QED
      BY <3>2
  <2> QED
    BY <1>2, <2>2, <2>3
<1>4. ASSUME x = y PROVE Stands(x, y, lenient)
  <2>1. Len(x) = 0 /\ Len(y) = 0
    BY <1>2, <1>4
  <2> DEFINE ends == [k \in 0..0 |-> 0]
  <2>2. ends \in [0..0 -> 0..0] /\ ends[0] = 0
    OBVIOUS
  <2> HIDE DEF ends
  <2>3. ends \in [0..Len(x) -> 0..Len(y)] /\ ends[Len(x)] = Len(y) /\ ends[0] = 0
    BY <2>1, <2>2
  <2>4. ASSUME NEW k \in 1..Len(x) PROVE FALSE
    BY <2>1
  <2>5. ends \in Ends(x, y, lenient)
    BY <2>3, <2>4, EndsIs
  <2> QED
    BY <2>5 DEF Stands
<1> QED
  BY <1>3, <1>4 DEF Stands

LEMMA StandsNext ==
  ASSUME NEW x \in Segments, NEW y \in Segments, NEW lenient, x # <<>>, y # <<>>
  PROVE  Stands(x, y, lenient) <=>
           \E k \in 1..Len(y) : First(x, y, lenient, k) /\ Stands(After(x, 1), After(y, k), lenient)
<1>1. Len(x) \in Nat /\ Len(y) \in Nat /\ Len(x) >= 1 /\ Len(y) >= 1
  BY EmptySeq DEF Segments
<1>2. 1 \in 0..Len(x) /\ 1 \in 1..Len(x) /\ 1 \in 1..Len(y) /\ 1 - 1 = 0
  BY <1>1
<1> DEFINE u == After(x, 1)
           n == Len(x) - 1
<1>3. u \in Segments /\ Len(u) = n /\ \A i \in 1..n : u[i] = x[1 + i]
  BY <1>2, AfterIs
<1>4. n \in Nat /\ n + 1 = Len(x)
  BY <1>1
<1>5. ASSUME NEW k \in 1..Len(y)
      PROVE  /\ After(y, k) \in Segments /\ Len(After(y, k)) = Len(y) - k /\ k \in Nat
             /\ Len(y) - k \in Nat
             /\ \A i \in 1..(Len(y) - k) : After(y, k)[i] = y[k + i]
  <2>1. k \in 0..Len(y) /\ Len(y) - k \in Nat /\ k \in Nat
    BY <1>1
  <2> QED
    BY <2>1, AfterIs
<1> HIDE DEF u, n
<1>6. ASSUME NEW ends \in Ends(x, y, lenient)
      PROVE  \E k \in 1..Len(y) : First(x, y, lenient, k) /\ Stands(u, After(y, k), lenient)
  <2>1. /\ ends \in [0..Len(x) -> 0..Len(y)] /\ ends[0] = 0 /\ ends[Len(x)] = Len(y)
        /\ \A k \in 1..Len(x) :
                /\ x[k] = Greedy => ends[k] > ends[k - 1]
                /\ x[k] # Greedy => ends[k] = ends[k - 1] + 1 /\ Agree(x[k], y[ends[k]], lenient)
    BY EndsIs
  <2>2. /\ \A k \in 0..Len(x) : ends[k] \in 0..Len(y)
        /\ \A k \in 1..Len(x) : ends[k] >= ends[k - 1] + 1 /\ ends[k] >= ends[1]
    BY EndsGrow
  <2>3. PICK k \in 1..Len(y) : k = ends[1]
    <3>1. ends[1] \in 0..Len(y) /\ ends[1] >= 0 + 1
      BY <1>2, <2>1, <2>2
    <3> QED
      BY <1>1, <3>1
  <2>4. First(x, y, lenient, k)
    <3>1. x[1] # Greedy => ends[1] = 0 + 1 /\ Agree(x[1], y[ends[1]], lenient)
      BY <1>2, <2>1
    <3> QED
      BY <2>3, <3>1 DEF First
  <2> DEFINE rest == [i \in 0..n |-> ends[i + 1] - k]
             p == Len(y) - k
  <2>5. p \in Nat /\ k \in Nat /\ p + k = Len(y) /\ After(y, k) \in Segments /\ Len(After(y, k)) = p
        /\ \A i \in 1..p : After(y, k)[i] = y[k + i]
    BY <1>1, <1>5
  <2>6. ASSUME NEW i \in 0..n PROVE i + 1 \in 1..Len(x) /\ i + 1 \in 0..Len(x) /\ i \in Nat
    BY <1>4
  <2>7. ASSUME NEW i \in 0..n
        PROVE  rest[i] \in 0..p /\ rest[i] = ends[i + 1] - k /\ ends[i + 1] \in Nat
    <3>1. ends[i + 1] \in 0..Len(y) /\ ends[i + 1] >= k
      BY <2>2, <2>3, <2>6
    <3> QED
      BY <1>1, <2>5, <3>1
  <2> HIDE DEF p
  <2>8. rest \in [0..n -> 0..p]
    BY <2>7
  <2> HIDE DEF rest
  <2>9. rest[0] = 0 /\ rest[n] = p
    <3>1. 0 \in 0..n /\ n \in 0..n /\ 0 + 1 = 1
      BY <1>4
    <3>2. rest[0] = k - k /\ rest[n] = Len(y) - k
      BY <1>4, <2>1, <2>3, <2>7, <3>1
    <3> QED
      BY <2>5, <3>2 DEF p
  <2>10. ASSUME NEW i \in 1..n
         PROVE  /\ u[i] = Greedy => rest[i] > rest[i - 1]
                /\ u[i] # Greedy => /\ rest[i] = rest[i - 1] + 1
                                    /\ Agree(u[i], After(y, k)[rest[i]], lenient)
    <3>1. i \in 0..n /\ i - 1 \in 0..n /\ i + 1 \in 1..Len(x) /\ (i - 1) + 1 = i /\ (i + 1) - 1 = i
          /\ 1 + i = i + 1
      BY <1>4
    <3>2. /\ rest[i] = ends[i + 1] - k /\ rest[i - 1] = ends[i] - k
          /\ ends[i + 1] \in Nat /\ ends[i] \in Nat /\ rest[i] \in 0..p /\ rest[i - 1] \in 0..p
      BY <2>7, <3>1
    <3>3. u[i] = x[i + 1]
      BY <1>3, <3>1
    <3>4. /\ x[i + 1] = Greedy => ends[i + 1] > ends[i]
          /\ x[i + 1] # Greedy => ends[i + 1] = ends[i] + 1 /\ Agree(x[i + 1], y[ends[i + 1]], lenient)
      BY <2>1, <3>1
    <3>5. CASE u[i] = Greedy
      BY <2>5, <3>2, <3>3, <3>4, <3>5
    <3>6. CASE u[i] # Greedy
      <4>1. rest[i] = rest[i - 1] + 1
        BY <2>5, <3>2, <3>3, <3>4, <3>6
      <4>2. rest[i] \in 1..p /\ k + rest[i] = ends[i + 1]
        <5>1. \A q \in 0..p : \A r \in 0..p : r = q + 1 => r \in 1..p
          BY <2>5, OneOn
        <5>2. \A e \in Nat : \A r : r = e - k => k + r = e
          BY <2>5, ShiftBack
        <5> QED
          BY <3>2, <4>1, <5>1, <5>2, Zenon
      <4>3. After(y, k)[rest[i]] = y[ends[i + 1]]
        BY <2>5, <4>2
      <4> QED
        BY <3>3, <3>4, <3>6, <4>1, <4>3
    <3> QED
      BY <3>5, <3>6
  <2>11. rest \in Ends(u, After(y, k), lenient)
    BY <1>3, <2>5, <2>8, <2>9, <2>10, EndsIs
  <2> QED
    BY <2>4, <2>11 DEF Stands
<1>7. ASSUME NEW k \in 1..Len(y), First(x, y, lenient, k), NEW rest \in Ends(u, After(y, k), lenient)
      PROVE  Ends(x, y, lenient) # {}
  <2> DEFINE p == Len(y) - k
             ends == [i \in 0..Len(x) |-> IF i = 0 THEN 0 ELSE rest[i - 1] + k]
  <2>1. p \in Nat /\ k \in Nat /\ p + k = Len(y) /\ After(y, k) \in Segments /\ Len(After(y, k)) = p
        /\ k >= 1 /\ \A i \in 1..p : After(y, k)[i] = y[k + i]
    BY <1>1, <1>5
  <2> HIDE DEF p
  <2>2. /\ rest \in [0..n -> 0..p] /\ rest[0] = 0 /\ rest[n] = p
        /\ \A i \in 1..n :
             /\ u[i] = Greedy => rest[i] > rest[i - 1]
             /\ u[i] # Greedy => rest[i] = rest[i - 1] + 1 /\ Agree(u[i], After(y, k)[rest[i]], lenient)
    <3> DEFINE v == After(y, k)
    <3>1. rest \in Ends(u, v, lenient) /\ v \in Segments /\ Len(v) = p
      BY <1>7, <2>1
    <3> HIDE DEF v
    <3>2. /\ rest \in [0..Len(u) -> 0..Len(v)] /\ rest[0] = 0 /\ rest[Len(u)] = Len(v)
          /\ \A i \in 1..Len(u) :
               /\ u[i] = Greedy => rest[i] > rest[i - 1]
               /\ u[i] # Greedy => rest[i] = rest[i - 1] + 1 /\ Agree(u[i], v[rest[i]], lenient)
      BY <1>3, <3>1, EndsIs
    <3> QED
      BY <1>3, <3>1, <3>2 DEF v
  <2>3. ASSUME NEW i \in 1..Len(x)
        PROVE  ends[i] = rest[i - 1] + k /\ i - 1 \in 0..n /\ rest[i - 1] \in 0..p
    <3>1. i \in 0..Len(x) /\ i # 0 /\ i - 1 \in 0..n
      BY <1>4
    <3> QED
      BY <2>2, <3>1
  <2>4. ends[0] = 0
    BY <1>1
  <2>5. ends \in [0..Len(x) -> 0..Len(y)]
    <3>1. ASSUME NEW i \in 0..Len(x) PROVE ends[i] \in 0..Len(y)
      <4>1. CASE i = 0
        BY <1>1, <2>4, <4>1
      <4>2. CASE i # 0
        <5>1. i \in 1..Len(x)
          BY <1>1, <4>2
        <5>2. ends[i] = rest[i - 1] + k /\ rest[i - 1] \in 0..p
          BY <2>3, <5>1
        <5> HIDE DEF ends
        <5> QED
          BY <2>1, <5>2
      <4> QED
        BY <4>1, <4>2
    <3> QED
      BY <3>1
  <2> HIDE DEF ends
  <2>6. ends[Len(x)] = Len(y)
    <3>1. Len(x) \in 1..Len(x) /\ Len(x) - 1 = n
      BY <1>1, <1>4
    <3> QED
      BY <2>1, <2>2, <2>3, <3>1
  <2>7. ASSUME NEW i \in 1..Len(x)
        PROVE  /\ x[i] = Greedy => ends[i] > ends[i - 1]
               /\ x[i] # Greedy => ends[i] = ends[i - 1] + 1 /\ Agree(x[i], y[ends[i]], lenient)
    <3>1. CASE i = 1
      <4>1. ends[1] = k
        BY <1>2, <2>1, <2>2, <2>3
      <4>2. 1 - 1 = 0
        OBVIOUS
      <4> QED
        BY <1>7, <2>1, <2>4, <3>1, <4>1, <4>2 DEF First
    <3>2. CASE i # 1
      <4>1. /\ i - 1 \in 1..n /\ i - 1 \in 1..Len(x) /\ 1 + (i - 1) = i /\ i - 1 \in 0..n
            /\ (i - 1) - 1 \in 0..n
        BY <1>4, <3>2
      <4>2. ends[i] = rest[i - 1] + k /\ ends[i - 1] = rest[(i - 1) - 1] + k
            /\ rest[i - 1] \in 0..p /\ rest[(i - 1) - 1] \in 0..p
        BY <2>3, <4>1
      <4>3. u[i - 1] = x[i]
        BY <1>3, <4>1
      <4>4. /\ x[i] = Greedy => rest[i - 1] > rest[(i - 1) - 1]
            /\ x[i] # Greedy => /\ rest[i - 1] = rest[(i - 1) - 1] + 1
                                /\ Agree(x[i], After(y, k)[rest[i - 1]], lenient)
        BY <2>2, <4>1, <4>3
      <4>5. CASE x[i] = Greedy
        BY <2>1, <4>2, <4>4, <4>5
      <4>6. CASE x[i] # Greedy
        <5>1. rest[i - 1] \in 1..p /\ k + rest[i - 1] = ends[i] /\ ends[i] = ends[i - 1] + 1
          <6>1. k \in Nat /\ p \in Nat
            BY <2>1
          <6>2. rest[i - 1] = rest[(i - 1) - 1] + 1
            BY <4>4, <4>6
          <6> HIDE DEF ends, p
          <6> QED
            BY <4>2, <6>1, <6>2
        <5>2. After(y, k)[rest[i - 1]] = y[ends[i]]
          BY <2>1, <5>1
        <5> QED
          BY <4>4, <4>6, <5>1, <5>2
      <4> QED
        BY <4>5, <4>6
    <3> QED
      BY <3>1, <3>2
  <2>8. ends \in Ends(x, y, lenient)
    BY <2>4, <2>5, <2>6, <2>7, EndsIs
  <2> QED
    BY <2>8
<1> QED
  BY <1>6, <1>7 DEF Stands, u

(* A match against a route without a catch-all is what the reference says, *)
(* whichever of the two comes first.                                       *)
Both(match, x, y, lenient) ==
  /\ match[<<x, y>>] <=> Stands(x, y, lenient)
  /\ match[<<y, x>>] <=> Stands(x, y, lenient)

BothAhead(match, R, x, y, lenient) ==
  \A p \in R \X R : /\ Len(p[1]) + Len(p[2]) < Len(x) + Len(y)
                    /\ ~ HasGreedy(p[2])
                    => Both(match, p[1], p[2], lenient)

LEMMA FreeAfter ==
  ASSUME NEW y \in Segments, ~ HasGreedy(y), NEW k \in 0..Len(y)
  PROVE  ~ HasGreedy(After(y, k))
<1> DEFINE v == After(y, k)
<1>1. v \in Segments /\ Len(v) = Len(y) - k /\ \A i \in 1..(Len(y) - k) : v[i] = y[k + i]
  BY AfterIs
<1>2. Len(y) \in Nat /\ DOMAIN y = 1..Len(y) /\ DOMAIN v = 1..Len(v)
  BY <1>1 DEF Segments
<1> HIDE DEF v
<1>3. ASSUME NEW i \in DOMAIN v PROVE v[i] # Greedy
  <2>1. i \in 1..(Len(y) - k) /\ k + i \in 1..Len(y)
    BY <1>1, <1>2
  <2> QED
    BY <1>1, <1>2, <2>1 DEF HasGreedy
<1>4. ~ HasGreedy(v)
  BY <1>3 DEF HasGreedy
<1> QED
  BY <1>4 DEF v

LEMMA MatchingAt ==
  ASSUME NEW R, NEW lenient, NEW match, IsMatching(match, R, lenient), NEW a \in R, NEW b \in R
  PROVE  match[<<a, b>>] = MatchStep(match, <<a, b>>, lenient)
BY DEF IsMatching

LEMMA AgreeEither ==
  ASSUME NEW x, NEW y, NEW lenient
  PROVE  Agree(x, y, lenient) <=> Agree(y, x, lenient)
<1>1. {x, y} = {y, x}
  OBVIOUS
<1> QED
  BY <1>1 DEF Agree

LEMMA MatchNext ==
  ASSUME NEW R, Closed(R), NEW lenient, NEW match, IsMatching(match, R, lenient),
         NEW x \in R, NEW y \in R, ~ HasGreedy(y), BothAhead(match, R, x, y, lenient)
  PROVE  Both(match, x, y, lenient)
<1>1. x \in Segments /\ y \in Segments /\ Len(x) \in Nat /\ Len(y) \in Nat
  BY DEF Closed, Segments
<1>2. /\ match[<<x, y>>] = MatchStep(match, <<x, y>>, lenient)
      /\ match[<<y, x>>] = MatchStep(match, <<y, x>>, lenient)
  BY MatchingAt
<1>3. CASE x = <<>> \/ y = <<>>
  <2>1. Stands(x, y, lenient) <=> x = y
    BY <1>1, <1>3, StandsEmpty
  <2>2. match[<<x, y>>] = (x = y) /\ match[<<y, x>>] = (y = x)
    BY <1>2, <1>3 DEF MatchStep
  <2> QED
    BY <2>1, <2>2 DEF Both
<1>4. CASE x # <<>> /\ y # <<>>
  <2>1. Len(x) >= 1 /\ Len(y) >= 1 /\ 1 \in 0..Len(x) /\ Head(x) = x[1] /\ Head(y) = y[1]
        /\ 1 \in DOMAIN y /\ 1 \in 1..Len(y)
    BY <1>1, <1>4, EmptySeq DEF Segments
  <2>2. Head(y) # Greedy
    BY <2>1 DEF HasGreedy
  <2>3. ASSUME NEW k \in 1..Len(y)
        PROVE  Both(match, After(x, 1), After(y, k), lenient)
    <3>1. k \in 0..Len(y) /\ k >= 1 /\ k \in Nat
      BY <1>1
    <3>2. After(x, 1) \in R /\ After(y, k) \in R
      BY <2>1, <3>1 DEF Closed
    <3>3. Len(After(x, 1)) = Len(x) - 1 /\ Len(After(y, k)) = Len(y) - k
      BY <1>1, <2>1, <3>1, AfterIs
    <3>4. Len(After(x, 1)) + Len(After(y, k)) < Len(x) + Len(y)
      BY <1>1, <3>1, <3>3
    <3>5. ~ HasGreedy(After(y, k))
      BY <1>1, <3>1, FreeAfter
    <3>6. <<After(x, 1), After(y, k)>> \in R \X R
      BY <3>2
    <3> QED
      BY <3>4, <3>5, <3>6 DEF BothAhead
  <2>4. Stands(x, y, lenient) <=>
          \E k \in 1..Len(y) : First(x, y, lenient, k) /\ Stands(After(x, 1), After(y, k), lenient)
    BY <1>1, <1>4, StandsNext
  <2>5. CASE Head(x) = Greedy
    <3>1. /\ MatchStep(match, <<x, y>>, lenient)
               = (\E k \in 1..Len(y) : match[<<After(x, 1), After(y, k)>>])
          /\ MatchStep(match, <<y, x>>, lenient)
               = (\E k \in 1..Len(y) : match[<<After(x, 1), After(y, k)>>])
      BY <1>4, <2>2, <2>5 DEF MatchStep, Eaten
    <3>2. \A k \in 1..Len(y) : First(x, y, lenient, k)
      BY <2>1, <2>5 DEF First
    <3>3. \A k \in 1..Len(y) : match[<<After(x, 1), After(y, k)>>] <=> Stands(After(x, 1), After(y, k), lenient)
      BY <2>3 DEF Both
    <3>4. (\E k \in 1..Len(y) : match[<<After(x, 1), After(y, k)>>]) <=> Stands(x, y, lenient)
      BY <2>4, <3>2, <3>3
    <3> QED
      BY <1>2, <3>1, <3>4 DEF Both
  <2>6. CASE Head(x) # Greedy
    <3>1. /\ MatchStep(match, <<x, y>>, lenient)
               = (Agree(x[1], y[1], lenient) /\ match[<<After(x, 1), After(y, 1)>>])
          /\ MatchStep(match, <<y, x>>, lenient)
               = (Agree(y[1], x[1], lenient) /\ match[<<After(y, 1), After(x, 1)>>])
      BY <1>4, <2>1, <2>2, <2>6 DEF MatchStep
    <3>2. \A k \in 1..Len(y) : First(x, y, lenient, k) <=> k = 1 /\ Agree(x[1], y[1], lenient)
      BY <2>1, <2>6 DEF First
    <3>3. /\ match[<<After(x, 1), After(y, 1)>>] <=> Stands(After(x, 1), After(y, 1), lenient)
          /\ match[<<After(y, 1), After(x, 1)>>] <=> Stands(After(x, 1), After(y, 1), lenient)
      BY <2>1, <2>3 DEF Both
    <3>4. Stands(x, y, lenient) <=>
            Agree(x[1], y[1], lenient) /\ Stands(After(x, 1), After(y, 1), lenient)
      BY <2>1, <2>4, <3>2
    <3>5. Agree(x[1], y[1], lenient) <=> Agree(y[1], x[1], lenient)
      BY AgreeEither
    <3> QED
      BY <1>2, <3>1, <3>3, <3>4, <3>5 DEF Both
  <2> QED
    BY <2>5, <2>6
<1> QED
  BY <1>3, <1>4

LEMMA MatchingStands ==
  ASSUME NEW R, Closed(R), NEW lenient, NEW match, IsMatching(match, R, lenient),
         NEW a \in R, NEW b \in R, ~ HasGreedy(b)
  PROVE  Both(match, a, b, lenient)
<1> DEFINE Wrong(pair) == ~ HasGreedy(pair[2]) /\ ~ Both(match, pair[1], pair[2], lenient)
           bad == {Left(pair) : pair \in {q \in R \X R : Wrong(q)}}
<1>1. ASSUME bad # {} PROVE FALSE
  <2>1. bad \in SUBSET Nat
    BY LeftIsNatural
  <2>2. PICK n \in bad : \A m \in bad : n <= m
    BY <1>1, <2>1, LeastNatural
  <2>3. PICK pair \in R \X R : Left(pair) = n /\ Wrong(pair)
    OBVIOUS
  <2> DEFINE x == pair[1]
             y == pair[2]
  <2>4. x \in R /\ y \in R /\ ~ HasGreedy(y) /\ ~ Both(match, x, y, lenient) /\ n = Len(x) + Len(y)
    BY <2>3 DEF Left
  <2>5. ASSUME NEW p \in R \X R, Len(p[1]) + Len(p[2]) < Len(x) + Len(y), ~ HasGreedy(p[2])
        PROVE  Both(match, p[1], p[2], lenient)
    <3>1. Left(p) < n /\ Left(p) \in Nat /\ n \in Nat
      BY <2>1, <2>4, <2>5, LeftIsNatural DEF Left
    <3>2. Left(p) \notin bad
      <4> HIDE DEF bad
      <4> QED
        BY <2>2, <3>1
    <3> QED
      BY <2>5, <3>2
  <2> HIDE DEF x, y
  <2>6. BothAhead(match, R, x, y, lenient)
    BY <2>5 DEF BothAhead
  <2> QED
    BY <2>4, <2>6, MatchNext
<1>2. <<a, b>> \in R \X R
  OBVIOUS
<1>3. ~ Wrong(<<a, b>>)
  BY <1>1, <1>2
<1> QED
  BY <1>3

(* A match of a route with one that has no catch-all.                      *)
LEMMA MatchStands ==
  ASSUME NEW a \in Segments, NEW b \in Segments, NEW lenient
  PROVE  /\ ~ HasGreedy(b) => (Match(a, b, lenient) <=> Stands(a, b, lenient))
         /\ ~ HasGreedy(a) => (Match(a, b, lenient) <=> Stands(b, a, lenient))
<1>1. PICK match, R : /\ Closed(R) /\ a \in R /\ b \in R
                      /\ IsMatching(match, R, lenient) /\ Match(a, b, lenient) = match[<<a, b>>]
  BY MatchIs
<1>2. ASSUME ~ HasGreedy(b) PROVE Match(a, b, lenient) <=> Stands(a, b, lenient)
  <2>1. Both(match, a, b, lenient)
    BY <1>1, <1>2, MatchingStands
  <2> QED
    BY <1>1, <2>1 DEF Both
<1>3. ASSUME ~ HasGreedy(a) PROVE Match(a, b, lenient) <=> Stands(b, a, lenient)
  <2>1. Both(match, b, a, lenient)
    BY <1>1, <1>3, MatchingStands
  <2> QED
    BY <1>1, <2>1 DEF Both
<1> QED
  BY <1>2, <1>3

LEMMA StandsSelf ==
  ASSUME NEW a \in Segments, NEW lenient
  PROVE  Stands(a, a, lenient)
<1> DEFINE ends == [k \in 0..Len(a) |-> k]
<1>1. Len(a) \in Nat
  BY DEF Segments
<1>2. ASSUME NEW k \in 1..Len(a) PROVE ends[k] = k /\ ends[k - 1] = k - 1 /\ k > k - 1 /\ k = (k - 1) + 1
  BY <1>1
<1>3. ends \in [0..Len(a) -> 0..Len(a)] /\ ends[0] = 0 /\ ends[Len(a)] = Len(a)
  BY <1>1
<1> HIDE DEF ends
<1>4. ASSUME NEW k \in 1..Len(a)
      PROVE  /\ a[k] = Greedy => ends[k] > ends[k - 1]
             /\ a[k] # Greedy => ends[k] = ends[k - 1] + 1 /\ Agree(a[k], a[ends[k]], lenient)
  <2>1. ends[k] > ends[k - 1] /\ ends[k] = ends[k - 1] + 1
    BY <1>2
  <2>2. Agree(a[k], a[ends[k]], lenient)
    BY <1>2 DEF Agree
  <2> QED
    BY <2>1, <2>2
<1>5. ends \in Ends(a, a, lenient)
  BY <1>3, <1>4, EndsIs
<1> QED
  BY <1>5 DEF Stands

(* A route is the same endpoint as itself, catch-alls and all.             *)
LEMMA MatchingSelf ==
  ASSUME NEW R, Closed(R), NEW lenient, NEW match, IsMatching(match, R, lenient), NEW a \in R
  PROVE  match[<<a, a>>]
<1> DEFINE bad == {Len(s) : s \in {t \in R : ~ match[<<t, t>>]}}
<1>1. ASSUME bad # {} PROVE FALSE
  <2>1. bad \in SUBSET Nat
    <3>1. \A s \in R : Len(s) \in Nat
      BY DEF Closed, Segments
    <3> QED
      BY <3>1
  <2>2. PICK n \in bad : \A m \in bad : n <= m
    BY <1>1, <2>1, LeastNatural
  <2>3. PICK s \in R : Len(s) = n /\ ~ match[<<s, s>>]
    OBVIOUS
  <2>4. match[<<s, s>>] = MatchStep(match, <<s, s>>, lenient)
    BY MatchingAt
  <2>5. s # <<>>
    BY <2>3, <2>4 DEF MatchStep
  <2>6. Len(s) \in Nat /\ Len(s) >= 1 /\ 1 \in 0..Len(s) /\ s \in Segments
    BY <2>5, EmptySeq DEF Closed, Segments
  <2>7. After(s, 1) \in R /\ Len(After(s, 1)) = Len(s) - 1
    BY <2>6, AfterIs DEF Closed
  <2>8. Len(After(s, 1)) \notin bad
    <3>1. ~ (n <= Len(After(s, 1)))
      BY <2>3, <2>6, <2>7
    <3> HIDE DEF bad
    <3> QED
      BY <2>2, <3>1
  <2>9. match[<<After(s, 1), After(s, 1)>>]
    BY <2>7, <2>8
  <2>10. 1 \in Eaten(Len(s))
    BY <2>6 DEF Eaten
  <2>11. MatchStep(match, <<s, s>>, lenient)
    BY <2>5, <2>9, <2>10 DEF MatchStep, Agree
  <2> QED
    BY <2>3, <2>4, <2>11
<1> QED
  BY <1>1

LEMMA RoutesEqualSelf ==
  ASSUME NEW a \in Segments
  PROVE  RoutesEqual(a, a)
<1>1. PICK match, R : /\ Closed(R) /\ a \in R
                      /\ IsMatching(match, R, {}) /\ Match(a, a, {}) = match[<<a, a>>]
  BY MatchIs
<1>2. Match(a, a, {})
  BY <1>1, MatchingSelf
<1> QED
  BY <1>2 DEF RoutesEqual

(* routes_equal() agrees with the reference unless both have a catch-all.  *)
THEOREM RoutesEqualIs ==
  ASSUME NEW a \in Segments, NEW b \in Segments, ~ (HasGreedy(a) /\ HasGreedy(b))
  PROVE  RoutesEqual(a, b) <=> SameEndpoint(a, b)
<1>1. CASE <<Unmatched>> \in {a, b}
  <2>1. RoutesEqual(a, b) <=> a = b
    BY <1>1 DEF RoutesEqual
  <2>2. ASSUME NEW path \in {a, b}, StandsFor(a, path, {}), StandsFor(b, path, {}) PROVE FALSE
    BY <1>1, <2>2 DEF StandsFor
  <2> QED
    BY <2>1, <2>2 DEF SameEndpoint
<1>2. CASE <<Unmatched>> \notin {a, b}
  <2>1. RoutesEqual(a, b) <=> Match(a, b, {})
    BY <1>2 DEF RoutesEqual
  <2>2. /\ StandsFor(a, a, {}) /\ StandsFor(b, b, {}) /\ Stands(a, a, {}) /\ Stands(b, b, {})
        /\ StandsFor(a, b, {}) <=> Stands(a, b, {})
        /\ StandsFor(b, a, {}) <=> Stands(b, a, {})
    BY <1>2, StandsSelf DEF StandsFor, Stands
  <2>3. /\ ~ HasGreedy(b) => (Match(a, b, {}) <=> Stands(a, b, {}))
        /\ ~ HasGreedy(a) => (Match(a, b, {}) <=> Stands(b, a, {}))
    BY MatchStands
  <2>4. SameEndpoint(a, b) <=> \/ a = b
                               \/ ~ HasGreedy(a) /\ Stands(b, a, {})
                               \/ ~ HasGreedy(b) /\ Stands(a, b, {})
    BY <2>2 DEF SameEndpoint
  <2> QED
    BY <2>1, <2>2, <2>3, <2>4
<1> QED
  BY <1>1, <1>2

(* route_matches_path() agrees with the reference on a path.               *)
THEOREM RouteMatchesPathIs ==
  ASSUME NEW t \in Segments, NEW p \in Segments, ~ HasGreedy(p)
  PROVE  RouteMatchesPath(t, p) <=> StandsFor(t, p, {Placeholder})
<1>1. Match(t, p, {Placeholder}) <=> Stands(t, p, {Placeholder})
  BY MatchStands
<1> QED
  BY <1>1 DEF RouteMatchesPath, StandsFor, Stands

(* Without catch-alls it is spelled the same.                              *)
LEMMA StandsLiterally ==
  ASSUME NEW a \in Segments, NEW b \in Segments, ~ HasGreedy(a), Stands(a, b, {})
  PROVE  a = b
<1>1. Len(a) \in Nat /\ Len(b) \in Nat /\ DOMAIN a = 1..Len(a)
  BY DEF Segments
<1>2. PICK ends : ends \in Ends(a, b, {})
  BY DEF Stands
<1>3. /\ ends[0] = 0 /\ ends[Len(a)] = Len(b)
      /\ \A k \in 1..Len(a) : ends[k] = ends[k - 1] + 1 /\ Agree(a[k], b[ends[k]], {})
  BY <1>1, <1>2, EndsIs DEF HasGreedy
<1> DEFINE bad == {k \in 0..Len(a) : ends[k] # k}
<1>4. ASSUME bad # {} PROVE FALSE
  <2>1. bad \in SUBSET Nat
    BY <1>1
  <2>2. PICK k \in bad : \A j \in bad : k <= j
    BY <1>4, <2>1, LeastNatural
  <2>3. k \in 0..Len(a) /\ ends[k] # k /\ k # 0
    BY <1>3
  <2>4. k \in 1..Len(a) /\ k - 1 \in 0..Len(a) /\ (k - 1) + 1 = k /\ k \in Nat
    BY <1>1, <2>3
  <2>5. k - 1 \notin bad
    <3> HIDE DEF bad
    <3> QED
      BY <2>2, <2>4
  <2>6. ends[k - 1] = k - 1
    BY <2>4, <2>5
  <2> QED
    BY <1>3, <2>3, <2>4, <2>6
<1>5. \A k \in 0..Len(a) : ends[k] = k
  BY <1>4
<1>6. Len(a) = Len(b)
  BY <1>1, <1>3, <1>5
<1>7. ASSUME NEW k \in 1..Len(a) PROVE a[k] = b[k]
  <2>1. k \in 0..Len(a)
    BY <1>1
  <2> QED
    BY <1>3, <1>5, <2>1 DEF Agree
<1> QED
  BY <1>6, <1>7, SeqEqual DEF Segments

LEMMA SameLiterally ==
  ASSUME NEW a \in Segments, NEW b \in Segments, ~ HasGreedy(a), ~ HasGreedy(b), SameEndpoint(a, b)
  PROVE  a = b
<1>1. a = b \/ Stands(a, b, {}) \/ Stands(b, a, {})
  BY DEF SameEndpoint, StandsFor, Stands
<1> QED
  BY <1>1, StandsLiterally
-----------------------------------------------------------------------------
(* The hosts of a target that a name designates: one at most.              *)

LEMMA HostsAreApart ==
  ASSUME NEW app \in ToSet(Published), NEW g \in Hosts(app), NEW h \in Hosts(app), NEW host,
         host # "none", HostMatches(g, host), HostMatches(h, host)
  PROVE  g = h
<1>1. /\ \A p, q \in SameLabel :
           <<p[2], p[1]>> \in SameLabel /\ (p[2] = q[1] => <<p[1], q[2]>> \in SameLabel)
      /\ <<g, h>> \in SameLabel => g = h
      /\ <<h, g>> \in SameLabel => h = g
  BY InventoryAssumption
<1>2. g # "none" /\ h # "none"
  BY DEF Hosts
<1>3. (g = host \/ <<g, host>> \in SameLabel) /\ (h = host \/ <<h, host>> \in SameLabel)
  BY <1>2 DEF HostMatches
<1>4. CASE g = host \/ h = host
  BY <1>1, <1>3, <1>4
<1>5. CASE <<g, host>> \in SameLabel /\ <<h, host>> \in SameLabel
  <2>1. <<host, h>> \in SameLabel
    BY <1>1, <1>5
  <2>2. <<g, h>> \in SameLabel
    BY <1>1, <1>5, <2>1
  <2> QED
    BY <1>1, <2>2
<1> QED
  BY <1>3, <1>4, <1>5

LEMMA ResolveHostIs ==
  ASSUME NEW app \in ToSet(Published), NEW host
  PROVE  /\ ResolveHost(app, host) = "none" => NamedBy(host, app) = {}
         /\ ResolveHost(app, host) # "none" => NamedBy(host, app) = {ResolveHost(app, host)}
<1> DEFINE designated == {n \in DOMAIN Vhosts : /\ Vhosts[n] \in Hosts(app)
                                                /\ HostMatches(Vhosts[n], host)}
<1>1. Vhosts \in Seq(ToSet(Vhosts)) /\ Hosts(app) \subseteq ToSet(Vhosts)
  BY InventoryAssumption
<1>2. DOMAIN Vhosts \in SUBSET Nat /\ \A h \in Hosts(app) : \E n \in DOMAIN Vhosts : Vhosts[n] = h
  BY <1>1 DEF ToSet
<1>3. CASE host = "none"
  BY <1>3 DEF ResolveHost, NamedBy
<1>4. CASE host # "none" /\ designated = {}
  <2>1. ResolveHost(app, host) = "none"
    BY <1>4 DEF ResolveHost
  <2>2. NamedBy(host, app) = {}
    BY <1>2, <1>4 DEF NamedBy
  <2> QED
    BY <2>1, <2>2
<1>5. CASE host # "none" /\ designated # {}
  <2>1. Min(designated) \in designated
    BY <1>2, <1>5, MinIsLeast
  <2>2. ResolveHost(app, host) = Vhosts[Min(designated)]
    BY <1>5 DEF ResolveHost
  <2>3. ResolveHost(app, host) \in NamedBy(host, app)
    BY <1>5, <2>1, <2>2 DEF NamedBy
  <2>4. \A g, h \in NamedBy(host, app) : g = h
    BY HostsAreApart DEF NamedBy
  <2>5. ResolveHost(app, host) # "none"
    BY <2>3 DEF NamedBy, Hosts
  <2> QED
    BY <2>3, <2>4, <2>5
<1> QED
  BY <1>3, <1>4, <1>5

LEMMA OnHost ==
  ASSUME NEW app \in ToSet(Published), NEW r \in Rows(app), NEW host
  PROVE  /\ ResolveHost(app, host) \in {"none", r.host} <=> NamedBy(host, app) \subseteq {r.host}
         /\ HostMatches(r.host, ResolveHost(app, host))
              <=> r.host = "none" \/ NamedBy(host, app) \subseteq {r.host}
<1> DEFINE n == ResolveHost(app, host)
<1>1. CASE n = "none"
  BY <1>1, ResolveHostIs DEF HostMatches
<1>2. CASE n # "none"
  <2>1. NamedBy(host, app) = {n} /\ n \in Hosts(app)
    BY <1>2, ResolveHostIs DEF NamedBy
  <2>2. r.host # "none" => r.host \in Hosts(app)
    BY DEF Hosts
  <2>3. r.host # "none" /\ <<r.host, n>> \in SameLabel => r.host = n
    BY <2>1, <2>2, InventoryAssumption
  <2> HIDE DEF n
  <2>4. HostMatches(r.host, n) <=> r.host = "none" \/ r.host = n
    BY <1>2, <2>3 DEF HostMatches
  <2> QED
    BY <1>2, <2>1, <2>4 DEF n
<1> QED
  BY <1>1, <1>2
-----------------------------------------------------------------------------
(* What a request is worth.                                                *)

Aimed(v) == {e \in Tools : /\ e.type = "request" /\ e.app \in {Catalog[v].app, "none"}
                           /\ e.method = Catalog[v].method}
Asked(v) == {e \in Aimed(v) : <<Catalog[v].route, e.route>> \in SameEndpoints}
Usual(v) == IF Catalog[v].default = "none" THEN "empty" ELSE Catalog[v].default
Sent(v) == {p \in UNION {e.params : e \in Asked(v)} :
              /\ p.name = Catalog[v].param
              /\ \E place \in Places : {p.location, Catalog[v].location} \subseteq place}
Changed(v) == {p \in Sent(v) : p.value # Usual(v)}
Plain(v) == \A e \in Aimed(v) : ~(HasGreedy(Catalog[v].route) /\ HasGreedy(e.route))
Reaching(v) == {k \in DOMAIN Scored(log) :
                  Scored(log)[k].type = "request" /\ Reaches(v, Scored(log)[k])}

LEMMA ToolRequest ==
  ASSUME Typed, NEW e \in Tools, e.type = "request"
  PROVE  e \in Requests /\ e.route \in Segments /\ Read(e) = e
<1>1. e \in Inputs
  BY ToolEvents
<1>2. e \in Requests
  BY <1>1 DEF Requests
<1> QED
  BY <1>1, <1>2, ReadOutside, ScoringAssumption DEF Segments

LEMMA RequestAt ==
  ASSUME Typed, NEW k \in DOMAIN Scored(log), Scored(log)[k].type = "request"
  PROVE  log[k] \in Tools /\ log[k].type = "request" /\ Scored(log)[k] = log[k]
<1>1. log[k] \in Tools /\ log[k] \in Inputs /\ Scored(log)[k] = Read(log[k])
  BY ToolEvents
<1> QED
  BY <1>1, ReadType, ToolRequest

LEMMA RequestFrom ==
  ASSUME Typed, NEW e \in Tools, e.type = "request"
  PROVE  \E k \in DOMAIN Scored(log) : Scored(log)[k] = e
<1>1. PICK k \in DOMAIN Scored(log) : e = log[k]
  BY ToolEvents
<1>2. Scored(log)[k] = Read(log[k])
  BY ToolEvents
<1> QED
  BY <1>1, <1>2, ToolRequest

LEMMA CatalogRoute ==
  ASSUME NEW v \in DOMAIN Catalog
  PROVE  Catalog[v].route \in Segments
BY ScoringAssumption DEF Segments

(* The requests that reach a flaw are those for its endpoint.              *)
LEMMA ReachesIsAsked ==
  ASSUME Typed, NEW v \in DOMAIN Catalog, Plain(v), NEW e \in Tools, e.type = "request"
  PROVE  Reaches(v, e) <=> e \in Asked(v)
<1> DEFINE pair == <<Catalog[v].route, e.route>>
<1>1. e \in Requests /\ e.route \in Segments
  BY ToolRequest
<1>2. pair \in RoutePairs /\ pair[1] = Catalog[v].route /\ pair[2] = e.route
  BY <1>1 DEF RoutePairs
<1>3. ASSUME e \in Aimed(v) PROVE RoutesEqual(Catalog[v].route, e.route) <=> SameEndpoint(Catalog[v].route, e.route)
  BY <1>1, <1>3, CatalogRoute, RoutesEqualIs DEF Plain
<1>4. ASSUME e \in Aimed(v) PROVE pair \in SameRoute <=> pair \in SameEndpoints
  BY <1>2, <1>3, <1>4 DEF SameRoute, SameEndpoints
<1>5. Reaches(v, e) <=> e \in Aimed(v) /\ pair \in SameRoute
  BY DEF Reaches, Aimed
<1> QED
  BY <1>4, <1>5 DEF Asked

LEMMA ReachingIsAsked ==
  ASSUME Typed, NEW v \in DOMAIN Catalog, Plain(v)
  PROVE  /\ \A k \in Reaching(v) : Scored(log)[k] \in Asked(v)
         /\ \A e \in Asked(v) : \E k \in Reaching(v) : Scored(log)[k] = e
<1>1. ASSUME NEW k \in Reaching(v) PROVE Scored(log)[k] \in Asked(v)
  <2>1. k \in DOMAIN Scored(log) /\ Scored(log)[k].type = "request" /\ Reaches(v, Scored(log)[k])
    BY DEF Reaching
  <2>2. log[k] \in Tools /\ log[k].type = "request" /\ Scored(log)[k] = log[k]
    BY <2>1, RequestAt
  <2> QED
    BY <2>1, <2>2, ReachesIsAsked
<1>2. ASSUME NEW e \in Asked(v) PROVE \E k \in Reaching(v) : Scored(log)[k] = e
  <2>1. e \in Tools /\ e.type = "request"
    BY DEF Asked, Aimed
  <2>2. PICK k \in DOMAIN Scored(log) : Scored(log)[k] = e
    BY <2>1, RequestFrom
  <2>3. Reaches(v, e)
    BY <2>1, ReachesIsAsked
  <2> QED
    BY <2>1, <2>2, <2>3 DEF Reaching
<1> QED
  BY <1>1, <1>2

LEMMA ReachIs ==
  ASSUME NEW v, NEW at
  PROVE  /\ Outcome(v, Scored(log), at).reach
              = (Reaching(v) # {} \/ Outcome(v, Scored(log), at).trigger)
         /\ Outcome(v, Scored(log), at).exercise
              = IF Catalog[v].param = "none" THEN "not applicable"
                ELSE IF \E k \in Reaching(v) : IsExercised(v, Scored(log)[k]) THEN "yes" ELSE "no"
BY DEF Outcome, Reaching

(* The places are the classes of what matches.                             *)
LEMMA PlacesMatch ==
  ASSUME NEW given \in Locations, NEW declared \in Locations
  PROVE  (\E place \in Places : {given, declared} \subseteq place) <=>
           \/ Place(given) = Place(declared)
           \/ given \in BodyLocations /\ declared \in BodyLocations
BY DEF Places, Locations, BodyLocations, Place

LEMMA CarriesIs ==
  ASSUME Typed, NEW v \in DOMAIN Catalog, NEW e \in Asked(v), NEW p \in e.params
  PROVE  Carries(v, p) <=> p \in Sent(v)
<1>1. e \in Requests
  BY ToolRequest DEF Asked, Aimed
<1>2. p.location \in Locations /\ Catalog[v].location \in Locations
  BY <1>1, ScoringAssumption
<1>3. p \in UNION {f.params : f \in Asked(v)}
  OBVIOUS
<1> QED
  BY <1>2, <1>3, PlacesMatch DEF Carries, Sent

LEMMA ExercisedIs ==
  ASSUME Typed, NEW v \in DOMAIN Catalog, NEW e \in Asked(v)
  PROVE  /\ IsExercised(v, e) => Changed(v) # {} \/ \E p \in Sent(v) : p.told = "cut"
         /\ e.params \cap Changed(v) # {} => IsExercised(v, e)
<1>1. ASSUME NEW p \in e.params PROVE Carries(v, p) <=> p \in Sent(v)
  BY CarriesIs
<1> QED
  BY <1>1 DEF IsExercised, Changed, Usual

(* A row of the inventory is covered by the requests that reach the flaw   *)
(* which is planted there.                                                 *)
Planting(v) ==
  {k \in DOMAIN Inventories[Catalog[v].app] :
     LET r == Inventories[Catalog[v].app][k]
     IN r.planted /\ r.method = Catalog[v].method /\ r.route = Catalog[v].route}
AtHost(e, app, k) == NamedBy(e.host, app) \subseteq {Inventories[app][k].host}

LEMMA CoveredIs ==
  ASSUME Typed, NEW v \in InScope(Scored(log)), Catalog[v].app \in ToSet(Published),
         ~HasGreedy(Catalog[v].route), NEW k \in Planting(v)
  PROVE  <<Catalog[v].app, k>> \in Covered(Scored(log)) <=>
           \E e \in Asked(v) : /\ e.app = Catalog[v].app /\ ~HasGreedy(e.route)
                               /\ AtHost(e, e.app, k)
<1> DEFINE app == Catalog[v].app
           row == Inventories[app][k]
           es == Scored(log)
<1>1. v \in DOMAIN Catalog /\ app \in Selected(es)
  BY DEF InScope, Selected
<1>2. k \in DOMAIN Inventories[app] /\ row.method = Catalog[v].method /\ row.route = Catalog[v].route
      /\ row \in Rows(app)
  BY DEF Planting, Rows
<1>3. <<app, k>> \in Covered(es) <=> \E n \in DOMAIN es : es[n].type = "request" /\ Walks(es[n], app, row)
  BY <1>1, <1>2 DEF Covered
<1>4. ASSUME NEW e \in Tools, e.type = "request", Walks(e, app, row)
      PROVE  /\ e \in Asked(v) /\ e.app = app /\ ~HasGreedy(e.route)
             /\ AtHost(e, e.app, k)
  <2>1. e.app = app /\ e.method = Catalog[v].method /\ e.route = Catalog[v].route
        /\ ResolveHost(app, e.host) \in {"none", row.host}
    BY <1>2, <1>4 DEF Walks
  <2>2. <<Catalog[v].route, e.route>> \in SameEndpoints
    BY <1>1, <1>4, <2>1, ToolRequest DEF SameEndpoints, RoutePairs, SameEndpoint
  <2>3. AtHost(e, app, k)
    BY <1>2, <2>1, OnHost DEF AtHost
  <2> QED
    BY <1>4, <2>1, <2>2, <2>3 DEF Asked, Aimed
<1>5. ASSUME NEW e \in Asked(v), e.app = app, ~HasGreedy(e.route), AtHost(e, e.app, k)
      PROVE  e \in Tools /\ e.type = "request" /\ Walks(e, app, row)
  <2>1. e \in Tools /\ e.type = "request" /\ e.method = Catalog[v].method
        /\ SameEndpoint(Catalog[v].route, e.route)
    BY DEF Asked, Aimed, SameEndpoints
  <2>2. Catalog[v].route = e.route
    BY <1>1, <1>5, <2>1, ToolRequest, CatalogRoute, SameLiterally
  <2>3. ResolveHost(app, e.host) \in {"none", row.host}
    BY <1>2, <1>5, OnHost DEF AtHost
  <2> QED
    BY <1>2, <1>5, <2>1, <2>2, <2>3 DEF Walks
<1>6. ASSUME NEW n \in DOMAIN es, es[n].type = "request", Walks(es[n], app, row)
      PROVE  es[n] \in Tools
  BY <1>6, RequestAt
<1>7. ASSUME NEW e \in Tools, e.type = "request", Walks(e, app, row)
      PROVE  \E n \in DOMAIN es : es[n].type = "request" /\ Walks(es[n], app, row)
  BY <1>7, RequestFrom
<1> HIDE DEF es, row, app
<1>8. (\E n \in DOMAIN es : es[n].type = "request" /\ Walks(es[n], app, row)) <=>
        \E e \in Asked(v) : e.app = app /\ ~HasGreedy(e.route) /\ AtHost(e, e.app, k)
  BY <1>4, <1>5, <1>6, <1>7
<1> QED
  BY <1>3, <1>8 DEF app, es

LEMMA TypedCredit == Typed => RequestsEarnCredit
<1> SUFFICES ASSUME Typed PROVE RequestsEarnCredit
  OBVIOUS
<1> DEFINE es == Scored(log)
           at == Attributions(es)
           outcome == Score(log).outcome
<1>1. outcome = [v \in InScope(es) |-> Outcome(v, es, at)]
  BY DEF Score
<1> HIDE DEF outcome, at
<1>2. ASSUME NEW v \in InScope(es), Plain(v)
      PROVE  /\ outcome[v].reach = (Asked(v) # {} \/ outcome[v].trigger)
             /\ outcome[v].exercise = "yes" => Changed(v) # {} \/ \E p \in Sent(v) : p.told = "cut"
             /\ Catalog[v].param # "none" /\ outcome[v].exercise # "yes" => Changed(v) = {}
             /\ Catalog[v].app \in ToSet(Published) /\ ~HasGreedy(Catalog[v].route) =>
                  \A k \in Planting(v) :
                    <<Catalog[v].app, k>> \in Covered(es) <=>
                      \E e \in Asked(v) : /\ e.app = Catalog[v].app /\ ~HasGreedy(e.route)
                                          /\ AtHost(e, e.app, k)
  <2>1. v \in DOMAIN Catalog /\ outcome[v] = Outcome(v, es, at)
    BY <1>1 DEF InScope
  <2>2. /\ \A k \in Reaching(v) : es[k] \in Asked(v)
        /\ \A e \in Asked(v) : \E k \in Reaching(v) : es[k] = e
    BY <1>2, <2>1, ReachingIsAsked
  <2>3. outcome[v].reach = (Asked(v) # {} \/ outcome[v].trigger)
    <3>1. (Reaching(v) # {}) = (Asked(v) # {})
      BY <2>2
    <3> QED
      BY <2>1, <3>1, ReachIs
  <2>4. outcome[v].exercise
          = IF Catalog[v].param = "none" THEN "not applicable"
            ELSE IF \E k \in Reaching(v) : IsExercised(v, es[k]) THEN "yes" ELSE "no"
    BY <2>1, ReachIs
  <2>5. outcome[v].exercise = "yes" => Changed(v) # {} \/ \E p \in Sent(v) : p.told = "cut"
    <3>1. ASSUME outcome[v].exercise = "yes" PROVE \E k \in Reaching(v) : IsExercised(v, es[k])
      BY <2>4, <3>1
    <3> QED
      BY <2>1, <2>2, <3>1, ExercisedIs
  <2>6. Catalog[v].param # "none" /\ outcome[v].exercise # "yes" => Changed(v) = {}
    <3>1. ASSUME Changed(v) # {} PROVE \E k \in Reaching(v) : IsExercised(v, es[k])
      <4>1. PICK e \in Asked(v) : e.params \cap Changed(v) # {}
        BY <3>1 DEF Changed, Sent
      <4>2. IsExercised(v, e)
        BY <2>1, <4>1, ExercisedIs
      <4> QED
        BY <2>2, <4>2
    <3> QED
      BY <2>4, <3>1
  <2>7. ASSUME Catalog[v].app \in ToSet(Published), ~HasGreedy(Catalog[v].route), NEW k \in Planting(v)
        PROVE  <<Catalog[v].app, k>> \in Covered(es) <=>
                 \E e \in Asked(v) : /\ e.app = Catalog[v].app /\ ~HasGreedy(e.route)
                                     /\ AtHost(e, e.app, k)
    BY <2>7, CoveredIs
  <2> QED
    BY <2>3, <2>5, <2>6, <2>7
<1>3. DOMAIN outcome = InScope(es)
  BY <1>1
<1> HIDE DEF es
<1> QED
  BY <1>2, <1>3 DEF RequestsEarnCredit, Plain, Aimed, Asked, Usual, Sent, Changed, Planting, AtHost, outcome, es

(* What a run asked of a flaw is what its score says: it is reached by the *)
(* requests for its endpoint, exercised by those that carry a value of the *)
(* tool's own, and the coverage of its row tells the same.                 *)
THEOREM RequestsCount == Spec => []RequestsEarnCredit
BY DocumentTypeCorrect, TypedCredit, PTL
-----------------------------------------------------------------------------
(* Where a finding points.                                                 *)

(* A finding without a target names no virtual host either.                *)
LEMMA NamelessTarget ==
  ASSUME NEW es, NEW f, ResolveApp(f, Setting(es)) = "none", NEW app \in ToSet(Published)
  PROVE  NamedBy(f.host, app) = {}
<1> DEFINE run == Setting(es)
           index == HostIndex(es)
<1>1. run.map = [h \in DOMAIN index \cup DOMAIN Addresses |->
                   IF h \in DOMAIN index THEN index[h] ELSE Addresses[h]]
  BY DEF Setting, AppMap
<1>2. ASSUME NEW h \in DOMAIN index PROVE index[h] # "none"
  <2> DEFINE named == {k \in DOMAIN es : es[k].type = "request" /\ "none" \notin {es[k].app, es[k].host}}
             serving(host) == {es[k].app : k \in {k \in named : es[k].host = host}}
             unshared == {g \in {es[k].host : k \in named} : Cardinality(serving(g)) = 1}
  <2>1. index = [g \in unshared |-> CHOOSE a \in serving(g) : TRUE]
    BY DEF HostIndex
  <2>2. h \in unshared /\ index[h] = CHOOSE a \in serving(h) : TRUE
    BY <1>2, <2>1
  <2>3. PICK k \in named : h = es[k].host
    BY <2>2
  <2>4. es[k].app \in serving(h)
    BY <2>3
  <2>5. index[h] \in serving(h)
    <3> HIDE DEF serving, named, unshared, index
    <3> QED
      BY <2>2, <2>4
  <2>6. \A a \in serving(h) : a # "none"
    OBVIOUS
  <2> QED
    BY <2>5, <2>6
<1>3. ASSUME NEW h \in DOMAIN run.map PROVE run.map[h] # "none"
  <2>1. h \in DOMAIN index \/ h \in DOMAIN Addresses
    BY <1>1, <1>3
  <2>2. run.map[h] = IF h \in DOMAIN index THEN index[h] ELSE Addresses[h]
    BY <1>1, <2>1
  <2> HIDE DEF run, index
  <2> QED
    BY <1>2, <2>1, <2>2, ScoringAssumption
<1> HIDE DEF run, index
<1>4. f.host \in Loopback \cup {"none"}
  <2>1. ResolveApp(f, run) = "none"
    BY DEF run
  <2> QED
    BY <1>3, <2>1 DEF ResolveApp
<1>5. CASE f.host = "none"
  BY <1>5 DEF NamedBy
<1>6. CASE f.host \in Loopback
  BY <1>6, FindingsAssumption DEF NamedBy
<1> QED
  BY <1>4, <1>5, <1>6

LEMMA PublishedRoute ==
  ASSUME NEW app \in ToSet(Published), NEW r \in Rows(app)
  PROVE  r.route \in Segments
BY InventoryAssumption DEF Segments

PlantedOn(v) ==
  {r.host : r \in {r \in Rows(Catalog[v].app) :
                     /\ r.planted /\ r.method = Catalog[v].method
                     /\ SameEndpoint(r.route, Catalog[v].route)}} \ {"none"}

(* The hosts that a flaw is planted on are those of its endpoint.          *)
LEMMA PlantedHostsIs ==
  ASSUME NEW v \in DOMAIN Catalog, Catalog[v].app \in ToSet(Published)
  PROVE  PlantedHosts(Catalog[v].app, Catalog[v].method, Catalog[v].route) = PlantedOn(v)
<1> DEFINE app == Catalog[v].app
           b == Catalog[v].route
<1>1. ASSUME NEW r \in Rows(app), r.planted
      PROVE  RoutesEqual(r.route, b) <=> SameEndpoint(r.route, b)
  <2>1. r.route \in Segments /\ b \in Segments
    BY PublishedRoute, CatalogRoute
  <2>2. CASE ~ (HasGreedy(r.route) /\ HasGreedy(b))
    BY <2>1, <2>2, RoutesEqualIs
  <2>3. CASE HasGreedy(r.route) /\ HasGreedy(b)
    <3>1. RoutesEqual(r.route, b) => r.route = b
      BY <1>1, <2>3, FindingsAssumption
    <3>2. SameEndpoint(r.route, b) <=> r.route = b
      BY <2>3 DEF SameEndpoint
    <3> QED
      BY <2>1, <3>1, <3>2, RoutesEqualSelf
  <2> QED
    BY <2>2, <2>3
<1> QED
  BY <1>1 DEF PlantedHosts, PlantedOn

LEMMA HostsFinite ==
  ASSUME NEW app \in ToSet(Published)
  PROVE  IsFiniteSet(Hosts(app))
<1>1. Vhosts \in Seq(ToSet(Vhosts)) /\ Hosts(app) \subseteq ToSet(Vhosts)
  BY InventoryAssumption
<1>2. DOMAIN Vhosts = 1..Len(Vhosts) /\ Len(Vhosts) \in Nat
  BY <1>1
<1>3. IsFiniteSet(1..Len(Vhosts))
  BY <1>2, FS_Interval
<1>4. Vhosts \in Surjection(1..Len(Vhosts), ToSet(Vhosts))
  BY <1>1, <1>2 DEF ToSet, Surjection
<1>5. IsFiniteSet(ToSet(Vhosts))
  BY <1>3, <1>4, FS_Surjection
<1> QED
  BY <1>1, <1>5, FS_Subset

LEMMA SingleHostIs ==
  ASSUME NEW app \in ToSet(Published)
  PROVE  SingleHost(app) <=> Cardinality(Hosts(app)) = 1 \/ Hosts(app) = {}
<1>1. Cardinality(Hosts(app)) \in Nat
  BY HostsFinite, FS_CardinalityType
<1>2. Cardinality(Hosts(app)) = 0 <=> Hosts(app) = {}
  BY HostsFinite, FS_EmptySet
<1> QED
  BY <1>1, <1>2 DEF SingleHost

(* _host_agrees() lets a finding pass just when its host is no evidence    *)
(* against the flaw.                                                       *)
LEMMA HostAgreesIs ==
  ASSUME NEW v \in DOMAIN Catalog, NEW f, NEW es,
         ResolveApp(f, Setting(es)) \in {"none", Catalog[v].app}
  PROVE  HostAgrees(v, ResolveApp(f, Setting(es)), f.host) <=>
           \/ Catalog[v].app \notin ToSet(Published) \/ PlantedOn(v) = {}
           \/ NamedBy(f.host, Catalog[v].app) = {} \/ NamedBy(f.host, Catalog[v].app) \cap PlantedOn(v) # {}
           \/ Cardinality(Hosts(Catalog[v].app)) = 1
<1> DEFINE app == ResolveApp(f, Setting(es))
           own == Catalog[v].app
           named == NamedBy(f.host, own)
<1>1. "none" \notin ToSet(Published)
  BY InventoryAssumption
<1>2. CASE app = "none"
  BY <1>1, <1>2, NamelessTarget DEF HostAgrees
<1>3. CASE app = own /\ own \in ToSet(Published)
  <2>1. PlantedHosts(own, Catalog[v].method, Catalog[v].route) = PlantedOn(v)
    BY <1>3, PlantedHostsIs
  <2>2. HostAgrees(v, own, f.host) <=>
          \/ SingleHost(own) \/ ResolveHost(own, f.host) = "none"
          \/ PlantedOn(v) = {} \/ ResolveHost(own, f.host) \in PlantedOn(v)
    BY <1>3, <2>1 DEF HostAgrees
  <2>3. SingleHost(own) <=> Cardinality(Hosts(own)) = 1 \/ Hosts(own) = {}
    BY <1>3, SingleHostIs
  <2>4. Hosts(own) = {} => named = {}
    BY DEF NamedBy
  <2>5. /\ ResolveHost(own, f.host) = "none" => named = {}
        /\ ResolveHost(own, f.host) # "none" => named = {ResolveHost(own, f.host)}
    BY <1>3, ResolveHostIs
  <2>6. "none" \notin PlantedOn(v)
    BY DEF PlantedOn
  <2> HIDE DEF own, named
  <2>7. /\ ResolveHost(own, f.host) = "none" <=> named = {}
        /\ ResolveHost(own, f.host) \in PlantedOn(v) <=> named \cap PlantedOn(v) # {}
    BY <2>5, <2>6
  <2>8. HostAgrees(v, own, f.host) <=>
           \/ PlantedOn(v) = {} \/ named = {} \/ named \cap PlantedOn(v) # {}
           \/ Cardinality(Hosts(own)) = 1
    BY <2>2, <2>3, <2>4, <2>7
  <2> QED
    BY <1>3, <2>8 DEF own, named
<1>4. CASE app = own /\ own \notin ToSet(Published)
  BY <1>4 DEF HostAgrees
<1> QED
  BY <1>2, <1>3, <1>4

(* What is located are the flaws in scope that it points at.               *)
LEMMA LocatedIs ==
  ASSUME NEW f \in Reports, ~HasGreedy(f.path), NEW n \in DOMAIN Order
  PROVE  n \in Located(f, ResolveApp(f, ThisRun), ThisRun)
           <=> Order[n] \in ThisRun.flaws /\ Points(f, Order[n])
<1> DEFINE v == Order[n]
           app == ResolveApp(f, ThisRun)
<1>1. v \in DOMAIN Catalog
  BY FindingsAssumption DEF ToSet
<1>2. f.path \in Segments /\ Catalog[v].route \in Segments
  BY <1>1, CatalogRoute, DocumentAssumption DEF Segments
<1>3. RouteMatchesPath(Catalog[v].route, f.path) <=> StandsFor(Catalog[v].route, f.path, {Placeholder})
  BY <1>2, RouteMatchesPathIs
<1> DEFINE host == \/ Catalog[v].app \notin ToSet(Published) \/ PlantedOn(v) = {}
                   \/ NamedBy(f.host, Catalog[v].app) = {}
                   \/ NamedBy(f.host, Catalog[v].app) \cap PlantedOn(v) # {}
                   \/ Cardinality(Hosts(Catalog[v].app)) = 1
<1>4. app \in {"none", Catalog[v].app} => (HostAgrees(v, app, f.host) <=> host)
  BY <1>1, HostAgreesIs DEF ThisRun
<1>5. Points(f, v) <=> /\ f.method \in {"none", Catalog[v].method}
                       /\ StandsFor(Catalog[v].route, f.path, {Placeholder})
                       /\ app \in {"none", Catalog[v].app} /\ host
  BY DEF Points, PlantedOn
<1> HIDE DEF host
<1>6. n \in Located(f, app, ThisRun) <=>
         /\ v \in ThisRun.flaws /\ app \in {"none", Catalog[v].app}
         /\ f.method \in {"none", Catalog[v].method}
         /\ RouteMatchesPath(Catalog[v].route, f.path) /\ HostAgrees(v, app, f.host)
  BY DEF Located
<1> QED
  BY <1>3, <1>4, <1>5, <1>6

(* The flaws in scope are in the catalog, each at its place.               *)
LEMMA FlawPlace ==
  ASSUME NEW v \in ThisRun.flaws
  PROVE  v \in DOMAIN Catalog /\ \E n \in DOMAIN Order : Order[n] = v
<1>1. v \in DOMAIN Catalog
  BY DEF ThisRun, Setting, InScope
<1> QED
  BY <1>1, FindingsAssumption DEF ToSet
-----------------------------------------------------------------------------
(* The verdict on a finding.                                               *)

Graded == {"true positive", "param mismatch", "class mismatch", "class unknown"}

LEMMA JudgeIsGraded ==
  ASSUME NEW f, NEW v
  PROVE  Judge(f, v) \in Graded
BY DEF Judge, Graded

LEMMA RankingIs ==
  /\ DOMAIN Ranking \in SUBSET Nat
  /\ \A k \in DOMAIN Ranking : k >= 1 /\ Ranking[k] \in Graded
  /\ \A verdict \in Graded : \E k \in DOMAIN Ranking : Ranking[k] = verdict
  /\ 1 \in DOMAIN Ranking /\ Ranking[1] = "true positive"
<1> DEFINE s == Ranking
<1>1. s[1] = "true positive" /\ s[2] = "param mismatch"
      /\ s[3] = "class mismatch" /\ s[4] = "class unknown"
  BY DEF Ranking
<1>2. DOMAIN s = 1..4
  BY DEF Ranking
<1> HIDE DEF s
<1>3. DOMAIN s \in SUBSET Nat /\ 1 \in DOMAIN s /\ \A k \in DOMAIN s : k >= 1
  BY <1>2
<1>4. ASSUME NEW k \in DOMAIN s PROVE s[k] \in Graded
  <2>1. k = 1 \/ k = 2 \/ k = 3 \/ k = 4
    BY <1>2
  <2> QED
    BY <1>1, <2>1 DEF Graded
<1>5. ASSUME NEW verdict \in Graded PROVE \E k \in DOMAIN s : s[k] = verdict
  <2>1. 1 \in DOMAIN s /\ 2 \in DOMAIN s /\ 3 \in DOMAIN s /\ 4 \in DOMAIN s
    BY <1>2
  <2> QED
    BY <1>1, <2>1 DEF Graded
<1> QED
  BY <1>1, <1>3, <1>4, <1>5 DEF s

(* The best verdict is of one of the flaws in question, and a true         *)
(* positive if any of them makes it one.                                   *)
LEMMA BestIs ==
  ASSUME NEW f, NEW located \in SUBSET DOMAIN Order, located # {}
  PROVE  /\ \E n \in located : /\ Best(f, located).flaw = Order[n]
                               /\ Best(f, located).verdict = Judge(f, Order[n])
         /\ (\E n \in located : Judge(f, Order[n]) = "true positive")
              => Best(f, located).verdict = "true positive"
<1> DEFINE judged(k) == {n \in located : Judge(f, Order[n]) = Ranking[k]}
           ranks == {k \in DOMAIN Ranking : judged(k) # {}}
           rank == Min(ranks)
<1>1. DOMAIN Order \in SUBSET Nat
  BY FindingsAssumption
<1>2. ranks \in SUBSET Nat
  <2>1. ranks \subseteq DOMAIN Ranking
    OBVIOUS
  <2> QED
    BY <2>1, RankingIs
<1>3. ranks # {}
  <2>1. PICK n \in located : TRUE
    OBVIOUS
  <2>2. PICK k \in DOMAIN Ranking : Ranking[k] = Judge(f, Order[n])
    BY RankingIs, JudgeIsGraded
  <2>3. n \in judged(k)
    BY <2>2
  <2> QED
    BY <2>2, <2>3
<1>4. Best(f, located) = [verdict |-> Ranking[rank], flaw |-> Order[Min(judged(rank))]]
  BY DEF Best
<1> HIDE DEF judged, ranks
<1>5. rank \in ranks /\ \A k \in ranks : rank <= k
  BY <1>2, <1>3, MinIsLeast
<1>6. rank \in DOMAIN Ranking /\ rank \in Nat /\ rank >= 1 /\ judged(rank) # {}
  BY <1>5, RankingIs DEF ranks
<1> HIDE DEF rank
<1>7. judged(rank) \in SUBSET Nat
  BY <1>1 DEF judged
<1>8. Min(judged(rank)) \in judged(rank)
  BY <1>6, <1>7, MinIsLeast
<1>9. Min(judged(rank)) \in located /\ Judge(f, Order[Min(judged(rank))]) = Ranking[rank]
  BY <1>8 DEF judged
<1>10. Best(f, located).flaw = Order[Min(judged(rank))] /\ Best(f, located).verdict = Ranking[rank]
  BY <1>4
<1>11. ASSUME NEW n \in located, Judge(f, Order[n]) = "true positive"
       PROVE  Ranking[rank] = "true positive"
  <2>1. 1 \in ranks
    <3>1. n \in judged(1)
      BY <1>11, RankingIs DEF judged
    <3> QED
      BY <3>1, RankingIs DEF ranks
  <2>2. rank = 1
    BY <1>5, <1>6, <2>1
  <2> QED
    BY <2>2, RankingIs
<1> QED
  BY <1>9, <1>10, <1>11

LEMMA VerdictIs ==
  ASSUME NEW f, NEW located \in SUBSET DOMAIN Order, NEW run
  PROVE  LET best == Best(f, located)
             settled == Settled(f, best, run)
         IN /\ settled.verdict = "true positive" <=> best.verdict = "true positive"
            /\ settled.verdict = "true positive" => settled = best
            /\ settled.verdict = "false positive" => located = {}
            /\ settled.verdict \in Graded \cup {"false positive", "out of catalog"}
<1> DEFINE best == Best(f, located)
           settled == Settled(f, best, run)
<1>1. settled = IF best.verdict # "true positive" /\ Unscoreable(f, run)
                THEN [verdict |-> "out of catalog", flaw |-> "none"] ELSE best
  BY DEF Settled
<1>2. CASE located = {}
  <2>1. best.verdict = "false positive"
    BY <1>2 DEF Best
  <2> HIDE DEF best, settled
  <2>2. settled.verdict \in {"false positive", "out of catalog"}
    BY <1>1, <2>1
  <2>3. settled.verdict # "true positive"
    BY <2>2
  <2> QED
    BY <1>2, <2>1, <2>2, <2>3 DEF settled, best
<1>3. CASE located # {}
  <2>1. best.verdict \in Graded
    <3>1. PICK n \in located : best.verdict = Judge(f, Order[n])
      BY <1>3, BestIs
    <3> QED
      BY <3>1, JudgeIsGraded
  <2>2. "false positive" \notin Graded /\ "out of catalog" \notin Graded
    BY DEF Graded
  <2> HIDE DEF best, settled
  <2>3. \/ settled = best
        \/ settled.verdict = "out of catalog" /\ best.verdict # "true positive"
    BY <1>1
  <2> QED
    BY <1>1, <2>1, <2>2, <2>3 DEF settled, best
<1> QED
  BY <1>2, <1>3

LEMMA LocatedPlaces ==
  ASSUME NEW f, NEW app, NEW run
  PROVE  Located(f, app, run) \in SUBSET DOMAIN Order
BY DEF Located

LEMMA ClassifiedIs ==
  ASSUME NEW fs, NEW run, NEW k \in DOMAIN fs
  PROVE  /\ Classify(fs, run)[k].flaw = Verdict(fs[k], run).flaw
         /\ Classify(fs, run)[k].verdict
              = IF /\ Verdict(fs[k], run).verdict = "true positive"
                   /\ \E j \in 1..(k - 1) : /\ [i \in DOMAIN fs |-> Verdict(fs[i], run)][j]
                                                 = Verdict(fs[k], run)
                                            /\ fs[j].tool = fs[k].tool
                THEN "duplicate" ELSE Verdict(fs[k], run).verdict
         /\ Classify(fs, run)[k].basis
              = IF Verdict(fs[k], run).verdict = "false positive"
                THEN Basis(fs[k], ResolveApp(fs[k], run)) ELSE "none"
BY DEF Classify

LEMMA IsLiteralIs ==
  ASSUME NEW route
  PROVE  IsLiteral(route) <=> ~IsPattern(route)
BY DEF IsLiteral, IsPattern

(* The row that a confirmed false positive was confirmed by.               *)
LEMMA ConfirmingRow ==
  ASSUME NEW f, NEW app, Basis(f, app) \in Confirming
  PROVE  \E own \in ToSet(Published) : \E r \in Rows(own) :
           /\ app \in {"none", own} /\ ~IsPattern(r.route)
           /\ f.method \in {"none", r.method} /\ RouteMatchesPath(r.route, f.path)
           /\ HostMatches(r.host, ResolveHost(own, f.host))
<1> DEFINE places == Answering(f, app)
           own == Published[Min(places)]
           all == Describing(own, f.method, f.path, f.host)
           literal == {n \in all : ~IsPattern(Inventories[own][n].route)}
           some == IF literal # {} THEN literal ELSE all
           row == Inventories[own][Min(some)]
<1>1. MatchPath(own, f.method, f.path, f.host) = row
  BY DEF MatchPath
<1>2. places # {} /\ ~IsPattern(row.route)
  BY <1>1 DEF Basis, Confirming
<1>3. DOMAIN Published \in SUBSET Nat /\ places \in SUBSET DOMAIN Published
  BY InventoryAssumption DEF Answering
<1>4. Min(places) \in places
  BY <1>2, <1>3, MinIsLeast
<1>5. own \in ToSet(Published) /\ app \in {"none", own} /\ all # {}
  BY <1>4 DEF Answering, ToSet
<1> HIDE DEF own, places
<1>6. all \in SUBSET DOMAIN Inventories[own] /\ DOMAIN Inventories[own] \in SUBSET Nat
  <2>1. Inventories[own] \in Seq(Rows(own))
    BY <1>5, InventoryAssumption
  <2> QED
    BY <2>1 DEF Describing, RowsFor
<1>7. some \in SUBSET all /\ some # {}
  BY <1>5
<1>8. Min(some) \in all
  BY <1>6, <1>7, MinIsLeast
<1> HIDE DEF some, literal
<1>9. Min(some) \in RowsFor(own, f.method, f.host) /\ RouteMatchesPath(row.route, f.path)
  BY <1>8 DEF Describing
<1>10. /\ row \in Rows(own) /\ f.method \in {"none", row.method}
       /\ HostMatches(row.host, ResolveHost(own, f.host))
  BY <1>9 DEF RowsFor, Rows
<1> QED
  BY <1>2, <1>5, <1>9, <1>10

LEMMA TypedConfirmed == Typed => ConfirmedIsContradicted
<1> SUFFICES ASSUME Typed, NEW k \in DOMAIN report,
                    Classify(report, ThisRun)[k].basis \in Confirming, ~HasGreedy(report[k].path)
             PROVE  /\ \E app \in ToSet(Published) : \E r \in Rows(app) :
                         /\ ResolveApp(report[k], ThisRun) \in {"none", app}
                         /\ IsLiteral(r.route) /\ StandsFor(r.route, report[k].path, {Placeholder})
                         /\ report[k].method \in {"none", r.method}
                         /\ r.host = "none" \/ NamedBy(report[k].host, app) \subseteq {r.host}
                    /\ \A v \in ThisRun.flaws : ~Points(report[k], v)
  BY DEF ConfirmedIsContradicted
<1> DEFINE f == report[k]
           app == ResolveApp(f, ThisRun)
<1>1. f \in Reports /\ f.path \in Segments
  BY DocumentAssumption DEF Typed, Segments
<1>2. Verdict(f, ThisRun).verdict = "false positive" /\ Basis(f, app) \in Confirming
  BY ClassifiedIs DEF Confirming
<1>3. Located(f, app, ThisRun) = {}
  BY <1>2, VerdictIs, LocatedPlaces DEF Verdict
<1>4. ASSUME NEW v \in ThisRun.flaws PROVE ~Points(f, v)
  <2>1. PICK n \in DOMAIN Order : Order[n] = v
    BY FlawPlace
  <2>2. n \notin Located(f, app, ThisRun)
    BY <1>3
  <2> QED
    BY <1>1, <2>1, <2>2, LocatedIs
<1> DEFINE Shows(own, r) ==
             /\ app \in {"none", own} /\ ~IsPattern(r.route)
             /\ f.method \in {"none", r.method} /\ RouteMatchesPath(r.route, f.path)
             /\ HostMatches(r.host, ResolveHost(own, f.host))
<1>5. PICK own \in ToSet(Published) : \E r \in Rows(own) : Shows(own, r)
  BY <1>2, ConfirmingRow
<1>6. PICK r \in Rows(own) : Shows(own, r)
  BY <1>5
<1>7. StandsFor(r.route, f.path, {Placeholder})
  BY <1>1, <1>6, PublishedRoute, RouteMatchesPathIs
<1>8. r.host = "none" \/ NamedBy(f.host, own) \subseteq {r.host}
  BY <1>6, OnHost
<1> QED
  BY <1>4, <1>6, <1>7, <1>8, IsLiteralIs

(* A false positive that is published as confirmed is contradicted by a    *)
(* row of an inventory, and points at no flaw in scope.                    *)
THEOREM ConfirmedAreContradicted == Spec => []ConfirmedIsContradicted
BY DocumentTypeCorrect, TypedConfirmed, PTL
-----------------------------------------------------------------------------
(* What a finding is credited with.                                        *)

LEMMA JudgedRight ==
  ASSUME NEW f, NEW v \in DOMAIN Catalog
  PROVE  Judge(f, v) = "true positive" <=>
           /\ "none" \in {f.param, Catalog[v].param} \/ f.param = Catalog[v].param
           /\ \/ f.cwes \cap Catalog[v].cwes # {}
              \/ \E class \in Taxonomy : class.family = Catalog[v].family /\ class.cwes \cap f.cwes # {}
<1> DEFINE fits == "none" \in {f.param, Catalog[v].param} \/ f.param = Catalog[v].param
           kin == \E class \in Taxonomy : class.family = Catalog[v].family /\ class.cwes \cap f.cwes # {}
<1>1. ~fits <=> Catalog[v].param # "none" /\ f.param \notin {"none", Catalog[v].param}
  OBVIOUS
<1>2. kin <=> Catalog[v].family \in Families(f.cwes)
  BY DEF Families
<1>3. f.cwes = {} => ~kin /\ f.cwes \cap Catalog[v].cwes = {}
  OBVIOUS
<1> HIDE DEF fits, kin
<1>4. Judge(f, v) = IF ~fits THEN "param mismatch"
                    ELSE IF f.cwes = {} THEN "class unknown"
                    ELSE IF f.cwes \cap Catalog[v].cwes # {} \/ kin
                         THEN "true positive" ELSE "class mismatch"
  BY <1>1, <1>2 DEF Judge
<1>5. Judge(f, v) = "true positive" <=> fits /\ (f.cwes \cap Catalog[v].cwes # {} \/ kin)
  BY <1>3, <1>4
<1> QED
  BY <1>5 DEF fits, kin

(* A finding is a true positive just when it describes a flaw in scope,    *)
(* and then one that it describes.                                         *)
LEMMA TruePositiveIs ==
  ASSUME NEW f \in Reports, ~HasGreedy(f.path)
  PROVE  LET verdict == Verdict(f, ThisRun)
             right == {v \in ThisRun.flaws : Describes(f, v)}
         IN /\ verdict.verdict = "true positive" <=> right # {}
            /\ verdict.verdict = "true positive" => verdict.flaw \in right
<1> DEFINE located == Located(f, ResolveApp(f, ThisRun), ThisRun)
           best == Best(f, located)
           verdict == Verdict(f, ThisRun)
           right == {v \in ThisRun.flaws : Describes(f, v)}
<1>1. located \in SUBSET DOMAIN Order
  BY LocatedPlaces
<1>2. /\ verdict.verdict = "true positive" <=> best.verdict = "true positive"
      /\ verdict.verdict = "true positive" => verdict = best
  BY <1>1, VerdictIs DEF Verdict
<1>3. ASSUME NEW n \in DOMAIN Order
      PROVE  n \in located /\ Judge(f, Order[n]) = "true positive" <=> Order[n] \in right
  <2>1. n \in located <=> Order[n] \in ThisRun.flaws /\ Points(f, Order[n])
    BY LocatedIs
  <2>2. Order[n] \in DOMAIN Catalog
    BY FindingsAssumption DEF ToSet
  <2> HIDE DEF located
  <2> QED
    BY <2>1, <2>2, JudgedRight DEF Describes
<1>4. \A v \in right : \E n \in DOMAIN Order : Order[n] = v
  BY FlawPlace
<1> HIDE DEF located, verdict, right
<1>5. ASSUME best.verdict = "true positive" PROVE best.flaw \in right
  <2>1. located # {}
    BY <1>5 DEF Best
  <2>2. PICK n \in located : best.flaw = Order[n] /\ best.verdict = Judge(f, Order[n])
    BY <1>1, <2>1, BestIs
  <2>3. n \in DOMAIN Order
    BY <1>1
  <2> QED
    BY <1>3, <1>5, <2>2, <2>3
<1>6. ASSUME right # {} PROVE best.verdict = "true positive"
  <2>1. PICK n \in DOMAIN Order : Order[n] \in right
    BY <1>4, <1>6
  <2>2. n \in located /\ Judge(f, Order[n]) = "true positive"
    BY <1>3, <2>1
  <2> QED
    BY <1>1, <2>2, BestIs
<1>7. /\ verdict.verdict = "true positive" <=> right # {}
      /\ verdict.verdict = "true positive" => verdict.flaw \in right
  BY <1>2, <1>5, <1>6
<1> QED
  BY <1>7 DEF verdict, right

LEMMA FlawsFinite == IsFiniteSet(ThisRun.flaws)
<1>1. Order \in Seq(DOMAIN Catalog) /\ ToSet(Order) = DOMAIN Catalog
  BY FindingsAssumption
<1>2. DOMAIN Order = 1..Len(Order) /\ Len(Order) \in Nat
  BY <1>1
<1>3. IsFiniteSet(1..Len(Order))
  BY <1>2, FS_Interval
<1>4. Order \in Surjection(1..Len(Order), DOMAIN Catalog)
  BY <1>1, <1>2 DEF ToSet, Surjection
<1>5. IsFiniteSet(DOMAIN Catalog)
  BY <1>3, <1>4, FS_Surjection
<1>6. ThisRun.flaws \subseteq DOMAIN Catalog
  BY FlawPlace
<1> QED
  BY <1>5, <1>6, FS_Subset
-----------------------------------------------------------------------------
(* How many findings have a verdict.                                       *)

Proven(fs, run) == {k \in DOMAIN fs : Verdict(fs[k], run).verdict = "true positive"}

(* Of the findings of one tool with one verdict only the first counts.     *)
Key(f, run) == <<Verdict(f, run), f.tool>>
Keys(fs, run) == {Key(fs[k], run) : k \in Proven(fs, run)}
Before(fs, run, k) == \E j \in 1..(k - 1) : Key(fs[j], run) = Key(fs[k], run)
Having(fs, run, verdict) == {k \in DOMAIN fs : Classify(fs, run)[k].verdict = verdict}

LEMMA VerdictKind ==
  ASSUME NEW f, NEW run
  PROVE  Verdict(f, run).verdict \in Graded \cup {"false positive", "out of catalog"}
BY LocatedPlaces, VerdictIs DEF Verdict

LEMMA HavingIs ==
  ASSUME NEW fs \in Seq(Reports), NEW run, NEW k \in DOMAIN fs
  PROVE  /\ k \in Having(fs, run, "true positive") <=> k \in Proven(fs, run) /\ ~Before(fs, run, k)
         /\ k \in Having(fs, run, "duplicate") <=> k \in Proven(fs, run) /\ Before(fs, run, k)
         /\ Classify(fs, run)[k].verdict \in Credited <=> k \in Proven(fs, run)
         /\ \A w : w \notin Credited =>
              (k \in Having(fs, run, w) <=> Verdict(fs[k], run).verdict = w)
<1> DEFINE verdicts == [i \in DOMAIN fs |-> Verdict(fs[i], run)]
           v == Verdict(fs[k], run)
           claimed == \E j \in 1..(k - 1) : verdicts[j] = v /\ fs[j].tool = fs[k].tool
           w0 == Classify(fs, run)[k].verdict
<1>1. k \in Nat /\ \A j \in 1..(k - 1) : j \in DOMAIN fs
  OBVIOUS
<1>2. claimed <=> Before(fs, run, k)
  BY <1>1 DEF Before, Key
<1>3. w0 = IF v.verdict = "true positive" /\ claimed THEN "duplicate" ELSE v.verdict
  BY ClassifiedIs
<1>4. v.verdict # "duplicate"
  BY VerdictKind DEF Graded
<1> HIDE DEF claimed, v, verdicts, w0
<1>5. \A w : k \in Having(fs, run, w) <=> w0 = w
  BY DEF Having, w0
<1>6. k \in Proven(fs, run) <=> v.verdict = "true positive"
  BY DEF Proven, v
<1>7. /\ w0 = "true positive" <=> v.verdict = "true positive" /\ ~claimed
      /\ w0 = "duplicate" <=> v.verdict = "true positive" /\ claimed
      /\ w0 \in Credited <=> v.verdict = "true positive"
      /\ \A w : w \notin Credited => (w0 = w <=> v.verdict = w)
  BY <1>3, <1>4 DEF Credited
<1> QED
  BY <1>2, <1>5, <1>6, <1>7 DEF w0, v

LEMMA ReportPlaces ==
  ASSUME NEW fs \in Seq(Reports), NEW S \in SUBSET DOMAIN fs
  PROVE  IsFiniteSet(S) /\ Cardinality(S) \in Nat /\ S \in SUBSET Nat
<1>1. DOMAIN fs = 1..Len(fs) /\ Len(fs) \in Nat
  OBVIOUS
<1>2. IsFiniteSet(DOMAIN fs)
  BY <1>1, FS_Interval
<1> QED
  BY <1>1, <1>2, FS_Subset, FS_CardinalityType

(* There are as many true positives as there are flaws that a tool is      *)
(* right about, for each tool; the rest of what is proven are duplicates.  *)
LEMMA TruePositivesCounted ==
  ASSUME NEW fs \in Seq(Reports), NEW run
  PROVE  /\ Cardinality(Having(fs, run, "true positive")) = Cardinality(Keys(fs, run))
         /\ Cardinality(Having(fs, run, "duplicate"))
              = Cardinality(Proven(fs, run)) - Cardinality(Keys(fs, run))
<1> DEFINE first == Having(fs, run, "true positive")
           proven == Proven(fs, run)
           keys == Keys(fs, run)
           f == [k \in first |-> Key(fs[k], run)]
<1>1. proven \in SUBSET DOMAIN fs /\ first \in SUBSET proven
  BY HavingIs DEF Having, Proven
<1>2. DOMAIN fs \in SUBSET Nat
  OBVIOUS
<1>3. f \in [first -> keys] /\ \A k \in first : f[k] = Key(fs[k], run)
  BY <1>1 DEF Keys
<1>4. ASSUME NEW j \in first, NEW k \in first, f[j] = f[k] PROVE j = k
  <2> HIDE DEF first, proven, keys, f
  <2>1. j \in DOMAIN fs /\ k \in DOMAIN fs
    BY <1>1
  <2>2. j \in Nat /\ k \in Nat /\ j >= 1 /\ k >= 1
    BY <2>1
  <2>3. ~Before(fs, run, j) /\ ~Before(fs, run, k)
    BY <2>1, HavingIs DEF first
  <2>4. Key(fs[j], run) = Key(fs[k], run)
    BY <1>3, <1>4
  <2>5. CASE j < k
    <3>1. j \in 1..(k - 1)
      BY <2>2, <2>5
    <3> QED
      BY <2>3, <2>4, <3>1 DEF Before
  <2>6. CASE k < j
    <3>1. k \in 1..(j - 1)
      BY <2>2, <2>6
    <3> QED
      BY <2>3, <2>4, <3>1 DEF Before
  <2> QED
    BY <2>2, <2>5, <2>6
<1>5. ASSUME NEW key \in keys PROVE \E k \in first : f[k] = key
  <2> DEFINE S == {k \in proven : Key(fs[k], run) = key}
  <2>1. S \in SUBSET Nat /\ S # {}
    BY <1>1, <1>2 DEF Keys
  <2>2. PICK k \in S : \A j \in S : k <= j
    BY <2>1, LeastNatural
  <2>3. k \in proven /\ k \in DOMAIN fs /\ k \in Nat /\ Key(fs[k], run) = key
    BY <1>1, <1>2
  <2>4. ASSUME NEW j \in 1..(k - 1), Key(fs[j], run) = Key(fs[k], run) PROVE FALSE
    <3>1. j \in DOMAIN fs /\ j < k /\ j \in Nat
      BY <2>3
    <3>2. Verdict(fs[j], run) = Verdict(fs[k], run)
      BY <2>4 DEF Key
    <3>3. j \in proven
      BY <2>3, <3>1, <3>2 DEF Proven
    <3>4. j \in S
      BY <2>3, <2>4, <3>3
    <3> HIDE DEF S
    <3> QED
      BY <2>2, <2>3, <3>1, <3>4
  <2>5. k \in first
    BY <2>3, <2>4, HavingIs DEF Before
  <2> QED
    BY <1>3, <2>3, <2>5
<1> HIDE DEF f
<1>6. f \in Bijection(first, keys)
  BY <1>3, <1>4, <1>5 DEF Bijection, Injection, Surjection, IsInjective
<1>7. IsFiniteSet(first) /\ IsFiniteSet(proven)
  BY <1>1, ReportPlaces
<1>8. Cardinality(first) = Cardinality(keys)
  BY <1>6, <1>7, FS_Bijection DEF ExistsBijection
<1>9. Having(fs, run, "duplicate") = proven \ first
  <2>1. Having(fs, run, "duplicate") \subseteq DOMAIN fs
    BY DEF Having
  <2> QED
    BY <1>1, <2>1, HavingIs
<1>10. proven \cap first = first
  BY <1>1
<1>11. Cardinality(proven \ first) = Cardinality(proven) - Cardinality(first)
  BY <1>7, <1>10, FS_Difference
<1> QED
  BY <1>8, <1>9, <1>11

(* The findings in another order: that of p, whose inverse is q.            *)
Permuted(fs, gs, p, q) ==
  /\ fs \in Seq(Reports) /\ gs \in Seq(Reports) /\ Len(gs) = Len(fs)
  /\ \A k \in 1..Len(fs) : /\ p[k] \in 1..Len(fs) /\ q[k] \in 1..Len(fs)
                           /\ p[q[k]] = k /\ q[p[k]] = k /\ gs[k] = fs[p[k]]

LEMMA TurnIsPermuted ==
  ASSUME NEW fs \in Seq(Reports), NEW p \in Bijection(DOMAIN fs, DOMAIN fs)
  PROVE  \E q : Permuted(fs, [k \in DOMAIN fs |-> fs[p[k]]], p, q)
<1> DEFINE n == Len(fs)
           gs == [k \in 1..n |-> fs[p[k]]]
           q == [k \in 1..n |-> CHOOSE j \in 1..n : p[j] = k]
<1>1. n \in Nat /\ DOMAIN fs = 1..n /\ \A k \in 1..n : fs[k] \in Reports
  OBVIOUS
<1> HIDE DEF n
<1>2. /\ \A k \in 1..n : p[k] \in 1..n
      /\ \A j, k \in 1..n : p[j] = p[k] => j = k
      /\ \A k \in 1..n : \E j \in 1..n : p[j] = k
  BY <1>1 DEF Bijection, Injection, Surjection, IsInjective
<1>3. \A k \in 1..n : q[k] \in 1..n /\ p[q[k]] = k
  BY <1>2
<1>4. \A k \in 1..n : q[p[k]] = k
  BY <1>2, <1>3
<1>5. gs \in [1..n -> Reports]
  BY <1>1, <1>2
<1>6. gs \in Seq(Reports) /\ Len(gs) = n
  BY <1>1, <1>5
<1>7. \A k \in 1..n : gs[k] = fs[p[k]]
  OBVIOUS
<1> HIDE DEF gs, q
<1>8. Permuted(fs, gs, p, q)
  BY <1>2, <1>3, <1>4, <1>6, <1>7 DEF Permuted, n
<1>9. gs = [k \in DOMAIN fs |-> fs[p[k]]]
  BY <1>1 DEF gs
<1> QED
  BY <1>8, <1>9

LEMMA PermutedCount ==
  ASSUME NEW fs, NEW gs, NEW p, NEW q, Permuted(fs, gs, p, q),
         NEW S \in SUBSET DOMAIN fs, NEW T \in SUBSET DOMAIN gs,
         \A k \in DOMAIN fs : k \in S <=> q[k] \in T
  PROVE  Cardinality(S) = Cardinality(T)
<1> DEFINE n == Len(fs)
           f == [k \in S |-> q[k]]
<1>1. fs \in Seq(Reports) /\ DOMAIN fs = 1..n /\ DOMAIN gs = 1..n
  BY DEF Permuted
<1>2. \A k \in 1..n : p[k] \in 1..n /\ q[k] \in 1..n /\ p[q[k]] = k /\ q[p[k]] = k
  BY DEF Permuted
<1> HIDE DEF n
<1>3. f \in [S -> T] /\ \A k \in S : f[k] = q[k]
  BY <1>1
<1>4. ASSUME NEW j \in S, NEW k \in S, f[j] = f[k] PROVE j = k
  BY <1>1, <1>2, <1>3, <1>4
<1>5. ASSUME NEW k \in T PROVE \E j \in S : f[j] = k
  <2>1. p[k] \in DOMAIN fs /\ q[p[k]] = k
    BY <1>1, <1>2
  <2> QED
    BY <1>3, <2>1
<1> HIDE DEF f
<1>6. f \in Bijection(S, T)
  BY <1>3, <1>4, <1>5 DEF Bijection, Injection, Surjection, IsInjective
<1>7. IsFiniteSet(S)
  BY <1>1, ReportPlaces
<1> QED
  BY <1>6, <1>7, FS_Bijection DEF ExistsBijection

LEMMA SameFinding ==
  ASSUME NEW fs, NEW gs, NEW run, NEW j \in DOMAIN fs, NEW k \in DOMAIN gs, fs[j] = gs[k]
  PROVE  /\ Classify(fs, run)[j].flaw = Classify(gs, run)[k].flaw
         /\ Classify(fs, run)[j].basis = Classify(gs, run)[k].basis
<1>1. /\ Classify(fs, run)[j].flaw = Verdict(fs[j], run).flaw
      /\ Classify(fs, run)[j].basis
           = IF Verdict(fs[j], run).verdict = "false positive"
             THEN Basis(fs[j], ResolveApp(fs[j], run)) ELSE "none"
  BY ClassifiedIs
<1>2. /\ Classify(gs, run)[k].flaw = Verdict(gs[k], run).flaw
      /\ Classify(gs, run)[k].basis
           = IF Verdict(gs[k], run).verdict = "false positive"
             THEN Basis(gs[k], ResolveApp(gs[k], run)) ELSE "none"
  BY ClassifiedIs
<1> QED
  BY <1>1, <1>2

LEMMA PermutedTally ==
  ASSUME NEW fs, NEW gs, NEW p, NEW q, Permuted(fs, gs, p, q), NEW run, NEW triggered
  PROVE  Tally(Classify(fs, run), triggered) = Tally(Classify(gs, run), triggered)
<1> DEFINE n == Len(fs)
<1>1. fs \in Seq(Reports) /\ gs \in Seq(Reports) /\ DOMAIN fs = 1..n /\ DOMAIN gs = 1..n
  BY DEF Permuted
<1>2. ASSUME NEW k \in 1..n
      PROVE  /\ q[k] \in 1..n /\ gs[q[k]] = fs[k]
             /\ p[k] \in 1..n /\ gs[k] = fs[p[k]]
  BY DEF Permuted
<1> HIDE DEF n
<1>3. ASSUME NEW k \in 1..n PROVE k \in Proven(fs, run) <=> q[k] \in Proven(gs, run)
  BY <1>1, <1>2 DEF Proven
<1>4. Keys(fs, run) = Keys(gs, run)
  <2>1. ASSUME NEW k \in Proven(fs, run) PROVE Key(fs[k], run) \in Keys(gs, run)
    <3>1. k \in 1..n
      BY <1>1 DEF Proven
    <3>2. q[k] \in Proven(gs, run) /\ gs[q[k]] = fs[k]
      BY <1>2, <1>3, <3>1
    <3> QED
      BY <3>2 DEF Keys
  <2>2. ASSUME NEW k \in Proven(gs, run) PROVE Key(gs[k], run) \in Keys(fs, run)
    <3>1. k \in 1..n
      BY <1>1 DEF Proven
    <3>2. p[k] \in 1..n /\ gs[k] = fs[p[k]]
      BY <1>2, <3>1
    <3>3. p[k] \in Proven(fs, run)
      BY <1>1, <3>2 DEF Proven
    <3> QED
      BY <3>2, <3>3 DEF Keys
  <2> QED
    BY <2>1, <2>2 DEF Keys
<1>5. Cardinality(Proven(fs, run)) = Cardinality(Proven(gs, run))
  <2>1. Proven(fs, run) \in SUBSET DOMAIN fs /\ Proven(gs, run) \in SUBSET DOMAIN gs
    BY DEF Proven
  <2>2. \A k \in DOMAIN fs : k \in Proven(fs, run) <=> q[k] \in Proven(gs, run)
    BY <1>1, <1>3 DEF n
  <2> QED
    BY <2>1, <2>2, PermutedCount
<1>6. ASSUME NEW w PROVE Cardinality(Having(fs, run, w)) = Cardinality(Having(gs, run, w))
  <2>1. CASE w = "true positive" \/ w = "duplicate"
    BY <1>1, <1>4, <1>5, <2>1, TruePositivesCounted
  <2>2. CASE w \notin Credited
    <3>1. Having(fs, run, w) \in SUBSET DOMAIN fs /\ Having(gs, run, w) \in SUBSET DOMAIN gs
      BY DEF Having
    <3>2. ASSUME NEW k \in DOMAIN fs PROVE k \in Having(fs, run, w) <=> q[k] \in Having(gs, run, w)
      <4>1. q[k] \in DOMAIN gs /\ gs[q[k]] = fs[k]
        BY <1>1, <1>2
      <4>2. k \in Having(fs, run, w) <=> Verdict(fs[k], run).verdict = w
        BY <1>1, <2>2, HavingIs
      <4>3. q[k] \in Having(gs, run, w) <=> Verdict(gs[q[k]], run).verdict = w
        BY <1>1, <2>2, <4>1, HavingIs
      <4> QED
        BY <4>1, <4>2, <4>3
    <3> QED
      BY <3>1, <3>2, PermutedCount DEF n
  <2> QED
    BY <2>1, <2>2 DEF Credited
<1> DEFINE rows == Classify(fs, run)
           swor == Classify(gs, run)
           sure == {k \in DOMAIN fs : rows[k].basis \in Confirming}
           erus == {k \in DOMAIN gs : swor[k].basis \in Confirming}
<1>7. DOMAIN rows = DOMAIN fs /\ DOMAIN swor = DOMAIN gs
  BY DEF Classify
<1>8. Cardinality(sure) = Cardinality(erus)
  <2>1. sure \in SUBSET DOMAIN fs /\ erus \in SUBSET DOMAIN gs
    OBVIOUS
  <2>2. ASSUME NEW k \in DOMAIN fs PROVE k \in sure <=> q[k] \in erus
    <3>1. q[k] \in DOMAIN gs /\ gs[q[k]] = fs[k]
      BY <1>1, <1>2
    <3> DEFINE j == q[k]
    <3>2. rows[k].basis = swor[j].basis
      <4> HIDE DEF j
      <4>1. j \in DOMAIN gs /\ fs[k] = gs[j]
        BY <3>1 DEF j
      <4> QED
        BY <4>1, SameFinding
    <3> HIDE DEF rows, swor
    <3> QED
      BY <3>1, <3>2
  <2> HIDE DEF sure, erus
  <2> QED
    BY <2>1, <2>2, PermutedCount DEF n
<1> DEFINE reported == {rows[k].flaw : k \in {k \in DOMAIN fs : rows[k].verdict \in Credited}}
           detroper == {swor[k].flaw : k \in {k \in DOMAIN gs : swor[k].verdict \in Credited}}
<1>9. reported = detroper
  <2>1. ASSUME NEW k \in DOMAIN fs, rows[k].verdict \in Credited PROVE rows[k].flaw \in detroper
    <3>1. q[k] \in DOMAIN gs /\ gs[q[k]] = fs[k]
      BY <1>1, <1>2
    <3>2. k \in Proven(fs, run)
      BY <1>1, <2>1, HavingIs
    <3>3. swor[q[k]].verdict \in Credited
      BY <1>1, <1>3, <3>1, <3>2, HavingIs
    <3> DEFINE j == q[k]
    <3>4. swor[j].flaw = rows[k].flaw
      <4> HIDE DEF j
      <4>1. j \in DOMAIN gs /\ fs[k] = gs[j]
        BY <3>1 DEF j
      <4> QED
        BY <4>1, SameFinding
    <3> HIDE DEF rows, swor
    <3> QED
      BY <3>1, <3>3, <3>4
  <2>2. ASSUME NEW k \in DOMAIN gs, swor[k].verdict \in Credited PROVE swor[k].flaw \in reported
    <3>1. p[k] \in DOMAIN fs /\ fs[p[k]] = gs[k]
      BY <1>1, <1>2
    <3>2. k \in Proven(gs, run)
      BY <1>1, <2>2, HavingIs
    <3>3. p[k] \in Proven(fs, run)
      BY <3>1, <3>2 DEF Proven
    <3>4. rows[p[k]].verdict \in Credited
      BY <1>1, <3>1, <3>3, HavingIs
    <3> DEFINE j == p[k]
    <3>5. rows[j].flaw = swor[k].flaw
      <4> HIDE DEF j
      <4>1. j \in DOMAIN fs /\ fs[j] = gs[k]
        BY <3>1 DEF j
      <4> QED
        BY <4>1, SameFinding
    <3> HIDE DEF rows, swor
    <3> QED
      BY <3>1, <3>4, <3>5
  <2> HIDE DEF rows, swor
  <2> QED
    BY <2>1, <2>2
<1> DEFINE all == ToSet(Ranking) \cup {"false positive", "duplicate", "out of catalog"}
<1>10. /\ Tally(rows, triggered)
            = [counts |-> [w \in all |-> Cardinality(Having(fs, run, w))],
               confirmed |-> Cardinality(sure),
               triggeredNotReported |-> triggered \ reported,
               reportedNotTriggered |-> reported \ triggered]
       /\ Tally(swor, triggered)
            = [counts |-> [w \in all |-> Cardinality(Having(gs, run, w))],
               confirmed |-> Cardinality(erus),
               triggeredNotReported |-> triggered \ detroper,
               reportedNotTriggered |-> detroper \ triggered]
  <2> HIDE DEF all
  <2>1. ASSUME NEW hs, NEW those, those = Classify(hs, run)
        PROVE  Tally(those, triggered)
                 = [counts |-> [w \in all |-> Cardinality(Having(hs, run, w))],
                    confirmed |-> Cardinality({k \in DOMAIN hs : those[k].basis \in Confirming}),
                    triggeredNotReported |-> triggered \ {those[k].flaw : k \in {k \in DOMAIN hs : those[k].verdict \in Credited}},
                    reportedNotTriggered |-> {those[k].flaw : k \in {k \in DOMAIN hs : those[k].verdict \in Credited}} \ triggered]
    <3>1. DOMAIN those = DOMAIN hs
      BY <2>1 DEF Classify
    <3> QED
      BY <2>1, <3>1 DEF Tally, Having, all
  <2> QED
    BY <2>1
<1>11. [w \in all |-> Cardinality(Having(fs, run, w))] = [w \in all |-> Cardinality(Having(gs, run, w))]
  <2> HIDE DEF all
  <2> QED
    BY <1>6
<1> HIDE DEF all, reported, detroper, sure, erus
<1> QED
  BY <1>8, <1>9, <1>10, <1>11

LEMMA TypedCount == Typed => RightFindingsCount
<1> SUFFICES ASSUME Typed PROVE RightFindingsCount
  OBVIOUS
<1> DEFINE verdicts == Classify(report, ThisRun)
           block == Tally(verdicts, Triggered(log))
           right(k) == {v \in ThisRun.flaws : Describes(report[k], v)}
<1>1. report \in Seq(Reports)
  BY DEF Typed
<1>2. ASSUME NEW k \in DOMAIN report, ~HasGreedy(report[k].path)
      PROVE  /\ verdicts[k].verdict \in Credited <=> right(k) # {}
             /\ verdicts[k].verdict \in Credited => verdicts[k].flaw \in right(k)
             /\ Cardinality(right(k)) = 1 => right(k) \cap block.triggeredNotReported = {}
  <2>1. report[k] \in Reports
    BY <1>1
  <2>2. /\ Verdict(report[k], ThisRun).verdict = "true positive" <=> right(k) # {}
        /\ Verdict(report[k], ThisRun).verdict = "true positive"
             => Verdict(report[k], ThisRun).flaw \in right(k)
    BY <1>2, <2>1, TruePositiveIs
  <2>3. verdicts[k].verdict \in Credited <=> Verdict(report[k], ThisRun).verdict = "true positive"
    BY <1>1, HavingIs DEF Proven
  <2>4. verdicts[k].flaw = Verdict(report[k], ThisRun).flaw
    BY ClassifiedIs
  <2>5. ASSUME Cardinality(right(k)) = 1 PROVE right(k) \cap block.triggeredNotReported = {}
    <3>1. IsFiniteSet(right(k))
      BY FlawsFinite, FS_Subset
    <3>2. PICK v : right(k) = {v}
      BY <2>5, <3>1, FS_Singleton
    <3>3. verdicts[k].verdict \in Credited /\ verdicts[k].flaw = v
      BY <2>2, <2>3, <2>4, <3>2
    <3>4. DOMAIN verdicts = DOMAIN report
      BY DEF Classify
    <3> HIDE DEF verdicts
    <3>5. v \notin block.triggeredNotReported
      BY <3>3, <3>4 DEF Tally
    <3> QED
      BY <3>2, <3>5
  <2> QED
    BY <2>2, <2>3, <2>4, <2>5
<1>3. ASSUME NEW turn \in Bijection(DOMAIN report, DOMAIN report)
      PROVE  block = Tally(Classify([k \in DOMAIN report |-> report[turn[k]]], ThisRun), Triggered(log))
  <2> DEFINE turned == [k \in DOMAIN report |-> report[turn[k]]]
  <2>1. PICK q : Permuted(report, turned, turn, q)
    BY <1>1, TurnIsPermuted
  <2> QED
    BY <2>1, PermutedTally
<1> QED
  BY <1>2, <1>3 DEF RightFindingsCount, Deserved, FindingsBlock

(* A finding is credited just when it describes a flaw, to one that it     *)
(* describes, and what is counted does not depend on the order of the      *)
(* report.                                                                 *)
THEOREM RightFindingsAreCounted == Spec => []RightFindingsCount
BY DocumentTypeCorrect, TypedCount, PTL
=============================================================================
