------------------------------ MODULE ResetProofs ------------------------------
(***************************************************************************)
(* Proofs about ResetGate: its states are well typed, a run opens on       *)
(* residue only where nothing could have told, and a digest changes from   *)
(* one record to the next only where the search for a reference explains   *)
(* it, for any targets, services, pins, restarts and number of runs.       *)
(***************************************************************************)
EXTENDS ResetGate, FiniteSetTheorems, WellFoundedInduction, TLAPS

(* The next target of a run is the least one left (apps.yaml's order): a   *)
(* nonempty set of naturals has a least element.                           *)
LEMMA LeastNatural ==
  ASSUME NEW S \in SUBSET Nat, S # {}
  PROVE  \E x \in S : \A y \in S : x <= y
<1> DEFINE R == {p \in Nat \X Nat : p[1] < p[2]}
<1>1. IsWellFoundedOn(R, Nat)
  BY NatLessThanWellFounded DEF OpToRel
<1>2. \A x, y \in Nat : x < y => <<x, y>> \in R
  OBVIOUS
<1> HIDE DEF R
<1>3. PICK x \in S : \A y \in S : ~ (<<y, x>> \in R)
  BY <1>1, WFMin
<1>4. ASSUME NEW y \in S PROVE x <= y
  <2>1. x \in Nat /\ y \in Nat
    OBVIOUS
  <2>2. ~ (y < x)
    BY <1>2, <1>3, <2>1
  <2> QED
    BY <2>1, <2>2
<1> QED
  BY <1>4

(* ... and so Min chooses one of its members.                              *)
LEMMA MinOfNats ==
  ASSUME NEW S \in SUBSET Nat, S # {}
  PROVE  Min(S) \in S
BY LeastNatural DEF Min

(* The target at hand is one of those still to be reset.                   *)
LEMMA CurrentIsLeft ==
  ASSUME TypeOK, left # {}
  PROVE  Current \in left
<1>1. left \in SUBSET Nat /\ IsFiniteSet(left)
  BY ResetAssumption, FS_Subset DEF TypeOK
<1>2. QED
  BY <1>1, MinOfNats DEF Current

(* Adding a digest leaves a partial function on the targets.               *)
LEMMA WithTyped ==
  ASSUME NEW f \in PartialTo(States), NEW a \in Apps, NEW v \in States
  PROVE  With(f, a, v) \in PartialTo(States)
<1>1. PICK D \in SUBSET Apps : f \in [D -> States]
  BY DEF PartialTo
<1>2. D \cup {a} \in SUBSET Apps
  OBVIOUS
<1>3. With(f, a, v) \in [D \cup {a} -> States]
  BY <1>1 DEF With
<1>4. QED
  BY <1>2, <1>3 DEF PartialTo
-----------------------------------------------------------------------------
(* What ResidueOnlyUnseen says of one target.                              *)
OnlyUnseen(a) ==
  /\ memory \cap Restarted[a] \subseteq unread
  /\ disk[a] = "residue" =>
       /\ a \notin pinned
       /\ a \in DOMAIN References =>
            \E k \in DOMAIN records : a \in DOMAIN records[k].digests
                                      /\ records[k].digests[a] = "residue"

(* Where the harness is says how many runs there are and what is left, and *)
(* what is known of the targets already reset, unless one failed a check.  *)
PhaseOK ==
  /\ phase \in {"reset", "verified"} => run < MaxRuns
  /\ phase \in {"scan", "after"} => run > 0
  /\ phase = "idle" => ~skip
  /\ phase # "reset" => left = {}
  /\ phase = "reset" => ~skip /\ (bad \/ \A a \in scope \ left : OnlyUnseen(a))

ResetInv == TypeOK /\ PhaseOK /\ ResidueOnlyUnseen

(* Adding a record of a good run.                                          *)
LEMMA RecordTyped ==
  ASSUME TypeOK, NEW r \in 1..MaxRuns, NEW f \in PartialTo(States)
  PROVE  Append(records, [run |-> r, digests |-> f])
           \in Seq([run : 1..MaxRuns, digests : PartialTo(States)])
<1> DEFINE Rec == [run : 1..MaxRuns, digests : PartialTo(States)]
           e == [run |-> r, digests |-> f]
<1>1. e \in Rec
  OBVIOUS
<1>2. records \in Seq(Rec)
  BY DEF TypeOK
<1> HIDE DEF Rec, e
<1>3. Append(records, e) \in Seq(Rec)
  BY <1>1, <1>2
<1>4. QED
  BY <1>3 DEF Rec, e

(* No digests at all.                                                      *)
LEMMA NoneTyped == None \in PartialTo(States)
<1>1. None \in [{} -> States] /\ {} \in SUBSET Apps
  BY DEF None
<1>2. QED
  BY <1>1 DEF PartialTo

(* Where nothing about the targets, the pins and the records changes, what *)
(* is known of a target does not either.                                   *)
LEMMA SameKnown ==
  ASSUME NEW a, UNCHANGED <<pinned, scope, records>>,
         memory' \subseteq memory, unread \subseteq unread', disk'[a] = disk[a], OnlyUnseen(a)
  PROVE  OnlyUnseen(a)'
<1>1. References' = References
  BY DEF References, LookedUp
<1>2. QED
  BY <1>1 DEF OnlyUnseen

(* The invariant holds at first, whatever the targets hold then.           *)
LEMMA InitInv == Init => ResetInv
<1> SUFFICES ASSUME Init PROVE ResetInv
  OBVIOUS
<1>1. TypeOK
  <2>1. records \in Seq([run : 1..MaxRuns, digests : PartialTo(States)])
    BY DEF Init
  <2>2. run \in 0..MaxRuns
    BY ResetAssumption DEF Init
  <2>3. QED
    BY <2>1, <2>2, NoneTyped DEF Init, TypeOK
<1>2. PhaseOK /\ ResidueOnlyUnseen
  BY DEF Init, PhaseOK, ResidueOnlyUnseen
<1>3. QED
  BY <1>1, <1>2 DEF ResetInv

(* A step that ends the harness's doings leaves it idle.                   *)
LEMMA LeaveInv ==
  ASSUME ResetInv, Leave, UNCHANGED <<pinned, run, imported>>,
         disk' \in [Apps -> States], memory' \in SUBSET Services,
         records' \in Seq([run : 1..MaxRuns, digests : PartialTo(States)])
  PROVE  ResetInv'
<1>1. TypeOK'
  BY NoneTyped DEF ResetInv, TypeOK, Leave
<1>2. PhaseOK' /\ ResidueOnlyUnseen'
  BY DEF Leave, PhaseOK, ResidueOnlyUnseen
<1>3. QED
  BY <1>1, <1>2 DEF ResetInv

(* Nothing of a new run's scope has been reset yet.                        *)
LEMMA BeginInv ==
  ASSUME ResetInv, Begin
  PROVE  ResetInv'
<1>1. TypeOK'
  BY DEF ResetInv, TypeOK, PhaseOK, Begin, targets
<1>2. PhaseOK' /\ ResidueOnlyUnseen'
  BY DEF ResetInv, TypeOK, Begin, PhaseOK, ResidueOnlyUnseen
<1>3. QED
  BY <1>1, <1>2 DEF ResetInv

(* What a restart and a reset leave of the targets is well typed.          *)
LEMMA RestartTyped ==
  ASSUME TypeOK, NEW moved \in BOOLEAN, Restart(moved)
  PROVE  /\ memory' \in SUBSET Services /\ memory' \subseteq memory
         /\ Current \in Apps => unread' \in SUBSET Services
         /\ unread \subseteq unread'
  BY ResetAssumption DEF TypeOK, Restart

(* One target less to reset, and a check of it failed: nothing is claimed. *)
LEMMA FailedResetInv ==
  ASSUME ResetInv, phase = "reset", left # {}, left' = left \ {Current}, bad' = TRUE,
         UNCHANGED <<pinned, phase, run, scope, skip, records, imported>>,
         before' \in PartialTo(States), unread' \in SUBSET Services,
         disk' \in [Apps -> States], memory' \in SUBSET Services
  PROVE  ResetInv'
<1>1. TypeOK'
  BY DEF ResetInv, TypeOK
<1>2. PhaseOK' /\ ResidueOnlyUnseen'
  BY DEF ResetInv, PhaseOK, ResidueOnlyUnseen
<1>3. QED
  BY <1>1, <1>2 DEF ResetInv

(* A target that passes its checks with a digest of what is on its disk    *)
(* holds residue only where nothing could have told.                       *)
LEMMA PassesKnown ==
  ASSUME TypeOK, left # {}, NEW a, a = Current, NEW d \in States, Passes(TRUE, d), Restart(TRUE),
         disk' = [disk EXCEPT ![Current] = d], UNCHANGED <<pinned, scope, records>>
  PROVE  OnlyUnseen(a)'
<1>1. a \in left /\ a \in scope /\ a \in Apps
  BY CurrentIsLeft DEF TypeOK
<1>2. References' = References
  BY DEF References, LookedUp
<1>3. memory' \cap Restarted[a] \subseteq unread'
  BY DEF Restart
<1>4. disk'[a] = d
  BY <1>1 DEF TypeOK
<1>5. ASSUME d = "residue"
      PROVE  /\ a \notin pinned
             /\ a \in DOMAIN References =>
                  \E k \in DOMAIN records : a \in DOMAIN records[k].digests
                                            /\ records[k].digests[a] = "residue"
  <2>1. a \in DOMAIN References => References[a] = "residue"
    BY <1>5 DEF Passes
  <2>2. a \notin pinned
    BY <1>1, <2>1 DEF References
  <2>3. ASSUME a \in DOMAIN References
        PROVE  \E k \in DOMAIN records : a \in DOMAIN records[k].digests
                                         /\ records[k].digests[a] = "residue"
    <3>1. PICK k \in LookedUp : a \in DOMAIN records[k].digests
      BY <2>2, <2>3 DEF References
    <3>2. \A j \in LookedUp : j = k
      <4>1. LookedUp \subseteq DOMAIN records /\ DOMAIN records \subseteq Nat
        BY DEF LookedUp, TypeOK
      <4>2. ASSUME NEW j \in LookedUp PROVE j <= k /\ k <= j
        BY <3>1 DEF LookedUp
      <4>3. QED
        BY <4>1, <4>2, <3>1
    <3>3. References[a] = records[k].digests[a] /\ k \in DOMAIN records
      BY <3>1, <3>2, <2>2, <2>3 DEF References, LookedUp
    <3>4. QED
      BY <3>1, <3>3, <2>1, <2>3
  <2>4. QED
    BY <2>2, <2>3
<1>6. QED
  BY <1>2, <1>3, <1>4, <1>5 DEF OnlyUnseen

(* One target less to reset, by a command that exited 0.                   *)
LEMMA ResetRunsInv ==
  ASSUME ResetInv, ResetRuns
  PROVE  ResetInv'
<1>1. PICK moved \in BOOLEAN, prints \in BOOLEAN, d \in States :
        LET digest == IF prints THEN d ELSE "none" IN
          /\ Restart(moved)
          /\ disk' = [disk EXCEPT ![Current] = d]
          /\ before' = IF digest = "none" THEN before ELSE With(before, Current, digest)
          /\ bad' = (bad \/ ~Passes(moved, digest))
  BY DEF ResetRuns
<1> DEFINE digest == IF prints THEN d ELSE "none"
<1>2. Current \in left /\ Current \in scope /\ Current \in Apps
  BY CurrentIsLeft DEF ResetInv, TypeOK, ResetRuns
<1>3. memory' \in SUBSET Services /\ unread' \in SUBSET Services /\ disk' \in [Apps -> States]
  BY <1>1, <1>2, RestartTyped DEF ResetInv, TypeOK
<1>4. before' \in PartialTo(States)
  BY <1>1, <1>2, WithTyped DEF ResetInv, TypeOK
<1>5. bad' \in BOOLEAN
  BY <1>1 DEF ResetInv, TypeOK
<1>6. TypeOK'
  <2>1. left' \subseteq scope'
    BY DEF ResetInv, TypeOK, ResetRuns
  <2>2. QED
    BY <1>3, <1>4, <1>5, <2>1 DEF ResetInv, TypeOK, ResetRuns
<1>7. ASSUME ~bad', NEW a \in scope \ left'  PROVE OnlyUnseen(a)'
  <2>1. ~bad /\ Passes(moved, digest)
    BY <1>1, <1>7 DEF ResetInv, TypeOK
  <2>2. CASE a = Current
    <3>1. moved = TRUE /\ digest = d
      BY <2>1 DEF Passes
    <3>2. QED
      BY <1>1, <2>1, <2>2, <3>1, PassesKnown DEF ResetInv, ResetRuns
  <2>3. CASE a # Current
    <3>1. a \in scope \ left /\ OnlyUnseen(a)
      BY <1>7, <2>1, <2>3 DEF ResetInv, PhaseOK, ResetRuns
    <3>2. memory' \subseteq memory /\ unread \subseteq unread' /\ disk'[a] = disk[a]
      BY <1>1, <2>3, <3>1, RestartTyped DEF ResetInv, TypeOK
    <3>3. QED
      BY <3>1, <3>2, SameKnown DEF ResetRuns
  <2>4. QED
    BY <2>2, <2>3
<1>8. PhaseOK'
  BY <1>5, <1>7 DEF ResetInv, PhaseOK, ResetRuns
<1>9. ResidueOnlyUnseen'
  BY DEF ResetRuns, ResidueOnlyUnseen
<1>10. QED
  BY <1>6, <1>8, <1>9 DEF ResetInv

(* All of the scope has been reset and nothing failed.                     *)
LEMMA VerifiedInv ==
  ASSUME ResetInv, Verified
  PROVE  ResetInv'
<1>1. TypeOK' /\ PhaseOK'
  BY DEF ResetInv, TypeOK, PhaseOK, Verified, targets
<1>2. \A a \in scope : OnlyUnseen(a)'
  BY SameKnown DEF ResetInv, PhaseOK, Verified, targets
<1>3. ResidueOnlyUnseen'
  BY <1>2 DEF ResidueOnlyUnseen, OnlyUnseen, Verified
<1>4. QED
  BY <1>1, <1>3 DEF ResetInv

(* An import keeps the records' types: those that remain are as they were. *)
LEMMA ImportTyped ==
  ASSUME ResetInv, NEW r \in 1..MaxRuns, ImportInto(r)
  PROVE  records' \in Seq([run : 1..MaxRuns, digests : PartialTo(States)])
<1> DEFINE Rec == [run : 1..MaxRuns, digests : PartialTo(States)]
<1>1. records \in Seq(Rec)
  BY DEF ResetInv, TypeOK
<1>2. CASE \E k \in DOMAIN records :
             records' = Append(SubSeq(records, 1, k - 1) \o SubSeq(records, k + 1, Len(records)),
                               records[k])
  <2> HIDE DEF Rec
  <2>1. PICK k \in DOMAIN records :
             records' = Append(SubSeq(records, 1, k - 1) \o SubSeq(records, k + 1, Len(records)),
                               records[k])
    BY <1>2
  <2>2. SubSeq(records, 1, k - 1) \in Seq(Rec) /\ SubSeq(records, k + 1, Len(records)) \in Seq(Rec)
    BY <1>1
  <2>3. records[k] \in Rec
    BY <1>1
  <2>4. QED
    BY <2>1, <2>2, <2>3 DEF Rec
<1>3. CASE records' = Append(records, [run |-> r, digests |-> None])
  BY <1>3, RecordTyped, NoneTyped DEF ResetInv
<1>4. QED
  BY <1>2, <1>3 DEF ImportInto

(* ResetInv is inductive.                                                  *)
LEMMA StepInv == ResetInv /\ [Next]_vars => ResetInv'
<1> SUFFICES ASSUME ResetInv, [Next]_vars PROVE ResetInv'
  OBVIOUS
<1>1. CASE Begin
  BY <1>1, BeginInv
<1>2. CASE ResetUnhealthy
  <2>1. before' \in PartialTo(States) /\ disk' \in [Apps -> States]
    BY <1>2 DEF ResetUnhealthy, ResetInv, TypeOK
  <2>2. memory' \in SUBSET Services /\ unread' \in SUBSET Services
    BY <1>2, RestartTyped, CurrentIsLeft DEF ResetUnhealthy, ResetInv, TypeOK
  <2>3. QED
    BY <1>2, <2>1, <2>2, FailedResetInv DEF ResetUnhealthy
<1>3. CASE ResetFails
  <2>1. before' \in PartialTo(States) /\ disk' \in [Apps -> States]
    BY <1>3 DEF ResetFails, ResetInv, TypeOK
  <2>2. memory' \in SUBSET Services /\ unread' \in SUBSET Services
    BY <1>3, RestartTyped, CurrentIsLeft DEF ResetFails, ResetInv, TypeOK
  <2>3. QED
    BY <1>3, <2>1, <2>2, FailedResetInv DEF ResetFails
<1>4. CASE ResetRuns
  BY <1>4, ResetRunsInv
<1>5. CASE Refuse
  BY <1>5, LeaveInv DEF Refuse, targets, ResetInv, TypeOK
<1>6. CASE Verified
  BY <1>6, VerifiedInv
<1>7. CASE Open
  <2>1. TypeOK' /\ PhaseOK'
    <3>1. run' \in 0..MaxRuns /\ run' > 0
      BY <1>7, ResetAssumption DEF Open, ResetInv, TypeOK, PhaseOK
    <3>2. TypeOK'
      BY <1>7, <3>1 DEF Open, targets, ResetInv, TypeOK
    <3>3. PhaseOK'
      BY <1>7, <3>1 DEF Open, ResetInv, PhaseOK
    <3>4. QED
      BY <3>2, <3>3
  <2>2. QED
    BY <1>7, <2>1 DEF Open, ResetInv, ResidueOnlyUnseen
<1>8. CASE Abandon
  BY <1>8, LeaveInv DEF Abandon, targets, ResetInv, TypeOK
<1>9. CASE Scan
  <2>1. disk' \in [Apps -> States] /\ memory' \in SUBSET Services
    BY <1>9 DEF Scan, ResetInv, TypeOK, States
  <2>2. TypeOK' /\ PhaseOK'
    BY <1>9, <2>1 DEF Scan, ResetInv, TypeOK, PhaseOK
  <2>3. QED
    BY <1>9, <2>2 DEF Scan, ResetInv, ResidueOnlyUnseen
<1>10. CASE ResetAfter
  <2>1. disk' \in [Apps -> States]
    BY <1>10 DEF ResetAfter, ResetInv, TypeOK
  <2>2. TypeOK' /\ PhaseOK'
    <3>1. TypeOK'
      BY <1>10, <2>1 DEF ResetAfter, ResetInv, TypeOK
    <3>2. PhaseOK'
      BY <1>10 DEF ResetAfter, ResetInv, PhaseOK
    <3>3. QED
      BY <3>1, <3>2
  <2>3. QED
    BY <1>10, <2>2 DEF ResetAfter, ResetInv, ResidueOnlyUnseen
<1>11. CASE WriteRecord
  <2>1. run \in 1..MaxRuns /\ before \in PartialTo(States)
    BY <1>11 DEF WriteRecord, ResetInv, TypeOK, PhaseOK
  <2>2. records' \in Seq([run : 1..MaxRuns, digests : PartialTo(States)])
    BY <1>11, <2>1, RecordTyped DEF WriteRecord, ResetInv
  <2>3. QED
    BY <1>11, <2>2, LeaveInv DEF WriteRecord, targets, ResetInv, TypeOK
<1>12. ASSUME NEW r \in 1..MaxRuns, ImportInto(r)  PROVE ResetInv'
  <2>1. records' \in Seq([run : 1..MaxRuns, digests : PartialTo(States)])
    BY <1>12, ImportTyped
  <2>2. TypeOK' /\ PhaseOK'
    BY <1>12, <2>1 DEF ImportInto, targets, ResetInv, TypeOK, PhaseOK
  <2>3. QED
    BY <1>12, <2>2 DEF ImportInto, ResetInv, ResidueOnlyUnseen
<1>13. CASE UNCHANGED vars
  <2>1. TypeOK'
    BY <1>13 DEF vars, ResetInv, TypeOK
  <2>2. \A a : OnlyUnseen(a)' = OnlyUnseen(a)
    BY <1>13 DEF vars, OnlyUnseen, References, LookedUp
  <2>3. PhaseOK'
    BY <1>13, <2>2 DEF vars, ResetInv, PhaseOK
  <2>4. ResidueOnlyUnseen'
    BY <1>13 DEF vars, ResetInv, ResidueOnlyUnseen, References, LookedUp
  <2>5. QED
    BY <2>1, <2>3, <2>4 DEF ResetInv
<1>14. QED
  BY <1>1, <1>2, <1>3, <1>4, <1>5, <1>6, <1>7, <1>8, <1>9, <1>10, <1>11, <1>12, <1>13 DEF Next

(* So it holds all the time.                                               *)
LEMMA AlwaysResetInv == Spec => []ResetInv
  BY InitInv, StepInv, PTL DEF Spec

(* Every state the harness and the targets get into is well typed.         *)
THEOREM ResetTypeCorrect == Spec => []TypeOK
<1>1. ResetInv => TypeOK
  BY DEF ResetInv
<1>2. QED
  BY <1>1, AlwaysResetInv, PTL

(* A run opens on what an earlier tool left behind only where nothing      *)
(* could have told.                                                        *)
THEOREM ResidueIsSeen == Spec => []ResidueOnlyUnseen
<1>1. ResetInv => ResidueOnlyUnseen
  BY DEF ResetInv
<1>2. QED
  BY <1>1, AlwaysResetInv, PTL
-----------------------------------------------------------------------------
(* What the digests at hand have been compared with, unless a check has    *)
(* failed already: nothing is written down then.                           *)
Compared ==
  /\ DOMAIN before = scope \ left
  /\ \A a \in DOMAIN before \cap DOMAIN References : before[a] = References[a]

DigestInv ==
  /\ phase = "idle" \/ skip => before = None
  /\ phase # "idle" /\ ~skip => Compared \/ (phase = "reset" /\ bad)
  /\ \A k \in DOMAIN records : \A a \in pinned \cap DOMAIN records[k].digests :
       records[k].digests[a] = "seeded"
  /\ UnlikeRecordsHaveAGap

(* The search for a reference ends at the last record that knows anything. *)
LEMMA SearchEnds ==
  ASSUME TypeOK, NEW i \in DOMAIN records, records[i].digests # None,
         \A k \in DOMAIN records : i < k => records[k].digests = None /\ pinned \cap scope = {}
  PROVE  LookedUp = {i}
<1> DEFINE enough == {k \in DOMAIN records : pinned \cap scope # {} \/ records[k].digests # None}
<1>1. DOMAIN records \subseteq Nat
  BY DEF TypeOK
<1>2. i \in enough /\ \A k \in enough : ~ (i < k)
  OBVIOUS
<1>3. \A k \in enough : k <= i
  BY <1>1, <1>2
<1>4. \A k \in enough : (\A j \in enough : j <= k) => k = i
  BY <1>1, <1>2, <1>3
<1>5. LookedUp = {k \in enough : \A j \in enough : j <= k}
  BY DEF LookedUp
<1> HIDE DEF enough
<1> QED
  BY <1>2, <1>3, <1>4, <1>5

LEMMA ReferenceFound ==
  ASSUME NEW i, LookedUp = {i}, NEW a \in DOMAIN records[i].digests
  PROVE  /\ a \in DOMAIN References
         /\ a \notin pinned => References[a] = records[i].digests[a]
<1>1. a \in UNION {DOMAIN records[k].digests : k \in LookedUp}
  OBVIOUS
<1>2. (CHOOSE k \in LookedUp : TRUE) = i
  OBVIOUS
<1> QED
  BY <1>1, <1>2 DEF References

LEMMA PinIsReference ==
  ASSUME NEW a \in pinned \cap scope
  PROVE  a \in DOMAIN References /\ References[a] = "seeded"
BY DEF References

(* The digests that a run at its end writes down.                          *)
LEMMA WrittenUnlike ==
  ASSUME ResetInv, DigestInv, phase = "after", ~imported,
         NEW i \in DOMAIN records, NEW a \in DOMAIN records[i].digests \cap DOMAIN before,
         records[i].digests[a] # before[a]
  PROVE  \E k \in (i + 1)..Len(records) :
            records[k].digests # None \/ pinned \cap DOMAIN before # {}
<1>1. TypeOK /\ DOMAIN before = scope /\ Compared
  BY DEF ResetInv, PhaseOK, DigestInv, Compared, None
<1>2. SUFFICES ASSUME \A k \in (i + 1)..Len(records) :
                        records[k].digests = None /\ pinned \cap scope = {}
               PROVE  FALSE
  BY <1>1
<1>3. \A k \in DOMAIN records : i < k => k \in (i + 1)..Len(records)
  BY <1>1 DEF TypeOK
<1>4. LookedUp = {i}
  <2>1. records[i].digests # None
    BY DEF None
  <2> QED
    BY <1>1, <1>2, <1>3, <2>1, SearchEnds
<1>5. a \in DOMAIN References /\ before[a] = References[a]
  BY <1>1, <1>4, ReferenceFound DEF Compared
<1>6. CASE a \in pinned
  <2>1. records[i].digests[a] = "seeded"
    BY <1>6 DEF DigestInv
  <2>2. References[a] = "seeded"
    BY <1>1, <1>6, PinIsReference
  <2> QED
    BY <1>5, <2>1, <2>2
<1>7. CASE a \notin pinned
  BY <1>4, <1>5, <1>7, ReferenceFound
<1> QED
  BY <1>6, <1>7

LEMMA WriteRecordKeeps ==
  ASSUME ResetInv, DigestInv, WriteRecord
  PROVE  DigestInv'
<1> DEFINE Rec == [run : 1..MaxRuns, digests : PartialTo(States)]
           new == [run |-> run, digests |-> before]
           n == Len(records)
<1>1. TypeOK /\ phase = "after" /\ records' = Append(records, new) /\ pinned' = pinned
      /\ imported' = imported /\ phase' = "idle" /\ before' = None
  BY DEF ResetInv, WriteRecord, Leave
<1>2. n \in Nat /\ DOMAIN records = 1..n /\ DOMAIN records' = 1..(n + 1)
      /\ records'[n + 1] = new /\ \A k \in 1..n : records'[k] = records[k]
  <2>1. records \in Seq(Rec)
    BY <1>1 DEF TypeOK
  <2> HIDE DEF Rec, new
  <2> QED
    BY <1>1, <2>1
<1>3. new.digests = before
  OBVIOUS
<1> HIDE DEF new, n
<1>4. \A a \in pinned \cap DOMAIN before : before[a] = "seeded"
  <2>1. CASE skip
    BY <2>1 DEF DigestInv, None
  <2>2. CASE ~skip
    <3>1. Compared
      BY <1>1, <2>2 DEF DigestInv
    <3>2. DOMAIN before \subseteq scope
      BY <3>1 DEF Compared
    <3> QED
      BY <3>1, <3>2, PinIsReference DEF Compared
  <2> QED
    BY <2>1, <2>2
<1>5. \A k \in DOMAIN records' : \A a \in pinned' \cap DOMAIN records'[k].digests :
        records'[k].digests[a] = "seeded"
  <2> SUFFICES ASSUME NEW k \in DOMAIN records', NEW a \in pinned' \cap DOMAIN records'[k].digests
               PROVE  records'[k].digests[a] = "seeded"
    OBVIOUS
  <2>1. CASE k = n + 1
    BY <1>1, <1>2, <1>3, <1>4, <2>1
  <2>2. CASE k \in 1..n
    BY <1>1, <1>2, <2>2 DEF DigestInv
  <2> QED
    BY <1>2, <2>1, <2>2
<1>6. UnlikeRecordsHaveAGap'
  <2> SUFFICES ASSUME NEW i \in DOMAIN records', NEW j \in DOMAIN records', ~imported,
                      NEW a \in DOMAIN records'[i].digests \cap DOMAIN records'[j].digests,
                      i < j, records'[i].digests[a] # records'[j].digests[a],
                      \A k \in (i + 1)..(j - 1) : a \notin DOMAIN records'[k].digests
               PROVE  \E k \in (i + 1)..(j - 1) :
                        records'[k].digests # None \/ pinned \cap DOMAIN records'[j].digests # {}
    BY <1>1 DEF UnlikeRecordsHaveAGap
  <2>1. CASE j \in 1..n
    <3>1. i \in 1..n /\ \A k \in (i + 1)..(j - 1) : k \in 1..n
      BY <1>2, <2>1
    <3>2. \A k \in (i + 1)..(j - 1) : a \notin DOMAIN records[k].digests
      BY <1>2, <3>1
    <3>3. \E k \in (i + 1)..(j - 1) :
            records[k].digests # None \/ pinned \cap DOMAIN records[j].digests # {}
      BY <1>2, <2>1, <3>1, <3>2 DEF DigestInv, UnlikeRecordsHaveAGap
    <3> QED
      BY <1>2, <2>1, <3>1, <3>3
  <2>2. CASE j = n + 1
    <3>1. i \in 1..n /\ (i + 1)..(j - 1) = (i + 1)..Len(records)
      BY <1>2, <2>2 DEF n
    <3>2. records'[i] = records[i] /\ records'[j].digests = before
      BY <1>2, <1>3, <2>2, <3>1
    <3>3. \E k \in (i + 1)..Len(records) :
            records[k].digests # None \/ pinned \cap DOMAIN before # {}
      BY <1>1, <1>2, <3>1, <3>2, WrittenUnlike
    <3>4. \A k \in (i + 1)..(j - 1) : k \in 1..n
      BY <1>2, <2>2, <3>1
    <3> QED
      BY <1>2, <3>1, <3>2, <3>3, <3>4
  <2> QED
    BY <1>2, <2>1, <2>2
<1>7. (phase # "idle")' => FALSE
  BY <1>1
<1> QED
  BY <1>1, <1>5, <1>6, <1>7 DEF DigestInv

(* A step during which the records and the digests at hand stay.           *)
LEMMA DigestsKept ==
  ASSUME DigestInv, UNCHANGED <<pinned, records, imported>>,
         \/ phase' = "idle" /\ before' = None
         \/ /\ phase # "idle" /\ phase' # "idle" /\ UNCHANGED <<before, scope, skip, left>>
            /\ phase = "reset" /\ bad => phase' = "reset" /\ bad'
         \/ UNCHANGED vars
  PROVE  DigestInv'
<1>1. UnlikeRecordsHaveAGap'
  BY DEF DigestInv, UnlikeRecordsHaveAGap
<1>2. UNCHANGED <<before, scope, left>> => (Compared' <=> Compared)
  BY DEF Compared, References, LookedUp
<1>3. CASE phase' = "idle" /\ before' = None
  BY <1>1, <1>3 DEF DigestInv
<1>4. CASE /\ phase # "idle" /\ phase' # "idle" /\ UNCHANGED <<before, scope, skip, left>>
           /\ phase = "reset" /\ bad => phase' = "reset" /\ bad'
  BY <1>1, <1>2, <1>4 DEF DigestInv
<1>5. CASE UNCHANGED vars
  BY <1>1, <1>2, <1>5 DEF DigestInv, vars
<1> QED
  BY <1>3, <1>4, <1>5

LEMMA ResetRunsKeeps ==
  ASSUME ResetInv, DigestInv, ResetRuns
  PROVE  DigestInv'
<1>1. PICK moved \in BOOLEAN, prints \in BOOLEAN, d \in States :
        LET digest == IF prints THEN d ELSE "none" IN
          /\ before' = IF digest = "none" THEN before ELSE With(before, Current, digest)
          /\ bad' = (bad \/ ~Passes(moved, digest))
  BY DEF ResetRuns
<1> DEFINE digest == IF prints THEN d ELSE "none"
<1>2. Current \in left /\ Current \in scope /\ ~skip /\ bad \in BOOLEAN /\ phase = "reset"
  BY CurrentIsLeft DEF ResetInv, TypeOK, PhaseOK, ResetRuns
<1>3. /\ UNCHANGED <<pinned, phase, scope, skip, records, imported>> /\ left' = left \ {Current}
      /\ left \subseteq scope
  BY DEF ResetRuns, ResetInv, TypeOK
<1>4. References' = References
  BY <1>3 DEF References, LookedUp
<1>5. ASSUME ~bad' PROVE Compared'
  <2>1. ~bad /\ Passes(moved, digest)
    BY <1>1, <1>2, <1>5
  <2>2. digest # "none" /\ (Current \in DOMAIN References => digest = References[Current])
    BY <2>1 DEF Passes
  <2>3. before' = With(before, Current, digest)
    BY <1>1, <2>2
  <2>4. Compared
    BY <1>2, <2>1 DEF DigestInv
  <2> HIDE DEF digest
  <2> DEFINE x == Current
  <2> HIDE DEF x
  <2>5. /\ before' = With(before, x, digest) /\ x \in left /\ x \in scope /\ left' = left \ {x}
        /\ x \in DOMAIN References => digest = References[x]
    BY <1>2, <1>3, <2>2, <2>3 DEF x
  <2>6. DOMAIN before' = scope' \ left'
    BY <1>3, <2>4, <2>5 DEF With, Compared
  <2>7. ASSUME NEW a \in DOMAIN before' \cap DOMAIN References' PROVE before'[a] = References'[a]
    <3>1. a \in DOMAIN before \cup {x} /\ before'[a] = (IF a = x THEN digest ELSE before[a])
      BY <2>5, <2>7 DEF With
    <3> QED
      BY <1>4, <2>4, <2>5, <3>1 DEF Compared
  <2> QED
    BY <2>6, <2>7 DEF Compared
<1>6. UnlikeRecordsHaveAGap'
  BY <1>3 DEF DigestInv, UnlikeRecordsHaveAGap
<1>7. bad' \in BOOLEAN
  BY <1>1, <1>2
<1> QED
  BY <1>2, <1>3, <1>5, <1>6, <1>7 DEF DigestInv

(* A place in a sequence of n whose k-th element has gone to its end.      *)
LEMMA PlaceAfterMove ==
  ASSUME NEW n \in Nat, NEW k \in 1..n, NEW m \in 1..n
  PROVE  \/ m = n
         \/ m \in 1..(k - 1) /\ m \in 1..(n - 1) /\ m <= k - 1
         \/ m \in 1..(n - 1) /\ m - (k - 1) \in 1..(n - k) /\ ~ (m <= k - 1)
            /\ k + (m - (k - 1)) \in 1..n
OBVIOUS

LEMMA ImportKeeps ==
  ASSUME ResetInv, DigestInv, NEW r \in 1..MaxRuns, ImportInto(r)
  PROVE  DigestInv'
<1>1. phase = "idle" /\ UNCHANGED <<pinned, phase, before>> /\ imported' = TRUE
  BY DEF ImportInto
<1> DEFINE Rec == [run : 1..MaxRuns, digests : PartialTo(States)]
<1>2. records \in Seq(Rec)
  BY DEF ResetInv, TypeOK
<1>3. \A k \in DOMAIN records' : \A a \in pinned \cap DOMAIN records'[k].digests :
        records'[k].digests[a] = "seeded"
  <2>1. ASSUME NEW k \in DOMAIN records,
               records' = Append(SubSeq(records, 1, k - 1) \o SubSeq(records, k + 1, Len(records)),
                               records[k])
        PROVE  \A m \in DOMAIN records' : \E j \in DOMAIN records : records'[m] = records[j]
    <3> HIDE DEF Rec
    <3> DEFINE s == SubSeq(records, 1, k - 1)
               t == SubSeq(records, k + 1, Len(records))
    <3>1. /\ s \in Seq(Rec) /\ t \in Seq(Rec) /\ records[k] \in Rec
          /\ k \in 1..Len(records) /\ Len(records) \in Nat /\ DOMAIN records = 1..Len(records)
      BY <1>2
    <3>2. /\ Len(s) = k - 1 /\ \A m \in 1..Len(s) : s[m] = records[m]
          /\ Len(t) = Len(records) - k /\ \A m \in 1..Len(t) : t[m] = records[k + m]
      BY <1>2, <3>1
    <3> HIDE DEF s, t
    <3>3. records' = Append(s \o t, records[k])
      BY <2>1 DEF s, t
    <3>4. s \o t \in Seq(Rec) /\ Len(s \o t) = Len(s) + Len(t)
          /\ \A m \in 1..(Len(s) + Len(t)) : (s \o t)[m] = IF m <= Len(s) THEN s[m] ELSE t[m - Len(s)]
      BY <3>1
    <3> DEFINE u == s \o t
    <3> HIDE DEF u
    <3>5. /\ u \in Seq(Rec) /\ Len(u) = Len(s) + Len(t) /\ records' = Append(u, records[k])
          /\ \A m \in 1..(Len(s) + Len(t)) : u[m] = IF m <= Len(s) THEN s[m] ELSE t[m - Len(s)]
      BY <3>3, <3>4 DEF u
    <3>6. DOMAIN records' = 1..(Len(u) + 1) /\ records'[Len(u) + 1] = records[k]
          /\ \A m \in 1..Len(u) : records'[m] = u[m]
      BY <3>1, <3>5
    <3>7. ASSUME NEW m \in DOMAIN records' PROVE \E j \in DOMAIN records : records'[m] = records[j]
      <4>0. Len(s) + Len(t) = Len(records) - 1
        BY <3>1, <3>2
      <4>1. m \in 1..Len(records)
        BY <3>1, <3>5, <3>6, <4>0
      <4> DEFINE n == Len(records)
      <4>2. /\ n \in Nat /\ k \in 1..n /\ m \in 1..n /\ DOMAIN records = 1..n
            /\ \A p \in 1..(n - 1) : records'[p] = IF p <= k - 1 THEN s[p] ELSE t[p - (k - 1)]
            /\ \A p \in 1..(k - 1) : s[p] = records[p]
            /\ \A p \in 1..(n - k) : t[p] = records[k + p]
            /\ records'[n] = records[k]
        <5>1. n \in Nat /\ k \in 1..n /\ m \in 1..n /\ DOMAIN records = 1..n
          BY <3>1, <4>1
        <5>2. Len(u) = n - 1 /\ Len(s) = k - 1 /\ Len(t) = n - k /\ Len(s) + Len(t) = n - 1
          BY <3>2, <3>5, <4>0
        <5> HIDE DEF n
        <5>3. \A p \in 1..(n - 1) :
                records'[p] = u[p] /\ u[p] = IF p <= k - 1 THEN s[p] ELSE t[p - (k - 1)]
          BY <3>5, <3>6, <5>2
        <5>4. records'[n] = records[k]
          <6>1. (n - 1) + 1 = n
            BY <5>1
          <6> QED
            BY <3>6, <5>2, <6>1
        <5> QED
          BY <3>2, <5>1, <5>2, <5>3, <5>4
      <4> HIDE DEF n
      <4>3. CASE m = n
        BY <4>2, <4>3
      <4>4. CASE m \in 1..(k - 1) /\ m \in 1..(n - 1) /\ m <= k - 1
        <5>1. records'[m] = records[m] /\ m \in DOMAIN records
          BY <4>2, <4>4
        <5> QED
          BY <5>1
      <4>5. CASE m \in 1..(n - 1) /\ m - (k - 1) \in 1..(n - k) /\ ~ (m <= k - 1)
                 /\ k + (m - (k - 1)) \in 1..n
        <5>1. records'[m] = records[k + (m - (k - 1))] /\ k + (m - (k - 1)) \in DOMAIN records
          BY <4>2, <4>5
        <5> QED
          BY <5>1
      <4> QED
        BY <4>2, <4>3, <4>4, <4>5, PlaceAfterMove
    <3> QED
      BY <3>7
  <2>2. ASSUME records' = Append(records, [run |-> r, digests |-> None])
        PROVE  \A m \in DOMAIN records' :
                 records'[m].digests = None \/ \E j \in DOMAIN records : records'[m] = records[j]
    <3> DEFINE new == [run |-> r, digests |-> None]
    <3>1. new.digests = None
      OBVIOUS
    <3> HIDE DEF new, Rec
    <3>2. records' = Append(records, new)
      BY <2>2 DEF new
    <3> QED
      BY <1>2, <3>1, <3>2
  <2>3. \A m \in DOMAIN records' :
          records'[m].digests = None \/ \E j \in DOMAIN records : records'[m] = records[j]
    BY <2>1, <2>2 DEF ImportInto
  <2> QED
    BY <2>3 DEF DigestInv, None
<1> QED
  BY <1>1, <1>3 DEF DigestInv, UnlikeRecordsHaveAGap

LEMMA DigestStep == ResetInv /\ DigestInv /\ [Next]_vars => DigestInv'
<1> SUFFICES ASSUME ResetInv, DigestInv, [Next]_vars PROVE DigestInv'
  OBVIOUS
<1>1. CASE Begin
  <2>1. before = None /\ phase = "idle" /\ ~skip /\ UNCHANGED <<pinned, records, imported, before>>
    BY <1>1 DEF Begin, DigestInv, ResetInv, PhaseOK
  <2>2. UnlikeRecordsHaveAGap'
    BY <2>1 DEF DigestInv, UnlikeRecordsHaveAGap
  <2>3. ~skip' => Compared'
    <3>1. ~skip' => left' = scope'
      BY <1>1 DEF Begin
    <3> QED
      BY <2>1, <3>1 DEF Compared, None
  <2> QED
    BY <2>1, <2>2, <2>3 DEF DigestInv
<1>2. CASE ResetUnhealthy \/ ResetFails
  <2>1. phase' = "reset" /\ bad' = TRUE /\ ~skip' /\ UNCHANGED <<pinned, records, imported>>
    BY <1>2 DEF ResetUnhealthy, ResetFails, ResetInv, PhaseOK
  <2>2. UnlikeRecordsHaveAGap'
    BY <2>1 DEF DigestInv, UnlikeRecordsHaveAGap
  <2> QED
    BY <2>1, <2>2 DEF DigestInv
<1>3. CASE ResetRuns
  BY <1>3, ResetRunsKeeps
<1>4. CASE Refuse \/ Abandon
  BY <1>4, DigestsKept DEF Refuse, Abandon, Leave
<1>5. CASE Verified \/ Open \/ Scan \/ ResetAfter
  BY <1>5, DigestsKept DEF Verified, Open, Scan, ResetAfter
<1>6. CASE WriteRecord
  BY <1>6, WriteRecordKeeps
<1>7. CASE \E r \in 1..MaxRuns : ImportInto(r)
  BY <1>7, ImportKeeps
<1>8. CASE UNCHANGED vars
  BY <1>8, DigestsKept DEF vars
<1> QED
  BY <1>1, <1>2, <1>3, <1>4, <1>5, <1>6, <1>7, <1>8 DEF Next

(* Two runs against unlike applications are a gap apart: the digest of a   *)
(* target changes only across a record that the search for a reference     *)
(* ended at without it, or after an import has reordered the records.      *)
THEOREM DriftIsRefused == Spec => []UnlikeRecordsHaveAGap
<1>1. Init => DigestInv
  BY DEF Init, DigestInv, UnlikeRecordsHaveAGap
<1>2. DigestInv => UnlikeRecordsHaveAGap
  BY DEF DigestInv
<1> QED
  BY <1>1, <1>2, AlwaysResetInv, DigestStep, PTL DEF Spec
=============================================================================
