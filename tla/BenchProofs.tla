------------------------------ MODULE BenchProofs ------------------------------
(***************************************************************************)
(* Proofs about BenchRun: for any targets, budget and number of runs, the  *)
(* scan keeps to its budget, "completed" is said only of a whole run, what *)
(* still runs when its target is done with is a container docker would not *)
(* remove or one nobody tried to, and a failed scan leaves its record.     *)
(***************************************************************************)
EXTENDS BenchRun, FiniteSetTheorems, WellFoundedInduction, TLAPS

(* The next target of a run is the least one left (apps.yaml's order): a   *)
(* nonempty set of naturals has a least element.                           *)
LEMMA LeastNatural ==
  ASSUME NEW S \in SUBSET Nat, S # {}
  PROVE  \E x \in S : \A y \in S : x <= y
<1> DEFINE R == {p \in Nat \X Nat : p[1] < p[2]}
<1>1. IsWellFoundedOn(R, Nat)
  BY NatLessThanWellFounded DEF OpToRel
<1>2. \A x, y \in Nat : x < y => <<x, y>> \in R
  OBVIOUS
<1> HIDE DEF R
<1>3. PICK x \in S : \A y \in S : ~ (<<y, x>> \in R)
  BY <1>1, WFMin
<1>4. ASSUME NEW y \in S PROVE x <= y
  <2>1. x \in Nat /\ y \in Nat
    OBVIOUS
  <2>2. ~ (y < x)
    BY <1>2, <1>3, <2>1
  <2> QED
    BY <2>1, <2>2
<1> QED
  BY <1>4

(* ... and so Min chooses one of its members.                              *)
LEMMA MinOfNats ==
  ASSUME NEW S \in SUBSET Nat, S # {}
  PROVE  Min(S) \in S
BY LeastNatural DEF Min

(* The steps before the scan, those of one target, and those after.        *)
Before == {"prepare", "opening", "opened"}
AtTarget == {"next", "poll", "stop", "collect", "check"}
After == {"close", "wrap", "score"}

(* There is a target at hand while one is being scanned, and a run number  *)
(* as soon as there is a run; only the start of the scan starts the clock. *)
Control ==
  /\ phase # "idle" => run > 0
  /\ phase \in AtTarget => left # {}
  /\ phase \in Before \cup {"idle"} => clock = 0 /\ result = None /\ left = {}
  /\ phase \in Before => scope # {}
  /\ phase \in Before \cup AtTarget \cup {"idle"} => ~error

(* OverrunBounded, and by how much at each step of the scan.               *)
Due == Larger(Wall, 1)
Late == Larger(StartTime, PollInterval)
Timing ==
  /\ phase = "next" => clock < Due
  /\ phase \in {"poll", "stop"} => clock < Due + Late
  /\ phase = "collect" => clock < Due + Late + Grace
  /\ clock < Due + Late + Grace + LogTime

(* What nobody managed, or tried, to remove belongs to an earlier run or   *)
(* to a target that is done with; what else runs is the tool at the        *)
(* present target.                                                         *)
Containers ==
  /\ \A c \in stuck \cup deserted :
       /\ c[1] <= run
       /\ phase \in Before => c[1] < run
       /\ phase \in AtTarget /\ c[1] = run =>
            c[2] \notin (IF phase = "check" THEN left \ {Current} ELSE left)
  /\ \A c \in running :
       \/ c \in stuck \cup deserted
       \/ c = Mine(Current) /\ phase \in {"poll", "stop", "collect"}

(* A target of this run whose container was left alone is in the results   *)
(* as an error, if there are any results.                                  *)
Deserting ==
  phase \in AtTarget \cup After =>
    \A c \in deserted : c[1] = run =>
      error \/ (c[2] \in DOMAIN result /\ result[c[2]] = "error")

(* The targets dealt with are those no longer left, and one that completed *)
(* has no container that the harness could still see.                      *)
Gone(a) == a \in lost \/ Mine(a) \notin running
Results ==
  /\ phase \in AtTarget \ {"check"} => DOMAIN result = scope \ left
  /\ phase = "check" => DOMAIN result = scope \ (left \ {Current})
  /\ phase \in After => error \/ DOMAIN result = scope
  /\ \A a \in DOMAIN result : result[a] = "completed" => Gone(a)
  /\ phase = "stop" => reason # "completed"
  /\ phase = "collect" /\ reason = "completed" => Gone(Current)

(* What can have been raised by the time a step is reached, and what the   *)
(* collector and the results directory know of the run.                    *)
Faults ==
  /\ phase \in Before \cup AtTarget => fault = "none"
  /\ phase \in After => fault = "none" \/ (fault = "scan" /\ error)
  /\ phase \in {"prepare", "opening"} => active < run
  /\ phase \in {"wrap", "score"} => active = 0
  /\ phase = "score" => run \in recorded
  /\ ScanFailureIsRecorded

BenchInv == TypeOK /\ Control /\ Timing /\ Containers /\ Deserting /\ Results /\ Faults

(* The target at hand is one of those left.                                *)
LEMMA CurrentIsLeft ==
  ASSUME TypeOK, left # {}
  PROVE  Current \in left /\ Current \in scope /\ Current \in Apps /\ IsFiniteSet(left)
<1>1. left \in SUBSET Nat /\ IsFiniteSet(left)
  BY BenchAssumption, FS_Subset DEF TypeOK
<1>2. QED
  BY <1>1, MinOfNats DEF Current, TypeOK

(* No results at all.                                                      *)
LEMMA NoneTyped == None \in PartialTo(Reasons) /\ DOMAIN None = {}
<1>1. None \in [{} -> Reasons] /\ {} \in SUBSET Apps
  BY DEF None
<1>2. QED
  BY <1>1 DEF PartialTo

(* One target's result more.                                               *)
LEMMA ResultTyped ==
  ASSUME NEW f \in PartialTo(Reasons), NEW a \in Apps, NEW v \in Reasons
  PROVE  [b \in DOMAIN f \cup {a} |-> IF b = a THEN v ELSE f[b]] \in PartialTo(Reasons)
<1>1. PICK D \in SUBSET Apps : f \in [D -> Reasons]
  BY DEF PartialTo
<1>2. [b \in DOMAIN f \cup {a} |-> IF b = a THEN v ELSE f[b]] \in [D \cup {a} -> Reasons]
  BY <1>1
<1>3. D \cup {a} \in SUBSET Apps
  OBVIOUS
<1>4. QED
  BY <1>2, <1>3 DEF PartialTo

(* A share of the budget is a number of half seconds.                      *)
LEMMA ShareTyped ==
  ASSUME TypeOK, NEW rest \in Nat \ {0}
  PROVE  ShareOf(rest) \in Nat
<1> DEFINE open == IF clock < Wall THEN Wall - clock ELSE 0
           fair == open \div rest
<1>1. open \in Nat
  BY BenchAssumption DEF TypeOK
<1>2. fair \in Int
  <2> HIDE DEF open
  <2> QED BY <1>1
<1>3. 2 * ((IF fair < 2 THEN 2 ELSE fair) \div 2) \in Nat
  <2> HIDE DEF fair
  <2> QED BY <1>2
<1>4. QED
  BY <1>3 DEF ShareOf

(* What a run leaves behind is well typed.                                 *)
LEMMA LeaveTyped ==
  ASSUME TypeOK, NEW how \in Exits, Leave(how), active' \in 0..run, recorded' \in SUBSET (1..run),
         fault' \in {"none", "scan", "open", "dir", "close", "wrap"}
  PROVE  TypeOK'
  BY NoneTyped DEF TypeOK, Leave, Reasons, Steps

(* So is what an exception of the tool's run does.                         *)
LEMMA ScanRaisesTyped ==
  ASSUME TypeOK, ScanRaises, UNCHANGED <<run, scope, left, active, watched, share, reason, recorded, exit>>,
         running' \in SUBSET ((1..MaxRuns) \X Apps), stuck' \in SUBSET running',
         deserted' \in SUBSET running'
  PROVE  TypeOK'
  BY NoneTyped DEF TypeOK, ScanRaises, watched, Steps

(* The present target's container is one of a run and a target.            *)
LEMMA MineTyped ==
  ASSUME BenchInv, phase \in AtTarget
  PROVE  Mine(Current) \in (1..MaxRuns) \X Apps
  BY CurrentIsLeft DEF BenchInv, TypeOK, Control, AtTarget, Mine

(* Every step keeps the types.                                             *)
LEMMA TypeOKStep ==
  ASSUME BenchInv, [Next]_vars
  PROVE  TypeOK'
<1> USE BenchAssumption DEF BenchInv
<1>0. left # {} => Current \in left /\ Current \in scope /\ Current \in Apps
  BY CurrentIsLeft
<1>1. CASE Begin
  <2>1. run' \in 0..MaxRuns /\ active' \in 0..run' /\ recorded' \subseteq 1..run'
    BY <1>1 DEF Begin, TypeOK
  <2>2. phase' \in Steps /\ exit' \in Exits
    BY <1>1 DEF Begin, Steps, Exits
  <2>3. scope' \subseteq Apps /\ left' \subseteq scope'
    BY <1>1 DEF Begin, Control, TypeOK
  <2>4. QED
    BY <1>1, <2>1, <2>2, <2>3 DEF Begin, TypeOK, watched
<1>2. CASE Prepare
  <2>1. CASE Leave("refused")
    BY <1>2, <2>1, LeaveTyped DEF Prepare, TypeOK, Exits
  <2>2. CASE phase' = "opening" /\ UNCHANGED <<scope, left, watched, share, reason, result, report,
                                               error, running, exit, stuck, deserted, lost,
                                               run>>
    BY <1>2, <2>2 DEF Prepare, TypeOK, watched, Steps
  <2>3. QED
    BY <1>2, <2>1, <2>2 DEF Prepare
<1>3. CASE OpenRun
  BY <1>3 DEF OpenRun, watched, TypeOK, Steps
<1>4. CASE OpenRefused
  <2>1. active' \in 0..run /\ recorded' \in SUBSET (1..run)
    BY <1>4 DEF OpenRefused, TypeOK
  <2>2. QED
    BY <1>4, <2>1, LeaveTyped DEF OpenRefused, Exits
<1>5. CASE MakeRunDir
  <2>1. CASE fault' = "dir" /\ Leave("raised")
    BY <1>5, <2>1, LeaveTyped DEF MakeRunDir, TypeOK, Exits
  <2>2. CASE phase' = "next" /\ left' = scope
    BY <1>5, <2>2 DEF MakeRunDir, TypeOK, watched, Steps, Leave
  <2>3. QED
    BY <1>5, <2>1, <2>2 DEF MakeRunDir
<1>6. CASE StartRaises
  BY <1>6, MineTyped, ScanRaisesTyped DEF StartRaises, Desert, TypeOK, AtTarget
<1>7. CASE Start
  <2>1. Cardinality(left) \in Nat \ {0}
    BY <1>7, CurrentIsLeft, FS_CardinalityType, FS_EmptySet DEF Start, Control, AtTarget
  <2>2. clock' \in Nat /\ share' \in [since : Nat, ticks : Nat]
    <3>1. ShareOf(Cardinality(left)) \in Nat
      BY <2>1, ShareTyped
    <3>2. QED
      BY <1>7, <3>1, BenchAssumption DEF Start, TypeOK
  <2>3. result' \in PartialTo(Reasons) /\ running' \subseteq (1..MaxRuns) \X Apps
    <3>1. Current \in Apps /\ "error" \in Reasons /\ result \in PartialTo(Reasons)
      BY <1>0, <1>7 DEF Start, TypeOK, Control, AtTarget, Reasons
    <3>2. result' \in PartialTo(Reasons)
      BY <1>7, <3>1, ResultTyped DEF Start
    <3>3. Mine(Current) \in (1..MaxRuns) \X Apps
      BY <1>7, MineTyped DEF Start, AtTarget
    <3>4. QED
      BY <1>7, <3>2, <3>3 DEF Start, Desert, TypeOK
  <2>4. /\ stuck' \subseteq running' /\ deserted' \subseteq running'
        /\ phase' \in Steps /\ reason' \in Reasons
    BY <1>7 DEF Start, Desert, TypeOK, Steps, Reasons
  <2>5. QED
    BY <1>7, <2>2, <2>3, <2>4 DEF Start, TypeOK
<1>8. CASE Poll
  <2>1. PICK up \in {Mine(Current) \in running, FALSE}, meter \in {spent, FALSE} :
          /\ seen' = (seen \/ meter)
          /\ lost' = IF ~up /\ Mine(Current) \in running THEN lost \cup {Current} ELSE lost
          /\ IF Verdict(up, meter) = "none"
             THEN clock' = clock + PollInterval /\ UNCHANGED <<phase, reason>>
             ELSE /\ phase' = IF Verdict(up, meter) = "completed" THEN "collect" ELSE "stop"
                  /\ reason' = Verdict(up, meter) /\ UNCHANGED clock
    BY <1>8 DEF Poll
  <2>2. Verdict(up, meter) \in Reasons \cup {"none"}
    BY DEF Verdict, Reasons
  <2>3. clock' \in Nat /\ phase' \in Steps /\ reason' \in Reasons
    BY <1>8, <2>1, <2>2 DEF Poll, TypeOK, Steps
  <2>4. lost' \subseteq Apps /\ seen' \in BOOLEAN
    BY <1>8, <2>1, CurrentIsLeft DEF Poll, TypeOK, Control, AtTarget
  <2>5. QED
    BY <1>8, <2>3, <2>4 DEF Poll, TypeOK
<1>9. CASE Stop
  <2>1. Mine(Current) \notin stuck \cup deserted
    BY <1>0, <1>9 DEF Stop, Control, Mine, Containers, AtTarget
  <2>2. clock' \in Nat /\ phase' \in Steps
    BY <1>9 DEF Stop, TypeOK, Steps
  <2>3. QED
    BY <1>9, <2>1, <2>2 DEF Stop, TypeOK
<1>10. CASE CollectRaises
  BY <1>10, ScanRaisesTyped DEF CollectRaises, TypeOK
<1>11. CASE Collect
  <2>0. clock' \in Nat
    BY <1>11 DEF Collect, TypeOK
  <2>1. /\ running' \in SUBSET ((1..MaxRuns) \X Apps)
        /\ stuck' \in SUBSET running' /\ deserted' \in SUBSET running'
    <3>1. Mine(Current) \notin stuck \cup deserted
      BY <1>11, CurrentIsLeft DEF Collect, Containers, Control, AtTarget, Mine
    <3>2. QED
      BY <1>11, <3>1 DEF Collect, NotRemoved, TypeOK
  <2>2. CASE reason = "error"
    BY <1>11, <2>0, <2>1, <2>2, NoneTyped DEF Collect, ScanRaises, TypeOK, Steps
  <2>3. CASE reason # "error"
    <3>1. result' \in PartialTo(Reasons) /\ report' \subseteq Apps
      <4>1. Current \in Apps /\ reason \in Reasons /\ result \in PartialTo(Reasons)
        BY <1>0, <1>11 DEF Collect, TypeOK, Control, AtTarget
      <4>2. report' \subseteq Apps
        BY <1>11, <2>3, <4>1 DEF Collect, TypeOK
      <4>3. QED
        BY <1>11, <2>3, <4>1, <4>2, ResultTyped DEF Collect
    <3>2. QED
      BY <1>11, <2>0, <2>1, <2>3, <3>1 DEF Collect, TypeOK, Steps
  <2>4. QED
    BY <2>2, <2>3
<1>12. CASE Check
  <2>1. result' \in PartialTo(Reasons)
    <3>1. PICK D \in SUBSET Apps : result \in [D -> Reasons]
      BY DEF TypeOK, PartialTo
    <3>2. CASE clock >= Wall \/ seen'
      <4>1. result' \in [scope -> Reasons] /\ scope \in SUBSET Apps
        BY <1>12, <3>1, <3>2 DEF Check, TypeOK, Reasons
      <4>2. QED
        BY <4>1 DEF PartialTo
    <3>3. QED
      BY <1>12, <3>2 DEF Check, TypeOK
  <2>2. phase' \in Steps /\ left' \subseteq scope' /\ seen' \in BOOLEAN
    BY <1>12 DEF Check, TypeOK, Rest, Steps
  <2>3. QED
    BY <1>12, <2>1, <2>2 DEF Check, TypeOK
<1>13. CASE CheckRaises
  BY <1>13, ScanRaisesTyped DEF CheckRaises, TypeOK
<1>14. CASE CloseRun
  BY <1>14 DEF CloseRun, watched, TypeOK, Steps
<1>15. CASE CloseFails
  <2>1. active' \in 0..run /\ recorded' \in SUBSET (1..run)
    BY <1>15 DEF CloseFails, TypeOK
  <2>2. QED
    BY <1>15, <2>1, LeaveTyped DEF CloseFails, Exits
<1>16. CASE WrapFails
  BY <1>16, LeaveTyped DEF WrapFails, TypeOK, Exits
<1>17. CASE WriteRecord
  BY <1>17 DEF WriteRecord, watched, TypeOK, Control, Steps
<1>18. CASE Score
  <2>1. PICK how \in Exits : Leave(how)
    BY <1>18 DEF Score, Exits
  <2>2. QED
    BY <1>18, <2>1, LeaveTyped DEF Score, TypeOK
<1>19. CASE ToolExits
  BY <1>19 DEF ToolExits, watched, TypeOK
<1>20. CASE ToolSpends
  BY <1>20 DEF ToolSpends, TypeOK
<1>21. ASSUME NEW why \in {"interrupted", "error"}, PollEnds(why)  PROVE TypeOK'
  BY <1>21 DEF PollEnds, watched, TypeOK, Reasons, Steps
<1>22. CASE UNCHANGED vars
  BY <1>22 DEF vars, TypeOK
<1>23. QED
  BY <1>1, <1>2, <1>3, <1>4, <1>5, <1>6, <1>7, <1>8, <1>9, <1>10, <1>11, <1>12, <1>13, <1>14, <1>15, <1>16, <1>17, <1>18, <1>19, <1>20, <1>21, <1>22 DEF Next, Harness

(* Every step keeps to the order of the harness.                           *)
LEMMA ControlStep ==
  ASSUME BenchInv, [Next]_vars
  PROVE  Control'
<1> USE BenchAssumption DEF BenchInv
<1>0. left # {} => Current \in left /\ Current \in scope /\ Current \in Apps
  BY CurrentIsLeft
<1>1. CASE Begin
  <2>1. run' > 0
    BY <1>1 DEF Begin, TypeOK
  <2>2. QED
    BY <1>1, <2>1 DEF Begin, Control, TypeOK, watched, Before, AtTarget
<1>2. CASE Prepare
  <2>1. CASE Leave("refused")
    BY <1>2, <2>1 DEF Prepare, Leave, Control, Before, AtTarget
  <2>2. CASE phase' = "opening" /\ UNCHANGED <<run, scope, left, watched, result, error>>
    BY <1>2, <2>2 DEF Prepare, Control, watched, Before, AtTarget
  <2>3. QED
    BY <1>2, <2>1, <2>2 DEF Prepare
<1>3. CASE OpenRun
  BY <1>3 DEF OpenRun, watched, Control, AtTarget, Before
<1>4. CASE OpenRefused
  BY <1>4 DEF OpenRefused, Leave, Control, AtTarget, Before
<1>5. CASE MakeRunDir
  <2>1. scope # {}
    BY <1>5 DEF MakeRunDir, Control, Before
  <2>2. CASE fault' = "dir" /\ Leave("raised")
    BY <1>5, <2>2 DEF MakeRunDir, Leave, Control, Before, AtTarget
  <2>3. CASE phase' = "next" /\ left' = scope
    BY <1>5, <2>1, <2>3 DEF MakeRunDir, Leave, Control, watched, Before, AtTarget
  <2>4. QED
    BY <1>5, <2>2, <2>3 DEF MakeRunDir
<1>6. CASE StartRaises
  BY <1>6 DEF StartRaises, ScanRaises, Control, AtTarget, Before
<1>7. CASE Start
  BY <1>7 DEF Start, Control, AtTarget, Before
<1>8. CASE Poll
  BY <1>8 DEF Poll, Control, AtTarget, Before
<1>9. CASE Stop
  BY <1>9 DEF Stop, Control, AtTarget, Before
<1>10. CASE CollectRaises
  BY <1>10 DEF CollectRaises, ScanRaises, Control, AtTarget, Before
<1>11. CASE Collect
  BY <1>11 DEF Collect, ScanRaises, Control, AtTarget, Before
<1>12. CASE Check
  BY <1>12 DEF Check, Control, AtTarget, Before
<1>13. CASE CheckRaises
  BY <1>13 DEF CheckRaises, ScanRaises, Control, AtTarget, Before
<1>14. CASE CloseRun
  BY <1>14 DEF CloseRun, Control, AtTarget, Before
<1>15. CASE CloseFails
  BY <1>15 DEF CloseFails, Leave, Control, AtTarget, Before
<1>16. CASE WrapFails
  BY <1>16 DEF WrapFails, Leave, Control, AtTarget, Before
<1>17. CASE WriteRecord
  BY <1>17 DEF WriteRecord, Control, AtTarget, Before
<1>18. CASE Score
  BY <1>18 DEF Score, Leave, Control, AtTarget, Before
<1>19. CASE ToolExits
  BY <1>19 DEF ToolExits, watched, Control
<1>20. CASE ToolSpends
  BY <1>20 DEF ToolSpends, Control
<1>21. ASSUME NEW why \in {"interrupted", "error"}, PollEnds(why)  PROVE Control'
  BY <1>21 DEF PollEnds, Control, AtTarget, Before
<1>22. CASE UNCHANGED vars
  BY <1>22 DEF vars, Control
<1>23. QED
  BY <1>1, <1>2, <1>3, <1>4, <1>5, <1>6, <1>7, <1>8, <1>9, <1>10, <1>11, <1>12, <1>13, <1>14, <1>15, <1>16, <1>17, <1>18, <1>19, <1>20, <1>21, <1>22 DEF Next, Harness

(* Every step keeps to the time it has left.                               *)
LEMMA TimingStep ==
  ASSUME BenchInv, [Next]_vars
  PROVE  Timing'
<1> USE BenchAssumption DEF BenchInv
<1>0. left # {} => Current \in left /\ Current \in scope /\ Current \in Apps
  BY CurrentIsLeft
<1>1. CASE Begin
  BY <1>1 DEF Begin, watched, Timing
<1>2. CASE Prepare
  BY <1>2 DEF Prepare, Leave, watched, Timing, Due, Late, Larger
<1>3. CASE OpenRun
  BY <1>3 DEF OpenRun, watched, Timing
<1>4. CASE OpenRefused
  BY <1>4 DEF OpenRefused, Leave, Timing, Due, Late, Larger
<1>5. CASE MakeRunDir
  BY <1>5 DEF MakeRunDir, Leave, watched, Timing, Due, Late, Larger, Control, Before
<1>6. CASE StartRaises
  BY <1>6 DEF StartRaises, ScanRaises, watched, Timing
<1>7. CASE Start
  BY <1>7 DEF Start, Timing, TypeOK, Due, Late, Larger
<1>8. CASE Poll
  <2>1. clock' = clock \/ (clock < Wall /\ clock' = clock + PollInterval)
    BY <1>8 DEF Poll, Verdict, TypeOK
  <2>2. /\ phase' # "next" /\ Due \in Nat /\ Wall <= Due
        /\ Late \in Nat /\ PollInterval <= Late
    BY <1>8 DEF Poll, Due, Late, Larger
  <2>3. QED
    BY <1>8, <2>1, <2>2 DEF Poll, Timing, TypeOK
<1>9. CASE Stop
  BY <1>9 DEF Stop, Timing, TypeOK, Due, Late, Larger
<1>10. CASE CollectRaises
  BY <1>10 DEF CollectRaises, ScanRaises, watched, Timing
<1>11. CASE Collect
  <2>1. Due + Late + Grace \in Nat /\ \E d \in 0..LogTime : clock' = clock + d
    BY <1>11 DEF Collect, Due, Late, Larger
  <2>2. clock < Due + Late + Grace /\ phase' \in {"close", "check"} /\ clock \in Nat
    BY <1>11 DEF Collect, ScanRaises, Timing, TypeOK
  <2>3. clock' < Due + Late + Grace + LogTime
    BY <2>1, <2>2
  <2>4. QED
    BY <2>2, <2>3 DEF Timing
<1>12. CASE Check
  <2>1. phase' = "next" => clock < Wall
    BY <1>12 DEF Check, TypeOK
  <2>2. Wall <= Due /\ Due \in Nat
    BY DEF Due, Larger
  <2>3. QED
    BY <1>12, <2>1, <2>2 DEF Check, Timing, TypeOK
<1>13. CASE CheckRaises
  BY <1>13 DEF CheckRaises, ScanRaises, watched, Timing
<1>14. CASE CloseRun
  BY <1>14 DEF CloseRun, watched, Timing
<1>15. CASE CloseFails
  BY <1>15 DEF CloseFails, Leave, Timing, Due, Late, Larger
<1>16. CASE WrapFails
  BY <1>16 DEF WrapFails, Leave, Timing, Due, Late, Larger
<1>17. CASE WriteRecord
  BY <1>17 DEF WriteRecord, watched, Timing
<1>18. CASE Score
  BY <1>18 DEF Score, Leave, Timing, Due, Late, Larger
<1>19. CASE ToolExits
  BY <1>19 DEF ToolExits, watched, Timing
<1>20. CASE ToolSpends
  BY <1>20 DEF ToolSpends, Timing
<1>21. ASSUME NEW why \in {"interrupted", "error"}, PollEnds(why)  PROVE Timing'
  BY <1>21 DEF PollEnds, watched, Timing
<1>22. CASE UNCHANGED vars
  BY <1>22 DEF vars, Timing
<1>23. QED
  BY <1>1, <1>2, <1>3, <1>4, <1>5, <1>6, <1>7, <1>8, <1>9, <1>10, <1>11, <1>12, <1>13, <1>14, <1>15, <1>16, <1>17, <1>18, <1>19, <1>20, <1>21, <1>22 DEF Next, Harness

(* No step forgets a container it has started.                             *)
LEMMA ContainersStep ==
  ASSUME BenchInv, [Next]_vars
  PROVE  Containers'
<1> USE BenchAssumption DEF BenchInv
<1>0. left # {} => Current \in left /\ Current \in scope /\ Current \in Apps
  BY CurrentIsLeft
<1>1. CASE Begin
  BY <1>1 DEF Begin, Containers, TypeOK
<1>2. CASE Prepare
  BY <1>2 DEF Prepare, Leave, Containers, TypeOK, Before
<1>3. CASE OpenRun
  BY <1>3 DEF OpenRun, Containers, TypeOK, Before
<1>4. CASE OpenRefused
  BY <1>4 DEF OpenRefused, Leave, Containers, Before
<1>5. CASE MakeRunDir
  BY <1>5 DEF MakeRunDir, Leave, Containers, TypeOK, Before
<1>6. CASE StartRaises
  BY <1>6 DEF StartRaises, Desert, ScanRaises, Containers, TypeOK, Mine, AtTarget, Before
<1>7. CASE Start
  <2>1. UNCHANGED <<run, left, stuck>> /\ phase' \in {"poll", "check"} /\ phase = "next"
    BY <1>7 DEF Start
  <2>2. Mine(Current)[1] = run /\ Mine(Current)[2] = Current /\ Current' = Current
        /\ Mine(Current)' = Mine(Current)
    BY <2>1 DEF Mine, Current
  <2>3. \A c \in running : c \in stuck \cup deserted
    BY <2>1 DEF Containers
  <2>4. \/ phase' = "poll" /\ running' = running \cup {Mine(Current)} /\ UNCHANGED deserted
        \/ phase' = "check" /\ UNCHANGED <<running, deserted>>
        \/ phase' = "check" /\ Desert(Mine(Current))
    BY <1>7 DEF Start
  <2>5. \A c \in stuck \cup deserted : c[1] <= run /\ (c[1] = run => c[2] \notin left)
    BY <2>1 DEF Containers, AtTarget
  <2>6. run \in Nat
    BY DEF TypeOK
  <2>7. \A c \in (stuck \cup deserted)' : c \in stuck \cup deserted \/ (phase' = "check" /\ c = Mine(Current))
    BY <2>1, <2>4 DEF Desert
  <2>8. \A c \in running' : c \in (stuck \cup deserted)' \/ (c = Mine(Current)' /\ phase' = "poll")
    BY <2>1, <2>2, <2>3, <2>4 DEF Desert
  <2>9. QED
    BY <2>1, <2>2, <2>5, <2>6, <2>7, <2>8 DEF Containers, AtTarget, Before
<1>8. CASE Poll
  BY <1>8 DEF Poll, Containers, Mine, Current, AtTarget, Before
<1>9. CASE Stop
  BY <1>9 DEF Stop, Containers, Mine, Current, AtTarget, Before
<1>10. CASE CollectRaises
  BY <1>10 DEF CollectRaises, ScanRaises, Containers, TypeOK, Mine, AtTarget, Before
<1>11. CASE Collect
  <2>1. phase' \in {"close", "check"} /\ UNCHANGED <<run, left, deserted>>
    BY <1>11 DEF Collect, ScanRaises
  <2>2. \A c \in stuck' : c \in stuck \/ c = Mine(Current)
    BY <1>11 DEF Collect
  <2>3. \A c \in running' : c \in stuck' \cup deserted
    <3>1. PICK stays \in {Keep, TRUE} :
            /\ stuck' = IF stays THEN stuck \cup ({Mine(Current)} \cap running) ELSE stuck
            /\ running' = IF stays \/ NotRemoved THEN running ELSE running \ {Mine(Current)}
      BY <1>11 DEF Collect
    <3>2. \A c \in running : c \in stuck \cup deserted \/ c = Mine(Current)
      BY DEF Containers
    <3>3. CASE stays
      BY <3>1, <3>2, <3>3
    <3>4. CASE ~stays
      <4>1. running' = running \ {Mine(Current)} /\ stuck' = stuck
        BY <3>1, <3>4 DEF NotRemoved
      <4>2. QED
        BY <3>2, <4>1
    <3>5. QED
      BY <3>3, <3>4
  <2>4. Mine(Current)[1] = run /\ Mine(Current)[2] = Current /\ Current' = Current
    BY <2>1 DEF Mine, Current
  <2>5. QED
    BY <1>11, <2>1, <2>2, <2>3, <2>4 DEF Collect, Containers, Control, TypeOK, AtTarget, Before
<1>12. CASE Check
  BY <1>12 DEF Check, Rest, Containers, AtTarget, Before
<1>13. CASE CheckRaises
  BY <1>13 DEF CheckRaises, ScanRaises, Containers, AtTarget, Before
<1>14. CASE CloseRun
  BY <1>14 DEF CloseRun, Containers, AtTarget, Before
<1>15. CASE CloseFails
  BY <1>15 DEF CloseFails, Leave, Containers, Before
<1>16. CASE WrapFails
  BY <1>16 DEF WrapFails, Leave, Containers, Before
<1>17. CASE WriteRecord
  BY <1>17 DEF WriteRecord, Containers, AtTarget, Before
<1>18. CASE Score
  BY <1>18 DEF Score, Leave, Containers, Before
<1>19. CASE ToolExits
  BY <1>19 DEF ToolExits, Containers, Mine, Current
<1>20. CASE ToolSpends
  BY <1>20 DEF ToolSpends, Containers, Mine, Current
<1>21. ASSUME NEW why \in {"interrupted", "error"}, PollEnds(why)  PROVE Containers'
  BY <1>21 DEF PollEnds, Containers, Mine, Current, AtTarget, Before
<1>22. CASE UNCHANGED vars
  BY <1>22 DEF vars, Containers, Mine, Current
<1>23. QED
  BY <1>1, <1>2, <1>3, <1>4, <1>5, <1>6, <1>7, <1>8, <1>9, <1>10, <1>11, <1>12, <1>13, <1>14, <1>15, <1>16, <1>17, <1>18, <1>19, <1>20, <1>21, <1>22 DEF Next, Harness

(* A step that leaves the containers left alone, the run and the results   *)
(* as they are keeps Deserting.                                            *)
LEMMA DesertingKept ==
  ASSUME BenchInv, UNCHANGED run, deserted' \subseteq deserted,
         \/ error'
         \/ UNCHANGED <<result, error>> /\ (phase' \in AtTarget \cup After => phase \in AtTarget \cup After)
         \/ phase' \notin AtTarget \cup After
  PROVE  Deserting'
  BY DEF BenchInv, Deserting, AtTarget, After

(* No step credits a target whose container was left alone.                *)
LEMMA DesertingStep ==
  ASSUME BenchInv, [Next]_vars
  PROVE  Deserting'
<1> USE BenchAssumption DEF BenchInv
<1>0. left # {} => Current \in left /\ Current \in scope /\ Current \in Apps
  BY CurrentIsLeft
<1>1. CASE Begin
  BY <1>1 DEF Begin, Deserting, AtTarget, After
<1>2. CASE Prepare
  BY <1>2, DesertingKept DEF Prepare, Leave, AtTarget, After
<1>3. CASE OpenRun
  BY <1>3, DesertingKept DEF OpenRun, AtTarget, After
<1>4. CASE OpenRefused
  BY <1>4, DesertingKept DEF OpenRefused, Leave, AtTarget, After
<1>5. CASE MakeRunDir
  <2>1. CASE fault' = "dir" /\ Leave("raised")
    BY <1>5, <2>1, DesertingKept DEF Leave, AtTarget, After
  <2>2. CASE phase' = "next" /\ UNCHANGED <<run, deserted>>
    BY <1>5, <2>2 DEF MakeRunDir, Containers, TypeOK, Deserting, Before
  <2>3. QED
    BY <1>5, <2>1, <2>2 DEF MakeRunDir
<1>6. CASE StartRaises
  BY <1>6 DEF StartRaises, ScanRaises, Deserting
<1>7. CASE Start
  <2>1. UNCHANGED <<run, error>> /\ phase = "next" /\ phase' \in {"poll", "check"}
    BY <1>7 DEF Start
  <2>2. CASE UNCHANGED <<result, deserted>>
    BY <2>1, <2>2, DesertingKept DEF AtTarget
  <2>3. CASE /\ deserted' \subseteq deserted \cup {Mine(Current)}
             /\ result' = [a \in DOMAIN result \cup {Current} |->
                             IF a = Current THEN "error" ELSE result[a]]
    BY <2>1, <2>3 DEF Deserting, Mine, AtTarget
  <2>4. QED
    BY <1>7, <2>2, <2>3 DEF Start, Desert
<1>8. CASE Poll
  <2>1. phase \in AtTarget /\ UNCHANGED <<run, deserted, result, error>>
    BY <1>8 DEF Poll, AtTarget
  <2>2. QED
    BY <2>1, DesertingKept
<1>9. CASE Stop
  BY <1>9, DesertingKept DEF Stop, AtTarget
<1>10. CASE CollectRaises
  BY <1>10 DEF CollectRaises, ScanRaises, Deserting
<1>11. CASE Collect
  <2>1. UNCHANGED <<run, deserted>>
    BY <1>11 DEF Collect
  <2>2. CASE reason = "error"
    BY <1>11, <2>1, <2>2, DesertingKept DEF Collect, ScanRaises
  <2>3. CASE reason # "error"
    <3>1. /\ UNCHANGED error /\ phase = "collect"
          /\ result' = [a \in DOMAIN result \cup {Current} |->
                          IF a = Current THEN reason ELSE result[a]]
      BY <1>11, <2>3 DEF Collect
    <3>2. \A c \in deserted : c[1] = run => c[2] # Current
      BY <1>0, <3>1 DEF Containers, Control, AtTarget
    <3>3. QED
      BY <2>1, <3>1, <3>2 DEF Deserting, AtTarget
  <2>4. QED
    BY <2>2, <2>3
<1>12. CASE Check
  <2>1. UNCHANGED <<run, scope, deserted, error>> /\ phase = "check"
    BY <1>12 DEF Check
  <2>2. \A a \in DOMAIN result : a \in DOMAIN result' /\ result'[a] = result[a]
    <3>1. DOMAIN result \subseteq scope
      BY <2>1 DEF Results, AtTarget
    <3>2. QED
      BY <1>12, <3>1 DEF Check
  <2>3. QED
    BY <2>1, <2>2 DEF Deserting, AtTarget
<1>13. CASE CheckRaises
  BY <1>13 DEF CheckRaises, ScanRaises, Deserting
<1>14. CASE CloseRun
  BY <1>14, DesertingKept DEF CloseRun, After
<1>15. CASE CloseFails
  BY <1>15, DesertingKept DEF CloseFails, Leave, AtTarget, After
<1>16. CASE WrapFails
  BY <1>16, DesertingKept DEF WrapFails, Leave, AtTarget, After
<1>17. CASE WriteRecord
  BY <1>17, DesertingKept DEF WriteRecord, After
<1>18. CASE Score
  BY <1>18, DesertingKept DEF Score, Leave, AtTarget, After
<1>19. CASE ToolExits
  <2>1. deserted' \subseteq deserted /\ UNCHANGED <<run, phase, result, error>>
    BY <1>19 DEF ToolExits
  <2>2. QED
    BY <2>1, DesertingKept
<1>20. CASE ToolSpends
  BY <1>20, DesertingKept DEF ToolSpends
<1>21. ASSUME NEW why \in {"interrupted", "error"}, PollEnds(why)  PROVE Deserting'
  BY <1>21, DesertingKept DEF PollEnds, AtTarget
<1>22. CASE UNCHANGED vars
  BY <1>22, DesertingKept DEF vars
<1>23. QED
  BY <1>1, <1>2, <1>3, <1>4, <1>5, <1>6, <1>7, <1>8, <1>9, <1>10, <1>11, <1>12, <1>13, <1>14, <1>15, <1>16, <1>17, <1>18, <1>19, <1>20, <1>21, <1>22 DEF Next, Harness

(* Every step keeps the results and the targets left apart.                *)
LEMMA ResultsStep ==
  ASSUME BenchInv, [Next]_vars
  PROVE  Results'
<1> USE BenchAssumption DEF BenchInv
<1>0. left # {} => Current \in left /\ Current \in scope /\ Current \in Apps
  BY CurrentIsLeft
<1>1. CASE Begin
  BY <1>1 DEF Begin, Results, TypeOK, Gone, Mine, Containers, AtTarget, After
<1>2. CASE Prepare
  BY <1>2 DEF Prepare, Leave, Results, TypeOK, Gone, Mine, Containers, AtTarget, Before, After
<1>3. CASE OpenRun
  BY <1>3 DEF OpenRun, Results, Gone, Mine, AtTarget, After
<1>4. CASE OpenRefused
  BY <1>4 DEF OpenRefused, Leave, Results, TypeOK, Gone, Mine, Containers, AtTarget, Before, After
<1>5. CASE MakeRunDir
  <2>1. CASE fault' = "dir" /\ Leave("raised")
    BY <1>5, <2>1, NoneTyped DEF MakeRunDir, Leave, Results, AtTarget, After
  <2>2. CASE phase' = "next" /\ left' = scope
    <3>1. DOMAIN result' = {} /\ scope' \ left' = {}
      BY <1>5, <2>2, NoneTyped DEF MakeRunDir, Leave, Control, Before
    <3>2. QED
      BY <1>5, <2>2, <3>1 DEF MakeRunDir, Results, AtTarget, After
  <2>3. QED
    BY <1>5, <2>1, <2>2 DEF MakeRunDir
<1>6. CASE StartRaises
  BY <1>6, NoneTyped DEF StartRaises, ScanRaises, Results, AtTarget, After
<1>7. CASE Start
  <2>1. Current \in left /\ Current \in scope /\ DOMAIN result = scope \ left
    BY <1>0, <1>7 DEF Start, Control, Results, AtTarget
  <2>2. CASE phase' = "poll" /\ running' = running \cup {Mine(Current)} /\ UNCHANGED result
    <3>1. \A a \in DOMAIN result : a # Current /\ (Gone(a) => Gone(a)')
      BY <1>7, <2>1, <2>2 DEF Start, Gone, Mine
    <3>2. QED
      BY <1>7, <2>1, <2>2, <3>1 DEF Start, Results, AtTarget, After
  <2>3. CASE /\ phase' = "check" /\ running' \subseteq running \cup {Mine(Current)}
             /\ result' = [a \in DOMAIN result \cup {Current} |->
                             IF a = Current THEN "error" ELSE result[a]]
    <3>1. Current' = Current /\ \A a : a # Current /\ Gone(a) => Gone(a)'
      BY <1>7, <2>3 DEF Start, Gone, Mine, Current
    <3>2. DOMAIN result' = scope \ (left \ {Current})
      BY <2>1, <2>3
    <3>3. \A a \in DOMAIN result' : result'[a] = "completed" => Gone(a)'
      BY <2>3, <3>1 DEF Results
    <3>4. QED
      BY <1>7, <2>3, <3>1, <3>2, <3>3 DEF Start, Results, AtTarget, After
  <2>4. QED
    BY <1>7, <2>2, <2>3 DEF Start, Desert
<1>8. CASE Poll
  <2>1. phase' \in {"poll", "stop", "collect"} /\ UNCHANGED <<run, scope, left, result, running>>
    BY <1>8 DEF Poll
  <2>2. lost \subseteq lost' /\ Current' = Current
    BY <1>8 DEF Poll, Current
  <2>3. \A a : Gone(a) => Gone(a)'
    BY <2>1, <2>2 DEF Gone, Mine
  <2>4. phase' = "stop" => reason' # "completed"
    BY <1>8 DEF Poll, Verdict
  <2>5. ASSUME phase' = "collect", reason' = "completed"  PROVE Gone(Current)'
    <3>1. Current \in lost' \/ Mine(Current) \notin running
      BY <1>8, <2>5 DEF Poll, Verdict
    <3>2. QED
      BY <2>1, <2>2, <3>1 DEF Gone, Mine
  <2>6. QED
    BY <1>8, <2>1, <2>3, <2>4, <2>5 DEF Poll, Results, AtTarget, After
<1>9. CASE Stop
  BY <1>9 DEF Stop, Results, Gone, Mine, AtTarget, After
<1>10. CASE CollectRaises
  BY <1>10, NoneTyped DEF CollectRaises, ScanRaises, Results, AtTarget, After
<1>11. CASE Collect
  <2>1. CASE reason = "error"
    BY <1>11, <2>1, NoneTyped DEF Collect, ScanRaises, Results, AtTarget, After
  <2>2. CASE reason # "error"
    <3>1. /\ phase' = "check" /\ UNCHANGED <<run, scope, left, lost>> /\ running' \subseteq running
          /\ result' = [a \in DOMAIN result \cup {Current} |->
                          IF a = Current THEN reason ELSE result[a]]
      BY <1>11, <2>2 DEF Collect
    <3>2. Current' = Current /\ \A a : Gone(a) => Gone(a)'
      BY <3>1 DEF Gone, Mine, Current
    <3>3. DOMAIN result' = scope \ (left \ {Current})
      BY <1>0, <1>11, <3>1 DEF Collect, Results, Control, AtTarget, TypeOK
    <3>4. \A a \in DOMAIN result' : result'[a] = "completed" => Gone(a)'
      BY <1>11, <3>1, <3>2 DEF Collect, Results
    <3>5. QED
      BY <3>1, <3>2, <3>3, <3>4 DEF Results, AtTarget, After
  <2>3. QED
    BY <2>1, <2>2
<1>12. CASE Check
  BY <1>12 DEF Check, Rest, Results, Gone, Mine, AtTarget, After
<1>13. CASE CheckRaises
  BY <1>13, NoneTyped DEF CheckRaises, ScanRaises, Results, AtTarget, After
<1>14. CASE CloseRun
  BY <1>14 DEF CloseRun, Results, Gone, Mine, AtTarget, After
<1>15. CASE CloseFails
  BY <1>15, NoneTyped DEF CloseFails, Leave, Results, AtTarget, After
<1>16. CASE WrapFails
  BY <1>16, NoneTyped DEF WrapFails, Leave, Results, AtTarget, After
<1>17. CASE WriteRecord
  BY <1>17 DEF WriteRecord, Results, Gone, Mine, AtTarget, After
<1>18. CASE Score
  BY <1>18, NoneTyped DEF Score, Leave, Results, AtTarget, After
<1>19. CASE ToolExits
  BY <1>19 DEF ToolExits, Results, Gone, Mine, Current
<1>20. CASE ToolSpends
  BY <1>20 DEF ToolSpends, Results, Gone, Mine, Current
<1>21. ASSUME NEW why \in {"interrupted", "error"}, PollEnds(why)  PROVE Results'
  BY <1>21 DEF PollEnds, Results, Gone, Mine, AtTarget, After
<1>22. CASE UNCHANGED vars
  BY <1>22 DEF vars, Results, Gone, Mine, Current
<1>23. QED
  BY <1>1, <1>2, <1>3, <1>4, <1>5, <1>6, <1>7, <1>8, <1>9, <1>10, <1>11, <1>12, <1>13, <1>14, <1>15, <1>16, <1>17, <1>18, <1>19, <1>20, <1>21, <1>22 DEF Next, Harness

(* What is raised is known where it matters.                               *)
LEMMA FaultsStep ==
  ASSUME BenchInv, [Next]_vars
  PROVE  Faults'
<1> USE BenchAssumption DEF BenchInv
<1>0. left # {} => Current \in left /\ Current \in scope /\ Current \in Apps
  BY CurrentIsLeft
<1>1. CASE Begin
  BY <1>1 DEF Begin, Faults, TypeOK, ScanFailureIsRecorded
<1>2. CASE Prepare
  BY <1>2 DEF Prepare, Leave, Faults, TypeOK, ScanFailureIsRecorded, Before
<1>3. CASE OpenRun
  BY <1>3 DEF OpenRun, Faults, ScanFailureIsRecorded, Before
<1>4. CASE OpenRefused
  BY <1>4 DEF OpenRefused, Leave, Faults, ScanFailureIsRecorded, AtTarget, Before, After
<1>5. CASE MakeRunDir
  BY <1>5 DEF MakeRunDir, Leave, Faults, ScanFailureIsRecorded, AtTarget, Before, After
<1>6. CASE StartRaises
  BY <1>6 DEF StartRaises, ScanRaises, Faults, ScanFailureIsRecorded, AtTarget, Before
<1>7. CASE Start
  BY <1>7 DEF Start, Faults, ScanFailureIsRecorded, AtTarget
<1>8. CASE Poll
  BY <1>8 DEF Poll, Faults, ScanFailureIsRecorded, AtTarget
<1>9. CASE Stop
  BY <1>9 DEF Stop, Faults, ScanFailureIsRecorded, AtTarget
<1>10. CASE CollectRaises
  BY <1>10 DEF CollectRaises, ScanRaises, Faults, ScanFailureIsRecorded, AtTarget, Before
<1>11. CASE Collect
  BY <1>11 DEF Collect, ScanRaises, Faults, ScanFailureIsRecorded, AtTarget, Before
<1>12. CASE Check
  BY <1>12 DEF Check, Faults, ScanFailureIsRecorded, AtTarget
<1>13. CASE CheckRaises
  BY <1>13 DEF CheckRaises, ScanRaises, Faults, ScanFailureIsRecorded, AtTarget, Before
<1>14. CASE CloseRun
  BY <1>14 DEF CloseRun, Faults, ScanFailureIsRecorded, AtTarget, Before, After
<1>15. CASE CloseFails
  BY <1>15 DEF CloseFails, Leave, Faults, ScanFailureIsRecorded, AtTarget, Before, After
<1>16. CASE WrapFails
  BY <1>16 DEF WrapFails, Leave, Faults, ScanFailureIsRecorded, AtTarget, Before, After
<1>17. CASE WriteRecord
  BY <1>17 DEF WriteRecord, Faults, ScanFailureIsRecorded, AtTarget, Before, After
<1>18. CASE Score
  BY <1>18 DEF Score, Leave, Faults, ScanFailureIsRecorded, AtTarget, Before, After
<1>19. CASE ToolExits
  BY <1>19 DEF ToolExits, Faults, ScanFailureIsRecorded
<1>20. CASE ToolSpends
  BY <1>20 DEF ToolSpends, Faults, ScanFailureIsRecorded
<1>21. ASSUME NEW why \in {"interrupted", "error"}, PollEnds(why)  PROVE Faults'
  BY <1>21 DEF PollEnds, Faults, ScanFailureIsRecorded, AtTarget
<1>22. CASE UNCHANGED vars
  BY <1>22 DEF vars, Faults, ScanFailureIsRecorded
<1>23. QED
  BY <1>1, <1>2, <1>3, <1>4, <1>5, <1>6, <1>7, <1>8, <1>9, <1>10, <1>11, <1>12, <1>13, <1>14, <1>15, <1>16, <1>17, <1>18, <1>19, <1>20, <1>21, <1>22 DEF Next, Harness

(* The invariant holds before the first run.                               *)
LEMMA InitInv == Init => BenchInv
<1> SUFFICES ASSUME Init PROVE BenchInv
  OBVIOUS
<1>1. TypeOK
  <2>1. run \in 0..MaxRuns /\ active \in 0..run /\ share \in [since : Nat, ticks : Nat]
    BY BenchAssumption DEF Init
  <2>2. phase \in Steps /\ reason \in Reasons /\ exit \in Exits
    BY DEF Init, Steps, Reasons, Exits
  <2>3. QED
    BY <2>1, <2>2, NoneTyped DEF Init, TypeOK
<1>2. Control /\ Containers /\ Deserting /\ Faults
  BY DEF Init, Control, Containers, Deserting, Faults, ScanFailureIsRecorded, Before, AtTarget, After
<1>3. Timing
  BY BenchAssumption DEF Init, Timing, Due, Late, Larger
<1>4. Results
  BY NoneTyped DEF Init, Results, AtTarget, After
<1>5. QED
  BY <1>1, <1>2, <1>3, <1>4 DEF BenchInv

(* BenchInv is inductive, so that it holds all the time.                   *)
LEMMA AlwaysBenchInv == Spec => []BenchInv
<1>1. BenchInv /\ [Next]_vars => BenchInv'
  BY TypeOKStep, ControlStep, TimingStep, ContainersStep, DesertingStep, ResultsStep, FaultsStep DEF BenchInv
<1>2. QED
  BY <1>1, InitInv, PTL DEF Spec

(* Every state of the harness is well typed.                               *)
THEOREM BenchTypeCorrect == Spec => []TypeOK
<1>1. BenchInv => TypeOK
  BY DEF BenchInv
<1>2. QED
  BY <1>1, AlwaysBenchInv, PTL

(* The scan overruns its budget by one start or turn, one stop and one log *)
(* at most.                                                                *)
THEOREM ScanKeepsToBudget == Spec => []OverrunBounded
<1>1. BenchInv => OverrunBounded
  BY DEF BenchInv, Timing, Due, Late, OverrunBounded
<1>2. QED
  BY <1>1, AlwaysBenchInv, PTL

(* The run's reason is "completed" only if nothing was raised and that is  *)
(* what every target came to.                                              *)
LEMMA CompletedResults ==
  ASSUME BenchInv, phase = "score", StopReason = "completed"
  PROVE  ~error /\ DOMAIN result = scope /\ \A a \in scope : result[a] = "completed"
<1> DEFINE found == {k \in DOMAIN Precedence : \E b \in DOMAIN result : result[b] = Precedence[k]}
<1>1. found \subseteq 1..4 /\ \A k \in 1..4 : Precedence[k] # "completed"
  BY DEF Precedence
<1>2. found = {}
  <2> SUFFICES ASSUME found # {} PROVE FALSE
    OBVIOUS
  <2>1. Min(found) \in found
    <3>1. IsFiniteSet(1..4)
      <4>1. 1 \in Int /\ 4 \in Int
        OBVIOUS
      <4>2. QED
        BY <4>1, FS_Interval, Zenon
    <3>2. IsFiniteSet(found) /\ found \in SUBSET Nat
      BY <1>1, <3>1, FS_Subset
    <3>3. QED
      BY <3>2, MinOfNats
  <2>2. StopReason = Precedence[Min(found)]
    BY DEF StopReason
  <2>3. QED
    BY <1>1, <2>1, <2>2
<1>3. ~error /\ DOMAIN result = scope
  BY <1>2 DEF StopReason, BenchInv, Results, After
<1>4. ASSUME NEW a \in scope PROVE result[a] = "completed"
  <2>1. result[a] \in Reasons
    <3>1. PICK D \in SUBSET Apps : result \in [D -> Reasons]
      BY DEF BenchInv, TypeOK, PartialTo
    <3>2. QED
      BY <1>3, <3>1
  <2>2. \A r \in Reasons : r = "completed" \/ \E k \in DOMAIN Precedence : Precedence[k] = r
    BY DEF Reasons, Precedence
  <2>3. QED
    BY <1>2, <1>3, <2>1, <2>2
<1>5. QED
  BY <1>3, <1>4

(* "completed" is said only of a run whose every target was scanned until  *)
(* its tool ended.                                                         *)
THEOREM CompletedMeansWhole == Spec => []CompletedIsWhole
<1>1. ASSUME BenchInv, phase = "score", StopReason = "completed", NEW a \in scope
      PROVE  a \in DOMAIN result /\ result[a] = "completed" /\ Gone(a)
  BY <1>1, CompletedResults DEF BenchInv, Results
<1>2. BenchInv => CompletedIsWhole
  BY <1>1 DEF CompletedIsWhole, Gone
<1>3. QED
  BY <1>2, AlwaysBenchInv, PTL

(* What runs beside the target at hand is a container that docker was      *)
(* asked to remove and did not (or --keep-containers was given), or one    *)
(* that nobody asked it to remove, and then no run it belongs to is called *)
(* completed.                                                              *)
THEOREM StrangersAreKnown == Spec => []NoStrangerScans
<1>1. ASSUME BenchInv, NEW c \in running \ (stuck \cup deserted)
      PROVE  c[1] = run /\ c[2] \in left /\ phase \in {"poll", "stop", "collect"}
  BY <1>1, CurrentIsLeft DEF BenchInv, Control, Containers, Mine, AtTarget
<1>2. ASSUME BenchInv, phase = "score", StopReason = "completed", NEW c \in deserted
      PROVE  c[1] # run
  <2>1. ~error /\ DOMAIN result = scope /\ \A a \in scope : result[a] = "completed"
    BY <1>2, CompletedResults
  <2>2. QED
    BY <1>2, <2>1 DEF BenchInv, Deserting, After
<1>3. BenchInv => NoStrangerScans
  BY <1>1, <1>2 DEF NoStrangerScans
<1>4. QED
  BY <1>3, AlwaysBenchInv, PTL

(* A failed scan leaves its record, a run that is not closed a reason, and *)
(* "ok" is the exit of a run in which nothing was raised.                  *)
THEOREM ScanFailureLeavesRecord == Spec => []ScanFailureIsRecorded
<1>1. BenchInv => ScanFailureIsRecorded
  BY DEF BenchInv, Faults
<1>2. QED
  BY <1>1, AlwaysBenchInv, PTL
=============================================================================
