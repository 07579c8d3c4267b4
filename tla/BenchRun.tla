------------------------------- MODULE BenchRun -------------------------------
(***************************************************************************)
(* Benchmark runs, one after another: the harness prepares the targets in  *)
(* scope, opens a run on the collector, lets the tool loose on one target  *)
(* after the other within a budget, closes the run, writes its record and  *)
(* scores it.  What happens to the targets is in ResetGate.                *)
(* Sources: runners/orchestrate.py (Orchestrator.run), runners/_lib/       *)
(* {driver,budget,collector,dockerctl}.py.                                 *)
(*                                                                         *)
(* Any call to docker or to the collector may fail at any time, and the    *)
(* operator may press ^C.  One harness runs at a time; the tool's          *)
(* containers run beside it.  Time is in half seconds from the start of    *)
(* the scan; only waiting, starting, stopping and the logs take any.       *)
(***************************************************************************)
EXTENDS Integers, FiniteSets, FiniteSetsExt

CONSTANTS
  Apps,         \* targets, numbered in the order of apps.yaml
  Wall,         \* budget.wall_clock_s
  PollInterval, \* budget.poll_interval_s
  Grace,        \* budget.grace_s: what stopping may take
  StartTime,    \* what starting a container may take
  LogTime,      \* what waiting for the end of its log may take
  Keep,         \* --keep-containers
  MaxRuns       \* bound: runs of the harness

ASSUME BenchAssumption ==
  /\ Apps \subseteq Nat /\ IsFiniteSet(Apps) /\ Keep \in BOOLEAN
  /\ Wall \in Nat /\ PollInterval \in Nat /\ Grace \in Nat
  /\ StartTime \in Nat /\ LogTime \in Nat /\ MaxRuns \in Nat

VARIABLES
  phase,    \* where the harness is; "idle" between runs
  run,      \* the number of the run
  scope,    \* --app
  left,     \* targets still to be scanned
  active,   \* at the collector: the active run, or 0
  clock,    \* BudgetWatch.elapsed
  share,    \* when the present target's own watch started, and its share
  reason,   \* stop_reason of the present target
  result,   \* results: the stop_reason of each target dealt with
  report,   \* targets that left all their artifacts
  error,    \* run_error is set
  spent,    \* at the collector: has the tool used up max_requests
  seen,     \* has the run's watch seen that
  running,  \* containers running, by run and target
  recorded, \* runs that have a run.json
  exit,     \* how the last run of the harness ended
  fault,    \* history: the step that raised last in this run
  stuck,    \* history: running containers that docker did not remove
  deserted, \* history: running containers that nobody tried to remove
  lost      \* history: targets whose container was last seen as gone when it was not

vars == <<phase, run, scope, left, active, clock, share, reason, result, report, error, spent,
          seen, running, recorded, exit, fault, stuck, deserted, lost>>
watched == <<clock, spent, seen>>

None == [x \in {} |-> "none"]
Reasons == {"completed", "wall", "requests", "interrupted", "error"}
Exits == {"none", "ok", "usage", "refused", "no_report", "score", "raised"}
Steps == {"idle", "prepare", "opening", "opened", "next", "poll", "stop", "collect", "check",
          "close", "wrap", "score"}
PartialTo(S) == UNION {[D -> S] : D \in SUBSET Apps}
Mine(a) == <<run, a>>
Current == Min(left)

TypeOK ==
  /\ phase \in Steps /\ run \in 0..MaxRuns /\ scope \subseteq Apps /\ left \subseteq scope
  /\ active \in 0..run
  /\ clock \in Nat /\ share \in [since : Nat, ticks : Nat]
  /\ reason \in Reasons /\ result \in PartialTo(Reasons) /\ report \subseteq Apps
  /\ error \in BOOLEAN /\ spent \in BOOLEAN /\ seen \in BOOLEAN
  /\ running \subseteq (1..MaxRuns) \X Apps
  /\ recorded \subseteq 1..run /\ exit \in Exits
  /\ fault \in {"none", "scan", "open", "dir", "close", "wrap"}
  /\ stuck \subseteq running /\ deserted \subseteq running /\ lost \subseteq Apps

Init ==
  /\ phase = "idle" /\ run = 0 /\ scope = {} /\ left = {}
  /\ active = 0 /\ clock = 0 /\ share = [since |-> 0, ticks |-> 0] /\ reason = "error"
  /\ result = None /\ report = {} /\ error = FALSE /\ spent = FALSE /\ seen = FALSE
  /\ running = {} /\ recorded = {} /\ exit = "none" /\ fault = "none"
  /\ stuck = {} /\ deserted = {} /\ lost = {}
-----------------------------------------------------------------------------
(* What one run of the harness leaves to the next: the records, the        *)
(* collector, and containers that are still there.                         *)
Leave(how) ==
  /\ phase' = "idle" /\ exit' = how
  /\ scope' = {} /\ left' = {}
  /\ clock' = 0 /\ share' = [since |-> 0, ticks |-> 0] /\ reason' = "error"
  /\ result' = None /\ report' = {} /\ error' = FALSE /\ spent' = FALSE /\ seen' = FALSE
  /\ lost' = {}
  /\ UNCHANGED <<run, running, stuck, deserted>>

Begin ==
  /\ phase = "idle" /\ run < MaxRuns /\ run' = run + 1
  /\ scope' \in (SUBSET Apps) \ {{}}
  /\ phase' = "prepare" /\ exit' = "none" /\ fault' = "none"
  /\ UNCHANGED <<left, active, watched, share, reason, result, report, error, running, recorded,
                 stuck, deserted, lost>>

(* The collector's health, the reset, topology, preflight, login, version, *)
(* preparation: nothing is open yet.                                       *)
Prepare ==
  /\ phase = "prepare"
  /\ \/ /\ phase' = "opening"
        /\ UNCHANGED <<scope, left, watched, share, reason, result, report, error, running,
                       exit, stuck, deserted, lost, run>>
     \/ Leave("refused")
  /\ UNCHANGED <<active, recorded, fault>>

(* open_run(); with --force it closes a run that is still active.          *)
OpenRun ==
  /\ phase = "opening"
  /\ active' = run /\ phase' = "opened"
  /\ UNCHANGED <<run, scope, left, watched, share, reason, result, report, error, running,
                 recorded, exit, fault, stuck, deserted, lost>>

(* 409 for a run that is still active, or any other failure; what is lost  *)
(* may be the answer only.                                                 *)
OpenRefused ==
  /\ phase = "opening"
  /\ active' \in {active, run}
  /\ fault' = "open" /\ Leave("usage")
  /\ UNCHANGED recorded

(* The run directory and the context, before any try.                      *)
MakeRunDir ==
  /\ phase = "opened"
  /\ \/ /\ phase' = "next" /\ left' = scope
        /\ UNCHANGED <<run, scope, watched, share, reason, result, report, error, running,
                       exit, fault, stuck, deserted, lost>>
     \/ fault' = "dir" /\ Leave("raised")
  /\ UNCHANGED <<active, recorded>>
-----------------------------------------------------------------------------
(* BaseDriver.run().                                                       *)

(* Mutant: an exception of the tool's run ends the harness.                *)
ScanRaisesOut ==
  /\ phase' = "idle" /\ error' = TRUE /\ fault' = "scan"
  /\ result' = None /\ report' = {} /\ lost' = {}

(* An exception: what the targets before it came to is lost.               *)
ScanRaises ==
  /\ phase' = "close" /\ error' = TRUE /\ fault' = "scan"
  /\ result' = None /\ report' = {} /\ lost' = {}

(* int(max(1.0, remaining / targets left)) seconds.                        *)
ShareOf(rest) ==
  LET fair == (IF clock < Wall THEN Wall - clock ELSE 0) \div rest
  IN 2 * ((IF fair < 2 THEN 2 ELSE fair) \div 2)

(* A container that is there although the harness has no handle of it.     *)
Desert(c) == running' = running \cup {c} /\ deserted' = deserted \cup {c}

(* plan() raises, or ^C hits `docker run`, when the container may be there *)
(* already.                                                                *)
StartRaises ==
  /\ phase = "next" /\ ScanRaises
  /\ UNCHANGED <<running, deserted>> \/ Desert(Mine(Current))
  /\ UNCHANGED <<run, scope, left, active, watched, share, reason, recorded, exit, stuck>>

(* run_detached().  The image, the container or its log may fail: in the   *)
(* last case it runs, and it may when docker has not answered in time.     *)
Start ==
  /\ phase = "next"
  /\ \E d \in 0..StartTime :
       /\ clock' = clock + d
       /\ share' = [since |-> clock + d, ticks |-> ShareOf(Cardinality(left))]
  /\ \/ phase' = "poll" /\ running' = running \cup {Mine(Current)} /\ UNCHANGED <<result, deserted>>
     \/ /\ phase' = "check"
        /\ UNCHANGED <<running, deserted>> \/ Desert(Mine(Current))
        /\ result' = [a \in DOMAIN result \cup {Current} |->
                        IF a = Current THEN "error" ELSE result[a]]
  /\ reason' = "error"
  /\ UNCHANGED <<run, scope, left, active, report, error, spent, seen, recorded, exit, fault,
                 stuck, lost>>

LocalWall == clock - share.since >= share.ticks

(* Mutant: only a target's own share stops it.                             *)
VerdictOwnShare(up, meter) ==
  IF ~up THEN "completed" ELSE IF LocalWall THEN "wall" ELSE IF meter THEN "requests" ELSE "none"

(* The two watches: the target's own, then the run's.                      *)
Verdict(up, meter) ==
  IF ~up THEN "completed" ELSE IF LocalWall THEN "wall" ELSE IF meter THEN "requests"
  ELSE IF clock >= Wall THEN "wall" ELSE IF seen THEN "requests" ELSE "none"

(* One turn of the loop.  `docker inspect` that fails reads as a container *)
(* that is gone, a meter that fails as no requests.                        *)
Poll ==
  /\ phase = "poll"
  /\ \E up \in {Mine(Current) \in running, FALSE}, meter \in {spent, FALSE} :
       /\ seen' = (seen \/ meter)
       /\ lost' = IF ~up /\ Mine(Current) \in running THEN lost \cup {Current} ELSE lost
       /\ IF Verdict(up, meter) = "none"
          THEN clock' = clock + PollInterval /\ UNCHANGED <<phase, reason>>
          ELSE /\ phase' = IF Verdict(up, meter) = "completed" THEN "collect" ELSE "stop"
               /\ reason' = Verdict(up, meter) /\ UNCHANGED clock
  /\ UNCHANGED <<run, scope, left, active, share, result, report, error, spent, running, recorded,
                 exit, fault, stuck, deserted>>

(* ^C ends the present target only; anything else raised there goes on up  *)
(* once the container is removed.                                          *)
PollEnds(why) ==
  /\ phase = "poll" /\ phase' = "stop" /\ reason' = why
  /\ UNCHANGED <<run, scope, left, active, watched, share, result, report, error, running, recorded,
                 exit, fault, stuck, deserted, lost>>

(* `docker stop`, whose failure is only logged, if that.                   *)
Stop ==
  /\ phase = "stop" /\ phase' = "collect"
  /\ \E g \in 0..Grace : clock' = clock + g
  /\ running' \in {running, running \ {Mine(Current)}}
  /\ UNCHANGED <<run, scope, left, active, share, reason, result, report, error, spent, seen,
                 recorded, exit, fault, stuck, deserted, lost>>

(* A second ^C, or exit_code() raising: nothing removes the container.     *)
CollectRaises ==
  /\ phase \in {"stop", "collect"} /\ ScanRaises
  /\ deserted' = deserted \cup ({Mine(Current)} \cap running)
  /\ UNCHANGED <<run, scope, left, active, watched, share, reason, running, recorded, exit, stuck>>

(* Mutant: what has completed by itself needs no removing.                 *)
NotRemovedIfCompleted == Keep \/ reason = "completed"

NotRemoved == Keep

(* exit_code(), close_logs(), `docker rm -f`, the artifacts.               *)
Collect ==
  /\ phase = "collect"
  /\ \E d \in 0..LogTime : clock' = clock + d
  /\ \E stays \in {Keep, TRUE} :
       /\ stuck' = IF stays THEN stuck \cup ({Mine(Current)} \cap running) ELSE stuck
       /\ running' = IF stays \/ NotRemoved THEN running ELSE running \ {Mine(Current)}
  /\ IF reason = "error" THEN ScanRaises
     ELSE /\ phase' = "check"
          /\ result' = [a \in DOMAIN result \cup {Current} |->
                          IF a = Current THEN reason ELSE result[a]]
          /\ report' \in {report, report \cup {Current}}
          /\ UNCHANGED <<error, fault, lost>>
  /\ UNCHANGED <<run, scope, left, active, spent, seen, share, reason, recorded, exit, deserted>>

(* Mutant: a target that could not be started is tried again.              *)
RestWithRetries == IF result[Current] = "error" THEN left ELSE left \ {Current}

Rest == left \ {Current}

(* Between two targets: the meter, unguarded, and the run's watch.  Those  *)
(* there is no budget left for are recorded as such.                       *)
Check ==
  /\ phase = "check"
  /\ seen' = (seen \/ spent)
  /\ left' = Rest
  /\ IF clock >= Wall \/ seen'
     THEN /\ phase' = "close"
          /\ result' = [a \in scope |-> IF a \in DOMAIN result THEN result[a]
                                        ELSE IF clock >= Wall THEN "wall" ELSE "requests"]
     ELSE /\ phase' = IF left' = {} THEN "close" ELSE "next"
          /\ UNCHANGED result
  /\ UNCHANGED <<run, scope, active, clock, share, reason, report, error, spent, running, recorded,
                 exit, fault, stuck, deserted, lost>>

CheckRaises ==
  /\ phase = "check" /\ ScanRaises
  /\ UNCHANGED <<run, scope, left, active, watched, share, reason, running, recorded, exit, stuck,
                 deserted>>
-----------------------------------------------------------------------------
(* The finally clause: close_run(), then the count and the export.         *)
CloseRun ==
  /\ phase = "close" /\ phase' = "wrap"
  /\ active' = 0
  /\ UNCHANGED <<run, scope, left, watched, share, reason, result, report, error, running, recorded,
                 exit, fault, stuck, deserted, lost>>

(* It may have been closed all the same.                                   *)
CloseFails ==
  /\ phase = "close" /\ active' \in {active, 0}
  /\ fault' = "close" /\ Leave("raised")
  /\ UNCHANGED recorded

(* Export, digests after the run, normalisation, the record itself.        *)
WrapFails ==
  /\ phase = "wrap" /\ fault' = "wrap" /\ Leave("raised")
  /\ UNCHANGED <<active, recorded>>

WriteRecord ==
  /\ phase = "wrap" /\ phase' = "score"
  /\ recorded' = recorded \cup {run}
  /\ UNCHANGED <<run, scope, left, active, watched, share, reason, result, report, error, running,
                 exit, fault, stuck, deserted, lost>>

(* Mutant: an error is not among the reasons looked for.                   *)
PrecedenceNoError == <<"wall", "requests", "interrupted">>

(* _build_record(): the run's stop reason.                                 *)
Precedence == <<"wall", "requests", "error", "interrupted">>

StopReason ==
  LET found == {k \in DOMAIN Precedence : \E a \in DOMAIN result : result[a] = Precedence[k]}
  IN IF found # {} THEN Precedence[Min(found)] ELSE IF error THEN "error" ELSE "completed"

(* The score, and what the harness says of it all.  The record is written  *)
(* again.                                                                  *)
Score ==
  /\ phase = "score"
  /\ \E how \in {"ok", "score", "raised"} :
       Leave(IF how = "raised" THEN how
             ELSE IF error \/ (DOMAIN result # {} /\ report = {}) THEN "no_report" ELSE how)
  /\ UNCHANGED <<active, recorded, fault>>
-----------------------------------------------------------------------------
(* The tool: it ends, or uses up its requests.                             *)
ToolExits ==
  /\ \E c \in running :
       running' = running \ {c} /\ stuck' = stuck \ {c} /\ deserted' = deserted \ {c}
  /\ UNCHANGED <<phase, run, scope, left, active, watched, share, reason, result, report, error,
                 recorded, exit, fault, lost>>

ToolSpends ==
  /\ ~spent /\ running # {} /\ active = run /\ phase # "idle"
  /\ spent' = TRUE
  /\ UNCHANGED <<phase, run, scope, left, active, clock, seen, share, reason, result, report, error,
                 running, recorded, exit, fault, stuck, deserted, lost>>

Harness ==
  \/ Prepare \/ OpenRun \/ OpenRefused
  \/ MakeRunDir \/ StartRaises \/ Start \/ Poll \/ Stop \/ CollectRaises \/ Collect
  \/ Check \/ CheckRaises \/ CloseRun \/ CloseFails \/ WrapFails \/ WriteRecord \/ Score

Next ==
  \/ Begin \/ Harness \/ (\E why \in {"interrupted", "error"} : PollEnds(why))
  \/ ToolExits \/ ToolSpends

Spec == Init /\ [][Next]_vars

(* The harness goes on as long as it has something to do.                  *)
FairSpec == Spec /\ WF_vars(Harness)
-----------------------------------------------------------------------------
Larger(x, y) == IF x > y THEN x ELSE y

(* However the shares of the targets are rounded up and down, and however  *)
(* often the clock is late to be read, the scan as a whole overruns its    *)
(* budget by one start or one turn of the loop, one stop and one log at    *)
(* most.  The first target is started whatever the budget.                 *)
OverrunBounded == clock < Larger(Wall, 1) + Larger(StartTime, PollInterval) + Grace + LogTime

(* "completed" says that every target of the run was scanned until its     *)
(* tool ended by itself: none was left out, cut off, interrupted or never  *)
(* started.  (Or until docker did not see it any more.)                    *)
CompletedIsWhole ==
  phase = "score" /\ StopReason = "completed" =>
    \A a \in scope : /\ a \in DOMAIN result /\ result[a] = "completed"
                     /\ a \in lost \/ Mine(a) \notin running

(* A tool may still run when its target is done with, beside the next      *)
(* target and the next run, which are credited with what it does.  Then    *)
(* docker has been asked to remove it and has not (or --keep-containers    *)
(* was given); or nobody has asked, because its start was reported as      *)
(* failed or an exception cut the scan short, and then the record of the   *)
(* run it belongs to does not call it completed.                           *)
NoStrangerScans ==
  /\ \A c \in running \ (stuck \cup deserted) :
       c[1] = run /\ c[2] \in left /\ phase \in {"poll", "stop", "collect"}
  /\ phase = "score" /\ StopReason = "completed" => \A c \in deserted : c[1] # run

(* A run whose scan failed leaves a record all the same, unless closing it *)
(* or writing it fails as well; nothing but the collector's answer or the  *)
(* run's directory leaves it open on the collector; and the harness says   *)
(* it went well only if all of it did.                                     *)
ScanFailureIsRecorded ==
  phase = "idle" /\ run > 0 =>
    /\ fault = "scan" => run \in recorded
    /\ active = run => fault \in {"open", "dir", "close"}
    /\ exit = "ok" => fault = "none"

(* The harness never hangs: every run comes to an end, also when the tool  *)
(* never does.                                                             *)
EveryRunEnds == phase # "idle" ~> phase = "idle"
=============================================================================
