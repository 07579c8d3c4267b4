--------------------------- MODULE CollectorRunLog ---------------------------
(***************************************************************************)
(* The collector implements RunLog, as long as a COMMIT that raises has    *)
(* not been applied.                                                       *)
(***************************************************************************)
EXTENDS Collector

(* A run is open from its INSERT until active_run_id is cleared; while the *)
(* process is down, what it will re-adopt is what the database says.       *)
OpenRun ==
  LET publishing == {c \in Callers : call[c].pc = "publish"} IN
  IF ~up THEN (IF Active = {} THEN None ELSE CHOOSE r \in Active : TRUE)
  ELSE IF publishing # {} THEN call[CHOOSE c \in publishing : TRUE].run
  ELSE pointer

(* A run's rows by their numbers: the row at place i has i rows numbered   *)
(* no higher, itself among them.                                           *)
Rank(R, y) == Cardinality({z \in R : z.seq <= y.seq})

InOrder(R) ==
  [i \in 1..Cardinality(R) |-> (CHOOSE y \in R : Rank(R, y) = i).ev]

StoredLog(r) == InOrder(RowsOf(r))

Abstract == INSTANCE RunLog WITH
  open <- OpenRun,
  used <- Runs \ Fresh,
  stamp <- accepted,
  log <- [r \in Runs |-> StoredLog(r)],
  gone <- lost

(* Every behaviour of the collector, with its queue, writer, lock, crashes *)
(* and restarts, is one the run log allows.                                *)
ImplementsRunLog == Abstract!Spec
=============================================================================
