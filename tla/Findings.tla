------------------------------- MODULE Findings -------------------------------
(***************************************************************************)
(* The verdict on each finding a tool reports, and what the verdicts add   *)
(* up to.  Source: platform/benchctl/src/benchctl/findings.py, and the     *)
(* part of cli.py that prepares its arguments.                             *)
(*                                                                         *)
(* A finding names a tool, a path and a set of CWEs, and may name a        *)
(* target, a host, a method and a parameter.  Left out: the precision      *)
(* quotients of the counts, ports, and the operator's own map of hosts.    *)
(***************************************************************************)
EXTENDS Scoring, Inventory

CONSTANTS
  Order,     \* the planted flaws in the order of the catalog's files
  Taxonomy,  \* classes: a family and its CWEs
  Loopback   \* names of the machine itself

(* The machine itself is no virtual host.  A planted row that shares its   *)
(* endpoint with a flaw is written like it where both have a catch-all.    *)
ASSUME FindingsAssumption ==
  /\ Order \in Seq(DOMAIN Catalog) /\ ToSet(Order) = DOMAIN Catalog
  /\ \A v \in DOMAIN Catalog : {"cwes", "family"} \subseteq DOMAIN Catalog[v]
  /\ \A class \in Taxonomy : DOMAIN class = {"family", "cwes"}
  /\ \A app \in ToSet(Published) :
       /\ \A h \in Hosts(app), name \in Loopback : ~HostMatches(h, name)
       /\ \A r \in Rows(app), v \in DOMAIN Catalog :
            /\ r.planted /\ Catalog[v].app = app
            /\ HasGreedy(r.route) /\ HasGreedy(Catalog[v].route)
            /\ RoutesEqual(r.route, Catalog[v].route)
            => r.route = Catalog[v].route
-----------------------------------------------------------------------------
(* Which target a finding is about.                                        *)

(* host_app_index(): hosts that were seen to be served by one target.      *)
HostIndex(es) ==
  LET named == {k \in DOMAIN es : es[k].type = "request" /\ "none" \notin {es[k].app, es[k].host}}
      serving(host) == {es[k].app : k \in {k \in named : es[k].host = host}}
      unshared == {h \in {es[k].host : k \in named} : Cardinality(serving(h)) = 1}
  IN [h \in unshared |-> CHOOSE app \in serving(h) : TRUE]

AppMap(es) ==
  LET index == HostIndex(es)
  IN [name \in DOMAIN index \cup DOMAIN Addresses |->
        IF name \in DOMAIN index THEN index[name] ELSE Addresses[name]]

(* What the run has a ground truth for, and how it names its targets:      *)
(* "only" is the one it scanned, if it scanned one.                        *)
Setting(es) ==
  LET scope == InScope(es)
      scanned == {Catalog[v].app : v \in scope}
  IN [flaws |-> scope, cwes |-> UNION {Catalog[v].cwes : v \in scope}, map |-> AppMap(es),
      only |-> IF Cardinality(scanned) = 1 THEN CHOOSE app \in scanned : TRUE ELSE "none"]

(* _resolve_app(): a host nobody knows passes for the name of a target,    *)
(* unless the run scanned only one.                                        *)
ResolveApp(f, run) ==
  IF f.app # "none" THEN f.app
  ELSE IF f.host \in DOMAIN run.map THEN run.map[f.host]
  ELSE IF f.host \in Loopback \cup {"none"} \/ run.only # "none" THEN run.only ELSE f.host
-----------------------------------------------------------------------------
(* Which flaws are where it points, and what it says of each.              *)

(* _host_agrees(): only where there are hosts to tell apart.               *)
HostAgrees(v, app, host) ==
  LET planted == PlantedHosts(app, Catalog[v].method, Catalog[v].route)
  IN \/ app \notin ToSet(Published) \/ SingleHost(app) \/ ResolveHost(app, host) = "none"
     \/ planted = {} \/ ResolveHost(app, host) \in planted

(* By their places in the catalog.                                         *)
Located(f, app, run) ==
  {n \in DOMAIN Order :
     LET v == Order[n]
     IN /\ v \in run.flaws /\ app \in {"none", Catalog[v].app}
        /\ f.method \in {"none", Catalog[v].method}
        /\ RouteMatchesPath(Catalog[v].route, f.path) /\ HostAgrees(v, app, f.host)}

(* _cwe_families().                                                        *)
Families(cwes) == {class.family : class \in {class \in Taxonomy : class.cwes \cap cwes # {}}}

(* _judge().                                                               *)
Judge(f, v) ==
  IF Catalog[v].param # "none" /\ f.param \notin {"none", Catalog[v].param} THEN "param mismatch"
  ELSE IF f.cwes = {} THEN "class unknown"
  ELSE IF f.cwes \cap Catalog[v].cwes # {} \/ Catalog[v].family \in Families(f.cwes)
       THEN "true positive" ELSE "class mismatch"

(* _RANK: better verdicts first.                                           *)
Ranking == <<"true positive", "param mismatch", "class mismatch", "class unknown">>

(* The best verdict on the flaws in question, and the first flaw that has  *)
(* it.                                                                     *)
Best(f, located) ==
  LET judged(k) == {n \in located : Judge(f, Order[n]) = Ranking[k]}
      rank == Min({k \in DOMAIN Ranking : judged(k) # {}})
  IN IF located = {} THEN [verdict |-> "false positive", flaw |-> "none"]
     ELSE [verdict |-> Ranking[rank], flaw |-> Order[Min(judged(rank))]]

(* No CWE it names is one the run has a ground truth for.  That it is in   *)
(* no class of the taxonomy either makes another reason, and no more.      *)
Unscoreable(f, run) == f.cwes # {} /\ f.cwes \cap run.cwes = {}

(* Mutant: the check that the module's text puts "before anything else"    *)
(* is put there.                                                           *)
SettledUnscoreableFirst(f, best, run) ==
  IF Unscoreable(f, run) THEN [verdict |-> "out of catalog", flaw |-> "none"] ELSE best

Settled(f, best, run) ==
  IF best.verdict # "true positive" /\ Unscoreable(f, run)
  THEN [verdict |-> "out of catalog", flaw |-> "none"] ELSE best

(* The inventories that have a row for where it points.                    *)
Answering(f, app) ==
  {n \in DOMAIN Published :
     app \in {"none", Published[n]} /\ Describing(Published[n], f.method, f.path, f.host) # {}}

(* _fp_basis(): how firmly it can be said that nothing is there, by the    *)
(* row of the first of them.                                               *)
Basis(f, app) ==
  LET row == MatchPath(Published[Min(Answering(f, app))], f.method, f.path, f.host)
  IN IF f.cwes = {} THEN "finding without cwe"
     ELSE IF Published = <<>> THEN "no inventory"
     ELSE IF Answering(f, app) = {} THEN "unknown route"
     ELSE IF IsPattern(row.route) THEN "pattern route"
     ELSE IF row.planted THEN "known route" ELSE "safe route"
-----------------------------------------------------------------------------
Verdict(f, run) == Settled(f, Best(f, Located(f, ResolveApp(f, run), run)), run)

(* classify_findings(): of findings that one tool has of one flaw the      *)
(* first is the true positive.                                             *)
Classify(fs, run) ==
  LET verdicts == [k \in DOMAIN fs |-> Verdict(fs[k], run)]
      claimed(k) == \E j \in 1..(k - 1) : verdicts[j] = verdicts[k] /\ fs[j].tool = fs[k].tool
  IN [k \in DOMAIN fs |->
        [flaw |-> verdicts[k].flaw,
         verdict |-> IF verdicts[k].verdict = "true positive" /\ claimed(k) THEN "duplicate"
                     ELSE verdicts[k].verdict,
         basis |-> IF verdicts[k].verdict = "false positive"
                   THEN Basis(fs[k], ResolveApp(fs[k], run)) ELSE "none"]]

Credited == {"true positive", "duplicate"}
Confirming == {"safe route", "known route"}

(* The counts that are published, and the cross-check against what was     *)
(* triggered.                                                              *)
Tally(rows, triggered) ==
  LET count(verdict) == Cardinality({k \in DOMAIN rows : rows[k].verdict = verdict})
      reported == {rows[k].flaw : k \in {k \in DOMAIN rows : rows[k].verdict \in Credited}}
  IN [counts |-> [verdict \in ToSet(Ranking) \cup {"false positive", "duplicate", "out of catalog"}
                    |-> count(verdict)],
      confirmed |-> Cardinality({k \in DOMAIN rows : rows[k].basis \in Confirming}),
      triggeredNotReported |-> triggered \ reported,
      reportedNotTriggered |-> reported \ triggered]
=============================================================================
