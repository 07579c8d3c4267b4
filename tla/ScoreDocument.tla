----------------------------- MODULE ScoreDocument -----------------------------
(***************************************************************************)
(* The score document of a run: its exported events, scored and held       *)
(* against the published routes, and what the tool reported at its end,    *)
(* judged by both.                                                         *)
(* Sources: platform/benchctl/src/benchctl/{scoring,findings,cli}.py.      *)
(*                                                                         *)
(* The events come over several connections, so any order of them may be   *)
(* exported; the findings are in the order the tool wrote them.            *)
(***************************************************************************)
EXTENDS Findings

CONSTANTS
  Reports,      \* findings a tool may report
  MaxEvents,    \* bound: events of the export
  MaxFindings,  \* bound: findings of the report
  Beside        \* bound: exports with a report beside them

ASSUME DocumentAssumption ==
  /\ MaxEvents \in Nat /\ MaxFindings \in Nat /\ Beside \subseteq Seq(Inputs)
  /\ \A f \in Reports : f.path \in Seq(STRING)

VARIABLES
  log,    \* the export
  report  \* the findings file

vars == <<log, report>>

Init == log = <<>> /\ report = <<>>
-----------------------------------------------------------------------------
(* _crawl_coverage(): a request that names no virtual host of its target   *)
(* walks the route on all of them.                                         *)
Walks(e, app, row) ==
  LET host == ResolveHost(app, e.host)
  IN /\ e.app = app /\ e.method = row.method /\ e.route = row.route
     /\ host \in {"none", row.host}

Selected(es) == ToSet(Published) \cap Scope(es)

Covered(es) ==
  {place \in UNION {{app} \X DOMAIN Inventories[app] : app \in Selected(es)} :
     \E n \in DOMAIN es : /\ es[n].type = "request"
                         /\ Walks(es[n], place[1], Inventories[place[1]][place[2]])}

(* What cli.py passes to classify_findings(): the report, held against the *)
(* verdicts of the score.                                                  *)
ThisRun == Setting(Scored(log))

FindingsBlock == Tally(Classify(report, ThisRun), Triggered(log))
-----------------------------------------------------------------------------
(* The run goes on, and one more event is in the export.                   *)
Exporting(events) ==
  \E e \in events : /\ report = <<>> /\ Len(log) < MaxEvents
                    /\ log' = Append(log, e) /\ UNCHANGED report

(* The tool has ended, and one more finding is in its report.              *)
Reporting ==
  \E f \in Reports : /\ log \in Beside /\ Len(report) < MaxFindings
                     /\ report' = Append(report, f) /\ UNCHANGED log

Next ==
  \/ Exporting(Requests) \/ Exporting(Signals) \/ Exporting(Correlations) \/ Exporting(Callbacks)
  \/ Reporting

Spec == Init /\ [][Next]_vars
-----------------------------------------------------------------------------
Tools == {log[k] : k \in {k \in DOMAIN log : ~log[k].synthetic}}
CallsMade == {e \in Tools : e.type = "oob"}
SharesWith(r, e) ==
  \/ e.request # "none" /\ r.request = e.request
  \/ e.host # "none" /\ HostOf(r) # "none" /\ Related(HostOf(r), e.host)
Registered(e) == {r \in Tools : Registers(Read(r)) /\ SharesWith(r, e)}

(* Two registrations a callback may be joined with that say different      *)
(* things.                                                                 *)
Rivals(d, r) ==
  /\ {d, r} \subseteq Tools /\ Registers(Read(d)) /\ Registers(Read(r)) /\ d.signal # r.signal
  /\ \E e \in CallsMade : SharesWith(d, e) /\ SharesWith(r, e)

(* The order in which a run's events were exported changes nothing about   *)
(* its score, although registrations, requests and callbacks travel        *)
(* separately: the one exception are two registrations that claim the same *)
(* callback for different signals, of which the first one has it.          *)
ScoreIgnoresOrder ==
  LET score == Score(log)
      swapped(k) == [log EXCEPT ![k] = log[k + 1], ![k + 1] = log[k]]
  IN \A k \in 1..(Len(log) - 1) : Score(swapped(k)) = score \/ Rivals(log[k], log[k + 1])

(* What a callback is tied to in its own words.                            *)
OwnWord(e) ==
  FirstSome(<<With("token", e.token), With("signal", e.signal), {e.id} \cap DOMAIN Catalog>>)

Fired(v) == \E e \in Tools : e.type = "signal" /\ (v \in With("signal", e.signal) \/ e.id = v)

(* The headline number counts proof and nothing else, and all of it: a     *)
(* flaw is triggered if its signal was fired, or if a callback the         *)
(* sinkhole was sure of names it or shares a request or a host with a      *)
(* registration of its signal.  Proof that is not counted is only that     *)
(* which another registration disputes, and what the sinkhole says of a    *)
(* match in its own way of saying it.                                      *)
TriggerIsProven ==
  LET outcome == Score(log).outcome
      backed(v) == \E e \in CallsMade :
                     ~e.weak /\ \/ v \in OwnWord(e)
                                \/ \E r \in Registered(e) : v \in With("signal", r.signal)
      undisputed(v) == \E e \in CallsMade :
                         /\ ~e.weak /\ (e.nested => v \in With("token", e.token))
                         /\ \/ v \in OwnWord(e)
                            \/ /\ OwnWord(e) = {} /\ Registered(e) # {}
                               /\ \A r \in Registered(e) : v \in With("signal", r.signal)
  IN \A v \in DOMAIN outcome :
       /\ outcome[v].trigger => Fired(v) \/ backed(v)
       /\ Fired(v) \/ undisputed(v) => outcome[v].trigger

(* The virtual hosts of a target that a name designates.                   *)
NamedBy(host, app) == {h \in Hosts(app) : host # "none" /\ HostMatches(h, host)}

SameEndpoints == {pair \in RoutePairs : SameEndpoint(pair[1], pair[2])}

(* The places a parameter can be in, whatever an SDK calls them: the body  *)
(* has four names, and what names no place is in the query.                *)
Places ==
  {BodyLocations, {"query", "none"}, {"path"}, {"header"}, {"cookie"}, {"graphql"}, {"websocket"}}

(* A flaw is reached by a request for the very endpoint, and exercised by  *)
(* one with a value of its very parameter, at its place, which is not the  *)
(* default, or is not empty if there is none; and each such request        *)
(* counts.  The exceptions: two routes that both have a catch-all, and a   *)
(* value of that parameter without a hash whose sample was cut off.        *)
(* And a planted row of the inventory is covered just when a request to    *)
(* its host reaches the flaw: what was walked is measured twice, and the   *)
(* two numbers are published side by side.  The exceptions: requests that  *)
(* name no target, and again catch-alls.                                   *)
RequestsEarnCredit ==
  LET outcome == Score(log).outcome
      aimed(v) == {e \in Tools : /\ e.type = "request" /\ e.app \in {Catalog[v].app, "none"}
                                 /\ e.method = Catalog[v].method}
      asked(v) == {e \in aimed(v) : <<Catalog[v].route, e.route>> \in SameEndpoints}
      usual(v) == IF Catalog[v].default = "none" THEN "empty" ELSE Catalog[v].default
      sent(v) == {p \in UNION {e.params : e \in asked(v)} :
                    /\ p.name = Catalog[v].param
                    /\ \E place \in Places : {p.location, Catalog[v].location} \subseteq place}
      changed(v) == {p \in sent(v) : p.value # usual(v)}
      planting(v) == {k \in DOMAIN Inventories[Catalog[v].app] :
                        LET r == Inventories[Catalog[v].app][k]
                        IN r.planted /\ r.method = Catalog[v].method /\ r.route = Catalog[v].route}
      onHost(e, app, k) == NamedBy(e.host, app) \subseteq {Inventories[app][k].host}
      covered == Covered(Scored(log))
  IN \A v \in DOMAIN outcome :
       (\A e \in aimed(v) : ~(HasGreedy(Catalog[v].route) /\ HasGreedy(e.route))) =>
         /\ outcome[v].reach = (asked(v) # {} \/ outcome[v].trigger)
         /\ outcome[v].exercise = "yes" => changed(v) # {} \/ \E p \in sent(v) : p.told = "cut"
         /\ Catalog[v].param # "none" /\ outcome[v].exercise # "yes" => changed(v) = {}
         /\ Catalog[v].app \in ToSet(Published) /\ ~HasGreedy(Catalog[v].route) =>
              \A k \in planting(v) :
                <<Catalog[v].app, k>> \in covered <=>
                  \E e \in asked(v) : /\ e.app = Catalog[v].app /\ ~HasGreedy(e.route)
                                      /\ onHost(e, e.app, k)

-----------------------------------------------------------------------------
(* The path, the method and the host of a finding are those of a flaw: the *)
(* host is one the flaw is planted on, or it says nothing.                 *)
Points(f, v) ==
  LET app == Catalog[v].app
      planted == {r.host : r \in {r \in Rows(app) : /\ r.planted /\ r.method = Catalog[v].method
                                       /\ SameEndpoint(r.route, Catalog[v].route)}} \ {"none"}
  IN /\ f.method \in {"none", Catalog[v].method}
     /\ StandsFor(Catalog[v].route, f.path, {Placeholder})
     /\ ResolveApp(f, ThisRun) \in {"none", app}
     /\ \/ app \notin ToSet(Published) \/ planted = {}
        \/ NamedBy(f.host, app) = {} \/ NamedBy(f.host, app) \cap planted # {}
        \/ Cardinality(Hosts(app)) = 1

Describes(f, v) ==
  /\ "none" \in {f.param, Catalog[v].param} \/ f.param = Catalog[v].param
  /\ \/ f.cwes \cap Catalog[v].cwes # {}
     \/ \E class \in Taxonomy : class.family = Catalog[v].family /\ class.cwes \cap f.cwes # {}
  /\ Points(f, v)

(* Of each finding that is no pattern, the verdict, the flaws it describes *)
(* and the flaws said to be kept back.                                     *)
Deserved(verdicts, right, keptBack) ==
  \A k \in DOMAIN report : ~HasGreedy(report[k].path) =>
    /\ verdicts[k].verdict \in Credited <=> right[k] # {}
    /\ verdicts[k].verdict \in Credited => verdicts[k].flaw \in right[k]
    /\ Cardinality(right[k]) = 1 => right[k] \cap keptBack = {}

(* A finding is credited if and only if it describes a flaw, and to a flaw *)
(* it describes, whatever the classes and hosts involved; and nothing that *)
(* is counted depends on the order the tool reported in.  A flaw that was  *)
(* triggered and reported is not among those the tool is said to have kept *)
(* to itself, unless the finding describes another one as well, which then *)
(* has it.  The exception: a finding that names a catch-all for a path.    *)
RightFindingsCount ==
  /\ Deserved(Classify(report, ThisRun),
              [k \in DOMAIN report |-> {v \in ThisRun.flaws : Describes(report[k], v)}],
              FindingsBlock.triggeredNotReported)
  /\ \A turn \in Bijection(DOMAIN report, DOMAIN report) :
       FindingsBlock = Tally(Classify([k \in DOMAIN report |-> report[turn[k]]], ThisRun),
                             Triggered(log))

(* A false positive that is published as confirmed is one the inventory    *)
(* contradicts: a route without a placeholder, declared for this path and  *)
(* for no other host than the finding's, on which no flaw of the targets   *)
(* in scope is planted.  Of flaws out of scope the code does not ask; and  *)
(* again a path is meant that has no catch-all.                            *)
ConfirmedIsContradicted ==
  LET verdicts == Classify(report, ThisRun)
  IN \A k \in DOMAIN report :
       verdicts[k].basis \in Confirming /\ ~HasGreedy(report[k].path) =>
         /\ \E app \in ToSet(Published) : \E r \in Rows(app) :
              /\ ResolveApp(report[k], ThisRun) \in {"none", app}
              /\ IsLiteral(r.route) /\ StandsFor(r.route, report[k].path, {Placeholder})
              /\ report[k].method \in {"none", r.method}
              /\ r.host = "none" \/ NamedBy(report[k].host, app) \subseteq {r.host}
         /\ \A v \in ThisRun.flaws : ~Points(report[k], v)
=============================================================================
