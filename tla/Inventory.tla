------------------------------ MODULE Inventory ------------------------------
(***************************************************************************)
(* The routes each target publishes, safe and planted, and what is asked   *)
(* of them: which virtual host a name designates, and which row describes  *)
(* a path.  Source: platform/benchctl/src/benchctl/inventory.py.           *)
(*                                                                         *)
(* A host is a name as normalize_host() leaves it.  "none" is no host, or  *)
(* no method.                                                              *)
(***************************************************************************)
EXTENDS Routes, FiniteSets, FiniteSetsExt, SequencesExt

CONSTANTS
  Published,   \* targets that publish an inventory, in the order they are loaded
  Inventories, \* their rows, a sequence for each
  Vhosts,      \* the virtual hosts of all of them, sorted
  SameLabel    \* pairs of names, not addresses, that have the same first label

Rows(app) == {Inventories[app][k] : k \in DOMAIN Inventories[app]}

Hosts(app) == {r.host : r \in Rows(app)} \ {"none"}

(* Of hosts of one target with the same first label, the code would take   *)
(* the first one whatever name it is asked for; no inventory has any.      *)
ASSUME InventoryAssumption ==
  /\ Published \in Seq(DOMAIN Inventories) /\ DOMAIN Inventories = ToSet(Published)
  /\ "none" \notin DOMAIN Inventories
  /\ Vhosts \in Seq(ToSet(Vhosts))
  /\ \A app \in ToSet(Published) :
       /\ Inventories[app] \in Seq(Rows(app)) /\ Hosts(app) \subseteq ToSet(Vhosts)
       /\ \A r \in Rows(app) :
            DOMAIN r = {"host", "method", "route", "planted"} /\ r.route \in Seq(STRING)
       /\ \A g, h \in Hosts(app) : <<g, h>> \in SameLabel => g = h
  /\ \A p, q \in SameLabel :
       <<p[2], p[1]>> \in SameLabel /\ (p[2] = q[1] => <<p[1], q[2]>> \in SameLabel)

(* host_matches().                                                         *)
HostMatches(g, h) == "none" \in {g, h} \/ g = h \/ <<g, h>> \in SameLabel

SingleHost(app) == Cardinality(Hosts(app)) <= 1

(* resolve_host().                                                         *)
ResolveHost(app, host) ==
  LET designated == {n \in DOMAIN Vhosts : Vhosts[n] \in Hosts(app) /\ HostMatches(Vhosts[n], host)}
  IN IF host = "none" \/ designated = {} THEN "none" ELSE Vhosts[Min(designated)]

(* _candidates(): the rows in question, a name that designates no host     *)
(* being no filter; and of those, the ones that describe a path.           *)
RowsFor(app, method, host) ==
  {n \in DOMAIN Inventories[app] :
     LET r == Inventories[app][n]
     IN method \in {"none", r.method} /\ HostMatches(r.host, ResolveHost(app, host))}

Describing(app, method, path, host) ==
  {n \in RowsFor(app, method, host) : RouteMatchesPath(Inventories[app][n].route, path)}

(* Mutant: what a catch-all accepts counts as declared.                    *)
IsPlaceholder(route) == \E k \in DOMAIN route : route[k] = Placeholder

IsPattern(route) == \E k \in DOMAIN route : route[k] \in {Placeholder, Greedy}

(* match_path(): the first row that describes the path, of the literal     *)
(* ones if there are any.                                                  *)
MatchPath(app, method, path, host) ==
  LET all == Describing(app, method, path, host)
      literal == {n \in all : ~IsPattern(Inventories[app][n].route)}
  IN Inventories[app][Min(IF literal # {} THEN literal ELSE all)]

(* planted_hosts().                                                        *)
PlantedHosts(app, method, route) ==
  {r.host : r \in {r \in Rows(app) : r.planted /\ r.method = method
                                     /\ RoutesEqual(r.route, route)}} \ {"none"}
=============================================================================
