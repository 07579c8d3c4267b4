-------------------------------- MODULE Scoring --------------------------------
(***************************************************************************)
(* What a run's exported events are worth: for each planted flaw, whether  *)
(* the tool reached it, put a value of its own into it, and triggered it,  *)
(* the last also by way of callbacks the sinkhole saw.                     *)
(* Sources: platform/benchctl/src/benchctl/{scoring,events,routes}.py.     *)
(*                                                                         *)
(* Scoring is a function of the sequence of events in the export.  Left    *)
(* out of the result: evidence, timestamps, groupings of the same          *)
(* verdicts.                                                               *)
(***************************************************************************)
EXTENDS Routes, FiniteSets, FiniteSetsExt, SequencesExt

CONSTANTS
  Catalog,    \* planted flaws, by id
  Inputs,     \* events that may be in an export
  Targets,    \* targets in the run's record, {} if it has none
  Addresses,  \* address_index(): a function from addresses and names to targets
  Below       \* pairs of hosts, the first a subdomain of the second

Apps == {Catalog[v].app : v \in DOMAIN Catalog}
Requests == {e \in Inputs : e.type = "request"}
Signals == {e \in Inputs : e.type = "signal"}
Correlations == {e \in Inputs : e.type = "correlation"}
Callbacks == {e \in Inputs : e.type = "oob"}

(* Where a parameter may travel.                                           *)
BodyLocations == {"body", "json", "multipart", "raw"}
Locations == BodyLocations \cup {"query", "path", "header", "cookie", "graphql", "websocket", "none"}

(* "none" is what is missing.  The sinkhole, which is who nests what it    *)
(* knows, knows no ids.                                                    *)
ASSUME ScoringAssumption ==
  /\ \A v \in DOMAIN Catalog :
       /\ {"app", "method", "route", "param", "location", "default", "signal", "token", "oob"}
            \subseteq DOMAIN Catalog[v]
       /\ Catalog[v].route \in Seq(STRING) /\ Catalog[v].location \in Locations
  /\ "none" \notin DOMAIN Catalog \cup DOMAIN Addresses
  /\ \A name \in DOMAIN Addresses : Addresses[name] # "none"
  /\ Inputs = Requests \cup Signals \cup Correlations \cup Callbacks
  /\ \A e \in Inputs : e.synthetic \in BOOLEAN
  /\ \A e \in Requests :
       /\ e.route \in Seq(STRING)
       /\ \A p \in e.params : p.location \in Locations /\ p.told \in {"hash", "cut"}
  /\ \A e \in Callbacks :
       /\ DOMAIN e = {"type", "nested", "app", "token", "signal", "id", "host", "request", "weak",
                      "said", "source", "container", "synthetic"}
       /\ {e.nested, e.weak} \subseteq BOOLEAN /\ (e.nested => e.id = "none")
-----------------------------------------------------------------------------
(* events.py: what is read of an event.                                    *)

(* event_from_dict().  The sinkhole sends what it knows of a match inside  *)
(* "attribution", and the host as "observed_host"; what is read is on the  *)
(* outside.                                                                *)
Read(e) ==
  IF e.type = "oob" /\ e.nested
  THEN [e EXCEPT !.signal = "none", !.request = "none", !.host = "none"]
  ELSE e

(* The events that are not synthetic, each at its place in the export.     *)
Scored(export) == [k \in {k \in DOMAIN export : ~export[k].synthetic} |-> Read(export[k])]
-----------------------------------------------------------------------------
(* Reach and exercise.                                                     *)

RoutePairs == {Catalog[v].route : v \in DOMAIN Catalog} \X {e.route : e \in Requests}

SameRoute == {pair \in RoutePairs : RoutesEqual(pair[1], pair[2])}

Reaches(v, e) ==
  /\ e.app \in {Catalog[v].app, "none"} /\ e.method = Catalog[v].method
  /\ <<Catalog[v].route, e.route>> \in SameRoute

Place(location) == IF location = "none" THEN "query" ELSE location

(* The flaw's parameter: its name (names are lower case here), and its     *)
(* place, param_in_matches().  The names for the body are one place.       *)
Carries(v, p) ==
  /\ p.name = Catalog[v].param
  /\ \/ Place(p.location) = Place(Catalog[v].location)
     \/ p.location \in BodyLocations /\ Catalog[v].location \in BodyLocations

(* _param_is_exercised(): by its hash, or by a sample that is whole.  What *)
(* was cut off is no longer the default, whatever it was.                  *)
IsExercised(v, e) ==
  \E p \in e.params :
    /\ Carries(v, p)
    /\ IF Catalog[v].default = "none" THEN p.value # "empty"
       ELSE p.told = "cut" \/ p.value # Catalog[v].default
-----------------------------------------------------------------------------
(* Callbacks.                                                              *)

Registers(e) == e.type \in {"signal", "correlation", "oob"} /\ e.signal # "none"

HostOf(e) == IF e.type = "signal" THEN "none" ELSE e.host

(* correlation_index(): the earliest of the registrations in question.     *)
Claimed(es, ks) == IF ks = {} THEN "none" ELSE es[Min(ks)].signal

Related(g, h) == g = h \/ <<g, h>> \in Below \/ <<h, g>> \in Below

(* _signal_for_host(): the very host, or else one above or below it.       *)
ForHost(es, host) ==
  LET at(related) == {k \in DOMAIN es : Registers(es[k]) /\ HostOf(es[k]) # "none" /\
                        IF related THEN Related(HostOf(es[k]), host) ELSE HostOf(es[k]) = host}
  IN IF host = "none" THEN "none"
     ELSE IF at(FALSE) # {} THEN Claimed(es, at(FALSE)) ELSE Claimed(es, at(TRUE))

ForRequest(es, request) ==
  Claimed(es, {k \in DOMAIN es : request # "none" /\ Registers(es[k]) /\ es[k].request = request})

(* Mutant: a registration explains only the callbacks exported after it.   *)
JoinedSoFar(es, e) ==
  LET place == Min({k \in DOMAIN es : es[k] = e})
      seen == [k \in DOMAIN es \cap 1..place |-> es[k]]
      byRequest == ForRequest(seen, e.request)
  IN IF byRequest # "none" THEN byRequest ELSE ForHost(seen, e.host)

Joined(es, e) ==
  LET byRequest == ForRequest(es, e.request)
  IN IF byRequest # "none" THEN byRequest ELSE ForHost(es, e.host)

With(property, value) ==
  {v \in DOMAIN Catalog : value # "none" /\ Catalog[v][property] = value}

(* _resolve_source_app().                                                  *)
SourceApp(e) ==
  LET keys == <<e.said, e.source, e.container, e.app>>
      known == {k \in DOMAIN keys : keys[k] \in DOMAIN Addresses}
      named == {k \in {3, 4} : keys[k] \in Apps}
  IN IF e.said \in Apps THEN e.said
     ELSE IF DOMAIN Addresses # {} THEN IF known = {} THEN "none" ELSE Addresses[keys[Min(known)]]
     ELSE IF named = {} THEN "none" ELSE keys[Min(named)]

(* The flaws of that target that call back at all.                         *)
Candidates(e) == {v \in DOMAIN Catalog : Catalog[v].oob /\ Catalog[v].app = SourceApp(e)}

Guess(e) == IF Cardinality(Candidates(e)) = 1 THEN Candidates(e) ELSE {}

(* Mutant: a flag of the sinkhole is not looked at.                        *)
StrengthHigh(e) == "high"

(* _is_weak().                                                             *)
Strength(e) == IF e.weak THEN "low" ELSE "high"

(* The first of the sets that is not empty.                                *)
FirstSome(sets) ==
  LET some == {k \in DOMAIN sets : sets[k] # {}}
  IN IF some = {} THEN {} ELSE sets[Min(some)]

(* attribute_oob(): a token, a signal, an id, what a registration says,    *)
(* and at last a guess.                                                    *)
Attribution(es, e) ==
  LET tied == FirstSome(<<With("token", e.token), With("signal", e.signal),
                          {e.id} \cap DOMAIN Catalog, With("signal", Joined(es, e))>>)
  IN IF tied # {} THEN [to |-> tied, strength |-> Strength(e)]
     ELSE [to |-> Guess(e), strength |-> "low"]

(* attribute_oob_events().                                                 *)
Attributions(es) ==
  [k \in {k \in DOMAIN es : es[k].type = "oob"} |-> Attribution(es, es[k])]
-----------------------------------------------------------------------------
(* score_vuln(), on the events that are scored and the attributions of the *)
(* callbacks among them.                                                   *)
Outcome(v, es, attributions) ==
  LET reaching == {k \in DOMAIN es : es[k].type = "request" /\ Reaches(v, es[k])}
      fired == {k \in DOMAIN es : es[k].type = "signal"
                  /\ (v \in With("signal", es[k].signal) \/ es[k].id = v)}
      calls(strength) ==
        {k \in DOMAIN attributions :
           v \in attributions[k].to /\ attributions[k].strength = strength}
      trigger == fired # {} \/ calls("high") # {}
  IN [reach |-> reaching # {} \/ trigger,
      inferred |-> reaching = {} /\ trigger,
      exercise |-> IF Catalog[v].param = "none" THEN "not applicable"
                   ELSE IF \E k \in reaching : IsExercised(v, es[k]) THEN "yes" ELSE "no",
      trigger |-> trigger, low |-> calls("low") # {},
      reachEvents |-> Cardinality(reaching),
      triggerEvents |-> Cardinality(fired) + Cardinality(calls("high")) + Cardinality(calls("low"))]

(* The run's record, what the events touched, or the whole catalog.        *)
Scope(es) ==
  LET touched == {es[k].app : k \in DOMAIN es} \cap Apps
  IN IF Targets # {} THEN IF Targets \cap Apps # {} THEN Targets \cap Apps ELSE Targets
     ELSE IF touched # {} THEN touched ELSE Apps

InScope(es) == LET apps == Scope(es) IN {v \in DOMAIN Catalog : Catalog[v].app \in apps}

Warnings(es, outcome) ==
  {<<"trigger-without-reach", v>> : v \in {v \in DOMAIN outcome : outcome[v].inferred}}
  \cup {<<"trigger-without-exercise", v>> :
          v \in {v \in DOMAIN outcome : outcome[v].trigger /\ outcome[v].exercise = "no"}}
  \cup {<<"low-confidence-trigger", v>> :
          v \in {v \in DOMAIN outcome : outcome[v].low /\ ~outcome[v].trigger}}
  \cup {<<"unknown-signal", es[k].signal>> :
          k \in {k \in DOMAIN es : es[k].type = "signal" /\ es[k].signal # "none"
                                   /\ With("signal", es[k].signal) = {}}}
  \cup {<<"unknown-trigger-id", es[k].id>> :
          k \in {k \in DOMAIN es : es[k].type = "signal"
                                   /\ es[k].id \notin DOMAIN Catalog \cup {"none"}}}

(* score_run().                                                            *)
Score(export) ==
  LET es == Scored(export)
      attributions == Attributions(es)
      outcome == [v \in InScope(es) |-> Outcome(v, es, attributions)]
  IN [scope |-> Scope(es), outcome |-> outcome, warnings |-> Warnings(es, outcome),
      orphans |-> Cardinality({k \in DOMAIN attributions : attributions[k].to = {}})]

(* What the report is held against.                                        *)
TriggeredIn(outcome) == {v \in DOMAIN outcome : outcome[v].trigger}

Triggered(export) == TriggeredIn(Score(export).outcome)
=============================================================================
