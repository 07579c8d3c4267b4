-------------------------------- MODULE Routes --------------------------------
(***************************************************************************)
(* When two route templates denote the same endpoint.                      *)
(* Source: platform/benchctl/src/benchctl/routes.py.                       *)
(*                                                                         *)
(* A route is the sequence of its segments as route_segments() leaves      *)
(* them: the dialects of the frameworks are folded already.                *)
(***************************************************************************)
EXTENDS Integers, Sequences

Placeholder == "{}"
Greedy == "{**}"
Unmatched == "<unmatched>"

(* Mutant: a catch-all may also stand for nothing.                         *)
EatenOrNone(others) == 0..others

(* How many segments of the other route a catch-all may stand for.         *)
Eaten(others) == 1..others

(* What is left of a route after its first k segments.                     *)
After(route, k) == SubSeq(route, k + 1, Len(route))

Rests(route) == {After(route, k) : k \in 0..Len(route)}

(* One may stand in the place of the other.  A segment of "lenient" is as  *)
(* good as any other.                                                      *)
Agree(x, y, lenient) == x = y \/ {x, y} \cap lenient # {}

(* _match(): segment by segment, a catch-all against one or more.  When    *)
(* both routes have one at the same place, only the first one's counts.    *)
Match(route, other, lenient) ==
  LET rests == Rests(route) \cup Rests(other)
      match[pair \in rests \X rests] ==
        LET a == pair[1]
            b == pair[2]
        IN IF a = <<>> \/ b = <<>> THEN a = b
           ELSE IF Head(a) = Greedy THEN \E k \in Eaten(Len(b)) : match[<<After(a, 1), After(b, k)>>]
           ELSE IF Head(b) = Greedy THEN \E k \in Eaten(Len(a)) : match[<<After(b, 1), After(a, k)>>]
           ELSE Agree(Head(a), Head(b), lenient) /\ match[<<After(a, 1), After(b, 1)>>]
  IN match[<<route, other>>]

(* routes_equal(): template against template.                              *)
RoutesEqual(a, b) ==
  IF <<Unmatched>> \in {a, b} THEN a = b ELSE Match(a, b, {})

(* route_matches_path(): a path against a template.                        *)
RouteMatchesPath(template, path) ==
  <<Unmatched>> \notin {template, path} /\ Match(template, path, {Placeholder})
-----------------------------------------------------------------------------
(* Reference: a route stands for the paths that have, in place of each     *)
(* catch-all, one or more segments, and for a placeholder one.  A route    *)
(* without a catch-all is the same endpoint as another one if the other    *)
(* stands for it, placeholders and all.  Nothing is known of a request     *)
(* that no route was found for.                                            *)
HasGreedy(route) == \E k \in DOMAIN route : route[k] = Greedy

(* Where the segments of a route end in a path.                            *)
Ends(route, path, lenient) ==
  {ends \in [0..Len(route) -> 0..Len(path)] :
    /\ ends[0] = 0 /\ ends[Len(route)] = Len(path)
    /\ \A k \in 1..Len(route) :
         IF route[k] = Greedy THEN ends[k] > ends[k - 1]
         ELSE ends[k] = ends[k - 1] + 1 /\ Agree(route[k], path[ends[k]], lenient)}

StandsFor(route, path, lenient) ==
  <<Unmatched>> \notin {route, path} /\ Ends(route, path, lenient) # {}

(* A path, or a route that describes one path only.                        *)
IsLiteral(route) == \A k \in DOMAIN route : route[k] \notin {Placeholder, Greedy}

SameEndpoint(a, b) ==
  a = b \/ \E path \in {a, b} : ~HasGreedy(path) /\ StandsFor(a, path, {}) /\ StandsFor(b, path, {})
=============================================================================
