--------------------------- MODULE UpstreamResolver ---------------------------
(***************************************************************************)
(* How the sinkhole decides what a DNS query gets: it asks the resolver    *)
(* upstream whether anybody on the network claims the name, within a cap   *)
(* on concurrent lookups and with a cache of both kinds of answer, and     *)
(* captures what nobody claims.                                            *)
(* Sources: platform/oob/src/edge_resolver/upstream.py and                 *)
(* listeners/dns.py, on one asyncio loop: a step runs from one await to    *)
(* the next.                                                               *)
(*                                                                         *)
(* One tick of the clock is longer than a whole lookup may take (150 ms),  *)
(* and times are ticks to go or ticks gone by, up to what matters, so that *)
(* nothing bounds a behaviour.                                             *)
(* NXDOMAIN and an answer from outside the deployment's networks are alike *)
(* here: somebody said that the name is not ours.                          *)
(***************************************************************************)
EXTENDS Integers, Sequences, FiniteSets

CONSTANTS
  Queries,     \* places for queries being handled
  Names,       \* names asked for, config.denylist's apart
  Internal,    \* config.internal_suffixes(): a container must have these
  Servers,     \* how many nameservers
  Slots,       \* upstream_concurrency
  PositiveTtl, \* ticks a claim is kept
  NegativeTtl, \* ticks any other outcome is kept
  CacheMax     \* 8192

ASSUME ResolverAssumption ==
  /\ Servers \in Nat \ {0} /\ Slots \in Nat \ {0} /\ CacheMax \in Nat
  /\ PositiveTtl \in Nat \ {0} /\ NegativeTtl \in Nat \ {0}
  /\ Internal \subseteq Names

VARIABLES
  up,       \* names some container on the network answers to
  cache,    \* _cache: a function on the names it holds
  free,     \* _semaphore: its value,
  waiting,  \* and its waiters, first come first served
  query,    \* what each query is in the middle of
  sent,     \* the reply this step sent, if it sent one
  sinceUp,  \* history: ticks since a container answered to each name,
  sinceDown,\* history: ticks since none did,
  sinceFail \* history: ticks since a lookup of it got no answer at all

vars == <<up, cache, free, waiting, query, sent, sinceUp, sinceDown, sinceFail>>
truth == <<up, sinceUp, sinceDown>>

LongUp == PositiveTtl + 1
LongDown == NegativeTtl + 1
Later(ticks, long) == IF ticks < long THEN ticks + 1 ELSE long
Idle == [pc |-> "idle"]
Waits(n) == [pc |-> "wait", name |-> n]
Woken(n) == [pc |-> "woken", name |-> n]
Asks(n) == [pc |-> "ask", name |-> n, server |-> 1, age |-> 0, reply |-> "none"]
Nothing == [got |-> "nothing"]
Reply(n, got) == [got |-> got, name |-> n]
Busy(q, pc) == query[q].pc = pc

TypeOK ==
  /\ up \subseteq Names
  /\ DOMAIN cache \subseteq Names /\ Cardinality(DOMAIN cache) <= CacheMax + 1
  /\ \A n \in DOMAIN cache :
       cache[n] \in [claimed : {TRUE}, left : 0..PositiveTtl]
         \cup [claimed : {FALSE}, left : 0..NegativeTtl]
  /\ free \in 0..Slots /\ waiting \in Seq(Queries)
  /\ \A q \in Queries :
       query[q] \in {Idle} \cup {Waits(n) : n \in Names} \cup {Woken(n) : n \in Names}
         \cup [pc : {"ask"}, name : Names, server : 1..Servers, age : {0, 1},
               reply : {"none", "claimed", "unclaimed", "failed"}]
  /\ sent \in [got : {"nothing", "malformed", "formerr", "denied"}]
       \cup [got : {"forwarded", "servfail", "captured", "busy"}, name : Names]
  /\ \A q \in Queries : Busy(q, "wait") <=> \E k \in DOMAIN waiting : waiting[k] = q
  /\ free + Cardinality({q \in Queries : query[q].pc \in {"woken", "ask"}}) = Slots
  /\ sinceUp \in [Names -> 0..LongUp]
  /\ sinceDown \in [Names -> 0..LongDown] /\ sinceFail \in [Names -> 0..NegativeTtl]

Init ==
  /\ up \in SUBSET Names /\ cache = <<>>
  /\ free = Slots /\ waiting = <<>>
  /\ query = [q \in Queries |-> Idle] /\ sent = Nothing
  /\ sinceUp = [n \in Names |-> IF n \in up THEN 0 ELSE LongUp]
  /\ sinceDown = [n \in Names |-> IF n \in up THEN LongDown ELSE 0]
  /\ sinceFail = [n \in Names |-> NegativeTtl]
-----------------------------------------------------------------------------
(* cached() forgets an entry that it finds expired.                        *)
Fresh(n) == n \in DOMAIN cache /\ cache[n].left > 0

Forgetting(n) == [m \in DOMAIN cache \ (IF Fresh(n) THEN {} ELSE {n}) |-> cache[m]]

(* Mutant: any outcome is kept as long as a claim.                         *)
TtlSame(claimed) == PositiveTtl

Ttl(claimed) == IF claimed THEN PositiveTtl ELSE NegativeTtl

Remembered(old, n, claimed) ==
  [m \in old \cup {n} |-> IF m = n THEN [claimed |-> claimed, left |-> Ttl(claimed)]
                          ELSE cache[m]]

(* _remember() empties a cache that has outgrown its limit, then adds.     *)
Remembering(n, claimed) ==
  Remembered(IF Cardinality(DOMAIN cache) > CacheMax THEN {} ELSE DOMAIN cache, n, claimed)

(* handle(), once it has its claim: forward it, fail for a name that must  *)
(* be a container's, capture the rest.                                     *)
Verdict(n, claimed) ==
  IF claimed THEN "forwarded" ELSE IF n \in Internal THEN "servfail" ELSE "captured"

With(q, step) == [query EXCEPT ![q] = step]

(* Semaphore.locked().                                                     *)
Locked == free = 0 \/ \E q \in Queries : query[q].pc \in {"wait", "woken"}

(* Mutant: a slot goes back and no waiter is told.                         *)
HandOnNobody(slots, at) == [free |-> slots, waiting |-> waiting, query |-> at]

(* Semaphore.release() and the end of acquire(): free slots go to the      *)
(* waiters that came first.                                                *)
HandOn(slots, at) ==
  LET n == IF slots < Len(waiting) THEN slots ELSE Len(waiting)
      first == {waiting[k] : k \in 1..n}
  IN [free |-> slots - n, waiting |-> SubSeq(waiting, n + 1, Len(waiting)),
      query |-> [q \in Queries |-> IF q \in first THEN Woken(at[q].name) ELSE at[q]]]

Release(slots, at) ==
  /\ free' = HandOn(slots, at).free
  /\ waiting' = HandOn(slots, at).waiting
  /\ query' = HandOn(slots, at).query
-----------------------------------------------------------------------------
(* A datagram that is no query, or asks nothing, or asks for a name of the *)
(* denylist, is answered at once.                                          *)
ArriveBad(q) ==
  /\ Busy(q, "idle")
  /\ \E got \in {"malformed", "formerr", "denied"} : sent' = [got |-> got]
  /\ UNCHANGED <<truth, cache, free, waiting, query, sinceFail>>

(* claim(): the cache, then a slot.  A query nobody vouches for does not   *)
(* wait for one.                                                           *)
Arrive(q, n) ==
  /\ Busy(q, "idle")
  /\ cache' = Forgetting(n)
  /\ \/ /\ Fresh(n) /\ sent' = Reply(n, Verdict(n, cache[n].claimed))
        /\ UNCHANGED <<free, waiting, query>>
     \/ /\ ~Fresh(n) /\ Locked /\ n \notin Internal /\ sent' = Reply(n, "busy")
        /\ UNCHANGED <<free, waiting, query>>
     \/ /\ ~Fresh(n) /\ Locked /\ n \in Internal /\ sent' = Nothing
        /\ query' = With(q, Waits(n)) /\ waiting' = Append(waiting, q)
        /\ UNCHANGED free
     \/ /\ ~Fresh(n) /\ ~Locked /\ sent' = Nothing
        /\ query' = With(q, Asks(n)) /\ free' = free - 1
        /\ UNCHANGED waiting
  /\ UNCHANGED <<truth, sinceFail>>

(* Mutant: whoever got a slot asks.                                        *)
AnsweredMeanwhileNever(n) == FALSE

(* "another lookup may have filled it while we waited"                     *)
AnsweredMeanwhile(n) == Fresh(n)

(* A waiter goes on with the slot it was given.                            *)
Resume(q) ==
  LET n == query[q].name IN
  /\ Busy(q, "woken")
  /\ cache' = Forgetting(n)
  /\ IF AnsweredMeanwhile(n)
     THEN Release(free + 1, With(q, Idle)) /\ sent' = Reply(n, Verdict(n, cache[n].claimed))
     ELSE Release(free, With(q, Asks(n))) /\ sent' = Nothing
  /\ UNCHANGED <<truth, sinceFail>>

(* External: a nameserver answers what is the case at that moment, or the  *)
(* question, or its answer, is lost or useless.                            *)
Serve(q) ==
  /\ Busy(q, "ask") /\ query[q].reply = "none"
  /\ \E reply \in {IF query[q].name \in up THEN "claimed" ELSE "unclaimed", "failed"} :
       query' = [query EXCEPT ![q].reply = reply]
  /\ sent' = Nothing
  /\ UNCHANGED <<truth, cache, free, waiting, sinceFail>>

(* _ask(): what says nothing sends it to the next server; the last word    *)
(* counts as unclaimed, and is remembered as such.                         *)
Receive(q) ==
  LET n == query[q].name
      reply == query[q].reply
  IN
  /\ Busy(q, "ask") /\ reply # "none"
  /\ IF reply = "failed" /\ query[q].server < Servers
     THEN /\ query' = [query EXCEPT ![q].server = @ + 1, ![q].reply = "none"]
          /\ sent' = Nothing
          /\ UNCHANGED <<cache, free, waiting, sinceFail>>
     ELSE /\ cache' = Remembering(n, reply = "claimed")
          /\ sinceFail' = IF reply = "failed" THEN [sinceFail EXCEPT ![n] = 0] ELSE sinceFail
          /\ Release(free + 1, With(q, Idle)) /\ sent' = Reply(n, Verdict(n, reply = "claimed"))
  /\ UNCHANGED truth
-----------------------------------------------------------------------------
(* External: containers come and go.                                       *)
Deploy(n) ==
  /\ n \notin up /\ up' = up \cup {n} /\ sinceUp' = [sinceUp EXCEPT ![n] = 0]
  /\ sent' = Nothing
  /\ UNCHANGED <<cache, free, waiting, query, sinceDown, sinceFail>>

Remove(n) ==
  /\ n \in up /\ up' = up \ {n} /\ sinceDown' = [sinceDown EXCEPT ![n] = 0]
  /\ sent' = Nothing
  /\ UNCHANGED <<cache, free, waiting, query, sinceUp, sinceFail>>

Tick ==
  /\ \A q \in Queries : Busy(q, "ask") => query[q].age = 0
  /\ query' = [q \in Queries |-> IF Busy(q, "ask") THEN [query[q] EXCEPT !.age = 1] ELSE query[q]]
  /\ cache' = [n \in DOMAIN cache |->
                 [cache[n] EXCEPT !.left = IF @ = 0 THEN 0 ELSE @ - 1]]
  /\ sinceUp' = [n \in Names |-> IF n \in up THEN 0 ELSE Later(sinceUp[n], LongUp)]
  /\ sinceDown' = [n \in Names |-> IF n \in up THEN Later(sinceDown[n], LongDown) ELSE 0]
  /\ sinceFail' = [n \in Names |-> Later(sinceFail[n], NegativeTtl)]
  /\ sent' = Nothing
  /\ UNCHANGED <<up, free, waiting>>

Handle(q) == Resume(q) \/ Serve(q) \/ Receive(q)

Next ==
  \/ \E q \in Queries : ArriveBad(q) \/ (\E n \in Names : Arrive(q, n)) \/ Handle(q)
  \/ \E n \in Names : Deploy(n) \/ Remove(n)
  \/ Tick

Spec == Init /\ [][Next]_vars
-----------------------------------------------------------------------------
(* What a query gets is never older than the cache may be: it is forwarded *)
(* only to a container that was there within the last PositiveTtl ticks,   *)
(* and taken for out-of-band traffic, or refused as an internal name, only *)
(* when no container had the name at some moment of the last NegativeTtl   *)
(* ticks or a lookup of it failed since; whatever was cached, and however  *)
(* lookups of the same name overlapped.  ("busy", for want of a slot, is   *)
(* the one exception.)                                                     *)
AnswersInTime ==
  /\ sent.got = "forwarded" => sinceUp[sent.name] <= PositiveTtl
  /\ sent.got \in {"captured", "servfail"} =>
       sinceDown[sent.name] <= NegativeTtl \/ sinceFail[sent.name] < NegativeTtl

(* No lookup begins for a name whose answer is at hand, waiting or not.    *)
LooksUpOnlyUnknown ==
  [][\A q \in Queries :
       Busy(q, "ask")' /\ ~Busy(q, "ask") => ~Fresh(query'[q].name)]_vars

(* No slot lies idle while a query waits for one, but for a moment in      *)
(* which a waiter that has been woken is about to look: whoever holds a    *)
(* slot passes it on, in whatever order lookups end, names turn out to be  *)
(* answered and queries arrive behind a waiter that has not resumed yet.   *)
NoSlotIdle == waiting # <<>> => free = 0 \/ \E q \in Queries : Busy(q, "woken")
=============================================================================
