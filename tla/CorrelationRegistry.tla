-------------------------- MODULE CorrelationRegistry --------------------------
(***************************************************************************)
(* The collector's registry of pending outbound-fetch hints: bounded,      *)
(* expiring, read incrementally, and waited on by a sinkhole that saw the  *)
(* callback first.                                                         *)
(* Source: platform/collector/bench_collector/correlations.py.             *)
(*                                                                         *)
(* One asyncio process: register() never awaits and wait_for() awaits in   *)
(* one place, so every step below is the code between two awaits.          *)
(***************************************************************************)
EXTENDS Integers, FiniteSets

CONSTANTS
  Ids,           \* correlation ids
  Named,         \* the ids clients give themselves; the rest are uuid4()
  Hosts,         \* destination hosts
  Related,       \* _host_matches: pairs of equal hosts or host and subdomain
  Waiters,       \* long polls of GET /v1/correlations
  MaxEntries,    \* settings.correlation_max
  Ttls,          \* lifetimes a registration may have
  MaxClock,      \* bound: readings of the wall clock
  MaxRegistered, \* bound: registrations of one process lifetime
  None

ASSUME RegistryAssumption ==
  /\ Named \subseteq Ids /\ Related \subseteq Hosts \X Hosts
  /\ MaxEntries \in Nat \ {0} /\ Ttls \subseteq Nat \ {0}
  /\ MaxClock \in Nat /\ MaxRegistered \in Nat
  /\ None \notin Hosts

VARIABLES
  clock,    \* time.time(), which does not step back
  entries,  \* _entries; .pos is the place in the OrderedDict
  counts,   \* registered, expired and overflowed
  waiter,   \* per long poll: where wait_for() is, and what it asks for
  used,     \* history: generated ids already given
  replaced  \* history: registrations that overwrote a live one

vars == <<clock, entries, counts, waiter, used, replaced>>

Entry == [id : Ids, host : Hosts, at : Nat, exp : Nat, pos : Nat]
Counts == [registered : Nat, expired : Nat, overflowed : Nat]
Waiter == [pc : {"idle", "parked", "woken"}, host : Hosts \cup {None}, after : Int]

NotWaiting == [pc |-> "idle", host |-> None, after |-> -1]

(* Types, the cap on entries, and one entry per id and per place.          *)
TypeOK ==
  /\ clock \in Nat /\ entries \subseteq Entry /\ counts \in Counts
  /\ waiter \in [Waiters -> Waiter]
  /\ used \subseteq Ids /\ replaced \in Nat
  /\ IsFiniteSet(entries) /\ Cardinality(entries) <= MaxEntries
  /\ \A d, e \in entries : (d.id = e.id \/ d.pos = e.pos) => d = e

Init ==
  /\ clock = 0 /\ entries = {}
  /\ counts = [registered |-> 0, expired |-> 0, overflowed |-> 0]
  /\ waiter = [w \in Waiters |-> NotWaiting]
  /\ used = {} /\ replaced = 0
-----------------------------------------------------------------------------
(* _evict(): what has expired goes, whenever the registry is looked at.    *)
Live == {e \in entries : e.exp > clock}

(* Mutant: one is counted however many expired.                            *)
EvictedOnce == IF entries = Live THEN 0 ELSE 1

Evicted == Cardinality(entries \ Live)

(* pending(host, registered_after); no cursor is -1.                       *)
Pending(host, after) ==
  {e \in Live : /\ host = None \/ <<host, e.host>> \in Related
                /\ e.at > after}

(* Mutant: expired entries are not evicted before the new one is added.    *)
KeptAll == entries

(* What is there when the new entry is put in: register() evicts first.    *)
Kept == Live

(* A new entry goes behind all others.                                     *)
Place == counts.registered + 1

Oldest(S) == {e \in S : \A d \in S : e.pos <= d.pos}

(* One entry over the cap, and the first goes.                             *)
PushedOut(S) == IF Cardinality(S) > MaxEntries THEN Oldest(S) ELSE {}

(* Mutant: the fresh Event is set, and not the one that is waited on.      *)
WakeNext == UNCHANGED waiter

(* _arrival is set and replaced: everyone who waits on it wakes.           *)
Wake == waiter' = [w \in Waiters |->
  IF waiter[w].pc = "parked" THEN [waiter[w] EXCEPT !.pc = "woken"] ELSE waiter[w]]

(* register(): an id that is registered again keeps its place in the       *)
(* OrderedDict.                                                            *)
Register(id, host, ttl) ==
  LET again == {e \in Kept : e.id = id}
      entry == [id |-> id, host |-> host, at |-> clock, exp |-> clock + ttl,
                pos |-> IF again = {} THEN Place ELSE (CHOOSE e \in again : TRUE).pos]
      grown == (Kept \ again) \cup {entry}
  IN
  /\ counts.registered < MaxRegistered
  /\ id \in Named \/ id \notin used
  /\ entries' = grown \ PushedOut(grown)
  /\ counts' = [registered |-> counts.registered + 1,
                expired |-> counts.expired + Cardinality(entries \ Kept),
                overflowed |-> counts.overflowed + Cardinality(PushedOut(grown))]
  /\ used' = IF id \in Named THEN used ELSE used \cup {id}
  /\ replaced' = replaced + Cardinality(again)
  /\ Wake
  /\ UNCHANGED clock

(* Looking evicts: what stats() and every call of pending() do first.      *)
Look ==
  /\ entries' = Live
  /\ counts' = [counts EXCEPT !.expired = @ + Evicted]

Stats == Look /\ UNCHANGED <<clock, waiter, used, replaced>>

(* wait_for(): a match, or no patience, answers at once; otherwise it      *)
(* parks on the Event that is current now.                                 *)
WaitBegin(w, host, after, patient) ==
  /\ waiter[w].pc = "idle"
  /\ Look
  /\ waiter' = [waiter EXCEPT ![w] =
       IF Pending(host, after) # {} \/ ~patient THEN NotWaiting
       ELSE [pc |-> "parked", host |-> host, after |-> after]]
  /\ UNCHANGED <<clock, used, replaced>>

(* Woken: look again, and park again if there is nothing and time is left. *)
WaitResume(w) ==
  /\ waiter[w].pc = "woken"
  /\ Look
  /\ \/ /\ Pending(waiter[w].host, waiter[w].after) = {}
        /\ waiter' = [waiter EXCEPT ![w].pc = "parked"]
     \/ waiter' = [waiter EXCEPT ![w] = NotWaiting]
  /\ UNCHANGED <<clock, used, replaced>>

(* The timeout, also of a waiter that is woken and has not run yet: one    *)
(* last look, and the answer is what it shows.                             *)
WaitTimeout(w) ==
  /\ waiter[w].pc # "idle"
  /\ Look
  /\ waiter' = [waiter EXCEPT ![w] = NotWaiting]
  /\ UNCHANGED <<clock, used, replaced>>

Tick ==
  /\ clock < MaxClock /\ clock' = clock + 1
  /\ UNCHANGED <<entries, counts, waiter, used, replaced>>

(* The collector restarts: the registry is memory only.                    *)
Restart ==
  /\ entries' = {} /\ counts' = [registered |-> 0, expired |-> 0, overflowed |-> 0]
  /\ waiter' = [w \in Waiters |-> NotWaiting]
  /\ replaced' = 0
  /\ UNCHANGED <<clock, used>>

Next ==
  \/ \E id \in Ids, host \in Hosts, ttl \in Ttls : Register(id, host, ttl)
  \/ \E w \in Waiters :
       \/ \E host \in Hosts \cup {None}, after \in -1..MaxClock, patient \in BOOLEAN :
            WaitBegin(w, host, after, patient)
       \/ WaitResume(w) \/ WaitTimeout(w)
  \/ Stats \/ Tick \/ Restart

Spec == Init /\ [][Next]_vars
-----------------------------------------------------------------------------
(* Every registration of this process is pending, or was counted as        *)
(* expired or overflowed, or was overwritten under its own id.             *)
HintsAccounted ==
  counts.registered =
    Cardinality(entries) + counts.expired + counts.overflowed + replaced

(* A waiter that sleeps has nothing to wake up for: registering between    *)
(* its look and its sleep, or between two sleeps, never strands it.        *)
NoLostWakeup ==
  \A w \in Waiters : waiter[w].pc = "parked" =>
    Pending(waiter[w].host, waiter[w].after) = {}

(* A hint that has not expired is pushed out only by the cap, and only if  *)
(* every place is taken by one that has not expired either.                *)
LiveHintsStay ==
  [][counts'.registered > counts.registered =>
       \A e \in Live : (\A d \in entries' : d.id # e.id) =>
         /\ Cardinality(entries') = MaxEntries
         /\ \A d \in entries' : d.exp > clock]_vars
=============================================================================
