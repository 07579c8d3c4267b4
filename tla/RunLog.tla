------------------------------- MODULE RunLog -------------------------------
(***************************************************************************)
(* What the collector promises to its clients, with no queue, no writer,   *)
(* no lock and no memory to lose.  At most one run is open.  An event is   *)
(* stamped, when it is accepted, with the run open at that moment and only *)
(* then.  Each run has a log that only grows, in order of acceptance.  An  *)
(* event can be lost on its way to its log, but not misplaced, duplicated  *)
(* or overtaken.  A run that has been closed never opens again.            *)
(***************************************************************************)
EXTENDS Naturals, Sequences

CONSTANTS Runs, None

VARIABLES
  open,   \* the open run, or None
  used,   \* the runs that have been opened
  stamp,  \* stamp[e] is the run of the e-th accepted event
  log,    \* the stored events of each run, in order
  gone    \* the events that were lost

vars == <<open, used, stamp, log, gone>>

LoggedIn(r) == {log[r][i] : i \in DOMAIN log[r]}
Pending == (DOMAIN stamp \ gone) \ UNION {LoggedIn(r) : r \in Runs}

Init ==
  /\ open = None /\ used = {} /\ stamp = <<>>
  /\ log = [r \in Runs |-> <<>>] /\ gone = {}

Open(r) ==
  /\ open = None /\ r \notin used
  /\ open' = r /\ used' = used \cup {r}
  /\ UNCHANGED <<stamp, log, gone>>

Close ==
  /\ open # None /\ open' = None
  /\ UNCHANGED <<used, stamp, log, gone>>

(* A batch is accepted as a whole, for the open run.                       *)
Accept ==
  /\ open # None
  /\ Len(stamp') > Len(stamp)
  /\ stamp' = stamp \o [i \in 1..(Len(stamp') - Len(stamp)) |-> open]
  /\ UNCHANGED <<open, used, log, gone>>

(* s extends log t by events of S, every one of them, in order.            *)
Extends(s, t, S) ==
  /\ Len(s) >= Len(t) /\ SubSeq(s, 1, Len(t)) = t
  /\ {s[i] : i \in (Len(t) + 1)..Len(s)} = S
  /\ \A i, j \in (Len(t) + 1)..Len(s) : i < j => s[i] < s[j]

(* The oldest pending events go to their logs in one transaction ...       *)
Oldest(S) == S # {} /\ \A e \in S, d \in Pending : d < e => d \in S

Store ==
  \E S \in SUBSET Pending :
    /\ Oldest(S)
    /\ \A r \in Runs : Extends(log'[r], log[r], {e \in S : stamp[e] = r})
    /\ DOMAIN log' = Runs
    /\ UNCHANGED <<open, used, stamp, gone>>

(* ... or are lost together.                                               *)
Lose ==
  /\ \E S \in SUBSET Pending : Oldest(S) /\ gone' = gone \cup S
  /\ UNCHANGED <<open, used, stamp, log>>

(* An interruption loses everything pending and may complete a close.      *)
Interrupt ==
  /\ gone' = gone \cup Pending
  /\ open' \in {open, None}
  /\ UNCHANGED <<used, stamp, log>>

Next == (\E r \in Runs : Open(r)) \/ Close \/ Accept \/ Store \/ Lose \/ Interrupt

Spec == Init /\ [][Next]_vars
=============================================================================
