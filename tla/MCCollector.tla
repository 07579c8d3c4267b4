----------------------------- MODULE MCCollector -----------------------------
(* Small instances of Collector for TLC.                                   *)
EXTENDS CollectorRunLog, TLC

(* Batches of one and of two events: enough to fill, coalesce and split.   *)
PlainBatches == {<<"event">>, <<"event", "event">>}

(* Every way submit() treats an event: valid, a correlation, malformed,    *)
(* past the batch maximum, and a batch none of which is kept.              *)
MixedBatches == {<<"event">>, <<"malformed">>, <<"correlation", "event">>,
                 <<"event", "malformed", "event">>}

SingleEvents == {<<"event">>}

Refused == {"refused"}
AnyFailure == CommitFailures

Symmetry == Permutations(Callers) \cup Permutations(Apps)
=============================================================================
