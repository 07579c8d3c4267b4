------------------------------ MODULE MCRegistry ------------------------------
(* Small instances of CorrelationRegistry for TLC.                         *)
EXTENDS CorrelationRegistry, TLC

CONSTANTS h1, h2, i1, i2, i3, w1, w2

(* Two hosts with nothing in common.                                       *)
SameHost == {<<h, h>> : h \in Hosts}

ShortAndLong == {1, 2}

Symmetry == Permutations(Waiters) \cup Permutations(Hosts) \cup Permutations(Ids \ Named)
=============================================================================
