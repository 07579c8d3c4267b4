------------------------------ MODULE MCResolver ------------------------------
(* Instances of UpstreamResolver for TLC.                                  *)
EXTENDS UpstreamResolver, TLC

CONSTANTS q1, q2, q3, plain, internal

Symmetry == Permutations(Queries)
=============================================================================
