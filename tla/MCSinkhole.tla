------------------------------ MODULE MCSinkhole ------------------------------
(* Small instances of Sinkhole for TLC.                                    *)
EXTENDS Sinkhole, TLC

CONSTANTS h1, h2

Symmetry == Permutations(Hosts)
=============================================================================
