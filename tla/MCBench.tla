------------------------------- MODULE MCBench -------------------------------
(* Instances of BenchRun for TLC.                                          *)
EXTENDS BenchRun, TLC
=============================================================================
