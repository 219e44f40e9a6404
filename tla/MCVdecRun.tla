------------------------------ MODULE MCVdecRun ------------------------------
(* Instances of VdecRun for TLC.                                           *)
EXTENDS VdecRun, TLC

CONSTANTS v1, v2

Symmetry == Permutations({v1, v2})
=============================================================================
