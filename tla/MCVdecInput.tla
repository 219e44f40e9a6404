----------------------------- MODULE MCVdecInput -----------------------------
(* Instances of VdecInput for TLC.                                         *)
EXTENDS VdecInput, TLC

CONSTANTS b1, b2, b3, c1, c2, c3

(* Blocks and chunks are only compared with each other.                    *)
Symmetry == Permutations({b1, b2, b3}) \cup Permutations({c1, c2, c3})
=============================================================================
