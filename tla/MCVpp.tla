-------------------------------- MODULE MCVpp --------------------------------
(* Instances of Vpp for TLC: the modes of vpp_needed and                   *)
(* v4l_buf_size_decision.                                                  *)
EXTENDS Vpp

Interlaced      == [is_prog |-> FALSE, alloc |-> FALSE]   \* VPP_MODE_DI
InterlacedLocal == [is_prog |-> FALSE, alloc |-> TRUE]    \* VPP_MODE_DI_LOCAL
Reduced         == [is_prog |-> TRUE, alloc |-> FALSE]    \* VPP_MODE_NOISE_REDUC
ReducedLocal    == [is_prog |-> TRUE, alloc |-> TRUE]     \* VPP_MODE_NOISE_REDUC_LOCAL

MCModes == {Interlaced, ReducedLocal}
OneMode == {Reduced}
=============================================================================
