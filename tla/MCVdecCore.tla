----------------------------- MODULE MCVdecCore -----------------------------
(* Instances of VdecCore for TLC.                                          *)
EXTENDS VdecCore, TLC

CONSTANTS v1, v2, v3

(* The used cores: values of enum vdec_type_e.                             *)
VDEC_1 == 0
HEVC == 3
HEVCB == 4

HevcCores == {HEVC, HEVCB}
Alone == [v \in Vdec |-> NoVdec]

(* A single-core instance and a front/back one compete for the HEVC core.  *)
MaskFrontBack == (v1 :> {HEVC}) @@ (v2 :> HevcCores)

(* Front/back instances only.                                              *)
MaskHevc == [v \in Vdec |-> HevcCores]

(* Instances that all decode on VDEC_1.                                    *)
MaskVdec1 == [v \in Vdec |-> {VDEC_1}]

(* A dual layer pair (v2 is the slave) and a stranger, all on VDEC_1.      *)
Layers == [v \in Vdec |-> IF v = v2 THEN v1 ELSE NoVdec]

(* v1 takes both cores together, v2 and v3 take one each.                  *)
MaskCombined2 == (v1 :> {VDEC_1, HEVC}) @@ (v2 :> {HEVC})
MaskCombined3 == (v1 :> {VDEC_1, HEVC}) @@ (v2 :> {HEVC}) @@ (v3 :> {VDEC_1})
=============================================================================
