\* A dual layer pair; fairness.
CONSTANTS
  v1 = v1
  v2 = v2
  v3 = v3
  NoVdec = NoVdec
  Vdec = {v1, v2}
  Core = {0}
  InputCore = {0}
  CoreMask <- MaskVdec1
  Combined = {}
  MasterOf <- Layers
  Stream = {}
  ExtBuf = {}
  MaxInput = 2
  MaxRoom = 1
  MaxPipe = 1
  MaxSem = 1
  DisconnectMayTimeout = FALSE
SPECIFICATION FairSpec
INVARIANTS
  IndInv
  OneTurn
  NoLostWakeup
  DisconnectQuiesces
PROPERTIES
  DisconnectReturns
