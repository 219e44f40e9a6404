\* An instance that combines cores competes with one that takes a single one.
CONSTANTS
  v1 = v1
  v2 = v2
  v3 = v3
  NoVdec = NoVdec
  Vdec = {v1, v2}
  Core = {0, 3}
  InputCore = {0, 3}
  CoreMask <- MaskCombined2
  Combined = {v1}
  MasterOf <- Alone
  Stream = {v2}
  ExtBuf = {v2}
  MaxInput = 1
  MaxRoom = 1
  MaxPipe = 1
  MaxSem = 1
  DisconnectMayTimeout = FALSE
SPECIFICATION Spec
INVARIANTS
  CombinedTogether
  NoLostWakeup
