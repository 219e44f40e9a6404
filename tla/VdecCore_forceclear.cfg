\* The forced removal after timeouts.
CONSTANTS
  v1 = v1
  v2 = v2
  v3 = v3
  NoVdec = NoVdec
  Vdec = {v1, v2}
  Core = {0}
  InputCore = {0}
  CoreMask <- MaskVdec1
  Combined = {}
  MasterOf <- Alone
  Stream = {}
  ExtBuf = {}
  MaxInput = 1
  MaxRoom = 1
  MaxPipe = 1
  MaxSem = 1
  DisconnectMayTimeout = TRUE
SPECIFICATION Spec
INVARIANT
  ReleasableAfterForceClear
