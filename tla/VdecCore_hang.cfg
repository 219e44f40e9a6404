\* A parser fed front/back instance; hardware that may hang and waits that expire.
CONSTANTS
  v1 = v1
  v2 = v2
  v3 = v3
  NoVdec = NoVdec
  Vdec = {v1}
  Core <- HevcCores
  InputCore = {3}
  CoreMask <- MaskHevc
  Combined = {}
  MasterOf <- Alone
  Stream = {v1}
  ExtBuf = {}
  MaxInput = 2
  MaxRoom = 2
  MaxPipe = 2
  MaxSem = 2
  DisconnectMayTimeout = TRUE
SPECIFICATION HangSpec
INVARIANTS
  NoLostWakeup
PROPERTIES
  ReleaseEnds
\* A freed instance that stays on the list keeps its only name: no new one.
CHECK_DEADLOCK FALSE
