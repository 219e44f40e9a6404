\* A single-core and a front/back instance, frame based, no timeouts.
CONSTANTS
  v1 = v1
  v2 = v2
  v3 = v3
  NoVdec = NoVdec
  Vdec = {v1, v2}
  Core <- HevcCores
  InputCore = {3}
  CoreMask <- MaskFrontBack
  Combined = {}
  MasterOf <- Alone
  Stream = {}
  ExtBuf = {}
  MaxInput = 1
  MaxRoom = 1
  MaxPipe = 1
  MaxSem = 1
  DisconnectMayTimeout = FALSE
SPECIFICATION Spec
INVARIANTS
  TypeOK
  CoreExclusive
  CoresAccounted
  DisconnectQuiesces
  NoDanglingVdec
  NoLostWakeup
PROPERTIES
  ImplementsCoreAlloc
