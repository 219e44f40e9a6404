\* Two instances on one core; the hardware may hang, resets at any time.
CONSTANTS
  v1 = v1
  v2 = v2
  Vdec = {v1, v2}
  NoVdec = NoVdec
  MaxReports = 2
  MayHang = TRUE
  Late = FALSE
  Leaver = {v1}
SPECIFICATION FairSpec
INVARIANTS
  TypeOK
  RunStartsClean
  HardwareOwned
  InterruptsMatched
  HandledInItsRun
PROPERTIES
  RunEnds
  Reconnects
CHECK_DEADLOCK FALSE
