\* The hardware, or the interrupt thread, may answer when the time is up.
CONSTANTS
  v1 = v1
  v2 = v2
  Vdec = {v1, v2}
  NoVdec = NoVdec
  MaxReports = 1
  MayHang = FALSE
  Late = TRUE
  Leaver = {}
SPECIFICATION Spec
INVARIANTS
  RunStartsClean
CHECK_DEADLOCK FALSE
