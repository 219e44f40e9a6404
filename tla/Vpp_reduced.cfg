CONSTANTS
  NoFrame = NoFrame
  NumBuf = 4
  DpbSize = 3
  VppNum = 1
  MinFree = 2
  VfPool = 8
  InSize = 3
  OutSize = 2
  DiSize = 1
  Times = 4
  MaxPermits = 1
  MaxOffs = 0
  Modes <- OneMode
SPECIFICATION Spec
INVARIANTS OneOwner
