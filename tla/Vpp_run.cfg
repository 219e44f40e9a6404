CONSTANTS
  NoFrame = NoFrame
  NumBuf = 3
  DpbSize = 2
  VppNum = 1
  MinFree = 1
  VfPool = 6
  InSize = 6
  OutSize = 2
  DiSize = 1
  Times = 2
  MaxPermits = 1
  MaxOffs = 1
  Modes <- MCModes
SPECIFICATION FairSpec
INVARIANTS VppInv PictureInv OneOwner RecycleFindsPicture NeverGivesUp InOrder
PROPERTIES KeepsPlaying
