\* Copied and secure frames; allocations fail, resets, totals wrap around.
CONSTANTS
  b1 = b1
  b2 = b2
  b3 = b3
  c1 = c1
  c2 = c2
  c3 = c3
  NoBlock = NoBlock
  Block = {b1, b2, b3}
  Chunk = {c1, c2, c3}
  Releaser = {core}
  Count = {1, 7}
  CacheLine = 1
  PageSize = 2
  ExtraPad = 2
  BlockSize = 4
  BlockSizeMax = 4
  BlockAlign = 4
  Prepared = 2
  MinLevel = 2
  MaxLevel = 6
  MaxTotal = 12
  MaxFrames = 1
  Wrap = 64
  SecureModes = {TRUE, FALSE}
  MayFail = TRUE
  MayReset = TRUE
SPECIFICATION Spec
INVARIANTS
  InputInv
  NoOverwrite
  Accounts
  LevelExact
PROPERTIES
  ImplementsFifo
SYMMETRY Symmetry
