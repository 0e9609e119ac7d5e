SPECIFICATION Spec
CONSTANTS
  Files = {"f", "g"}
  Contents <- MCShort
  MaxChannels = 3
  MaxRandom = 1
  Block = 1
  Positions <- MCNumbers
  Lengths = {1}
  Sizes = {1}
  Texts <- MCShort
  MaxNest = 2
  MaxSize = 1
CHECK_DEADLOCK FALSE
INVARIANTS
  ShutdownClosesFiles
