SPECIFICATION Spec
CONSTANTS
  Files = {"f"}
  Contents <- MCLines
  MaxChannels = 2
  MaxRandom = 1
  Block = 2
  Positions <- MCPositions
  Lengths = {0, 1, 2}
  Sizes = {1, 2, 4}
  Texts <- MCShort
  MaxNest = 1
  MaxSize = 4
CHECK_DEADLOCK FALSE
INVARIANTS
  TypeOK
  BufferFits
  EofMeansEnd
  LinesAreWhole
  ShutdownClosesFiles
PROPERTIES
  RecordTransfer
