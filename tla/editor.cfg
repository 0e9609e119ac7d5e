SPECIFICATION Spec
CHECK_DEADLOCK FALSE
CONSTANTS
  Text <- MCText
  Blank = {" "}
  Cut <- MCCut
  Rest <- MCRest
  Format <- MCFormat
  Nothing = ""
  NoRest = "none"
  Length <- MCLength
  Names = {"a"}
  Foreign <- MCForeign
  MaxLines = 3
  BufferSize = 8
INVARIANTS
  TypeOK
PROPERTIES
  ImplementsProgramText
  SourceFits
  DeleteIsExact
