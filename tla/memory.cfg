SPECIFICATION Spec
CONSTANTS
  Size = 4
  Home = 2
  Byte = {0, 1}
  Zero = 0
  NoMemory = NoMemory
  Addresses <- MCAddresses
  MaxLoad = 3
  MaxBlock = 2
  Names = {"a"}
  Foreign <- MCForeign
  MaxDepth = 2
INVARIANTS
  TypeOK
  MemoryThere
  CopyIsMove
  LoadRestores
PROPERTIES
  FreshMemory
