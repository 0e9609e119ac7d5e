SPECIFICATION Spec
CONSTANTS
  Texts <- MCTexts
  Trees <- MCTrees
INVARIANTS
  ParsesBack
PROPERTIES
  Terminates
