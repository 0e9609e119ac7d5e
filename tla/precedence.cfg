SPECIFICATION Spec
CONSTANTS
  Texts <- Precedence
  Trees <- MCTrees
INVARIANTS
  ParsesBack
