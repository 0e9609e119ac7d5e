SPECIFICATION Spec
CONSTANTS
  Prime = 3
  Names = {"a", "b"}
  MaxOrder = 3
  Typed <- MCTyped
  Heap = {1, 2}
  Initial <- MCInitial
  MaxSteps = 2
INVARIANTS
  TypeOK
PROPERTIES
  ResultsAreRight
  ScalarsAreRight
  FailureKeepsArrays
CHECK_DEADLOCK FALSE
