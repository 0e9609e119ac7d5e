SPECIFICATION Spec
CONSTANTS
  MaxInterval = 2
  MaxCallback = 3
  MaxDepth = 2
INVARIANTS
  TypeOK
  ArmedIsOwed
PROPERTIES
  NeverEarly
  EventuallyCalled
