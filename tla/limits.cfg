SPECIFICATION HSpec
CONSTANTS
  Strings <- MCStrings
  VarType <- MCTypes
  CaseLimit = 32
  StackSize = 4
  Width <- MCWidth
  Input <- MCInput
  Programs <- LimitPrograms
  Vars <- MCVars
  TypeOf <- MCTypes
  MaxDepth = 3
  MaxSaved = 2
  HostContinues = TRUE
INVARIANTS
  TypeOK
  ControlStaysInCode
  FramesFollowCalls
PROPERTIES
  ResumesAtFault
