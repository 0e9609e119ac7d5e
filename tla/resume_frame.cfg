SPECIFICATION HSpec
CONSTANTS
  Strings <- MCStrings
  VarType <- MCTypes
  CaseLimit = 32
  StackSize = 16
  Width <- MCWidth
  Input <- MCInput
  Programs <- ResumeProgram
  Vars <- MCVars
  TypeOf <- MCTypes
  MaxDepth = 6
  MaxSaved = 2
  HostContinues = FALSE
PROPERTIES
  ReturnsToCaller
