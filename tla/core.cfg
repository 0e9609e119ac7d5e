SPECIFICATION HSpec
CONSTANTS
  Strings <- MCStrings
  VarType <- MCTypes
  CaseLimit = 3
  StackSize = 16
  Width <- MCWidth
  Input <- MCInput
  Programs <- CorePrograms
  Vars <- MCVars
  TypeOf <- MCTypes
  MaxDepth = 6
  MaxSaved = 2
  HostContinues = FALSE
INVARIANTS
  FramesMatchCalls
  StatementBalance
  ComputesMeaning
PROPERTIES
  BuiltinContract
  ReturnsToCaller
  OperandsKept
  ParametersRestored
  FunctionGivesResult
  Terminates
