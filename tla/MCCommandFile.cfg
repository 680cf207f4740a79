SPECIFICATION Spec
CONSTANTS
  v1 = v1
  v2 = v2
  NoValue = NoValue
  Repeat = 1
  Samples = 20
  Iterations <- MCIterations
  Role <- MCRole
  Value <- MCValue
  CmdLists <- MCCmdLists
INVARIANTS
  TypeOK
  IInv
  WithinAllocation
  LoadedIsGenerated
  MeasuresFit
