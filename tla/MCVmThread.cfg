SPECIFICATION FairSpec
CONSTANTS
  v1 = v1
  NoValue = NoValue
  MaxBody = 2
  MaxInterrupts = 2
  Role <- MCRole
  Value <- MCValue
  CmdLists <- MCCmdLists
INVARIANTS
  TypeOK
  ThreadInv
  ParametersStable
  StampsAccounted
  CommandInBounds
  MeasuresAsExpected
  ExitStatusTruthful
PROPERTIES
  Termination
  ImplementsStream
