SPECIFICATION Spec
CONSTANTS
  v1 = v1
  NoValue = NoValue
  NbSharedPages = 2
  OtherPages = 1
  Role <- MCRole
  Value <- MCValue
  CmdLists <- MCCmdLists
PROPERTIES
  DedupBeforeRun
