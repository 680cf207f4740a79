SPECIFICATION Spec
CONSTANTS
  v1 = v1
  NoValue = NoValue
  NbSharedPages = 2
  OtherPages = 0
  Role <- MCRole
  Value <- MCValue
  CmdLists <- MCCmdLists
INVARIANTS
  ShownIsStatus
