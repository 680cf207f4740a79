CONSTANTS
  Role <- MCRole
  Value = {v1}
  NoValue = none
  CmdLists <- MCCmdLists
  Entries = 8
  AccessWidth = 2
  NbPd = 2
  RunPages = 2
  ExitCodeAddr = 4
  NbSamples = 12
  NbOwnPages = 2
  NbSharedPages = 2

SPECIFICATION Spec

INVARIANTS
  TypeOK
  IInv
  IdentityMapped
  AssertsGuardTables
  AccessesServed

PROPERTIES
  EntriesWrittenOnce
