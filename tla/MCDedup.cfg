SPECIFICATION Spec
CONSTANTS
  Size = 6
  UintRange = 16
  MaxFailures = 1
  NbSharedPages = 3
  UnitsPerPage = 2
  Role <- MCRole
  Value = {v1}
  NoValue = NoValue
  CmdLists <- MCCmdLists
INVARIANTS
  DedupTypeOK
  IInv
PROPERTIES
  FirstWriteCopies
  SharingRightUntilCopied
  FillEnds
  WholeFillStarts
