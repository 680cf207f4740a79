SPECIFICATION Spec
CONSTANTS
  v1 = v1
  NoValue = NoValue
  Zero = Zero
  Role <- MCRole
  Value <- MCValue
  CmdLists <- WithPrint
INVARIANTS
  NoneDropped
