CONSTANTS
  a1 = a1
  a2 = a2
  b1 = b1
  b2 = b2
  UsdcNotes <- MCUsdcNotes
  UsdcValue <- MCUsdcValue
  UsdcWorth <- MCUsdcWorth
  UsdcTokens <- MCUsdcTokens
  XlmNotes <- MCXlmNotes
  XlmValue <- MCXlmValue
  XlmWorth <- MCXlmWorth
  XlmTokens <- MCXlmTokens
  Users = {u1}
  UsdcPool = usdcPool
  XlmPool = xlmPool
  NoAdmin = NoAdmin
  Admins = {admin1}
  MaxRoots = 2
  MaxLeaves = 3
SPECIFICATION Spec
INVARIANT BothPoolsHonourNotes
PROPERTY ImplementsExchange
CHECK_DEADLOCK FALSE
