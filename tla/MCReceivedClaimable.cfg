CONSTANTS
  n1 = n1
  n2 = n2
  f1 = f1
  f2 = f2
  u1 = u1
  u2 = u2
  other = other
  s1 = s1
  s2 = s2
  Notes <- MCNotes
  Foreign <- MCForeign
  Value <- MCValue
  Worth <- MCWorth
  Users <- MCUsers
  Clients <- MCClients
  InitialTokens <- MCTokens
  PoolAddress = pool
  NoAdmin = NoAdmin
  Admins = {a1}
  MaxRoots = 2
  MaxLeaves = 4
  Seed <- UsedPool
  Slots <- OneSlot
  MaxRequests = 3
  MaxFaults = 0
SPECIFICATION Spec
INVARIANT ReceivedIsClaimable
CHECK_DEADLOCK FALSE
