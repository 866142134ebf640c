CONSTANTS
  n1 = n1
  n2 = n2
  n3 = n3
  Notes <- MCNotes
  Value <- MCValue
  Worth <- MCWorth
  InitialTokens <- MCInitialTokens
  Users = {u1, u2}
  PoolAddress = pool
  NoAdmin = NoAdmin
  Admins = {a1}
  MaxRoots = 2
  MaxLeaves = 3
SPECIFICATION Spec
INVARIANTS
  RootIsOfCommitments
  WindowIsRecentHistory
  NoDoubleSpend
  OnlyCommittedNotesSpent
  Solvency
  NotesStayWithdrawable
PROPERTIES
  HistoryAppendOnly
  ImplementsLedger
CHECK_DEADLOCK FALSE
