CONSTANTS
  Depth = 3
  Zero = zero
  TreeLeaves = {zero, x1, x2}
  payer = payer
  k1 = k1
  k2 = k2
  Payers = {payer}
  Invocations = {k1, k2}
  PayerOf <- MCPayerOf
  Horizon = 3
  mail = mail
  google = google
  Emails = {mail}
  GoogleId <- MCGoogleId
  None = none
  Ids = {"i1", "i2"}
  Sessions = {"tab1", "tab2"}
  MaxSealed = 1
  LegacyNotes = 0
  Users = {"ann", "bob"}
  OfferIds = {"o1", "o2"}
  Rates = {1}
  OfferAmounts = {1}
  MaxSwaps = 2
  MaxWrites = 2
  RoutedLimit = 1
  OutcomeLimit = 1
  p1 = p1
  p2 = p2
  Pools = {p1, p2}
  HomeOf <- MCHomeOf
  Environments <- MCEnvironments
  Unset = unset
  Leaves = {c1, c2}
  MaxLeaves = 2
  MaxAppends = 2
  MaxFaults = 1
  Slots = {s1, s2}
  Pages = {"funding", "actions", "portfolio", "playbook", "settlement", "liquidity"}
  SwapIds = {deal}
  Roles = {"bob"}
  Grant = 2
  PaidIn <- MCPaidIn
  MaxAudits = 1
  MaxLag = 1
  DeskNotes = 2
  WalletLimit = 12
  HistoryLimit = 1
  AuditLimit = 1
  SwapLimit = 1
  TimelineLimit = 3
  LatestLimit = 2
  ActivityLimit = 1
  SponsorMax = 1
  Sponsoring = TRUE
  OpenOffers = 1
  ActiveUsers = 1
  BacklogWarns = 1
  BacklogBlocks = 1
  BacklogCritical = 2
  SomeFailures = 1
  ManyFailures = 1
  ManySwapAudits = 1
  Provider = TRUE
  Tabs = {tab}
  Role = "alice"
  Amount = 1
  MaxClicks = 2
  PurseNotes = 2
  Inputs = {1, 2}
  NoInput = none
  MaxAsked = 3
SPECIFICATION MCSpec
INVARIANTS
  RootIsOfFullTree
  PathsProve
  RootsDiffer
  AnswersAreTrue
  KeysOpen
  BoardsCountTheSame
  HealthyMeansCached
  PlannersAgree
  TroubleHasARemedy
  ClicksPayOnce
  PreviewFitsInput
PROPERTIES
  OneAccountEach
  RelistingIsDeliberate
  KeepsUp
  AdviceLeadsHome
  ButtonsComeBack
CHECK_DEADLOCK FALSE
