SPECIFICATION Spec
CONSTANTS
  Publisher = {s, q}
  Scripted = {s}
  Liar = {q}
  Equivocator = {q}
  MinimumBond = 1
  WithdrawDelay = 1
  MaxTip = 4
  MaxEth = 2
  MaxBond = 1
  Burn = {b}
  BridgeOut = {o}
  Invented = {b}
  MaxReorgDepth = 1
  Depth = 2
  ChallengeBlocks = 1
  Window = {1}
  Word = 8
  MaxPending = 1
  None = None
  Release <- MCRelease
  Runs <- MCRuns
  Carries <- MCCarries
  MinLauncher <- MCMinLauncher
  Before <- MCBefore
  Staged <- MCStaged
  Lead = 0
  MaxHeight = 1
  MaxNode = 2
  MaxFaults = 1
  Person = {p1, p2}
  Cost = 2
  GrantExpressions = 2
  Treasury = 2
  MaxMempoolPerSender = 2
  MaxOpen = 1
  MaxIssues = 2
  MaxAirdrops = 2
  MaxGrantFaults = 2
  NoTransaction = NoTransaction
CHECK_DEADLOCK FALSE
INVARIANTS
  PaidForIsMined
  BondOutlivesBinding
  ScriptStrandsNoBurn
  NeverIdle
  GivenOnce
