SPECIFICATION LedgersSpec
CONSTANTS
  ForeignBlock = {"e1", "e2", "o1"}
  ChainOf <- MCChainOf
  Ethereum = "eth"
  Index = {1, 2}
  Root <- MCRoots
  Asset = {"wsro", "far", "junk"}
  OriginChain <- MCOriginChain
  Hash = {"h1", "h2"}
  Operator = "operator"
  Bot = "bot"
  Others = {"mallory"}
  Honest = {"operator"}
  Cap = {1, 2}
  Amount = {1}
  BotActivation = 2
  BotReturnCap = 2
  BotReturnWindow = 2
  HistoricalPositions <- MCHistorical
  Supply = 2
  MaxHeight = 4
  MaxBurned = 3
  None = None
  Miner = {alice, bob}
  ShareDifficulty = {2}
  ShareWindow = 3
  Reward = 8
  Cut = 4
  MinPayout = 2
  Maturity = 2
  OrphanDepth = 1
  ReorgDepth = 2
  MaxShares = 1
  MaxBlocks = 2
  MaxPoolTip = 3
  MaxPoolFaults = 1
  NoRecord = NoRecord
SYMMETRY Alike
CONSTRAINT Stories
INVARIANTS
  Solvent
  BotKeyIsCapped
  PaidOnce
  HonestAssetIsBacked
  BooksBalance
  PaidTwiceOnlyUnheard
  OwedIsHeld
CHECK_DEADLOCK FALSE
