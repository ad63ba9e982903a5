SPECIFICATION RelaySpec
CONSTANTS
  Header <- MCHeader
  Checkpoint = "c"
  Parent <- MCParent
  Number <- MCNumber
  Time <- MCTime
  Difficulty <- MCDifficulty
  Ancestors <- MCAncestors
  Work <- MCWork
  TargetSeconds = 2
  MinimumDifficulty = 1
  MaxReorg = 2
  Tx = {"t", "u"}
  Txs <- MCTxs
  Amount <- MCAmount
  RequiredWork = {1, 2}
  MaxRun = 2
  MaxPot = 1
  NoHeader = NoHeader
PROPERTIES
  PaidOnlyIfSettled
