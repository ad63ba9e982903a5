SPECIFICATION Spec
CONSTANTS
  Header <- MCHeader
  Checkpoint = "c"
  Parent <- MCParent
  Number <- MCNumber
  Time <- MCTime
  Difficulty <- MCDifficulty
  Ancestors <- MCAncestors
  Work <- MCWork
  TargetSeconds = 2
  MinimumDifficulty = 1
  MaxReorg = 3
  Tx = {"t", "u"}
  Txs <- MCTxs
  Amount <- MCAmount
  RequiredWork = {1, 2}
  MaxRun = 2
  MaxPot = 1
  NoHeader = NoHeader
  Return <- MCReturn
  EthBlock <- MCEthBlock
  BlockOf <- MCBlockOf
  Returned <- MCReturned
  ReturnCap = 1
  MaxMined = 5
  MaxBotFaults = 1
  Nothing = Nothing
  Transaction = {"x1", "x1b", "x2", "y1"}
  Sender <- MCSender
  Nonce <- MCNonce
  GasPrice <- MCPrice
  FreeToSpeak = {}
  MinGasPrice = 1
  MaxMempoolSize = 3
  MaxMempoolPerSender = 3
  Intrinsic <- MCIntrinsic
  GasUsed <- MCGasUsed
  GasLimit = 2
  MaxMoves = 2
CHECK_DEADLOCK FALSE
INVARIANTS
  IndexIsBestChain
  ReturnedIsSpent
  OwnBlockRunsAgain
PROPERTIES
  RelayEndsOnHeaviest
  BotEveryReturnLands
  MinerServesEveryTx
