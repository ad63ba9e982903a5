SPECIFICATION ForkSpec
CONSTANTS
  Block <- MCBlock
  Genesis = "g"
  Parent <- MCParent
  Height <- MCHeight
  Work <- MCWork
  Ancestors <- MCAncestors
  Valid <- MCValid
  HashRank <- MCHashRank
  Tx = {}
  Txs <- NoTxs
  Sender <- None
  Nonce <- None
  GasPrice <- None
  FreeToSpeak = {}
  MinGasPrice = 0
  MaxMempoolSize = 1
  MaxMempoolPerSender = 1
  Anchor = {}
  Publishers = {}
  EthConfirmations = 1
  EthBlocks = {1}
  Task = {t1, t2}
  Persisting = {t1}
  MaxReorgDepth = 1
  MaxOrphans = 2
  MaxResolutionDepth = 2
  MaxCrashes = 1
  Person = {"alice"}
  Deployed = {"c"}
  Created = {"x"}
  Coinbase = "miner"
  Authority = "authority"
  AssetContract = "c"
  Funds <- MCFunds
  IntrinsicGas = 1
  GasLimit = {2}
  GasPrices = {1}
  PublishBurn = 1
  BlockReward = 1
  MaxValue = 1
  MaxTxs = 2
  MaxSteps = 3
  MaxDepth = 3
  MaxBlocksMined = 1
  NoTx = NoTx
CHECK_DEADLOCK FALSE
INVARIANTS
  MoliAccountedFor
  OnlyKeptCallsCount
  HeaviestOrRefused
PROPERTIES
  AppliedOrUntouched
  RefinesHeaviestChain
