SPECIFICATION TreesSpec
CONSTANTS
  Block <- MCBlock
  Genesis = "g"
  Parent <- MCParent
  Height <- MCHeight
  Work <- MCWork
  Ancestors <- MCAncestors
  Valid <- MCValid
  HashRank <- MCHashRank
  Tx <- MCTx
  Txs <- MCTxs
  Sender <- MCSender
  Nonce <- MCNonce
  GasPrice <- MCGasPrice
  FreeToSpeak = {"u0"}
  MinGasPrice = 1
  MaxMempoolSize = 1
  MaxMempoolPerSender = 1
  Anchor <- MCAnchor
  Publishers = {"p"}
  EthConfirmations = 1
  EthBlocks = {1, 2, 3}
  Task = {t1, t2}
  Persisting = {t1}
  MaxReorgDepth = 2
  MaxOrphans = 2
  MaxResolutionDepth = 3
  MaxCrashes = 1
INVARIANTS
  ContradictedNeverBinds
PROPERTIES
  ReorgIsBounded
  ExtensionNeverRefused
  AnchoredFloorHolds
  DroppedTxIsPending
  OrphanLostOnlyToInvalid
  OrphansEndOnHeaviest
