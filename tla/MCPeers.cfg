SPECIFICATION Spec
CONSTANTS
  Block <- MCBlock
  Genesis = "g"
  Parent <- MCParent
  Height <- MCHeight
  Work <- MCWork
  Ancestors <- MCAncestors
  Valid <- MCBlock
  HashRank <- MCHashRank
  Tx = {}
  Txs <- NoTxs
  Node <- MCNode
  Network <- Reachable
  MaxReorgDepth = 1
  SyncWindow = 2
  PageSize = 2
  Margin = 0
  Established = 2
  DropAfter = 2
  MaxPeers = 2
  Idle = Idle
CHECK_DEADLOCK FALSE
PROPERTIES
  NodesConverge
  EverybodyMines
