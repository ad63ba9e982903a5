SPECIFICATION PoolSpec
CONSTANTS
  Miner = {alice, bob}
  ShareDifficulty = {2}
  ShareWindow = 3
  Reward = 8
  Cut = 4
  MinPayout = 2
  Maturity = 2
  OrphanDepth = 1
  ReorgDepth = 2
  MaxShares = 1
  MaxBlocks = 2
  MaxPoolTip = 3
  MaxPoolFaults = 1
  NoRecord = NoRecord
SYMMETRY Alike
CONSTRAINT FewBlocks
INVARIANTS
  NothingPaidTwice
CHECK_DEADLOCK FALSE
