SPECIFICATION MarketsSpec
CONSTANTS
  Transfer = {s1, s2}
  Dir = {"m2b","b2m"}
  Amount = {3}
  Sender = {"user"}
  Gas = {1, 2}
  MinFee = 1
  Float <- MCFloat
  MaxTransfer = 3
  MaxPerHour = 4
  MaxPerDay = 6
  Confirmations <- MCConfirmations
  Resend = 1
  Hour = 2
  Day = 2
  MaxStock <- MCMaxStock
  ReadFailPause = 1
  MaxPayouts = 2
  MaxTip = 3
  MaxFaults = 1
  None = None
  Cold = Cold
  Trader = {"alice", "bob"}
  Beneficiary = "bob"
  Curve = "curve"
  Pool = "pool"
  SupplyForSale = 6
  StartPrice = 4
  One = 4
  Band = 1
  BandUnit = 2
  FeeNum = 9
  FeeDen = 10
  MinimumLiquidity = 1
  DustLimit = 2
  Purse = 8
  Bag = 6
  Offered = {1, 4}
  MaxCalls = 4
  MaxNested = 2
CHECK_DEADLOCK FALSE
CONSTRAINT Short
SYMMETRY Symmetry
INVARIANTS
  SaleIsFunded
  PurchaseIsBest
  PaidTwiceOnlyIf
  LimitsHeld
PROPERTIES
  ShareValueNeverFalls
