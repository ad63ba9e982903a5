SPECIFICATION Spec
CONSTANTS
  Transfer = {s1}
  Dir = {"m2b"}
  Amount = {3}
  Sender = {"user"}
  Gas = {1, 2}
  MinFee = 1
  Float <- MCFloat
  MaxTransfer = 3
  MaxPerHour = 4
  MaxPerDay = 6
  Confirmations <- MCConfirmations
  Resend = 1
  Hour = 2
  Day = 2
  MaxStock <- MCMaxStock
  ReadFailPause = 1
  MaxPayouts = 2
  MaxTip = 2
  MaxFaults = 0
  None = None
  Cold = Cold
CONSTRAINT Short
INVARIANTS
  NeverPaidTwice
