SPECIFICATION Spec
CONSTANTS
  Wallet = {ana, bia}
  Title = {survey}
  Poll = {place, square}
  Serial = {s1, s2, s3}
  Declaration <- Questions
  Amount = {0, 1, 2}
  PublisherKey = {pub1, pub2}
  StrangerKey = {other}
  Quota = 1
  StateFile = TRUE
  MaxTokens = 2
  MaxUnits = 2
  MaxActs = 3
  None = None
SYMMETRY Alike
CONSTRAINT Apart
INVARIANTS
  OneVoice
  UnitsConserved
  QuotaHolds
