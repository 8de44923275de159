SPECIFICATION Spec
CONSTANTS
  Requests = {r1, r2}
  USD = USD
  OIL = OIL
  Symbols = {USD, OIL}
  ChainLength <- TwoProviders
  CacheTTL = 2
  CallTimeout = 2
  FXTTL = 3
  FXTimeout = 1
  MaxTime = 8
INVARIANTS
  TypeOK
  EntriesYoung
  SkewBounded
  NoAskWhileCached
PROPERTIES
  RegressionBounded
  Freshness
  RequestsAnswered
