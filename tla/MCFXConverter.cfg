SPECIFICATION Spec
CONSTANTS
  Callers = {c1, c2}
  TTL = 3
  FetchTimeout = 2
  MaxTime = 9
INVARIANTS
  TypeOK
  ExpiryTracksQuote
  NoFetchWhileFresh
PROPERTIES
  RegressionBounded
  Freshness
