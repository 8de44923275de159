SPECIFICATION Spec
CONSTANTS
  Symbols <- BatchSymbols
  MaxBatch = 3
INVARIANTS
  TypeOK
  HitsKeepTheBatch
  AloneLikeGetPrice
  DroppedOnlyBehindStatic
  OrderDoesNotShow
PROPERTIES
  BatchEnds
