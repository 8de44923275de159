SPECIFICATION Spec
CONSTANTS
  Symbols <- BatchSymbols
  MaxBatch = 3
INVARIANT
  SalvagesPartialData
