SPECIFICATION Spec
CONSTANTS
  Chats = {c1}
  Handlers = {h1, h2}
  Intervals = {5, 10}
  NextInterval <- FiveOrTen
  Default = 10
INVARIANTS
  TypeOK
  RemovedIsOff
  AcksHold
  PanelTruthful
SYMMETRY HandlerSymmetry
