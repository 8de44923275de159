SPECIFICATION Spec
CONSTANTS
  Handlers = {h1, h2}
  People = {admin, ann}
  Admin = admin
  Symbols = {btc}
  MaxRow = 2
INVARIANTS
  TypeOK
  GatesHold
  
SYMMETRY HandlerSymmetry
