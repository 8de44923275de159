SPECIFICATION Spec
CONSTANTS
  Chats = {7001}
  RowOf <- FirstRow
  Handlers = {h1, h2}
  MaxMessages = 3
INVARIANTS
  PromptIsKnown
SYMMETRY HandlerSymmetry
