SPECIFICATION Spec
CONSTANTS
  Chats = {c1, c2}
  NoChat = NoChat
  Intervals = {1, 2}
  NextInterval <- ShortOrLong
  MaxTime = 3
INVARIANTS
  TypeOK
  LatePostsBounded
  PowerOffBounded
  RecordMatchesWorld
PROPERTIES
  SpacingRespected
  PassEnds
