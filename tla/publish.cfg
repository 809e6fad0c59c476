SPECIFICATION Spec
CONSTANTS
  MaxChunk = 2
  StreamId = 7
  MaxFrames = 2
INVARIANTS TypeOK InOrderAndWhole
PROPERTIES PublishesOrCloses CloseReturns
CHECK_DEADLOCK FALSE
