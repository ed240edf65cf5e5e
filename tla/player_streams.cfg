SPECIFICATION FairStreamsSpec
CONSTANTS
  MaxStream = 2
  MaxGeneration = 2
  MaxConnection = 3
  MaxChange = 1
  MaxRequest = 1
  QueueSize = 1
  Window = 1
  Presentation <- Rows
  Nothing = Nothing
CHECK_DEADLOCK FALSE
INVARIANTS StreamsAreCurrent RegistrationsAreServed
PROPERTIES PageCatchesUp UplinksSettle
