SPECIFICATION FairSpec
CONSTANTS
  Streams = {1}
  MaxFrames <- LongResponses
  MaxSettings = 1
  InitialWindow = 2
  Modes = {"direct", "tlsupgrade", "h2c"}
  Compressed = TRUE
INVARIANTS Conservation FrameHasMessage
PROPERTIES ImplementsStreamRelay NoStall
CHECK_DEADLOCK FALSE
