SPECIFICATION Spec
CONSTANTS
  Streams = {1}
  MaxFrames <- LongRequests
  MaxSettings = 1
  InitialWindow = 1
  Modes = {"direct", "tlsupgrade", "h2c"}
  Compressed = FALSE
INVARIANTS TypeOK PrefaceFirst FrameHasMessage AckEndToEnd NothingDue
CHECK_DEADLOCK FALSE
