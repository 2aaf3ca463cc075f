SPECIFICATION Spec
CONSTANTS
  Streams = {1}
  MaxFrames <- LongRequests
  MaxSettings = 1
  InitialWindow = 1
  Modes = {"direct"}
  Compressed = FALSE
INVARIANTS HeldDataIntact
CHECK_DEADLOCK FALSE
