SPECIFICATION FairSpec
CONSTANTS
  Step = 2
  Expansions <- Few
  FrameSizes <- Sizes
  MaxIn = 8
  MaxOut = 9
  Extra = TRUE
INVARIANTS TypeOK WithinPayload GrowthKeepsBody
PROPERTIES BodyEnds
CHECK_DEADLOCK FALSE
