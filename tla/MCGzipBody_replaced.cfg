SPECIFICATION Spec
CONSTANTS
  Step = 2
  Expansions <- Few
  FrameSizes <- Sizes
  MaxIn = 8
  MaxOut = 14
  Extra = FALSE
INVARIANTS BodyIntact
CHECK_DEADLOCK FALSE
