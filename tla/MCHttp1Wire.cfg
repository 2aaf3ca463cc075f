SPECIFICATION FairSpec
CONSTANTS
  Requests <- SomeRequests
  Responses <- SomeResponses
  MaxExchanges = 2
INVARIANTS TypeOK SlotFollowsParser ContentKept MessagesSurvive
PROPERTIES Arrives
CHECK_DEADLOCK FALSE
