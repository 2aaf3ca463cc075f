SPECIFICATION FairSpec
CONSTANTS
  Plans = {"get", "connect", "h2c", "other", "direct"}
  Tls = {TRUE, FALSE}
  MaxRequests = 2
  MaxUnits = 2
  Manners = {{}, {"pipelining", "interim", "fragments", "eager"}}
INVARIANTS TypeOK RightSession SessionsAgree WholeMessages NoNullMessage InOrder
PROPERTIES ImplementsStreamRelay NoStall
CHECK_DEADLOCK FALSE
