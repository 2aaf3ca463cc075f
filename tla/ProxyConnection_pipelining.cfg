SPECIFICATION Spec
CONSTANTS
  Plans = {"get"}
  Tls = {FALSE}
  MaxRequests = 2
  MaxUnits = 0
  Manners = {{"pipelining"}}
INVARIANTS CompleteOnly
CHECK_DEADLOCK FALSE
