SPECIFICATION Spec
CONSTANTS
  Plans = {"direct"}
  Tls = {FALSE}
  MaxRequests = 1
  MaxUnits = 1
  Manners = {{"fragments"}}
INVARIANTS PrefaceSwitches
CHECK_DEADLOCK FALSE
