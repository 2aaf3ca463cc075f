SPECIFICATION Spec
CONSTANTS
  Targets <- SomeTargets
  Forms <- AllForms
  Tls = {TRUE, FALSE}
  MaxCuts = 1
  Wrap = 24
INVARIANTS TypeOK FieldsWithin Accepted OriginNamed PathKept
CHECK_DEADLOCK FALSE
