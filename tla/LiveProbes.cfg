SPECIFICATION Spec
CONSTANTS
  p1 = p1
  p2 = p2
  p3 = p3
  Nobody = Nobody
  Principals <- MCPrincipals
  Cases <- MCCases
  MaxTries = 2
INVARIANTS
  RecordsTrue
  NoCallsWhenConfounded
  ReadersAgree
PROPERTY
  Finishes
CHECK_DEADLOCK FALSE
