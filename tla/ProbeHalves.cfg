SPECIFICATION Spec
CONSTANTS
  p1 = p1
  p2 = p2
  p3 = p3
  Nobody = Nobody
  Principals <- MCPrincipals
  Cases <- MCHalves
  MaxTries = 2
INVARIANT
  HalvesShareProbes
CHECK_DEADLOCK FALSE
