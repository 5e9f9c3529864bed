SPECIFICATION Spec
CONSTANTS
  u1 = u1
  r1 = r1
  r2 = r2
  g1 = g1
  s1 = s1
  b1 = b1
  b2 = b2
  fn = fn
  k1 = k1
  HyperNode = HyperNode
  DefaultKey = DefaultKey
  Users <- MCUsers
  Roles <- MCRoles
  Groups <- MCGroups
  Secrets <- MCSecrets
  Buckets <- MCBuckets
  Others <- MCOthers
  Infrastructure <- MCInfrastructure
  Keys <- MCKeys
  Services <- MCServices
  ServiceOf <- MCServiceOf
  Actions <- MCActions
  Graphs <- MCGraphs
  Selections <- MCSelections
INVARIANTS
  LayersHeeded
CHECK_DEADLOCK FALSE
