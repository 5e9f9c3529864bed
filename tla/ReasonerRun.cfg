SPECIFICATION MCRunSpec
CONSTANTS
  u1 = u1
  r1 = r1
  r2 = r2
  r3 = r3
  r4 = r4
  r5 = r5
  acctA = acctA
  acctB = acctB
  HyperNode = HyperNode
  AnyPrincipal = AnyPrincipal
  NoWitness = NoWitness
  Users <- MCUsers
  Roles <- MCRoles
  Accounts <- MCAccounts
  AccountOf <- MCAccountOf
  NodeOrder <- MCNodeOrder
  ArnOrder <- MCArnOrder
  Graphs <- MCGraphs
  Selections <- AllSelections
  MinChain = 2
  MaxDepth = 4
INVARIANTS
  RunTypeOK
  ChainsAuthorized
  BreadthFirst
  ReachesExactly
  CompleteWhenValidated
  ValidatedProven
  NotPoisoned
  NoContradiction
  EmittedAccepted
  ReasonersAgree
PROPERTIES
  KeepsPromise
  Terminates
