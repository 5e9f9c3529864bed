SPECIFICATION Spec
CONSTANTS
  p1 = p1
  p2 = p2
  rootA = rootA
  anyone = anyone
  target = target
  acctA = acctA
  acctB = acctB
  NoAccount = NoAccount
  Actions <- MCActions
  Arns <- MCArns
  Accounts <- MCAccounts
  HomeOf <- MCHomeOf
  Edges <- MCEdges
  Controls <- MCControls
INVARIANTS
  ScpBlockIsCertain
  ScpSilenceIsCertain
  BoundaryBlockIsCertain
  BoundaryAllowsPlainly
  DenyBoundRightly
CHECK_DEADLOCK FALSE
