SPECIFICATION Spec
CONSTANTS
  a1 = a1
  a2 = a2
  userA = userA
  roleB = roleB
  rootB = rootB
  ghost = ghost
  vault = vault
  lambda = lambda
  hyperA = hyperA
  hyperB = hyperB
  acctA = acctA
  acctB = acctB
  NoAccount = NoAccount
  Actions <- MCActions
  Arns <- MCArns
  Accounts <- MCAccounts
  HomeOf <- MCHomeOf
  People <- MCPeople
  HyperedgeOf <- MCHyperedgeOf
  Inputs <- MCInputs
  MaxTotal = 5
  MaxPerExpansion = 2
  CumulativeCap = 3
INVARIANTS
  LimitsKept
  CompleteUnlessFlagged
  CollectedStayCollected
  ConditionsSurvive
CHECK_DEADLOCK FALSE
