SPECIFICATION Spec
CONSTANTS
  chain1 = chain1
  chain2 = chain2
  chain3 = chain3
  lambda1 = lambda1
  NoPattern = NoPattern
  Missing = Missing
  Torn = Torn
  Edges <- MCEdges
  RelationOf <- MCRelationOf
  Worlds <- MCWorlds
  Options <- MCOptions
  Selections <- MCSelections
  MaxRuns = 2
  MaxCommands = 4
INVARIANT
  ReplayIsOfItsRun
CHECK_DEADLOCK FALSE
