SPECIFICATION Spec
CONSTANTS
  home = home
  near = near
  away = away
  n1 = n1
  n2 = n2
  NoAccount = NoAccount
  NoName = NoName
  Accounts <- MCAccounts
  Names <- MCNames
  Estates <- MCEstates
INVARIANTS
  RunsThrough
  MembershipSound
  ValidatedProven
  NothingMissed
CHECK_DEADLOCK FALSE
