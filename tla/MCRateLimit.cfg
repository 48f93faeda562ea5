SPECIFICATION Spec
CONSTANTS
  Requests = {r1, r2, r3}
  Identities = {alice}
  Window = 3
  Limit = 1
  Times = 1
  MaxTime = 5
  MaxLag = 1
  MaxFailures = 1
  Never = Never
SYMMETRY RequestSymmetry
INVARIANTS
  TypeOK
  BudgetsHold
  OnlyTheRecentCount
  CountersExpire
