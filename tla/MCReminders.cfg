SPECIFICATION Spec
CONSTANTS
  Users = {u1}
  Opportunities = {o1, o2}
  Runs = {r1, r2}
  Day = 1
  Week = 3
  MaxTime = 2
  Deadlines = {2}
  NoDeadline = NoDeadline
  NoKey = NoKey
  MayCrash = TRUE
  MayClose = TRUE
SYMMETRY Symmetry
INVARIANTS
  TypeOK
  LedgerMatchesInbox
PROPERTIES
  RunServesItsJoin
  PromiseKept
