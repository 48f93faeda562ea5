SPECIFICATION Spec
CONSTANTS
  u1 = u1
  u2 = u2
  o1 = o1
  o2 = o2
  Requests = {r1, r2, r3}
  Users = {u1}
  Opportunities = {o1, o2}
  Listed = {o1}
  SkillNames <- MCSkillNames
  Fold <- MCFold
  Rank <- MCRank
  Values = {0, 1}
  Ops <- MarkOps
  FoldingLookup = TRUE
  FirstAccess = TRUE
  Development = TRUE
  MayClose = TRUE
  MayCrash = TRUE
  Default = 0
  NoProfile = NoProfile
  Unset = Unset
  None = None
SYMMETRY RequestSymmetry
INVARIANTS
  TypeOK
  RowsAreSound
PROPERTIES
  BookmarksKept
