SPECIFICATION Spec
CONSTANTS
  u1 = u1
  u2 = u2
  o1 = o1
  o2 = o2
  Requests = {r1, r2}
  Users = {u1}
  Opportunities = {o1, o2}
  Listed = {o1}
  SkillNames <- MCSkillNames
  Fold <- MCFold
  Rank <- MCRank
  Values = {0, 1}
  Ops <- OnePairOps
  FoldingLookup = TRUE
  FirstAccess = TRUE
  Development = FALSE
  MayClose = FALSE
  MayCrash = FALSE
  Default = 0
  NoProfile = NoProfile
  Unset = Unset
  None = None
INVARIANTS
  NoAddFails
