SPECIFICATION Spec
CONSTANTS
  Rows = {1, 2, 3}
  MaxRuns = 3
  MaxBatch = 2
  Contents <- MCContents
  Filters <- MCFilters
  Profiles <- MCProfiles
  Canonical <- MCCanonical
  Fold <- MCFold
  PageSizes = {1, 2}
  PoolSize = 2
  AnswerSize = 1
  SKILL_CAP = 2
  MaxTime = 1
  None = None
  build = build
INVARIANTS
  TypeOK
  NoRowTwice
  NothingOldIsSkipped
  RecommendsTheBest
  TotalsCoverTypes
