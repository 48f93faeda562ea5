SPECIFICATION Spec
CONSTANTS
  r1 = r1
  r2 = r2
  r3 = r3
  r4 = r4
  i1 = i1
  i2 = i2
  Requests = {r1, r2, r3}
  Connectors = {"devpost", "unstop"}
  Plans <- AnyPlan
  ExternalIds = {i1, i2}
  Fields <- MCFields
  HashedFields <- MCHashedFields
  Values = {0, 1}
  TagNames <- MCTagNames
  Fold <- MCFold
  FoldingLookup = FALSE
  Batches <- MixedBatches
  AtOnce = {3}
  MayCrash = TRUE
  NoRow = NoRow
  NoWrite = NoWrite
  Keep = Keep
SYMMETRY RequestSymmetry
INVARIANTS
  TypeOK
  TagLinksResolve
  OneSpellingPerTag
  HashNamesTheTags
  RunsTellTheStory
