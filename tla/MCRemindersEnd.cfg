SPECIFICATION FairSpec
CONSTANTS
  Users = {u1}
  Opportunities = {o1, o2}
  Runs = {r1, r2}
  Day = 1
  Week = 3
  MaxTime = 0
  Deadlines = {2}
  NoDeadline = NoDeadline
  NoKey = NoKey
  MayCrash = FALSE
  MayClose = FALSE
PROPERTIES
  EveryRunEnds
