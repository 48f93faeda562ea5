SPECIFICATION Spec
CONSTANTS
  Users = {alice, bob}
  Opps = {o1, o2}
  Toggles = {t1, t2}
  MaxFailures = 1
  None = None
SYMMETRY Symmetric
INVARIANTS
  QuietCacheIsServer
  NoAnswerUndoesAClick
