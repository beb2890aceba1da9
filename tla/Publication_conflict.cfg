SPECIFICATION Spec
CONSTANTS
  p1 = p1
  p2 = p2
  i1 = i1
  i2 = i2
  Handlers = {p1}
  Intents = {i1, i2}
  NoIntent = NoIntent
  Nothing = Nothing
  Base = Base
  Foreign = Foreign
  Free = Free
  MaxJobs = 2
  MaxFaults = 1
  MaxLosses = 1
  MaxInterference = 0
INVARIANT ConflictIsForeign
