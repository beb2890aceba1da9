SPECIFICATION FairSpec
CONSTANTS
  p1 = p1
  p2 = p2
  i1 = i1
  i2 = i2
  Handlers = {p1, p2}
  Intents = {i1, i2}
  NoIntent = NoIntent
  Nothing = Nothing
  Base = Base
  Foreign = Foreign
  Free = Free
  MaxJobs = 2
  MaxFaults = 2
  MaxLosses = 1
  MaxInterference = 2
INVARIANTS TypeOK ConflictsHaveCauses ClaimsWereEarned PublisherIsRecorded CompletedLeavesNothing
PROPERTIES PullsFollowBranches ImplementsLedger RetriesSettle
