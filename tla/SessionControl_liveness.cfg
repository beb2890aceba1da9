SPECIFICATION FairSpec
CONSTANTS
  h1 = h1
  h2 = h2
  persistent = persistent
  ephemeral = ephemeral
  Handlers = {h1, h2}
  Boot = Boot
  Free = Free
  Intents = {persistent, ephemeral}
  PersistentIntents = {persistent}
  NoIntent = NoIntent
  MaxTasks = 1
  MaxFaults = 2
PROPERTIES RequestsAreAnswered FinishedCleanupContinues
