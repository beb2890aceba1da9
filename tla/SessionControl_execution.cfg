SPECIFICATION Spec
CONSTANTS
  h1 = h1
  h2 = h2
  persistent = persistent
  ephemeral = ephemeral
  Handlers = {h1}
  Boot = Boot
  Free = Free
  Intents = {persistent}
  PersistentIntents = {persistent}
  NoIntent = NoIntent
  MaxTasks = 2
  MaxFaults = 0
INVARIANT OneExecution
