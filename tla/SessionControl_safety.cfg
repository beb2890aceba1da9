SPECIFICATION Spec
CONSTANTS
  h1 = h1
  h2 = h2
  persistent = persistent
  ephemeral = ephemeral
  Handlers = {h1, h2}
  Boot = Boot
  Free = Free
  Intents = {persistent, ephemeral}
  PersistentIntents = {persistent}
  NoIntent = NoIntent
  MaxTasks = 2
  MaxFaults = 2
SYMMETRY Symmetry
INVARIANTS TypeOK ClusterIsRecorded ActiveTaskIsLatest ResultsMatchEvidence ReadsStayCurrent LeaseHoldsSession
PROPERTIES ResultsAreFinal EvidenceOutlivesDoubt ImplementsLedger ImplementsService
