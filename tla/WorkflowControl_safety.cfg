SPECIFICATION Spec
CONSTANTS
  c1 = c1
  c2 = c2
  change = change
  delivery = delivery
  NumSteps = 3
  NoStep = 0
  Definitions = {change, delivery}
  NoDefinition = NoDefinition
  Graph <- MCGraph
  Clients = {c1, c2}
  Reconciler = Reconciler
  Free = Free
  MaxFaults = 2
  MaxMeddling = 1
INVARIANTS TypeOK SavesAreCurrent  InputsAreReady NothingOutlivesRun SkipsAreCaused
PROPERTIES SessionsBehave ResultsAreCollected ImplementsLedger
