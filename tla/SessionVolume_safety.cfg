SPECIFICATION Spec
CONSTANTS
  MaxTasks = 2
  MaxRetries = 1
  Nothing = Nothing
  Word = Word
CHECK_DEADLOCK FALSE
INVARIANTS TypeOK ResultsAreOwn RecordedChangesStay PublishedIsRecorded ChangesAccumulate LeaseExcludesTasks
