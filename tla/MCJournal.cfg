CONSTANTS
    Heights = {1, 2, 3}
    Adapters <- MCAdapters
    Registered = {"a", "c"}
    BatchSize = 2
    CheckpointInterval = 2
    MaxFlights = 2
    MaxTimers = 2
    MaxRestarts = 1
SPECIFICATION FairSpec
INVARIANT JournalAddsUp
PROPERTIES BatchesSettle
