SPECIFICATION FairSpec
CONSTANTS
    Core = {"samples", "autoRun"}
    Discovery = "discovery"
    NoJournal = NoJournal
    Waiting = Waiting
    ReadsFail = {"samples", "autoRun", "discovery"}
    MaxEdits = 1
    MaxFailures = 2
    MaxMounts = 2
    MaxRevision = 4
CHECK_DEADLOCK FALSE
INVARIANT RestartLosesOnlyUncommitted
PROPERTY StoreNeverGoesBack
PROPERTY CheckpointsCatchUp
