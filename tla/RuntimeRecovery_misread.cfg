SPECIFICATION Spec
CONSTANTS
    Core = {"samples", "autoRun"}
    Discovery = "discovery"
    NoJournal = NoJournal
    Waiting = Waiting
    ReadsFail = {"samples", "autoRun"}
    MaxEdits = 1
    MaxFailures = 1
    MaxMounts = 2
    MaxRevision = 2
CHECK_DEADLOCK FALSE
PROPERTY TransientErrorKeepsData
