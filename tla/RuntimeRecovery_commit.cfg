SPECIFICATION Spec
CONSTANTS
    Core = {"samples", "autoRun"}
    Discovery = "discovery"
    NoJournal = NoJournal
    Waiting = Waiting
    ReadsFail = {}
    MaxEdits = 1
    MaxFailures = 0
    MaxMounts = 2
    MaxRevision = 4
CHECK_DEADLOCK FALSE
PROPERTY RestartLosesNothing
