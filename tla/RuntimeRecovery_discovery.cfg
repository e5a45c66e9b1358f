SPECIFICATION Spec
CONSTANTS
    Core = {"samples"}
    Discovery = "discovery"
    NoJournal = NoJournal
    Waiting = Waiting
    ReadsFail = {}
    MaxEdits = 1
    MaxFailures = 0
    MaxMounts = 2
    MaxRevision = 2
CHECK_DEADLOCK FALSE
PROPERTY DiscoveryPersists
