SPECIFICATION StreamSpec
CONSTANTS
    Candidate = {"x", "y"}
    Kind = {"book"}
    MaxSymbols = 2
    BatchSize = 1
    MaxMemberships = 3
    MaxFailures = 0
PROPERTY DesiredIsAlwaysStreamed
CHECK_DEADLOCK FALSE
