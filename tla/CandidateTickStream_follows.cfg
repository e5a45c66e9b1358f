SPECIFICATION StreamSpec
CONSTANTS
    Candidate = {"x", "y", "z"}
    Kind = {"book"}
    MaxSymbols = 2
    BatchSize = 1
    MaxMemberships = 2
    MaxFailures = 2
INVARIANT ConnectionKept
INVARIANT ActiveIsTrue
INVARIANT AppliedIsUnderway
PROPERTY DesiredIsStreamed
CHECK_DEADLOCK FALSE
