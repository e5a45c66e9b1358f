SPECIFICATION Spec
CONSTANTS
    Symbol = {s1, s2}
    Kind = {book, mark}
    Routed = {book}
    PoolSize = 3
    MaxFailures = 2
    MaxJoins = 2
INVARIANT PrimaryPathCarriesPositions
CHECK_DEADLOCK FALSE
