SPECIFICATION Spec
CONSTANTS
    Symbol = {s1, s2}
    Kind = {book, mark}
    Routed = {book}
    PoolSize = 3
    MaxFailures = 2
    MaxJoins = 2
INVARIANTS
    NoKindGivenUp
    IdleStaysDown
    KeyCatchesUp
PROPERTIES
    StreamHeals
    LetGoCloses
CHECK_DEADLOCK FALSE
