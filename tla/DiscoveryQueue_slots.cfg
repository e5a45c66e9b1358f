SPECIFICATION Spec
CONSTANTS
    Symbol = {s1, s2}
    Concurrency = 2
    TTL = 1
    MaxRecords = 2
    NoRecord = NoRecord
INVARIANTS
    SlotsExact
    OneFirstAttempt
PROPERTY QueueDrains
CHECK_DEADLOCK FALSE
