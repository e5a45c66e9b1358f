SPECIFICATION TimerSpec
CONSTANTS
    Call = {crit, high, norm1}
    Run = {"r"}
    NoRun = NoRun
    WEIGHT_PER_MIN = 5
    CRITICAL_SAFETY_MARGIN = 1
    SAFETY_MARGIN = 2
    FREEZE_CEILING = 3
    HIGH_RESERVE = 1
    SOFT_CEILING = 1
    MAX_CONCURRENT = 2
    CRITICAL_CONCURRENT_RESERVE = 1
    HIGH_CONCURRENT_RESERVE = 1
    THROTTLE_CONCURRENT = 1
    crit = crit
    high = high
    norm1 = norm1
    norm2 = norm2
    norm3 = norm3
    low = low
    BasePriority <- MCPriority
    Weight <- MCWeight
    RunOf <- SharedRunOf
    Reply <- ShortReplies
INVARIANT CountersExact
INVARIANT LedgerDominatesHeader
PROPERTY DirectLaunchWithinLane
PROPERTY CriticalTakesAFreeSlot
PROPERTY CriticalNeverWaitsForever
