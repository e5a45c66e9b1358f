SPECIFICATION Spec
CONSTANTS
    Call = {norm1, norm2, norm3}
    Run = {"r"}
    NoRun = NoRun
    WEIGHT_PER_MIN = 6
    CRITICAL_SAFETY_MARGIN = 1
    SAFETY_MARGIN = 2
    FREEZE_CEILING = 4
    HIGH_RESERVE = 1
    SOFT_CEILING = 2
    MAX_CONCURRENT = 3
    CRITICAL_CONCURRENT_RESERVE = 1
    HIGH_CONCURRENT_RESERVE = 1
    THROTTLE_CONCURRENT = 1
    crit = crit
    high = high
    norm1 = norm1
    norm2 = norm2
    norm3 = norm3
    low = low
    BasePriority <- MCPriority
    Weight <- MCWeight
    RunOf <- NoRunOf
    Reply <- ShortReplies
INVARIANT NormalLowLeaveASlot
