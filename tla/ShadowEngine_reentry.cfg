SPECIFICATION ShadowSpec
CONSTANTS
    Symbol = {s1}
    MaxTrades = 3
INVARIANTS
    ReentryIsEarned
CHECK_DEADLOCK FALSE
