SPECIFICATION ShadowSpec
CONSTANTS
    Symbol = {s1}
    MaxTrades = 3
INVARIANT ResetBeforeReentry
CHECK_DEADLOCK FALSE
