SPECIFICATION ShadowSpec
CONSTANTS
    Symbol = {s1}
    MaxTrades = 3
INVARIANT OneActiveShadowPerSymbol
CHECK_DEADLOCK FALSE
