SPECIFICATION Spec
CONSTANTS
    Losers = Losers
    Gainers = Gainers
    l1 = l1
    l2 = l2
    g1 = g1
    Tickers <- MCTickers
    Cap <- MCCap
    MaxOpen = 2
    MaxRuns = 2
    Slot = {s1, s2}
    None = None
    GapSteps <- MCGap
    MaxCallTime = 3
    MaxAutoRuns = 1
    MaxReloads = 2
    Targets <- MCTargets
    Manual <- MCNoManual
PROPERTY AutoRunEnds
CHECK_DEADLOCK FALSE
