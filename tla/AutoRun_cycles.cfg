SPECIFICATION Spec
CONSTANTS
    Losers = Losers
    Gainers = Gainers
    l1 = l1
    l2 = l2
    g1 = g1
    Tickers <- MCTickers
    Cap <- MCCap
    MaxOpen = 2
    MaxRuns = 2
    Slot = {s1, s2}
    None = None
    GapSteps <- MCGap
    MaxCallTime = 6
    MaxAutoRuns = 2
    MaxReloads = 1
    Targets <- MCTargets
    Manual <- MCManual
INVARIANTS
    RunningOwnsItsCycle
    CycleFollowsCount
    OneSetPerCycle
    NoTradeLeftUnmarked
    LimitsHoldOneCallAtATime
CHECK_DEADLOCK FALSE
