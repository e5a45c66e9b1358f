SPECIFICATION Spec
CONSTANTS
    Trade = {t1, t2}
    Candidate = {tp, sl, lag, old, other}
    Tolerance = 1
    NoTime = NoTime
    NoCandidate = NoCandidate
    Undecided = Undecided
    Nobody = Nobody
    t1 = t1
    t2 = t2
    tp = tp
    sl = sl
    lag = lag
    old = old
    other = other
    TradeOf <- MCTradeOf
    Current <- MCCurrent
    EventTime <- MCEventTime
    ObservedAt <- MCObservedAt
    TriggerRank <- MCTriggerRank
INVARIANT EarlierEventWins
PROPERTY WindowCloses
PROPERTY PromiseKept
CHECK_DEADLOCK FALSE
