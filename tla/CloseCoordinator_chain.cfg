SPECIFICATION Spec
CONSTANTS
    Trade = {t1}
    Candidate = {tp, sl, lag}
    Tolerance = 1
    NoTime = NoTime
    NoCandidate = NoCandidate
    Undecided = Undecided
    Nobody = Nobody
    t1 = t1
    t2 = t2
    tp = tp
    sl = sl
    lag = lag
    old = old
    other = other
    TradeOf <- MCTradeOf
    Current <- MCCurrent
    EventTime <- ChainEventTime
    ObservedAt <- ChainObservedAt
    TriggerRank <- MCTriggerRank
CHECK_DEADLOCK FALSE
INVARIANT EarlierEventWins
