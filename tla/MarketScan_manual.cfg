SPECIFICATION Spec
CONSTANTS
    Place = {p1, p2}
    NoScan = NoScan
    List = {losers, gainers}
    MaxChanges = 2
    MaxPresses = 1
    MaxDeep = 2
INVARIANT UniverseInOrder
CHECK_DEADLOCK FALSE
