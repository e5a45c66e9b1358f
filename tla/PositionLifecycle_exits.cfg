SPECIFICATION Spec
CONSTANTS
    Trade = {a}
    Symbol = {x}
    Move <- AllMoves
    StreamSource = {"BOOK_TICKER", "MARK_PRICE_1S"}
    Profile <- MCProfile
    Poll = {"loop"}
    Fallback = "REST_CRITICAL_FALLBACK_V2"
    TP = 3
    SL = 1
    TRAIL = 1
    NoPrice = NoPrice
    NoTrade = NoTrade
    NoTick = NoTick
    a = a
    b = b
    x = x
    y = y
    SymbolOf <- MCSymbolOf
    NoLevel <- MCNoLevel
    FloorAt <- MCFloorAt
    Rank <- MCRank
INVARIANT OpenInsideBounds
INVARIANT LockOutranks
INVARIANT PendingHasTimer
PROPERTY FloorNeverFalls
PROPERTY OutcomeIsFinal
