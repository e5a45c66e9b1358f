------------------------ MODULE MCPositionLifecycle ------------------------
(* Instances of PositionLifecycle for TLC.  A step is about one per cent.  *)
EXTENDS PositionLifecycle

CONSTANTS a, b, x, y

MCSymbolOf == [t \in Trade |-> IF t = a THEN x ELSE y]

\* The stop, the entry, the two floors, and the price that starts the trail.
AllMoves  == -1 .. 3
MCNoLevel == -9
MCProfile == {"NORMAL", "FAST"}

\* NORMAL locks late and high, FAST early and low.
MCFloorAt == [p \in Profile |-> [m \in Move |->
    CASE p = "NORMAL" /\ m >= 3 -> 2 [] p = "FAST" /\ m >= 2 -> 1 [] OTHER -> MCNoLevel]]

MCRank == [s \in StreamSource \cup {Fallback} |->
    CASE s = "BOOK_TICKER" -> 5 [] s = "MARK_PRICE_1S" -> 2 [] OTHER -> 3]
=============================================================================
