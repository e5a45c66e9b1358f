------------------------- MODULE MCCloseCoordinator -------------------------
(* Instances of CloseCoordinator for TLC.  Times are in units of the       *)
(* tolerance, so that two of them can be equal for the comparator.         *)
EXTENDS CloseCoordinator

CONSTANTS t1, t2, tp, sl, lag, old, other

MCTradeOf == [c \in Candidate |-> IF c = other THEN t2 ELSE t1]

\* old carries the revision of an earlier life of t1.
MCCurrent == Candidate \ {old}

\* The take profit happens two units after the stop loss and is seen first; the
\* timeout of the REST path carries no event time.
MCEventTime == [c \in Candidate |->
    CASE c = tp -> 4 [] c = sl -> 2 [] c = other -> 2 [] OTHER -> NoTime]
MCObservedAt == [c \in Candidate |-> CASE c = tp -> 5 [] c = sl -> 8 [] OTHER -> 6]
MCTriggerRank == [c \in Candidate |-> CASE c = tp -> 1 [] c = sl -> 4 [] OTHER -> 5]

\* Three price triggers within one volatile moment, each one tolerance apart
\* from the next by event time and two by observation, in reverse.
ChainEventTime == [c \in Candidate |-> CASE c = tp -> 3 [] c = lag -> 2 [] OTHER -> 1]
ChainObservedAt == [c \in Candidate |-> CASE c = tp -> 5 [] c = lag -> 7 [] OTHER -> 9]
=============================================================================
