--------------------------- MODULE MCRateLimiter ---------------------------
(* Instances of RateLimiter for TLC.  The RL table is scaled down with its *)
(* order kept: LOW < NORMAL < HIGH < CRITICAL < limit, and THROTTLE below  *)
(* the NORMAL/LOW share of the slots.                                      *)
EXTENDS RateLimiter, TLC

CONSTANTS crit, high, norm1, norm2, norm3, low

MCPriority == [c \in Call |->
    CASE c = crit -> "CRITICAL" [] c = high -> "HIGH" [] c = low -> "LOW"
      [] OTHER -> "NORMAL"]

\* The HIGH call is the heavy one, like /ticker/24hr.
MCWeight == [c \in Call |-> IF c = high THEN 2 ELSE 1]

\* The first two NORMAL calls belong to one run.
MCRunOf == [c \in Call |-> IF c \in {norm1, norm2} THEN "r" ELSE NoRun]

\* A HIGH call belongs to it too, so that its launch promotes a NORMAL one.
SharedRunOf == [c \in Call |-> IF c \in {high, norm1, norm2} THEN "r" ELSE NoRun]

Says(status, reported, foreign) ==
    [status |-> status, reported |-> reported, foreign |-> foreign]

\* An answer with and without the header, and one of each limit.
ShortReplies == {Says(200, TRUE, 0), Says(429, FALSE, 0), Says(418, FALSE, 0)}

\* Another client of the IP spends too, and a 429 carries the header.
SharedReplies == {Says(200, TRUE, 0), Says(200, FALSE, 0), Says(200, TRUE, 2),
                  Says(418, FALSE, 0), Says(429, TRUE, 0)}

\* Backoff only.
BackoffReplies == {Says(200, TRUE, 0), Says(429, FALSE, 0)}

\* Two calls with the same lane, weight and run.
SameCalls == Permutations({norm1, norm2})

NoRunOf == [c \in Call |-> NoRun]
=============================================================================
