---------------------------- MODULE CloseVerdict ----------------------------
(***************************************************************************)
(* What a close coordinator promises, whatever its arbitration: a trade    *)
(* that is watched for closing gets at most one verdict, the verdict is    *)
(* one of the closes that were asked for, the listener hears it at most    *)
(* once and hears nothing else, and nothing that happens afterwards        *)
(* changes it.  Only withdrawing the trade starts it afresh.               *)
(***************************************************************************)
CONSTANTS
    Trade,      \* the trades that may be watched
    Candidate,  \* the closes that may be asked for
    Undecided,  \* no verdict yet
    Nobody      \* closed without a verdict

VARIABLES
    asked,      \* the closes asked for while the trade was undecided
    verdict,
    heard       \* the verdicts the listener of the trade was called with

verdictVars == <<asked, verdict, heard>>

Init ==
    /\ asked = [t \in Trade |-> {}]
    /\ verdict = [t \in Trade |-> Undecided]
    /\ heard = [t \in Trade |-> <<>>]

Ask(t, c) ==
    /\ verdict[t] = Undecided
    /\ asked' = [asked EXCEPT ![t] = @ \cup {c}]
    /\ UNCHANGED <<verdict, heard>>

Rule(t, c) ==
    /\ verdict[t] = Undecided
    /\ c \in asked[t]
    /\ verdict' = [verdict EXCEPT ![t] = c]
    /\ heard' \in {heard, [heard EXCEPT ![t] = <<c>>]}
    /\ UNCHANGED asked

\* The trade is closed although nothing was decided.
CloseUnheard(t) ==
    /\ verdict[t] = Undecided
    /\ verdict' = [verdict EXCEPT ![t] = Nobody]
    /\ UNCHANGED <<asked, heard>>

Withdraw(T) ==
    /\ asked' = [t \in Trade |-> IF t \in T THEN {} ELSE asked[t]]
    /\ verdict' = [t \in Trade |-> IF t \in T THEN Undecided ELSE verdict[t]]
    /\ heard' = [t \in Trade |-> IF t \in T THEN <<>> ELSE heard[t]]

Next ==
    \/ \E t \in Trade : CloseUnheard(t)
    \/ \E t \in Trade, c \in Candidate : Ask(t, c) \/ Rule(t, c)
    \/ \E T \in SUBSET Trade : Withdraw(T)

Spec == Init /\ [][Next]_verdictVars
=============================================================================
