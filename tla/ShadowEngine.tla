---------------------------- MODULE ShadowEngine ----------------------------
(***************************************************************************)
(* The shadow trades of AES discovery: when a scanned symbol gets one, what *)
(* is remembered of the symbol (its episode) and when the trade closes.    *)
(*                                                                         *)
(* The episode and the trades are kept apart: the scan that decides on an  *)
(* entry looks at the episode only, and the broad scan that closes a trade *)
(* does not tell the episode.                                              *)
(*                                                                         *)
(* Scores.  The highest of the three variants decides: "high" reaches the  *)
(* entry threshold (70), "low" lies below the reset threshold (55), "mid"  *)
(* between them.  A scan whose telemetry is thin or stale, or of a symbol  *)
(* among the first 25, enters nothing but is remembered like any other.    *)
(*                                                                         *)
(* maxActiveShadowTrades is left out: it counts the trades of the page's   *)
(* first moments, which an effect closed over, and cannot be reached.      *)
(***************************************************************************)
EXTENDS Integers

CONSTANTS
    Symbol,
    MaxTrades     \* bound: the shadow trades of a symbol

ASSUME ShadowAssumption == MaxTrades \in Nat \ {0}

Number == 1 .. MaxTrades
Trades == Symbol \X Number
Level  == {"low", "mid", "high"}

VARIABLES
    last,      \* lastScores: the level of the last scan, or "none"
    reset,     \* scoreResetSeen
    active,    \* activeTradeId is set
    cooling,   \* cooldownUntil lies ahead
    count,     \* how many shadow trades the symbol has had
    open,      \* the trades that are not closed
    since,     \* what happened to the symbol since its last entry (history)
    grounds    \* what had happened to it when its last entry was made (history)

episode == <<last, reset, active, cooling>>
shadowVars == <<last, reset, active, cooling, count, open, since, grounds>>
-----------------------------------------------------------------------------
(***************************************************************************)
(* A deep scan of s has an answer.                                         *)
(***************************************************************************)
\* Not while the last scan entered, not in the cooldown, and only by a crossing
\* of the threshold, for which a symbol that was never scanned needs nothing.
MayEnter(s, level) ==
    /\ ~active[s]
    /\ ~cooling[s]
    /\ last[s] = "high" => reset[s]
    /\ last[s] # "high" /\ level = "high"

ResetSeen(s, level) ==
    /\ level # "high"
    /\ reset[s] \/ (last[s] = "high" /\ level = "low")

\* Mutant of CooldownBegins: the active trade is forgotten before it is tested.
CooldownNeverBegins(s, entered) == FALSE

CooldownBegins(s, entered) == active[s] /\ ~entered

\* updateEpisodeState: a scan without a new trade takes the active one for
\* closed and begins the cooldown.
UpdateEpisode(s, level, entered) ==
    /\ last' = [last EXCEPT ![s] = level]
    /\ reset' = [reset EXCEPT ![s] = ResetSeen(s, level)]
    /\ active' = [active EXCEPT ![s] = entered]
    /\ cooling' = [cooling EXCEPT ![s] = @ \/ CooldownBegins(s, entered)]

Enter(s, level) ==
    /\ MayEnter(s, level)
    /\ count[s] < MaxTrades
    /\ UpdateEpisode(s, level, TRUE)
    /\ count' = [count EXCEPT ![s] = @ + 1]
    /\ open' = open \cup {<<s, count[s] + 1>>}
    /\ since' = [since EXCEPT ![s] = {}]
    /\ grounds' = [grounds EXCEPT ![s] = since[s]]

\* Nothing is entered; admitted is what the gates before MayEnter say.
PassOver(s, level, admitted) ==
    /\ ~(admitted /\ MayEnter(s, level))
    /\ UpdateEpisode(s, level, FALSE)
    /\ since' = [since EXCEPT ![s] = @ \cup {level}]
    /\ UNCHANGED <<count, open, grounds>>

ScanCompletes(s, level, admitted) ==
    \/ admitted /\ Enter(s, level)
    \/ PassOver(s, level, admitted)
-----------------------------------------------------------------------------
\* Fifteen minutes after the scan that began it.
CooldownEnds(s) ==
    /\ cooling[s]
    /\ cooling' = [cooling EXCEPT ![s] = FALSE]
    /\ since' = [since EXCEPT ![s] = @ \cup {"cooled"}]
    /\ UNCHANGED <<last, reset, active, count, open, grounds>>

\* The broad scan finds its stop, its target or three hours.
ShadowCloses(t) ==
    /\ t \in open
    /\ open' = open \ {t}
    /\ UNCHANGED <<episode, count, since, grounds>>

\* The page is loaded again.  The episodes are in memory only, and the stored
\* trades are overwritten by the blank ones of the new page (RuntimeRecovery).
Reload ==
    /\ last' = [s \in Symbol |-> "none"]
    /\ reset' = [s \in Symbol |-> FALSE]
    /\ active' = [s \in Symbol |-> FALSE]
    /\ cooling' = [s \in Symbol |-> FALSE]
    /\ since' = [s \in Symbol |-> since[s] \cup {"loaded"}]
    /\ open' = {}
    /\ UNCHANGED <<count, grounds>>

ShadowInit ==
    /\ last = [s \in Symbol |-> "none"]
    /\ reset = [s \in Symbol |-> FALSE]
    /\ active = [s \in Symbol |-> FALSE]
    /\ cooling = [s \in Symbol |-> FALSE]
    /\ count = [s \in Symbol |-> 0]
    /\ open = {}
    /\ since = [s \in Symbol |-> {"loaded"}]
    /\ grounds = [s \in Symbol |-> {"loaded"}]

ShadowNext ==
    \/ \E s \in Symbol :
        \/ \E level \in Level, admitted \in BOOLEAN : ScanCompletes(s, level, admitted)
        \/ CooldownEnds(s)
    \/ \E t \in Trades : ShadowCloses(t)
    \/ Reload

ShadowSpec == ShadowInit /\ [][ShadowNext]_shadowVars
-----------------------------------------------------------------------------
Event == Level \cup {"cooled", "loaded"}

\* Every variable has its type.
ShadowTypeOK ==
    /\ last \in [Symbol -> Level \cup {"none"}]
    /\ {reset, active, cooling} \subseteq [Symbol -> BOOLEAN]
    /\ count \in [Symbol -> 0 .. MaxTrades]
    /\ open \subseteq Trades
    /\ {since, grounds} \subseteq [Symbol -> SUBSET Event]

\* Nobody enters a symbol twice on one rise: since the entry before there was a
\* whole cooldown and a scan below the threshold, or the page was loaded.
ReentryIsEarned ==
    \A s \in Symbol : \/ "loaded" \in grounds[s]
                      \/ "cooled" \in grounds[s] /\ grounds[s] \cap {"low", "mid"} # {}

\* What oneActiveShadowPerSymbol says.  It does not hold: the scan after the
\* entry already takes the trade for closed.
OneActiveShadowPerSymbol ==
    \A t, u \in open : t[1] = u[1] => t = u

\* What requireScoreResetBeforeReentry says.  It does not hold: the gate looks
\* at the last score only, which after one scan at mid level is no longer high.
ResetBeforeReentry ==
    \A s \in Symbol : "loaded" \in grounds[s] \/ "low" \in grounds[s]
=============================================================================
