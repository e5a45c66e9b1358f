-------------------------- MODULE PositionLifecycle --------------------------
(***************************************************************************)
(* The open positions of LongLabApp: every price that arrives for a        *)
(* simulated long raises its protected floor and its trailing peak, and    *)
(* closes it when an exit applies.  Two evaluators do this, each in one    *)
(* functional state update:                                                *)
(*                                                                         *)
(*   Flush      ticks of the price stream and of the stale watchdog, kept  *)
(*              one per symbol and applied together when a timer fires     *)
(*   PollApply  the answer of the scanner's REST poll                      *)
(*                                                                         *)
(* Prices are moves from the entry price of the trade, in whole steps, and *)
(* the trailing distance is counted in the same steps.  Which exit profile *)
(* is in force depends on telemetry that is not modelled: every evaluation *)
(* may find the trade under any profile, so the floors of one profile are  *)
(* followed by those of another.                                           *)
(***************************************************************************)
EXTENDS Integers

CONSTANTS
    Trade, Symbol,
    SymbolOf,        \* [Trade -> Symbol]
    Move,            \* the prices that occur
    NoPrice,         \* a symbol that an answer does not list
    NoLevel,         \* no floor armed, no peak reached: below every price
    Profile,
    FloorAt,         \* [Profile -> [Move -> Int]]: the best floor that the
                     \* profile's fee-safe ladder grants at a price, or NoLevel
    StreamSource,    \* the websocket sources in use
    Rank,            \* LIFECYCLE_PRICE_SOURCE_PRIORITY
    Fallback,        \* the source of the watchdog's ticks
    Poll,            \* callers of fetchData: the scan loop, the refresh button
    TP, SL, TRAIL,   \* TP_PCT, SL_PCT, TRAIL_PCT
    NoTrade, NoTick

ASSUME PriceAssumption ==
    /\ Move \subseteq Int /\ 0 \in Move
    /\ TP \in Nat /\ SL \in Nat \ {0} /\ TRAIL \in Nat
    /\ NoPrice \notin Int
    /\ NoLevel \in Int /\ \A m \in Move : NoLevel < m

ASSUME SymbolAssumption ==
    /\ SymbolOf \in [Trade -> Symbol]
    /\ NoTrade \notin Trade
    /\ Rank \in [StreamSource \cup {Fallback} -> Nat]

\* minTriggerToFloorHeadroomMarginPct: a floor lies below the price that arms it.
ASSUME FloorAssumption ==
    /\ FloorAt \in [Profile -> [Move -> Int]]
    /\ \A p \in Profile, m \in Move : FloorAt[p][m] < m

VARIABLES
    trade,      \* the lifecycle fields of each sample
    overdue,    \* open trades held for holdMs or longer
    pending,    \* lifecyclePendingTicksRef: the tick kept for each symbol
    flushing,   \* lifecycleFlushTimerRef is set
    trailOn,
    polls,      \* fetchData calls in flight, with the trailOn of their closure
    stale,      \* symbols without a stream tick for LIFECYCLE_SYMBOL_STALE_MS
    watched,    \* the symbols of activePositionSymbolsKey when its effects ran
    watchdog,   \* lifecycleFallbackBusyRef and the call that set it
    modal       \* the trade whose close dialog is shown

vars == <<trade, overdue, pending, flushing, trailOn, polls, stale, watched,
          watchdog, modal>>

Tick  == [price : Move, source : StreamSource \cup {Fallback}, over : SUBSET Trade]

Fresh == [status |-> "none", price |-> 0, floor |-> NoLevel, peak |-> NoLevel,
          reason |-> "ACTIVE"]

Open        == {t \in Trade : trade[t].status = "open"}
OpenSymbols == {SymbolOf[t] : t \in Open}

-----------------------------------------------------------------------------
(* The evaluation of one price.                                            *)

Larger(m, n) == IF m >= n THEN m ELSE n

\* Mutant of RaisedFloor: the ladder of the profile now in force is taken over.
LadderFloor(floor, p, m) == FloorAt[p][m]

\* getLongProfitLockUpdate, then synchronizeSimulatedProfitLockProtection.
RaisedFloor(floor, p, m) == Larger(floor, FloorAt[p][m])

Observed(r, m, p, trailing) ==
    [r EXCEPT !.price = m,
              !.floor = RaisedFloor(@, p, m),
              !.peak  = IF trailing /\ m >= TP THEN Larger(@, m) ELSE @]

\* The first exit that applies.
Exit(r, trailing, trailBroken, late) ==
    IF ~trailing /\ r.price >= TP THEN "TAKE_PROFIT"
    ELSE IF r.price <= r.floor THEN "PROFIT_LOCK"
    ELSE IF trailBroken THEN "TRAILING_EXIT"
    ELSE IF r.price <= -SL THEN "STOP_LOSS"
    ELSE IF late THEN "TIMEOUT" ELSE "ACTIVE"

Settle(r, reason) ==
    IF reason = "ACTIVE" THEN r
    ELSE [r EXCEPT !.status = "closed", !.reason = reason]

\* The stream's evaluator closes at the trailing level itself.
OnTick(r, m, p, late) ==
    LET new == Observed(r, m, p, trailOn)
    IN  Settle(new, Exit(new, trailOn, m <= new.peak - TRAIL, late))

\* Mutant of OnPoll: the floor is not looked at.
OnPollUnlocked(r, m, p, trailing, late) ==
    LET new == Observed(r, m, p, trailing)
    IN  Settle(new, Exit([new EXCEPT !.floor = NoLevel], trailing,
                         m < new.peak - TRAIL, late))

\* The poll's evaluator closes below it.
OnPoll(r, m, p, trailing, late) ==
    LET new == Observed(r, m, p, trailing)
    IN  Settle(new, Exit(new, trailing, m < new.peak - TRAIL, late))

-----------------------------------------------------------------------------
(* Ticks.                                                                  *)

\* A tick that is received in the same millisecond as the one kept must have
\* at least its priority.
Keep(old, new, tied) ==
    IF old # NoTick /\ tied /\ Rank[new.source] < Rank[old.source] THEN old ELSE new

TickOf(m, source) == [price |-> m, source |-> source, over |-> overdue]

StreamTick(s, source, m) ==
    /\ s \in watched
    /\ \E tied \in BOOLEAN :
         pending' = [pending EXCEPT ![s] = Keep(@, TickOf(m, source), tied)]
    /\ flushing' = TRUE
    /\ stale' = stale \ {s}
    /\ UNCHANGED <<trade, overdue, trailOn, polls, watched, watchdog, modal>>

\* Mutant of Applied: the buffered tick is applied to closed trades too.
AppliedToAll(t, p) ==
    IF trade[t].status # "none" /\ pending[SymbolOf[t]] # NoTick
    THEN LET tick == pending[SymbolOf[t]]
         IN  OnTick(trade[t], tick.price, p, t \in tick.over)
    ELSE trade[t]

Applied(t, p) ==
    IF t \in Open /\ pending[SymbolOf[t]] # NoTick
    THEN LET tick == pending[SymbolOf[t]]
         IN  OnTick(trade[t], tick.price, p, t \in tick.over)
    ELSE trade[t]

\* Mutant of Flush: ticks of symbols without an open trade stay in the buffer.
FlushHeldOnly ==
    /\ flushing /\ flushing' = FALSE
    /\ pending' = [s \in Symbol |-> IF s \in OpenSymbols THEN NoTick ELSE pending[s]]
    /\ \E profile \in [Trade -> Profile] :
         trade' = [t \in Trade |-> Applied(t, profile[t])]
    /\ UNCHANGED <<overdue, trailOn, polls, stale, watched, watchdog, modal>>

Flush ==
    /\ flushing /\ flushing' = FALSE
    /\ pending' = [s \in Symbol |-> NoTick]
    /\ \E profile \in [Trade -> Profile] :
         trade' = [t \in Trade |-> Applied(t, profile[t])]
    /\ UNCHANGED <<overdue, trailOn, polls, stale, watched, watchdog, modal>>

-----------------------------------------------------------------------------
(* The REST poll.                                                          *)

PollStart(k) ==
    /\ polls[k] = "idle"
    /\ polls' = [polls EXCEPT ![k] = IF trailOn THEN "trailing" ELSE "fixed"]
    /\ UNCHANGED <<trade, overdue, pending, flushing, trailOn, stale, watched,
                   watchdog, modal>>

\* A symbol that the answer does not list is evaluated at its last price.
Polled(t, k, prices, p) ==
    LET m == IF prices[SymbolOf[t]] = NoPrice THEN trade[t].price
             ELSE prices[SymbolOf[t]]
    IN  IF t \in Open
        THEN OnPoll(trade[t], m, p, polls[k] = "trailing", t \in overdue)
        ELSE trade[t]

PollApply(k) ==
    /\ polls[k] # "idle"
    /\ polls' = [polls EXCEPT ![k] = "idle"]
    /\ \E prices \in [Symbol -> Move \cup {NoPrice}], profile \in [Trade -> Profile] :
         trade' = [t \in Trade |-> Polled(t, k, prices, profile[t])]
    /\ UNCHANGED <<overdue, pending, flushing, trailOn, stale, watched, watchdog, modal>>

PollFails(k) ==
    /\ polls[k] # "idle"
    /\ polls' = [polls EXCEPT ![k] = "idle"]
    /\ UNCHANGED <<trade, overdue, pending, flushing, trailOn, stale, watched,
                   watchdog, modal>>

-----------------------------------------------------------------------------
(* The effects of activePositionSymbolsKey: the stream subscriptions and   *)
(* the watchdog of stale symbols.                                          *)

Idle == [busy |-> FALSE, asked |-> {}, stopped |-> FALSE]

Asks(symbols) == [busy |-> TRUE, asked |-> symbols, stopped |-> FALSE]

\* The watchdog of the old key is stopped, and the new one checks at once; it
\* gives up if a call of the old one is still in flight.
EffectsRun ==
    /\ watched # OpenSymbols
    /\ watched' = OpenSymbols
    /\ watchdog' = IF watchdog.busy THEN [watchdog EXCEPT !.stopped = TRUE]
                   ELSE IF OpenSymbols \cap stale = {} THEN Idle
                   ELSE Asks(OpenSymbols \cap stale)
    /\ UNCHANGED <<trade, overdue, pending, flushing, trailOn, polls, stale, modal>>

WatchdogCheck ==
    /\ ~watchdog.busy
    /\ watched \cap stale # {}
    /\ watchdog' = Asks(watched \cap stale)
    /\ UNCHANGED <<trade, overdue, pending, flushing, trailOn, polls, stale,
                   watched, modal>>

\* The symbols that an answer refreshes: none once the watchdog is stopped.
Refreshed(rows) ==
    IF watchdog.stopped THEN {} ELSE {s \in watchdog.asked : rows[s] # NoPrice}

WatchdogReply(rows) ==
    /\ watchdog.busy
    /\ watchdog' = Idle
    /\ \E tied \in [Symbol -> BOOLEAN] :
         pending' = [s \in Symbol |->
           IF s \in Refreshed(rows)
           THEN Keep(pending[s], TickOf(rows[s], Fallback), tied[s])
           ELSE pending[s]]
    /\ flushing' = (flushing \/ Refreshed(rows) # {})
    /\ UNCHANGED <<trade, overdue, trailOn, polls, stale, watched, modal>>

\* Mutant of WatchdogFails: the busy flag is cleared on success only.
WatchdogStaysBusy ==
    /\ watchdog.busy
    /\ watchdog' = [watchdog EXCEPT !.asked = {}]
    /\ UNCHANGED <<trade, overdue, pending, flushing, trailOn, polls, stale,
                   watched, modal>>

\* The limiter or the network rejects the call; the trades are marked degraded.
WatchdogFails ==
    /\ watchdog.busy
    /\ watchdog' = Idle
    /\ UNCHANGED <<trade, overdue, pending, flushing, trailOn, polls, stale,
                   watched, modal>>

-----------------------------------------------------------------------------
(* The user and the clock.                                                 *)

Insert(t) ==
    /\ trade[t].status = "none"
    /\ trade' = [trade EXCEPT ![t].status = "open"]
    /\ UNCHANGED <<overdue, pending, flushing, trailOn, polls, stale, watched,
                   watchdog, modal>>

Dropped(T) == [t \in Trade |-> IF t \in T THEN [trade[t] EXCEPT !.status = "gone"]
                               ELSE trade[t]]

Remove(T) ==
    /\ T # {}
    /\ trade' = Dropped(T)
    /\ overdue' = overdue \ T
    /\ UNCHANGED <<pending, flushing, trailOn, polls, stale, watched, watchdog, modal>>

RemoveOne   == \E t \in Open : Remove({t})
ClearClosed == Remove({t \in Trade : trade[t].status = "closed"})
ClearAll    == Remove({t \in Trade : trade[t].status \in {"open", "closed"}})

ShowModal(t) ==
    /\ t \in Open /\ modal = NoTrade
    /\ modal' = t
    /\ UNCHANGED <<trade, overdue, pending, flushing, trailOn, polls, stale,
                   watched, watchdog>>

CancelModal ==
    /\ modal # NoTrade /\ modal' = NoTrade
    /\ UNCHANGED <<trade, overdue, pending, flushing, trailOn, polls, stale,
                   watched, watchdog>>

\* The dialog names the trade by its id and does not look whether it is still
\* open: one that was closed meanwhile is closed again, at its last price.
ManualClose ==
    /\ modal # NoTrade /\ modal' = NoTrade
    /\ trade' = IF trade[modal].status \in {"open", "closed"}
                THEN [trade EXCEPT ![modal].status = "closed",
                                   ![modal].reason = "MANUAL_CLOSE"]
                ELSE trade
    /\ UNCHANGED <<overdue, pending, flushing, trailOn, polls, stale, watched, watchdog>>

ToggleTrail ==
    /\ trailOn' = ~trailOn
    /\ UNCHANGED <<trade, overdue, pending, flushing, polls, stale, watched,
                   watchdog, modal>>

HoldElapses(t) ==
    /\ t \in Open \ overdue
    /\ overdue' = overdue \cup {t}
    /\ UNCHANGED <<trade, pending, flushing, trailOn, polls, stale, watched,
                   watchdog, modal>>

SymbolGoesStale(s) ==
    /\ s \notin stale
    /\ stale' = stale \cup {s}
    /\ UNCHANGED <<trade, overdue, pending, flushing, trailOn, polls, watched,
                   watchdog, modal>>

-----------------------------------------------------------------------------
Init ==
    /\ trade = [t \in Trade |-> Fresh]
    /\ overdue = {}
    /\ pending = [s \in Symbol |-> NoTick]
    /\ flushing = FALSE
    /\ trailOn = TRUE
    /\ polls = [k \in Poll |-> "idle"]
    /\ stale = Symbol
    /\ watched = {}
    /\ watchdog = Idle
    /\ modal = NoTrade

Watchdog == \/ WatchdogCheck \/ WatchdogFails
            \/ \E rows \in [Symbol -> Move \cup {NoPrice}] : WatchdogReply(rows)

User == \/ RemoveOne \/ ClearClosed \/ ClearAll \/ CancelModal \/ ManualClose
        \/ ToggleTrail
        \/ \E t \in Trade : Insert(t) \/ ShowModal(t)

Next == \/ \E s \in Symbol, source \in StreamSource, m \in Move : StreamTick(s, source, m)
        \/ Flush
        \/ \E k \in Poll : PollStart(k) \/ PollApply(k) \/ PollFails(k)
        \/ EffectsRun \/ Watchdog \/ User
        \/ \E t \in Trade : HoldElapses(t)
        \/ \E s \in Symbol : SymbolGoesStale(s)

Spec == Init /\ [][Next]_vars

\* React runs effects, timers fire, and silence makes a symbol stale.
BrowserRuns ==
    /\ WF_vars(Flush) /\ WF_vars(EffectsRun) /\ WF_vars(WatchdogCheck)
    /\ \A s \in Symbol : WF_vars(SymbolGoesStale(s))

\* A CRITICAL call returns or is rejected, and not every one is rejected.
ExchangeAnswers ==
    /\ WF_vars(WatchdogFails \/ \E rows \in [Symbol -> Move] : WatchdogReply(rows))
    /\ SF_vars(\E rows \in [Symbol -> Move] : WatchdogReply(rows))

\* Nothing is assumed of the stream or of the scanner's poll.
WatchdogSpec == Spec /\ BrowserRuns /\ ExchangeAnswers

-----------------------------------------------------------------------------
(* Properties.                                                             *)

Reason == {"ACTIVE", "TAKE_PROFIT", "PROFIT_LOCK", "TRAILING_EXIT", "STOP_LOSS",
           "TIMEOUT", "MANUAL_CLOSE"}

TradeType == [status : {"none", "open", "closed", "gone"}, price : Move,
              floor : Int, peak : Int, reason : Reason]

\* The type of every variable.
TypeOK ==
    /\ trade \in [Trade -> TradeType]
    /\ overdue \subseteq Trade
    /\ pending \in [Symbol -> Tick \cup {NoTick}]
    /\ flushing \in BOOLEAN /\ trailOn \in BOOLEAN
    /\ polls \in [Poll -> {"idle", "trailing", "fixed"}]
    /\ stale \subseteq Symbol /\ watched \subseteq Symbol
    /\ watchdog \in [busy : BOOLEAN, asked : SUBSET Symbol, stopped : BOOLEAN]
    /\ modal \in Trade \cup {NoTrade}

\* Whichever of the two evaluators saw the last price, and under whichever
\* profiles and settings of the trailing switch it was seen, a trade that is
\* still open is above its floor, above its stop and not below its trail.
OpenInsideBounds ==
    \A t \in Open : LET r == trade[t]
                    IN  r.price > r.floor /\ r.price > -SL /\ r.price >= r.peak - TRAIL

\* An armed lock outranks the exits below it: a trade is recorded as trailed
\* out, stopped out or timed out only if its price was above its floor.
LockOutranks ==
    \A t \in Trade :
        trade[t].reason \in {"TRAILING_EXIT", "STOP_LOSS", "TIMEOUT"}
            => trade[t].price > trade[t].floor

\* A tick never waits in the buffer without the timer that applies it.
PendingHasTimer == \A s \in Symbol : pending[s] # NoTick => flushing

\* A LONG floor is monotonic: no price, profile change or late answer lowers it.
FloorNeverFalls == [][\A t \in Trade : trade'[t].floor >= trade[t].floor]_vars

\* The outcome of a closed trade is final for the price paths: an answer or a
\* tick that was on its way when the trade closed does not touch it.  Only the
\* close dialog may close it again.
OutcomeIsFinal ==
    [][\A t \in Trade : trade[t].status = "closed" =>
         \/ trade'[t] = trade[t]
         \/ trade'[t] = [trade[t] EXCEPT !.status = "gone"]
         \/ modal = t /\ trade'[t] = [trade[t] EXCEPT !.reason = "MANUAL_CLOSE"]]_vars

\* A position is managed although the stream is silent and the scanner's REST
\* traffic is held: once its hold time has passed it is closed (or removed).
OverdueCloses == \A t \in Trade : (t \in overdue /\ t \in Open) ~> (t \notin Open)

-----------------------------------------------------------------------------
(* What a comment claims and the code does not keep.                       *)

\* LongLabApp: a coordinator "prevents first-callback-wins race across REST
\* poll and WebSocket close triggers".  When the poll closes a trade, a tick
\* that the stream delivered before is not still waiting to close it otherwise.
NoFirstCallbackRace ==
    [][\A t \in Trade : LET tick == pending[SymbolOf[t]] IN
         /\ t \in Open /\ trade'[t].status = "closed"
         /\ trade'[t].reason # "MANUAL_CLOSE"
         /\ tick # NoTick /\ pending' = pending
         => \A p \in Profile :
              OnTick(trade[t], tick.price, p, t \in tick.over).reason
                \in {"ACTIVE", trade'[t].reason}]_vars
=============================================================================
