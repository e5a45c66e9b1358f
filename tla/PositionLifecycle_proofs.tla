----------------------- MODULE PositionLifecycle_proofs -----------------------
(***************************************************************************)
(* For any trades, symbols, prices, profiles and ladders: the types, the   *)
(* bounds of an open trade, the precedence of the profit lock, the         *)
(* monotonic floor and the finality of an outcome.                         *)
(*                                                                         *)
(* All of them are about one trade at a time, so the inductive invariant   *)
(* is a predicate of one record, Good.  Beyond the properties it says that *)
(* a trade not yet inserted is fresh, so that it is inside its bounds when *)
(* it is inserted, and that an open trade carries no exit reason.  What a  *)
(* step does to the trades is Handled, one relation for all actions.       *)
(***************************************************************************)
EXTENDS PositionLifecycle, TLAPS

BelowTheLock == {"TRAILING_EXIT", "STOP_LOSS", "TIMEOUT"}

Inside(r) == r.price > r.floor /\ r.price > -SL /\ r.price >= r.peak - TRAIL

Good(r) ==
    /\ r \in TradeType
    /\ r.status = "none" => r = Fresh
    /\ r.status = "open" => r.reason = "ACTIVE" /\ Inside(r)
    /\ r.reason \in BelowTheLock => r.price > r.floor

\* What may become of a closed record; asked: its close dialog is confirmed.
Final(r, new, asked) ==
    \/ new = r
    \/ new = [r EXCEPT !.status = "gone"]
    \/ asked /\ new = [r EXCEPT !.reason = "MANUAL_CLOSE"]

\* What may become of any record.
Handled(r, new, asked) ==
    /\ Good(new)
    /\ new.floor >= r.floor
    /\ r.status = "closed" => Final(r, new, asked)

IInv == TypeOK /\ \A t \in Trade : Good(trade[t])

-----------------------------------------------------------------------------
(* The evaluation of one price.                                            *)

LEMMA FreshIsGood == Good(Fresh)
  BY PriceAssumption, SMT DEF Good, Fresh, TradeType, Reason, Inside, BelowTheLock

LEMMA RaisedFloorRises ==
  ASSUME NEW floor \in Int, NEW p \in Profile, NEW m \in Move
  PROVE  RaisedFloor(floor, p, m) \in Int /\ RaisedFloor(floor, p, m) >= floor
  <1>1. FloorAt[p][m] \in Int
    BY FloorAssumption
  <1>. QED
    BY <1>1 DEF RaisedFloor, Larger

LEMMA ObservedRecord ==
  ASSUME NEW r \in TradeType, NEW m \in Move, NEW p \in Profile, NEW trailing \in BOOLEAN
  PROVE  LET new == Observed(r, m, p, trailing)
         IN  /\ new \in TradeType
             /\ new.status = r.status /\ new.reason = r.reason
             /\ new.price = m /\ new.floor >= r.floor
  <1>1. /\ r.floor \in Int /\ r.peak \in Int /\ m \in Int
    BY PriceAssumption DEF TradeType
  <1>2. /\ RaisedFloor(r.floor, p, m) \in Int
        /\ RaisedFloor(r.floor, p, m) >= r.floor
    BY <1>1, RaisedFloorRises
  <1>3. (IF trailing /\ m >= TP THEN Larger(r.peak, m) ELSE r.peak) \in Int
    BY <1>1 DEF Larger
  <1>. QED
    BY <1>2, <1>3 DEF Observed, TradeType

LEMMA ExitReason ==
  ASSUME NEW r, NEW trailing \in BOOLEAN, NEW broken \in BOOLEAN, NEW late \in BOOLEAN
  PROVE  LET reason == Exit(r, trailing, broken, late)
         IN  /\ reason \in Reason \ {"MANUAL_CLOSE"}
             /\ reason = "ACTIVE" => ~(r.price <= r.floor) /\ ~broken /\ ~(r.price <= -SL)
             /\ reason \in BelowTheLock => ~(r.price <= r.floor)
  BY DEF Exit, Reason, BelowTheLock

LEMMA Numbers ==
  ASSUME NEW r \in TradeType
  PROVE  r.price \in Int /\ r.floor \in Int /\ r.peak \in Int
  BY PriceAssumption DEF TradeType

LEMMA SettledIsGood ==
  ASSUME NEW r \in TradeType, r.status = "open",
         NEW new \in TradeType, new.status = "open", new.reason = "ACTIVE",
         new.floor >= r.floor,
         NEW reason \in Reason,
         reason = "ACTIVE" => Inside(new),
         reason \in BelowTheLock => new.price > new.floor
  PROVE  Handled(r, Settle(new, reason), FALSE)
  <1>1. CASE reason = "ACTIVE"
    <2>1. Settle(new, reason) = new
      BY <1>1 DEF Settle
    <2>2. Good(new)
      BY <1>1 DEF Good, BelowTheLock
    <2>. QED
      BY <2>1, <2>2 DEF Handled
  <1>2. CASE reason # "ACTIVE"
    <2>. DEFINE s == [new EXCEPT !.status = "closed", !.reason = reason]
    <2>1. Settle(new, reason) = s
      BY <1>2 DEF Settle
    <2>2. /\ s \in TradeType /\ s.status = "closed" /\ s.reason = reason
          /\ s.price = new.price /\ s.floor = new.floor
      BY DEF TradeType
    <2>. HIDE DEF s
    <2>3. Good(s)
      BY <2>2 DEF Good
    <2>. QED
      BY <2>1, <2>2, <2>3 DEF Handled
  <1>. QED
    BY <1>1, <1>2

LEMMA OnTickIsGood ==
  ASSUME NEW r \in TradeType, Good(r), r.status = "open", trailOn \in BOOLEAN,
         NEW m \in Move, NEW p \in Profile, NEW late \in BOOLEAN
  PROVE  Handled(r, OnTick(r, m, p, late), FALSE)
  <1>. DEFINE new == Observed(r, m, p, trailOn)
              broken == m <= new.peak - TRAIL
              reason == Exit(new, trailOn, broken, late)
  <1>1. /\ new \in TradeType /\ new.status = "open" /\ new.reason = "ACTIVE"
        /\ new.price = m /\ new.floor >= r.floor
    BY ObservedRecord DEF Good
  <1>2. /\ new.price \in Int /\ new.floor \in Int /\ new.peak \in Int
        /\ TRAIL \in Int /\ SL \in Int
    BY <1>1, Numbers, PriceAssumption
  <1>3. broken \in BOOLEAN
    OBVIOUS
  <1>. HIDE DEF new
  <1>4. /\ reason \in Reason
        /\ reason = "ACTIVE" => ~(new.price <= new.floor) /\ ~broken /\ ~(new.price <= -SL)
        /\ reason \in BelowTheLock => ~(new.price <= new.floor)
    BY <1>3, ExitReason
  <1>. HIDE DEF reason
  <1>5. reason = "ACTIVE" => Inside(new)
    BY <1>1, <1>2, <1>4 DEF Inside
  <1>6. reason \in BelowTheLock => new.price > new.floor
    BY <1>2, <1>4
  <1>7. Handled(r, Settle(new, reason), FALSE)
    BY <1>1, <1>4, <1>5, <1>6, SettledIsGood
  <1>. QED
    BY <1>7 DEF OnTick, new, reason

LEMMA OnPollIsGood ==
  ASSUME NEW r \in TradeType, Good(r), r.status = "open", NEW trailing \in BOOLEAN,
         NEW m \in Move, NEW p \in Profile, NEW late \in BOOLEAN
  PROVE  Handled(r, OnPoll(r, m, p, trailing, late), FALSE)
  <1>. DEFINE new == Observed(r, m, p, trailing)
              broken == m < new.peak - TRAIL
              reason == Exit(new, trailing, broken, late)
  <1>1. /\ new \in TradeType /\ new.status = "open" /\ new.reason = "ACTIVE"
        /\ new.price = m /\ new.floor >= r.floor
    BY ObservedRecord DEF Good
  <1>2. /\ new.price \in Int /\ new.floor \in Int /\ new.peak \in Int
        /\ TRAIL \in Int /\ SL \in Int
    BY <1>1, Numbers, PriceAssumption
  <1>3. broken \in BOOLEAN
    OBVIOUS
  <1>. HIDE DEF new
  <1>4. /\ reason \in Reason
        /\ reason = "ACTIVE" => ~(new.price <= new.floor) /\ ~broken /\ ~(new.price <= -SL)
        /\ reason \in BelowTheLock => ~(new.price <= new.floor)
    BY <1>3, ExitReason
  <1>. HIDE DEF reason
  <1>5. reason = "ACTIVE" => Inside(new)
    BY <1>1, <1>2, <1>4 DEF Inside
  <1>6. reason \in BelowTheLock => new.price > new.floor
    BY <1>2, <1>4
  <1>7. Handled(r, Settle(new, reason), FALSE)
    BY <1>1, <1>4, <1>5, <1>6, SettledIsGood
  <1>. QED
    BY <1>7 DEF OnPoll, new, reason

-----------------------------------------------------------------------------
(* What each action does to the trades.                                    *)

\* A step of the positions, for one trade.
Step(t) == Handled(trade[t], trade'[t], modal = t)

LEMMA NothingHappens ==
  ASSUME NEW r, Good(r), NEW asked
  PROVE  Handled(r, r, asked)
  <1>1. r \in TradeType
    BY DEF Good
  <1>2. r.floor >= r.floor
    BY <1>1, Numbers
  <1>. QED
    BY <1>2 DEF Handled, Final

LEMMA FalseImpliesAny ==
  ASSUME NEW r, NEW new, Handled(r, new, FALSE), NEW asked
  PROVE  Handled(r, new, asked)
  BY DEF Handled, Final

LEMMA Unchanged ==
  ASSUME IInv, trade' = trade, NEW t \in Trade
  PROVE  Step(t)
  BY NothingHappens DEF IInv, Step

LEMMA InsertSteps ==
  ASSUME IInv, NEW u \in Trade, Insert(u), NEW t \in Trade
  PROVE  Step(t)
  <1>1. trade \in [Trade -> TradeType] /\ Good(trade[t])
    BY DEF IInv, TypeOK
  <1>2. CASE t = u
    <2>1. trade[t] = Fresh /\ trade'[t] = [Fresh EXCEPT !.status = "open"]
      BY <1>1, <1>2 DEF Insert, Good
    <2>2. Good([Fresh EXCEPT !.status = "open"])
      BY PriceAssumption DEF Good, Fresh, TradeType, Reason, Inside, BelowTheLock
    <2>3. /\ [Fresh EXCEPT !.status = "open"].floor >= Fresh.floor
          /\ Fresh.status # "closed"
      BY PriceAssumption DEF Fresh
    <2>. QED
      BY <2>1, <2>2, <2>3 DEF Step, Handled
  <1>3. CASE t # u
    <2>1. trade'[t] = trade[t]
      BY <1>1, <1>3 DEF Insert
    <2>. QED
      BY <1>1, <2>1, NothingHappens DEF Step
  <1>. QED
    BY <1>2, <1>3

LEMMA RemoveSteps ==
  ASSUME IInv, NEW T, Remove(T), NEW t \in Trade
  PROVE  Step(t)
  <1>1. trade[t] \in TradeType /\ Good(trade[t])
    BY DEF IInv, TypeOK
  <1>2. CASE t \in T
    <2>. DEFINE s == [trade[t] EXCEPT !.status = "gone"]
    <2>1. trade'[t] = s
      BY <1>2 DEF Remove, Dropped
    <2>2. /\ s \in TradeType /\ s.status = "gone" /\ s.reason = trade[t].reason
          /\ s.price = trade[t].price /\ s.floor = trade[t].floor
      BY <1>1 DEF TradeType
    <2>3. Final(trade[t], s, modal = t)
      BY DEF Final
    <2>. HIDE DEF s
    <2>4. Good(s) /\ s.floor >= trade[t].floor
      BY <1>1, <2>2, Numbers DEF Good
    <2>. QED
      BY <2>1, <2>3, <2>4 DEF Step, Handled
  <1>3. CASE t \notin T
    <2>1. trade'[t] = trade[t]
      BY <1>3 DEF Remove, Dropped
    <2>. QED
      BY <1>1, <2>1, NothingHappens DEF Step
  <1>. QED
    BY <1>2, <1>3

LEMMA ManualCloseSteps ==
  ASSUME IInv, ManualClose, NEW t \in Trade
  PROVE  Step(t)
  <1>1. trade \in [Trade -> TradeType] /\ trade[t] \in TradeType /\ Good(trade[t])
    BY DEF IInv, TypeOK
  <1>2. CASE modal = t /\ trade[t].status \in {"open", "closed"}
    <2>. DEFINE s == [trade[t] EXCEPT !.status = "closed", !.reason = "MANUAL_CLOSE"]
    <2>1. trade'[t] = s
      BY <1>1, <1>2 DEF ManualClose
    <2>2. /\ s \in TradeType /\ s.status = "closed" /\ s.reason = "MANUAL_CLOSE"
          /\ s.price = trade[t].price /\ s.floor = trade[t].floor
      BY <1>1 DEF TradeType, Reason
    <2>3. ASSUME trade[t].status = "closed"
          PROVE  s = [trade[t] EXCEPT !.reason = "MANUAL_CLOSE"]
      BY <1>1, <2>3 DEF TradeType
    <2>4. trade[t].status = "closed" => Final(trade[t], s, modal = t)
      BY <1>2, <2>3 DEF Final
    <2>. HIDE DEF s
    <2>5. Good(s)
      BY <2>2 DEF Good, BelowTheLock
    <2>6. s.floor >= trade[t].floor
      BY <1>1, <2>2, Numbers
    <2>. QED
      BY <2>1, <2>4, <2>5, <2>6 DEF Step, Handled
  <1>3. CASE ~(modal = t /\ trade[t].status \in {"open", "closed"})
    <2>1. trade'[t] = trade[t]
      BY <1>1, <1>3 DEF ManualClose
    <2>. QED
      BY <1>1, <2>1, NothingHappens DEF Step
  <1>. QED
    BY <1>2, <1>3

LEMMA FlushSteps ==
  ASSUME IInv, Flush, NEW t \in Trade
  PROVE  Step(t)
  <1>1. trade[t] \in TradeType /\ Good(trade[t]) /\ trailOn \in BOOLEAN
    BY DEF IInv, TypeOK
  <1>2. PICK profile \in [Trade -> Profile] :
          trade' = [u \in Trade |-> Applied(u, profile[u])]
    BY DEF Flush
  <1>3. trade'[t] = Applied(t, profile[t]) /\ profile[t] \in Profile
    BY <1>2
  <1>4. CASE t \in Open /\ pending[SymbolOf[t]] # NoTick
    <2>. DEFINE tick == pending[SymbolOf[t]]
    <2>1. tick \in Tick
      BY <1>4, SymbolAssumption DEF IInv, TypeOK
    <2>2. tick.price \in Move /\ (t \in tick.over) \in BOOLEAN
      BY <2>1 DEF Tick
    <2>3. trade[t].status = "open"
      BY <1>4 DEF Open
    <2>4. Handled(trade[t], OnTick(trade[t], tick.price, profile[t], t \in tick.over), FALSE)
      BY <1>1, <1>3, <2>2, <2>3, OnTickIsGood
    <2>5. trade'[t] = OnTick(trade[t], tick.price, profile[t], t \in tick.over)
      BY <1>3, <1>4 DEF Applied
    <2>. QED
      BY <2>4, <2>5, FalseImpliesAny DEF Step
  <1>5. CASE ~(t \in Open /\ pending[SymbolOf[t]] # NoTick)
    <2>1. trade'[t] = trade[t]
      BY <1>3, <1>5 DEF Applied
    <2>. QED
      BY <1>1, <2>1, NothingHappens DEF Step
  <1>. QED
    BY <1>4, <1>5

LEMMA PollSteps ==
  ASSUME IInv, NEW k \in Poll, PollApply(k), NEW t \in Trade
  PROVE  Step(t)
  <1>1. trade[t] \in TradeType /\ Good(trade[t])
    BY DEF IInv, TypeOK
  <1>2. PICK prices \in [Symbol -> Move \cup {NoPrice}], profile \in [Trade -> Profile] :
          trade' = [u \in Trade |-> Polled(u, k, prices, profile[u])]
    BY DEF PollApply
  <1>3. trade'[t] = Polled(t, k, prices, profile[t]) /\ profile[t] \in Profile
    BY <1>2
  <1>. DEFINE m == IF prices[SymbolOf[t]] = NoPrice THEN trade[t].price
                   ELSE prices[SymbolOf[t]]
  <1>4. m \in Move
    <2>1. trade[t].price \in Move
      BY <1>1 DEF TradeType
    <2>2. prices[SymbolOf[t]] \in Move \cup {NoPrice}
      BY SymbolAssumption
    <2>. QED
      BY <2>1, <2>2
  <1>5. CASE t \in Open
    <2>1. trade[t].status = "open"
      BY <1>5 DEF Open
    <2>2. (polls[k] = "trailing") \in BOOLEAN /\ (t \in overdue) \in BOOLEAN
      OBVIOUS
    <2>3. trade'[t] = OnPoll(trade[t], m, profile[t], polls[k] = "trailing", t \in overdue)
      BY <1>3, <1>5 DEF Polled
    <2>. HIDE DEF m
    <2>4. Handled(trade[t], OnPoll(trade[t], m, profile[t], polls[k] = "trailing",
                                   t \in overdue), FALSE)
      BY <1>1, <1>3, <1>4, <2>1, <2>2, OnPollIsGood
    <2>. QED
      BY <2>3, <2>4, FalseImpliesAny DEF Step
  <1>6. CASE t \notin Open
    <2>1. trade'[t] = trade[t]
      BY <1>3, <1>6 DEF Polled
    <2>. QED
      BY <1>1, <2>1, NothingHappens DEF Step
  <1>. QED
    BY <1>5, <1>6

\* One step for each action.
LEMMA NextSteps ==
  ASSUME IInv, [Next]_vars, NEW t \in Trade
  PROVE  Step(t)
  <1>1. CASE Flush
    BY <1>1, FlushSteps
  <1>2. CASE \E k \in Poll : PollApply(k)
    BY <1>2, PollSteps
  <1>3. CASE \E u \in Trade : Insert(u)
    BY <1>3, InsertSteps
  <1>4. CASE RemoveOne \/ ClearClosed \/ ClearAll
    BY <1>4, RemoveSteps DEF RemoveOne, ClearClosed, ClearAll
  <1>5. CASE ManualClose
    BY <1>5, ManualCloseSteps
  <1>6. CASE \/ \E s \in Symbol, source \in StreamSource, m \in Move : StreamTick(s, source, m)
             \/ \E k \in Poll : PollStart(k) \/ PollFails(k)
             \/ EffectsRun \/ Watchdog \/ CancelModal \/ ToggleTrail
             \/ \E u \in Trade : ShowModal(u) \/ HoldElapses(u)
             \/ \E s \in Symbol : SymbolGoesStale(s)
             \/ UNCHANGED vars
    <2>1. trade' = trade
      BY <1>6 DEF StreamTick, PollStart, PollFails, EffectsRun, Watchdog, WatchdogCheck,
           WatchdogFails, WatchdogReply, CancelModal, ToggleTrail, ShowModal, HoldElapses,
           SymbolGoesStale, vars
    <2>. QED
      BY <2>1, Unchanged
  <1>. QED
    BY <1>1, <1>2, <1>3, <1>4, <1>5, <1>6 DEF Next, User

-----------------------------------------------------------------------------
(* The types, and the theorems.                                            *)

\* The trades stay a function; what its values are, the lemmas above say.
LEMMA TradesTyped ==
  ASSUME IInv, [Next]_vars
  PROVE  trade' \in [Trade -> TradeType]
  <1>1. \A t \in Trade : trade'[t] \in TradeType
    BY NextSteps DEF Step, Handled, Good
  <1>2. trade \in [Trade -> TradeType]
    BY DEF IInv, TypeOK
  <1>3. trade' = [t \in Trade |-> trade'[t]]
    <2>1. CASE Flush
      BY <2>1 DEF Flush
    <2>2. CASE \E k \in Poll : PollApply(k)
      BY <2>2 DEF PollApply
    <2>3. CASE \E u \in Trade : Insert(u)
      BY <1>2, <2>3 DEF Insert
    <2>4. CASE RemoveOne \/ ClearClosed \/ ClearAll
      BY <2>4 DEF RemoveOne, ClearClosed, ClearAll, Remove, Dropped
    <2>5. CASE ManualClose
      BY <1>2, <2>5 DEF ManualClose
    <2>6. CASE \/ \E s \in Symbol, source \in StreamSource, m \in Move : StreamTick(s, source, m)
               \/ \E k \in Poll : PollStart(k) \/ PollFails(k)
               \/ EffectsRun \/ Watchdog \/ CancelModal \/ ToggleTrail
               \/ \E u \in Trade : ShowModal(u) \/ HoldElapses(u)
               \/ \E s \in Symbol : SymbolGoesStale(s)
               \/ UNCHANGED vars
      <3>1. trade' = trade
        BY <2>6 DEF StreamTick, PollStart, PollFails, EffectsRun, Watchdog, WatchdogCheck,
             WatchdogFails, WatchdogReply, CancelModal, ToggleTrail, ShowModal, HoldElapses,
             SymbolGoesStale, vars
      <3>. QED
        BY <1>2, <3>1
    <2>. QED
      BY <2>1, <2>2, <2>3, <2>4, <2>5, <2>6 DEF Next, User
  <1>. QED
    BY <1>1, <1>3

WatchdogType == [busy : BOOLEAN, asked : SUBSET Symbol, stopped : BOOLEAN]

Others ==
    /\ overdue \subseteq Trade
    /\ pending \in [Symbol -> Tick \cup {NoTick}]
    /\ flushing \in BOOLEAN /\ trailOn \in BOOLEAN
    /\ polls \in [Poll -> {"idle", "trailing", "fixed"}]
    /\ stale \subseteq Symbol /\ watched \subseteq Symbol
    /\ watchdog \in WatchdogType
    /\ modal \in Trade \cup {NoTrade}

LEMMA TickTyped ==
  ASSUME TypeOK, NEW m \in Move, NEW source \in StreamSource \cup {Fallback}
  PROVE  TickOf(m, source) \in Tick
  BY DEF TypeOK, TickOf, Tick

LEMMA KeepTyped ==
  ASSUME NEW old \in Tick \cup {NoTick}, NEW new \in Tick, NEW tied
  PROVE  Keep(old, new, tied) \in Tick \cup {NoTick}
  BY DEF Keep

LEMMA StreamTyped ==
  ASSUME TypeOK, NEW s \in Symbol, NEW source \in StreamSource, NEW m \in Move,
         StreamTick(s, source, m)
  PROVE  Others'
  <1>1. PICK tied \in BOOLEAN :
          pending' = [pending EXCEPT ![s] = Keep(@, TickOf(m, source), tied)]
    BY DEF StreamTick
  <1>2. pending \in [Symbol -> Tick \cup {NoTick}]
    BY DEF TypeOK
  <1>3. Keep(pending[s], TickOf(m, source), tied) \in Tick \cup {NoTick}
    BY <1>2, TickTyped, KeepTyped
  <1>4. pending' \in [Symbol -> Tick \cup {NoTick}]
    BY <1>1, <1>2, <1>3
  <1>. QED
    BY <1>4 DEF TypeOK, Others, WatchdogType, StreamTick

LEMMA ReplyTyped ==
  ASSUME TypeOK, NEW rows \in [Symbol -> Move \cup {NoPrice}], WatchdogReply(rows)
  PROVE  Others'
  <1>1. PICK tied \in [Symbol -> BOOLEAN] :
          pending' = [s \in Symbol |->
             IF s \in Refreshed(rows)
             THEN Keep(pending[s], TickOf(rows[s], Fallback), tied[s])
             ELSE pending[s]]
    BY DEF WatchdogReply
  <1>2. pending \in [Symbol -> Tick \cup {NoTick}]
    BY DEF TypeOK
  <1>3. ASSUME NEW s \in Symbol, s \in Refreshed(rows)
        PROVE  Keep(pending[s], TickOf(rows[s], Fallback), tied[s]) \in Tick \cup {NoTick}
    <2>1. rows[s] \in Move
      BY <1>3 DEF Refreshed
    <2>. QED
      BY <1>2, <2>1, TickTyped, KeepTyped
  <1>4. pending' \in [Symbol -> Tick \cup {NoTick}]
    BY <1>1, <1>2, <1>3
  <1>5. watchdog' \in WatchdogType
    BY DEF WatchdogReply, Idle, WatchdogType
  <1>6. flushing' \in BOOLEAN
    BY DEF WatchdogReply, TypeOK
  <1>. QED
    BY <1>4, <1>5, <1>6 DEF TypeOK, Others, WatchdogReply

LEMMA EffectsTyped ==
  ASSUME TypeOK, EffectsRun \/ WatchdogCheck \/ WatchdogFails
  PROVE  Others'
  <1>1. watchdog \in WatchdogType /\ watched \subseteq Symbol
    BY DEF TypeOK, WatchdogType
  <1>2. OpenSymbols \subseteq Symbol
    BY SymbolAssumption DEF OpenSymbols, Open
  <1>3. watched' \subseteq Symbol
    BY <1>1, <1>2 DEF EffectsRun, WatchdogCheck, WatchdogFails
  <1>4. /\ Idle \in WatchdogType
        /\ \A S \in SUBSET Symbol : Asks(S) \in WatchdogType
        /\ [watchdog EXCEPT !.stopped = TRUE] \in WatchdogType
    BY <1>1 DEF Idle, Asks, WatchdogType
  <1>5. OpenSymbols \cap stale \in SUBSET Symbol /\ watched \cap stale \in SUBSET Symbol
    BY <1>1, <1>2
  <1>6. watchdog' \in WatchdogType
    BY <1>4, <1>5 DEF EffectsRun, WatchdogCheck, WatchdogFails
  <1>. QED
    BY <1>3, <1>6 DEF TypeOK, Others, EffectsRun, WatchdogCheck, WatchdogFails

LEMMA RestTyped ==
  ASSUME TypeOK,
         \/ Flush \/ (\E k \in Poll : PollStart(k) \/ PollApply(k) \/ PollFails(k))
         \/ User
         \/ (\E t \in Trade : HoldElapses(t))
         \/ (\E s \in Symbol : SymbolGoesStale(s))
         \/ UNCHANGED vars
  PROVE  Others'
  <1>0. Others
    BY DEF TypeOK, Others, WatchdogType
  <1>1. CASE Flush
    BY <1>0, <1>1 DEF Others, Flush
  <1>2. CASE \E k \in Poll : PollStart(k) \/ PollApply(k) \/ PollFails(k)
    BY <1>0, <1>2 DEF Others, PollStart, PollApply, PollFails
  <1>3. CASE RemoveOne \/ ClearClosed \/ ClearAll
    BY <1>0, <1>3 DEF Others, RemoveOne, ClearClosed, ClearAll, Remove
  <1>4. CASE CancelModal \/ ManualClose \/ ToggleTrail
    BY <1>0, <1>4 DEF Others, CancelModal, ManualClose, ToggleTrail
  <1>5. CASE \E t \in Trade : Insert(t) \/ ShowModal(t)
    BY <1>0, <1>5 DEF Others, Insert, ShowModal
  <1>6. CASE \E t \in Trade : HoldElapses(t)
    BY <1>0, <1>6 DEF Others, HoldElapses
  <1>7. CASE \E s \in Symbol : SymbolGoesStale(s)
    BY <1>0, <1>7 DEF Others, SymbolGoesStale
  <1>8. CASE UNCHANGED vars
    BY <1>0, <1>8 DEF Others, vars
  <1>. QED
    BY <1>1, <1>2, <1>3, <1>4, <1>5, <1>6, <1>7, <1>8 DEF User

LEMMA NextIsGood == IInv /\ [Next]_vars => IInv'
  <1>. SUFFICES ASSUME IInv, [Next]_vars
                PROVE  IInv'
    OBVIOUS
  <1>1. Others'
    BY StreamTyped, ReplyTyped, EffectsTyped, RestTyped DEF Next, Watchdog, IInv
  <1>2. TypeOK'
    BY <1>1, TradesTyped DEF TypeOK, Others, WatchdogType
  <1>3. \A t \in Trade : Good(trade'[t])
    BY NextSteps DEF Step, Handled
  <1>. QED
    BY <1>2, <1>3 DEF IInv, Good

LEMMA InitIsGood == Init => IInv
  <1>. SUFFICES ASSUME Init
                PROVE  IInv
    OBVIOUS
  <1>1. \A t \in Trade : trade[t] = Fresh
    BY DEF Init
  <1>2. Fresh \in TradeType
    BY FreshIsGood DEF Good
  <1>3. TypeOK
    BY <1>2 DEF Init, TypeOK, Idle
  <1>. QED
    BY <1>1, <1>3, FreshIsGood DEF IInv

\* The inductive invariant holds in every reachable state.
LEMMA Invariance == Spec => []IInv
  BY InitIsGood, NextIsGood, PTL DEF Spec

\* Type correctness of the positions and of what watches them.
THEOREM TypeCorrect == Spec => []TypeOK
  <1>1. IInv => TypeOK
    BY DEF IInv
  <1>. QED
    BY <1>1, Invariance, PTL

\* Whichever evaluator saw the last price, an open trade is above its floor and
\* its stop and not below its trail.
THEOREM OpenStaysInside == Spec => []OpenInsideBounds
  <1>1. IInv => OpenInsideBounds
    BY DEF IInv, OpenInsideBounds, Open, Good, Inside
  <1>. QED
    BY <1>1, Invariance, PTL

\* The profit lock outranks the trail, the stop and the timeout.
THEOREM LockComesFirst == Spec => []LockOutranks
  <1>1. IInv => LockOutranks
    BY DEF IInv, LockOutranks, Good, BelowTheLock
  <1>. QED
    BY <1>1, Invariance, PTL

\* No step lowers the floor of a trade.
THEOREM FloorIsMonotonic == Spec => FloorNeverFalls
  <1>1. IInv /\ [Next]_vars => [\A t \in Trade : trade'[t].floor >= trade[t].floor]_vars
    BY NextSteps DEF Step, Handled
  <1>. QED
    BY <1>1, Invariance, PTL DEF Spec, FloorNeverFalls

\* No price path changes the outcome of a closed trade.
THEOREM OutcomeStands == Spec => OutcomeIsFinal
  <1>1. IInv /\ [Next]_vars =>
          [\A t \in Trade : trade[t].status = "closed" =>
             \/ trade'[t] = trade[t]
             \/ trade'[t] = [trade[t] EXCEPT !.status = "gone"]
             \/ modal = t /\ trade'[t] = [trade[t] EXCEPT !.reason = "MANUAL_CLOSE"]]_vars
    BY NextSteps, Zenon DEF Step, Handled, Final
  <1>. QED
    BY <1>1, Invariance, PTL DEF Spec, OutcomeIsFinal

\* The buffer and its timer change in three steps only.
LEMMA BufferSteps ==
  ASSUME [Next]_vars
  PROVE  \/ flushing'
         \/ pending' = [s \in Symbol |-> NoTick]
         \/ (flushing => flushing')
            /\ (pending' = pending \/ pending' = [s \in Symbol |-> pending[s]])
  <1>1. CASE \E s \in Symbol, source \in StreamSource, m \in Move : StreamTick(s, source, m)
    BY <1>1 DEF StreamTick
  <1>2. CASE Flush
    BY <1>2 DEF Flush
  <1>3. CASE \E k \in Poll : PollStart(k) \/ PollApply(k) \/ PollFails(k)
    BY <1>3 DEF PollStart, PollApply, PollFails
  <1>4. CASE EffectsRun
    BY <1>4 DEF EffectsRun
  <1>5. CASE Watchdog
    <2>1. ASSUME NEW rows, WatchdogReply(rows), Refreshed(rows) = {}
          PROVE  (flushing => flushing') /\ pending' = [s \in Symbol |-> pending[s]]
      BY <2>1 DEF WatchdogReply
    <2>2. ASSUME NEW rows, WatchdogReply(rows), Refreshed(rows) # {}
          PROVE  flushing'
      BY <2>2 DEF WatchdogReply
    <2>. QED
      BY <1>5, <2>1, <2>2 DEF Watchdog, WatchdogCheck, WatchdogFails
  <1>6. CASE User
    BY <1>6 DEF User, Insert, RemoveOne, ClearClosed, ClearAll, Remove, ShowModal,
                CancelModal, ManualClose, ToggleTrail
  <1>7. CASE \/ \E t \in Trade : HoldElapses(t)
             \/ \E s \in Symbol : SymbolGoesStale(s)
    BY <1>7 DEF HoldElapses, SymbolGoesStale
  <1>8. CASE UNCHANGED vars
    BY <1>8 DEF vars
  <1>. QED
    BY <1>1, <1>2, <1>3, <1>4, <1>5, <1>6, <1>7, <1>8 DEF Next

\* Whoever puts a tick into the buffer sets the timer that applies it, and the
\* timer takes every tick with it.
THEOREM PendingTicksHaveTimer == Spec => []PendingHasTimer
  <1>1. Init => PendingHasTimer
    BY DEF Init, PendingHasTimer
  <1>2. PendingHasTimer /\ [Next]_vars => PendingHasTimer'
    BY BufferSteps, Zenon DEF PendingHasTimer
  <1>. QED
    BY <1>1, <1>2, PTL DEF Spec
=============================================================================
