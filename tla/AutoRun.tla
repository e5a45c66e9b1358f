------------------------------ MODULE AutoRun ------------------------------
(***************************************************************************)
(* The auto-run engine of LongLabApp and the admission of new trades: the  *)
(* phases starting, running, cooldown and done, the start sets that the    *)
(* engine, the auto-run button and the manual buttons ask for, and what    *)
(* normalizeAutoRunForResume makes of a stored auto-run after a reload.    *)
(*                                                                         *)
(* Awaits.  A start set plans what to add from the samples of the render   *)
(* it was called in (base), awaits the market context and candles, and     *)
(* then inserts without looking at the samples again; a mixed set does     *)
(* the losers and then the gainers, from the same base.  A call that has   *)
(* nothing to add answers in the task that made it.  Everything between    *)
(* two awaits is one action; so is the insertion of the last part of a set *)
(* with the answer, which the same task brings to the auto-run.            *)
(*                                                                         *)
(* Time.  A run window and a cooldown may end at any tick.  An id is the   *)
(* time of the call plus the place in the set; calls come further apart    *)
(* (GapSteps) than a set is long, so the ids of two calls do not meet.     *)
(*                                                                         *)
(* The store.  Each change of the auto-run or of the structure of the      *)
(* samples queues a checkpoint, and the checkpoints are written one after  *)
(* the other, so what a reload finds of either is the latest value or the  *)
(* one before (an older store is that of an earlier crash).  RuntimeRecovery *)
(* models the store itself.                                                *)
(***************************************************************************)
EXTENDS Integers, Sequences, FiniteSets

CONSTANTS
    Losers, Gainers,  \* the two parent buckets
    Tickers,          \* the symbols on offer in each bucket, best first
    Cap,              \* parentBucketCaps
    MaxOpen,          \* maxOpenLongsTotal and MAX_SAMPLES
    MaxRuns,          \* maxRuns of an auto-run
    Slot,             \* places for calls that are in flight at a time
    None,             \* no auto-run, no call
    GapSteps,         \* the distances of the times of two calls
    MaxCallTime,      \* bounds: the time after which no button is pressed,
    MaxAutoRuns,      \* the auto-runs started,
    MaxReloads,       \* and the reloads of the page
    Targets,          \* the targets of auto-runs that are tried, and
    Manual            \* the buckets of manual sets and entries that are

Bucket == {Losers, Gainers}
Offered(b) == {Tickers[b][i] : i \in DOMAIN Tickers[b]}
Symbol == UNION {Offered(b) : b \in Bucket}
Phases == {"starting", "running", "cooldown", "done"}

Trades == [id : Nat, symbol : Symbol, bucket : Bucket, run : Nat, cycle : Nat,
           set : Nat, open : BOOLEAN, finished : BOOLEAN]

AutoRuns == [id : Nat, target : Targets,
             phase : Phases, cycle : Nat, completed : Nat, entries : SUBSET Nat]

ASSUME AutoRunAssumption ==
    /\ Losers # Gainers
    /\ Tickers \in [Bucket -> Seq(Symbol)]
    /\ Cap \in [Bucket -> Nat]
    /\ Targets \subseteq SUBSET Bucket
    /\ Manual \subseteq Bucket
    /\ {MaxRuns, MaxOpen, MaxCallTime, MaxAutoRuns, MaxReloads} \subseteq Nat
    /\ MaxRuns > 0
    /\ GapSteps \subseteq Nat \ {0}
    /\ \A b \in Bucket, gap \in GapSteps : Len(Tickers[b]) <= gap
    /\ None \notin AutoRuns

\* The tickers of a bucket are one per symbol, those of the losers fell and
\* those of the gainers rose; the caps of 25 and 25 are within the 50 of both.
ASSUME LimitsAssumption ==
    /\ \A b \in Bucket : \A i, j \in DOMAIN Tickers[b] : Tickers[b][i] = Tickers[b][j] => i = j
    /\ Offered(Losers) \cap Offered(Gainers) = {}
    /\ Cap[Losers] + Cap[Gainers] <= MaxOpen

VARIABLES
    auto,      \* autoRunRef.current: None or an auto-run
    trades,    \* samples
    calls,     \* the start sets and single entries in flight
    before,    \* auto-run and samples before the last change: the older store
    lastAt,    \* the time of the last call
    started,   \* the auto-runs started so far
    reloads,   \* the reloads so far
    overlap    \* whether two calls ever were in flight together

vars == <<auto, trades, calls, before, lastAt, started, reloads, overlap>>
(***************************************************************************)
(* Capacity and candidates.                                                *)
(***************************************************************************)
Open(ts) == {t \in ts : t.open}

\* Mutant of AvailableBucketSlots: the cap of the bucket is forgotten.
AvailableInAll(ts, b) == MaxOpen - Cardinality(Open(ts))

AvailableBucketSlots(ts, b) ==
    LET total  == MaxOpen - Cardinality(Open(ts))
        bucket == Cap[b] - Cardinality({t \in Open(ts) : t.bucket = b})
    IN  IF total < bucket THEN total ELSE bucket

IsActive(ts, symbol) == \E t \in Open(ts) : t.symbol = symbol

Candidates(ts, b) == {i \in DOMAIN Tickers[b] : ~IsActive(ts, Tickers[b][i])}

PlaceAmong(c, i) == Cardinality({j \in c : j <= i})

\* What startBucketSet adds: the best candidates, as many as there are slots.
Plan(ts, b) ==
    {i \in Candidates(ts, b) : PlaceAmong(Candidates(ts, b), i) <= AvailableBucketSlots(ts, b)}

Entry(at, symbol, b, c) ==
    [id |-> at, symbol |-> symbol, bucket |-> b, run |-> c.run, cycle |-> c.cycle,
     set |-> c.set, open |-> TRUE, finished |-> FALSE]

\* A mixed set does the losers first.
PartOf(c) == IF Losers \in c.left THEN Losers ELSE Gainers

IdAt(c, i) == c.at + PlaceAmong(Candidates(c.base, PartOf(c)), i) - 1

\* The entries of the part of call c that is ready.
NewEntries(c) ==
    {Entry(IdAt(c, i), Tickers[PartOf(c)][i], PartOf(c), c) : i \in Plan(c.base, PartOf(c))}

\* Mutant of MadeSoFar: the entries of the first part are forgotten.
MadeLast(c, new) == {t.id : t \in new}

MadeSoFar(c, new) == c.made \cup {t.id : t \in new}

(***************************************************************************)
(* The auto-run as a record, and what an answer makes of it.               *)
(***************************************************************************)
IsLive(a) == a # None /\ a.phase # "done"      \* autoRunIsActive

\* The auto-run a in another phase.
InPhase(a, phase, cycle, completed, entries) ==
    [id |-> a.id, target |-> a.target, phase |-> phase, cycle |-> cycle,
     completed |-> completed, entries |-> entries]

\* Mutant of Expects: the late answer of a stopped auto-run is taken.
ExpectsAnyRun(a, c) == a # None /\ a.phase = "starting"

\* The engine compares the cycle, the button does not.
Expects(a, c) ==
    /\ a # None
    /\ a.id = c.run
    /\ a.phase = "starting"
    /\ c.from = "engine" => a.cycle = c.cycle

Settled(a, c, made) ==
    IF ~Expects(a, c) THEN a
    ELSE InPhase(a, IF made = {} THEN "done" ELSE "running", a.cycle, a.completed, made)

OpenOfCycle(a, ts) == {t \in Open(ts) : t.run = a.id /\ t.cycle = a.cycle}

\* Mutant of Resume: the trades of an interrupted start are not looked for.
ResumeRetry(a, ts) ==
    IF a = None \/ a.phase # "starting" THEN a
    ELSE InPhase(a, "cooldown", a.cycle, a.completed, {})

\* Mutant of Resume: an auto-run that was starting still waits for its answer.
ResumeAsIs(a, ts) == a

Resume(a, ts) ==
    IF a = None \/ a.phase # "starting" THEN a
    ELSE IF OpenOfCycle(a, ts) # {}
    THEN InPhase(a, "running", a.cycle, a.completed, {t.id : t \in OpenOfCycle(a, ts)})
    ELSE InPhase(a, "cooldown", a.cycle, a.completed, {})
(***************************************************************************)
(* Calls.  from is who waits for the answer: the engine, the auto-run      *)
(* button (control), or nobody (manual and single).                        *)
(***************************************************************************)
Free(s) == calls[s] = None

CallOf(from, run, cycle, at, left) ==
    [from |-> from, run |-> run, cycle |-> cycle, set |-> at, at |-> at,
     left |-> left, base |-> Open(trades), made |-> {}, wanted |-> None]

\* A start set is called: auto is a as of the call, and calls take their
\* place in s unless nothing is to be added.
CallStartSet(s, from, a, run, cycle, buckets) ==
    \E gap \in GapSteps :
       LET at   == lastAt + gap
           todo == {b \in buckets : Plan(trades, b) # {}}
           c    == CallOf(from, run, cycle, at, todo)
       IN  /\ lastAt' = at
           /\ calls' = IF todo = {} THEN calls ELSE [calls EXCEPT ![s] = c]
           /\ auto' = IF todo = {} THEN Settled(a, c, {}) ELSE a
           /\ overlap' = (overlap \/ (todo # {} /\ \E r \in Slot : ~Free(r)))

Oldest == [auto |-> None, trades |-> {}]

\* The last change is remembered as what an older store holds, as long as a
\* reload may still look at it.
Remember ==
    before' = IF reloads < MaxReloads THEN [auto |-> auto, trades |-> trades] ELSE Oldest

StartAutoRun(s, target) ==
    /\ Free(s)
    /\ ~IsLive(auto)
    /\ started < MaxAutoRuns /\ lastAt < MaxCallTime
    /\ started' = started + 1
    /\ target = Bucket => Open(trades) = {}  \* canStartBalanced
    /\ \E b \in target : AvailableBucketSlots(trades, b) > 0
    /\ CallStartSet(s, "control",
          [id |-> started', target |-> target, phase |-> "starting", cycle |-> 1,
           completed |-> 0, entries |-> {}],
          started', 1, target)
    /\ Remember
    /\ UNCHANGED <<trades, reloads>>

StopAutoRun ==
    /\ IsLive(auto)
    /\ auto' = None
    /\ Remember
    /\ UNCHANGED <<trades, calls, lastAt, started, reloads, overlap>>

\* The buttons for one set, enabled unless an auto-run is active.
StartManualSet(s, b) ==
    /\ Free(s)
    /\ ~IsLive(auto)
    /\ b \in Manual /\ lastAt < MaxCallTime
    /\ AvailableBucketSlots(trades, b) > 0
    /\ Plan(trades, b) # {}       \* a call that adds nothing changes nothing
    /\ CallStartSet(s, "manual", auto, 0, 0, {b})
    /\ UNCHANGED <<trades, before, started, reloads>>

\* addSample: its capacity test is that of a set of one symbol.  The id is
\* the time after the await.
StartSingle(s, b, symbol) ==
    /\ Free(s)
    /\ ~IsLive(auto)
    /\ b \in Manual /\ lastAt < MaxCallTime
    /\ symbol \in Offered(b)
    /\ AvailableBucketSlots(trades, b) > 0
    /\ ~IsActive(trades, symbol)
    /\ calls' = [calls EXCEPT ![s] =
                   [CallOf("single", 0, 0, 0, {b}) EXCEPT !.wanted = symbol]]
    /\ overlap' = (overlap \/ \E r \in Slot : ~Free(r))
    /\ UNCHANGED <<auto, trades, before, lastAt, started, reloads>>

InsertSingle(s) ==
    LET c == calls[s] IN
    /\ ~Free(s)
    /\ c.from = "single"
    /\ \E gap \in GapSteps :
          /\ lastAt' = lastAt + gap
          /\ trades' = trades \cup
               {Entry(lastAt', c.wanted, PartOf(c), [c EXCEPT !.set = lastAt'])}
    /\ calls' = [calls EXCEPT ![s] = None]
    /\ Remember
    /\ UNCHANGED <<auto, started, reloads, overlap>>

\* The part that is ready is done, the other begins.
NextPart(c, at, made) ==
    [from |-> c.from, run |-> c.run, cycle |-> c.cycle, set |-> c.set, at |-> at,
     left |-> c.left \ {PartOf(c)}, base |-> c.base, made |-> made, wanted |-> c.wanted]

\* The awaits of a part are over: its entries are inserted; then the next
\* part begins, or the set answers.
PartReady(s) ==
    LET c    == calls[s]
        new  == NewEntries(c)
        made == MadeSoFar(c, new)
    IN  /\ ~Free(s)
        /\ c.from # "single"
        /\ trades' = trades \cup new
        /\ Remember
        /\ UNCHANGED <<started, reloads, overlap>>
        /\ \/ /\ c.left = {PartOf(c)}
              /\ calls' = [calls EXCEPT ![s] = None]
              /\ auto' = Settled(auto, c, made)
              /\ UNCHANGED lastAt
           \/ /\ c.left # {PartOf(c)}
              /\ \E gap \in GapSteps :
                   /\ lastAt' = lastAt + gap
                   /\ calls' = [calls EXCEPT ![s] = NextPart(c, lastAt', made)]
              /\ UNCHANGED auto

\* Something throws before a part inserts: what was inserted stays.
CallRejects(s) ==
    LET c == calls[s] IN
    /\ ~Free(s)
    /\ calls' = [calls EXCEPT ![s] = None]
    /\ auto' = Settled(auto, c, {})
    /\ Remember
    /\ UNCHANGED <<trades, lastAt, started, reloads, overlap>>
(***************************************************************************)
(* The engine's interval.                                                  *)
(***************************************************************************)
\* The trades that are marked as done with their source run.
SourceCompleted(a, t) ==
    /\ t.open
    /\ t.run = a.id
    /\ t.cycle = a.cycle
    /\ a.entries # {} => t.id \in a.entries

\* Mutant of WindowOver: one run more than maxRuns.
WindowOverInclusive(a) ==
    InPhase(a, IF a.completed >= MaxRuns THEN "done" ELSE "cooldown",
            a.cycle, a.completed + 1, {})

WindowOver(a) ==
    InPhase(a, IF a.completed + 1 >= MaxRuns THEN "done" ELSE "cooldown",
            a.cycle, a.completed + 1, {})

RunWindowEnds ==
    /\ auto # None
    /\ auto.phase = "running"
    /\ trades' = {[t EXCEPT !.finished = (@ \/ SourceCompleted(auto, t))] : t \in trades}
    /\ auto' = WindowOver(auto)
    /\ Remember
    /\ UNCHANGED <<calls, lastAt, started, reloads, overlap>>

NextCycle(a) == InPhase(a, "starting", a.completed + 1, a.completed, {})

CooldownEnds(s) ==
    /\ Free(s)
    /\ auto # None
    /\ auto.phase = "cooldown"
    /\ CallStartSet(s, "engine", NextCycle(auto), auto.id, auto.completed + 1, auto.target)
    /\ Remember
    /\ UNCHANGED <<trades, started, reloads>>
(***************************************************************************)
(* The rest of the app: trades close and are removed, and the page goes    *)
(* and comes back with what the store has.                                 *)
(***************************************************************************)
CloseTrade(t) ==
    /\ t.open
    /\ trades' = (trades \ {t}) \cup {[t EXCEPT !.open = FALSE]}
    /\ Remember
    /\ UNCHANGED <<auto, calls, lastAt, started, reloads, overlap>>

\* One card, the closed ones, or all.
RemoveTrades(gone) ==
    /\ gone # {}
    /\ trades' = trades \ gone
    /\ Remember
    /\ UNCHANGED <<auto, calls, lastAt, started, reloads, overlap>>

Reload ==
    /\ reloads < MaxReloads
    /\ reloads' = reloads + 1
    /\ \E a \in {auto, before.auto}, ts \in {trades, before.trades} :
          /\ auto' = Resume(a, ts)
          /\ trades' = ts
          /\ before' = IF reloads' < MaxReloads THEN [auto |-> a, trades |-> ts] ELSE Oldest
    /\ calls' = [s \in Slot |-> None]
    /\ UNCHANGED <<lastAt, started, overlap>>

Init ==
    /\ auto = None
    /\ trades = {}
    /\ calls = [s \in Slot |-> None]
    /\ before = Oldest
    /\ lastAt = 0
    /\ started = 0
    /\ reloads = 0
    /\ overlap = FALSE

Next ==
    \/ \E s \in Slot, target \in Targets :
          StartAutoRun(s, target)
    \/ StopAutoRun
    \/ \E s \in Slot, b \in Bucket : StartManualSet(s, b)
    \/ \E s \in Slot, b \in Bucket, symbol \in Symbol : StartSingle(s, b, symbol)
    \/ \E s \in Slot : InsertSingle(s)
    \/ \E s \in Slot : PartReady(s)
    \/ \E s \in Slot : CallRejects(s)
    \/ RunWindowEnds
    \/ \E s \in Slot : CooldownEnds(s)
    \/ \E t \in trades : CloseTrade(t)
    \/ \E gone \in {{t} : t \in trades} \cup {trades \ Open(trades), trades} : RemoveTrades(gone)
    \/ Reload

\* The interval ticks, and every call that is in flight is answered.
Fairness ==
    /\ WF_vars(RunWindowEnds \/ \E s \in Slot : CooldownEnds(s))
    /\ \A s \in Slot : WF_vars(PartReady(s) \/ InsertSingle(s) \/ CallRejects(s))

Spec == Init /\ [][Next]_vars /\ Fairness
-----------------------------------------------------------------------------
Calls == [from : {"engine", "control", "manual", "single"}, run : Nat, cycle : Nat,
          set : Nat, at : Nat, left : SUBSET Bucket, base : SUBSET Trades,
          made : SUBSET Nat, wanted : Symbol \cup {None}]

\* Every variable has its type.
TypeOK ==
    /\ auto \in AutoRuns \cup {None}
    /\ trades \in SUBSET Trades
    /\ calls \in [Slot -> Calls \cup {None}]
    /\ before \in [auto : AutoRuns \cup {None}, trades : SUBSET Trades]
    /\ {lastAt, started, reloads} \subseteq Nat
    /\ overlap \in BOOLEAN

\* What is running is what was started in this cycle: the entries of a running
\* auto-run are trades of its own id and cycle, whoever answered and however
\* late, and also after a reload from a store of two ages.
RunningOwnsItsCycle ==
    (auto # None /\ auto.phase = "running") =>
        /\ auto.entries # {}
        /\ \A t \in trades : t.id \in auto.entries => t.run = auto.id /\ t.cycle = auto.cycle

\* A cycle is counted when its window ends and never twice: whatever is live is
\* in the cycle after those that are complete, of maxRuns at most; a cooldown
\* is before that cycle, or repeats it after a reload.
CycleFollowsCount ==
    auto # None =>
        /\ auto.completed <= MaxRuns
        /\ IsLive(auto) => auto.completed < MaxRuns
        /\ auto.phase \in {"starting", "running"} => auto.cycle = auto.completed + 1
        /\ auto.phase = "cooldown" => auto.cycle \in {auto.completed, auto.completed + 1}

\* A cycle is not started twice: its open trades are of one start set, although
\* a reload retries a start it finds no trades of.
OneSetPerCycle ==
    \A t, u \in Open(trades) :
        (t.run # 0 /\ t.run = u.run /\ t.cycle = u.cycle) => t.set = u.set

\* Positions outlive the window of their cycle, marked as done with it: without
\* a reload, no open trade of a completed cycle is unmarked, whichever parts of
\* the set inserted it.
NoTradeLeftUnmarked ==
    reloads = 0 => \A t \in Open(trades) :
        (auto # None /\ t.run = auto.id /\ t.cycle <= auto.completed) => t.finished

WithinLimits ==
    /\ \A t, u \in Open(trades) : t.symbol = u.symbol => t = u
    /\ \A b \in Bucket : Cardinality({t \in Open(trades) : t.bucket = b}) <= Cap[b]
    /\ Cardinality(Open(trades)) <= MaxOpen

\* LONG_BUCKET_POSITION_LIMITS holds as long as no two calls are in flight
\* together: a set inserts what it planned before its awaits, but nothing but
\* another call opens a trade meanwhile.
LimitsHoldOneCallAtATime == ~overlap => WithinLimits

\* maxOpenLongsPerSymbol: 1 (LongLabApp.jsx:231).
OneOpenTradePerSymbol ==
    \A t, u \in Open(trades) : t.symbol = u.symbol => t = u

\* An auto-run ends: no reload, late or missing answer leaves it in a phase
\* that nothing leads out of.
AutoRunEnds == IsLive(auto) ~> ~IsLive(auto)
=============================================================================
