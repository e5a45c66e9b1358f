# A verification project for LongLAB

LongLAB is a React app that watches Binance futures, opens *simulated* long
positions on the symbols it scores best, manages them tick by tick (floors,
trails, stops, time-outs) and records everything for research. It runs in one
browser tab: one JavaScript thread, but many activities that interleave at
every `await`, timer, socket callback and React state update, over a browser
that may be reloaded or killed at any moment.

This directory holds TLA+ models of the parts where such interleavings decide
whether the app is right, the TLC runs that check them, and TLAPS proofs of the
properties that matter most. Paths below are relative to `src/src/`.

## 1. Inventory

| Component | Source | State it keeps | Operations | Status |
|---|---|---|---|---|
| Rate limiter | `rateLimiter/index.js` | module-level ledger of used weight, queue and in-flight counters, ban and backoff deadlines, abort generation | `apiFetch`, `snapshot`, `endRun` | modelled, proved |
| Close coordinator | `lifecycle/longLifecycleCloseCoordinator.js` | per trade: state, candidates, suppressed ones, winner, window timer | `registerTrade`, `submitCandidate`, `onCloseRequested`, `flushTrade`, `commitResolvedClose`, `cancelTrade`, `destroy` | modelled, proved |
| Open-position lifecycle | `app/LongLabApp.jsx` with `lifecycle/`, `fees/feeSafeProfitLock.js`, `exitProfiles/` | `samples`, tick buffer and flush timer, poll in flight, watchdog busy flag, close dialog | tick, flush, REST poll, watchdog, manual close, removal | modelled (lifecycle fields), proved |
| Persistence and recovery | `storage/runtimeRecovery.js`, `main.jsx`, effects of `LongLabApp.jsx` | IndexedDB, the localStorage journal, the checkpoint chain, revisions | load, checkpoint, navigation journal, clear | modelled, proved |
| Position price stream | `shadowLong/binancePriceStream.js` | per kind: socket, reconnect timer, membership key; subscriptions, rebuild timer | `subscribe`, `unsubscribe`, `reconnect`, `destroy`, socket and timer callbacks | modelled (ticks left out), proved |
| Auto-run engine | `app/LongLabApp.jsx`, `normalizeAutoRunForResume` | `autoRun` (phase, cycle, entry ids), `startSetRef` | start, stop, engine tick, answers of start sets, resume | modelled, proved |
| Entry admission | `startBucketSet`, `startBalancedSet`, `addSample` in `app/LongLabApp.jsx` | calls in flight, samples as of the call | call, insert, reject | modelled in `AutoRun` |
| Discovery queue | `aesDiscovery/aesDiscoveryQueue.js` and its interval | records, active fetches, cache | tick (select, enqueue, retry, expire, take), complete, fail | modelled, proved |
| Discovery shadow engine | `aesDiscovery/aesDiscoveryShadowEngine.js` | episodes by symbol, shadow trades | scan, enter, cool down, close | modelled, proved |
| Candidate tick stream | `tickDirection/candidateTickStream.js`, `tickDirectionBuffer.js` | per kind: socket, acknowledged streams, control-message queue, pending acknowledgements, timers; membership and handovers | `start`, `setMembership`, `notifyLifecycleHandover`, `destroy`, apply, send, acknowledge, rotate, reconnect | modelled but for ticks and their buffer, proved |
| Market scan | `app/LongLabApp.jsx` (`fetchData`, the loop, deep telemetry) | `scanBusyRef`, `deepScanBusyRef`, `lastDeepScanAtRef`, universe, klines | round of the loop, change of settings, refresh by hand, publish, fail, deep scan | modelled, proved |
| Session health, VWAP flip | `sessionHealth/`, `vwapFlip/` | a small state machine each | update | not modelled, section 8 |
| Scoring, policies, audits, regime, telemetry, fees, filters, exports, UI | the rest | none that outlives a call, or views of `samples` | pure formulas and rendering | out of scope, section 8 |

How they interact:

- every REST call of the app (scanner poll, klines, watchdog) is an `apiFetch`;
  the watchdog's is `CRITICAL` so that positions survive scanner congestion;
- the market scan publishes the universe from which entries and discovery choose, and is
  the poll that evaluates open positions and closes shadow trades;
- the price stream and the watchdog put ticks into one buffer, the flush applies
  them to `samples`; the scanner's poll applies its own answer to `samples`
  directly: two evaluators of one trade;
- the recovery module writes `samples`, `run` and `autoRun` every three seconds
  and at every structural change, and restores them when the page is loaded;
- the auto-run engine reads the closed state of the samples of its cycle and
  asks `startBucketSet` for new ones; manual sets and entries use the same admission
  while no auto-run is active;
- the discovery interval spends what the live app leaves of the rate limit on scans
  of further symbols, and a scan may open a shadow trade that only the broad poll closes.

What is hard, and why tests hardly reach it: values read before an `await` or
captured by a closure and used after it; two callbacks that close the same
trade; answers that come after what they answer was cancelled; counters that
must be released on every one of many ways out; a reload between two writes.
`PROJECT.json` lists each hazard at its line with the properties that cover it, or
with the reason why none does.

## 2. Plan

Done, in this order: `RateLimiter`, `CloseVerdict` and `CloseCoordinator`,
`PositionLifecycle`, `RuntimeRecovery`, `AutoRun` (the engine together with the
admission of trades and with a store of two ages, since its hazards lie between
them), `PriceStream`, `DiscoveryQueue`, `ShadowEngine`, `CandidateTickStream`,
`MarketScan`.

Left, most important first:

1. The composition of `PriceStream` with the tick buffer of `PositionLifecycle`, and
   an abstract specification of the stream: what is subscribed is streamed by one
   live socket.
2. `SessionHealth`, `VwapFlip`: small sequential state machines with hysteresis.

Every invariant and every action property of the runs is a theorem by now; what is
checked only is liveness.

## 3. Modules

| Module | Models | Proofs | Run from |
|---|---|---|---|
| `RateLimiter` | `apiFetch` and the ledger | `RateLimiter_proofs` | `MCRateLimiter` |
| `CloseVerdict` | what a close coordinator promises (abstract) | | |
| `CloseCoordinator` | the coordinator; implements `CloseVerdict` | `CloseCoordinator_proofs` | `MCCloseCoordinator` |
| `PositionLifecycle` | open positions and everything that prices or closes them | `PositionLifecycle_proofs` | `MCPositionLifecycle` |
| `RuntimeRecovery` | load, checkpoints, journal, IndexedDB, crashes | `RuntimeRecovery_proofs` | itself |
| `AutoRun` | the auto-run engine, start sets and manual entries, resume after a reload | `AutoRun_proofs` | `MCAutoRun` |
| `PriceStream` | the sockets of the open positions | `PriceStream_proofs` | itself |
| `DiscoveryQueue` | the queue of discovery and its interval | `DiscoveryQueue_proofs` | itself |
| `ShadowEngine` | episodes and shadow trades of discovery | `MarketScan_proofs` | itself |
| `CandidateTickStream` | the research sockets of the candidates and their control messages | `MarketScan_proofs` | itself |
| `MarketScan` | the scan loop, refresh by hand, deep telemetry scans | `MarketScan_proofs` | itself |

In every component module an operator whose comment begins with "Mutant of" is a
plausible wrong version of the operator that follows it. Nothing refers to it;
`PROJECT.json` pairs it with the property that rejects it. Names of `ShadowEngine` and
`CandidateTickStream` carry a prefix where they would meet those of `MarketScan`, so that
one proof module extends the scanner together with what follows its scans. Operators keep the
source's names where they can; `PROJECT.json` maps each one to its lines.

### RateLimiter

`pc[c]` is where call `c` of `apiFetch` is suspended: `budget` (the sleep of the
backoff and budget loop), `slot` (the concurrency loop), `spacing`, `inflight`
(the `fetch`), or it is `idle` or `settled`. What the code does between two awaits
is one step, so `Gate`, `Slot` and `Space` call one another as the loops fall
through. `ledger` holds `committed`, `measured`, `activeRuns`, whether the minute
has turned since the window was set (`stale`) and whether the measurement belongs
to the window (`fresh`); `_emit` calls the listener, which takes a snapshot, which
rolls the window - hence the roll at the end of nearly every action.

- *Time* is a set of flags: the minute, the wait budget of a `CRITICAL` call, the
  end of a ban and of a backoff change at any moment. How long a sleep lasts is
  open. This admits every timing of the code, and some more. The wait budget may be over before
  the call begins, as it is with a `maxWaitMs` of 0 or null (`rateLimiter/index.js:298`); the app passes none of these.
- `lane[c]` is the priority the call holds after a sleep. The spacing sleep keeps
  the one computed before it, as the code's local variable does; both loops
  compute it anew.
- The exchange (`Serve`) counts weight in the minute in which the request reaches
  it and answers in any order, with or without the header; `foreign` is weight
  spent by other clients of the IP.

### CloseVerdict and CloseCoordinator

Every method is one synchronous action and may be called at any time; the window
timer is the only asynchrony. `entry[t]` is the entry of `_trades` (state `ABSENT` if
there is none), `timer` the trades whose `setTimeout` is pending, `told` what the
listener was called with. `SelectWinner` returns the *set* of candidates the sort
may put first: the comparator treats event times within `EQUAL_TIME_TOLERANCE_MS` as
equal, so it need not be a strict weak order, and then the result of
`Array.prototype.sort` is implementation-defined.

`CloseVerdict` says what the coordinator is for: a trade gets at most one verdict,
one of the closes asked for, heard at most once and final until the trade is
withdrawn. `PromiseKept` is the refinement: an arbitration that ends is `Rule`, one
that ends without candidates is `CloseUnheard`, cancelling and destroying are
`Withdraw`, and everything else stutters or is `Ask`.

Three facts worth knowing: `EVENT_BEFORE_LAST_COMMIT` cannot happen, because a trade
with a committed event time is in a settled state, tested before; `flushTrade` on an
`OPEN` trade closes it without a winner, so its listener is never called;
`commitResolvedClose` during arbitration leaves the candidates unrecorded (which
is why `EveryCandidateRecorded` speaks of `CLOSE_REQUESTED`).

### PositionLifecycle

`trade[t]` holds the lifecycle fields of a sample: status, last price, armed floor,
trailing peak and close reason. `Flush` and `PollApply` are the two functional
state updates that evaluate a price; both raise the floor, then the peak, and take
the first exit that applies (take-profit if not trailing, profit lock, trail,
stop, time-out). They differ as the code does: the stream closes *at* the trailing
level, the poll *below* it; the poll uses the trailing switch of the closure
it started with (`polls[k]`); a tick carries the trades that were overdue when it
was received. `pending` and `flushing` are the tick buffer and its timer,
`watched` the symbols for which the effects last ran, `watchdog` the busy flag with
the call that set it and whether its effect was cleaned up meanwhile.

Abstractions: prices are whole steps from the entry price, the trailing distance is
counted in the same steps; the fee-safe profit-lock ladder is a table `FloorAt` with
one assumption, that a floor lies below the price that arms it
(`minTriggerToFloorHeadroomMarginPct`); the exit profile depends on telemetry
that is not modelled, so every evaluation may find any profile. Research fields of
a sample, admission rules and unmounting are left out. Enrichment answers spread
the current sample over the new fields, so they do not touch these fields.

### RuntimeRecovery

Edits of the state are numbered and a stored value is the number of its edit, so
"newer" is an order. `disk`, `journal` and `mem` are IndexedDB, the localStorage
entry and React's state; `chain` holds the checkpoints queued on
`runtimeCheckpointChainRef`, the first of them `started` with the writes of `writing`
outstanding; `io` is a FIFO of requests per key, because all keys live in one
object store, whose transactions run one at a time. A write ends in two steps, as it does
for `idbRequest` (`main.jsx:39`): `WriteSucceeds` is `request.onsuccess`, which resolves the
promise; `Commit` or `CommitAborts` follows once the callbacks of the success have run, among
them `Confirm`, which clears the journal. Nobody hears of an abort. Only a commit changes
`disk`. `Leave` closes or kills the page at any point and lets each write that is pending
or not committed take effect or not.

History variables, which no guard reads: `safe` is the newest state, key by key, that a
journal or a confirmed checkpoint held, but for what is given up: the values of a key that
was `behind` (a write of it had succeeded and was not committed) when the page was left without
a journal, and those of a key whose read failed at the load (`storage.get` answers null). `known`
are the keys of which the page has read or committed what is stored.

Assumed of the platform: a committed transaction and a `localStorage.setItem` survive
whatever becomes of the page (that is, a crash of the page, not of the machine).

Left out: what migration and `normalizeAutoRunForResume` make of a loaded value, the
watchlist and hold time (written like the discovery records, read before `LOADED`),
the legacy copy of a key in localStorage, and checkpoints of a state that is stored
already.

### AutoRun

`auto` is `autoRunRef.current`, `trades` the samples with the fields admission and the
engine look at, `calls` the start sets and single entries between their call and their
answer. Each call keeps `base`, the open samples of the render it was made in: it plans
from them and inserts later without looking again (`LongLabApp.jsx:3136`). A mixed set
is two parts, each inserted when its own awaits are over; `made` collects the ids. An
answer reaches the auto-run through `Settled`, which ignores it unless the same
auto-run (for the engine's calls, the same cycle) is still starting. A call that has
nothing to add answers in its own task.

`Reload` takes the auto-run and the samples each from the latest change or the one
before (`before`): the three writes of a checkpoint are not atomic, and `RuntimeRecovery`
says what can be lost. `Resume` is `normalizeAutoRunForResume`. Time is open: a window
or a cooldown may end at any tick; only the *order* of call times is kept, as ids are
made of them. Two facts the model shows: the set of an auto-run that was stopped still
inserts its trades when it answers; and a mixed set whose second part throws leaves
those of the first although the auto-run ends with `START_SET_FAILED`.

Left out: the fields an entry records, candidate ranking (the tickers are in the order
offered), and the lag between `autoRunRef` and React's state, which every handler
bridges by writing both. `fetchBtcMarketContext` and `fetchMarketRegime` catch their
errors; what else may throw in a part is `CallRejects`.

### PriceStream

`conn[k]` is the socket state of a kind: `ws` (an index into the pool of sockets that
exist, or none), the reconnect timer and `connectedSymbolsKey`; a socket has its
`readyState`, whether its handlers are attached, and the symbols its URL named.
The pool is there because a replaced socket lives on until it closes, and its
`onclose` acts on the state of whichever socket came after. Constructors may throw,
the server may close, a socket may fail while connecting; `destroy` may come at any
moment. The content of ticks and the mark-price cache are left out.

### DiscoveryQueue

A record that can still be taken is `QUEUED`, `FETCHING` or `FAILED` after its first
attempt; the others are display only and are dropped at once. `Tick` is the whole body
of the interval up to its await: selection, `enqueue`, `retryEligible`, `getNextBatch`,
`markFetching`, and `CANDIDATE_MISSING` for symbols that have left the universe. Ticks
overlap with scans of earlier ticks because the interval has no busy flag. `ScanThrows`
is an exception after `markComplete`, which the same `catch` turns into a failure of the
completed record; `threw` remembers that this happened, because the count of slots is
only a lower bound from then on. A tick under a rate-limit pause does nothing and is
left out; the budget of one that is not paused suffices for any batch.

### ShadowEngine

Per symbol: the level of the last scan, whether a reset was seen, whether an active
trade is remembered, and the cooldown. A score is `low` (below the reset threshold),
`mid` or `high` (the entry threshold); of three variants the highest decides both the
gate and the crossing. `open` are the stored trades, closed by the broad poll, which
does not tell the episode. `since` and `grounds` are history: what happened to the
symbol since its last entry, and before it.

### CandidateTickStream

`members`, `desired` and `handover` are the stream's own; `applyDue` is the pending
membership timer. `conn[k]` is the connection state of a kind (`active` is
`activeSubscriptions`, `queue` the control messages with their timer `ctrl`) together with
what earlier states left behind: how many of their sockets are still `leaving` and how many
reconnect `timers` are pending, both of which reconnect whatever state is current by then.
`sent` holds the messages from `ws.send` to the arrival of the reply, each with its fate at
the exchange and whether it is still in `pendingAcks`; `subs` is what the exchange streams
on the socket. `Reconcile` compares `desired` with `active` only, as the code does, so an
apply may cross messages that are still queued or unanswered. `After` says what messages,
one after another, make of a set of streams: the last one that names a stream decides. Two history variables say
when a promise is off: `astray`, the last apply crossed a message that contradicts it, or
one was refused since; and `late`, a reply came after its deadline. Section 6 says what
happens then.

Left out: ticks and their buffer, the health record, which of the kept symbols get the
last places (any of them), and the rotation timer, a day long, of a socket that was
replaced while it was closing.

### MarketScan

The effect of the loop runs again whenever a setting makes `fetchData` anew, so settings are
numbered and `loops[g]` is the loop made with setting `g`: awaiting its scan, armed, or over.
A stopped loop that awaits its scan still arms its timer, and ends only at the next round.
`scans` are the calls of `fetchData` in flight, of whichever loop or of the user, each with
those by whom it was outrun: a scan with a later ticker snapshot that was published before
it (`taken` are the places with a snapshot, `older[p]` those whose snapshot is older than
that of `p`). `universe` remembers this of the scan published last. `deeps` are the deep
scans, oldest first; `klines` says whether the last merge of candles came after one of a
later deep scan.

Left out: the contents of the universe, the two tests for a non-array answer (a way to fail
like the others), and the second request of a scan, which decides only when it ends.

## 4. Runs

| Run | Constants | Checks | Shows |
|---|---|---|---|
| `limiter_lanes` | CRITICAL, HIGH (weight 2) and NORMAL, the last two of one run; 2 slots, 5 units a minute; 200, 418 and 429 answers; only the page's timers are fair | `CountersExact`, `LedgerDominatesHeader`, `DirectLaunchWithinLane`, `CriticalTakesAFreeSlot`, `CriticalNeverWaitsForever` | no way out of `apiFetch` leaks a counter; the prediction never falls below a header; a call that does not sleep between gate and launch stays in its lane; CRITICAL never overbooks, and never waits indefinitely even if the exchange never answers and no minute turns |
| `close_verdict` | two trades, five candidates: early stop-loss, late take-profit, one without event time, one of an old revision, one of the other trade | `EarlierEventWins`, `WindowCloses`, `PromiseKept` | the coordinator's contract in every order of calls and timers |
| `position_exits` | one trade, five prices, two stream sources, the poll, two profiles | `OpenInsideBounds`, `LockOutranks`, `PendingHasTimer`, `FloorNeverFalls`, `OutcomeIsFinal` | both evaluators agree on when a trade is open; locks outrank; floors are monotonic; a closed trade stays as it is |
| `position_overdue` | two trades of two symbols, no stream, no poll | `OverdueCloses` | the watchdog alone ends a trade whose hold time passed |
| `recovery_reload` | two keys and the discovery records, one edit, two failures of reads, writes, commits or the journal, two lives of the page | `RestartLosesOnlyUncommitted`, `StoreNeverGoesBack`, `CheckpointsCatchUp` | of what was journaled or confirmed a reload or crash at any point loses only what is not committed and has no journal; a page never takes back what it knows of the store; what a failed write or commit left out is written again |
| `auto_run` | three symbols in two buckets, caps of one, two runs an auto-run, two auto-runs, two places for calls, one reload | `RunningOwnsItsCycle`, `CycleFollowsCount`, `OneSetPerCycle`, `NoTradeLeftUnmarked`, `LimitsHoldOneCallAtATime` | what runs was started in its cycle; no cycle is counted or started twice, also from a store of two ages; the limits hold unless two calls overlap |
| `auto_run_ends` | one auto-run of one or both buckets, two reloads | `AutoRunEnds` | no late, rejected or missing answer leaves a phase that nothing leads out of |
| `price_stream` | two symbols, one routed and one unrouted kind, three sockets each, two failures, two joins | `NoKindGivenUp`, `IdleStaysDown`, `KeyCatchesUp`, `StreamHeals`, `LetGoCloses` | no kind is given up while a position listens, nothing connects when none does, a membership that is not the key of an open socket has its rebuild pending, old sockets close |
| `discovery_queue` | two symbols with two records each, two slots, a TTL of one tick | `SlotsExact`, `OneFirstAttempt`, `QueueDrains` | no slot is lost, no symbol is first scanned twice at once, no record waits for ever |
| `shadow_reentry` | one symbol, three shadow trades | `ReentryIsEarned` | a second entry needs a whole cooldown and a scan below the threshold |
| `tick_stream` | one kind, three candidates for two places, messages of one stream, two changes, two failures | `ConnectionKept`, `ActiveIsTrue`, `AppliedIsUnderway`, `DesiredIsStreamed` | a started stream keeps a socket or a reconnect; its books agree with the exchange; an apply that crosses nothing loses nothing, and what is desired comes to be streamed |
| `market_scan` | two changes of the settings, one refresh by hand, two lists of a deep scan | `LoopScansInOrder`, `KlinesInOrder`, `SettingsTakeEffect`, `DeepGoesOn` | what the loops publish is in order although loops are stopped in mid-scan; a slow deep scan overwrites nothing newer; the last settings take effect; deep scans do not cease |

Instances of formulas the code *violates* are kept beside the runs: `X.cfg` is checked
with `tlc -config X.cfg M`, and TLC refutes each in seconds (section 6):
`RateLimiter_slots`, `RateLimiter_ban` (module `MCRateLimiter`), `CloseCoordinator_chain`
(`MCCloseCoordinator`), `PositionLifecycle_callback` (`MCPositionLifecycle`),
`RuntimeRecovery_commit`, `RuntimeRecovery_discovery`, `RuntimeRecovery_misread`, `AutoRun_limits` (`MCAutoRun`), `PriceStream_paths`,
`ShadowEngine_active`, `ShadowEngine_reset`, `CandidateTickStream_contradicted`,
`MarketScan_manual`.
`RateLimiter_four` is a larger instance of the limiter without the liveness property (four
calls, two of them interchangeable, 3 slots, 6 units a minute; 2.5 million states).

The type invariants of the component modules, and `WindowHasTimer` and
`EveryCandidateRecorded` of the coordinator, are proved (section 5) and checked by no run.
`CandidateTickStream` has no type invariant of its own: the types are part of `StreamInv`,
the inductive invariant of its proofs.

### Bounds, and why they are enough

- *Limiter.* The hazards need a call that waits, one that overtakes it and one whose
  answer limits the others; CRITICAL and both shares of the slots are present. The
  table is scaled down to 5 units a minute with its order kept (LOW 1 < NORMAL 2 < HIGH 3 <
  CRITICAL 4 < limit), so that a promotion from any lane to the next changes what may be launched.
  Each call runs once: a second call of the same caller is a further member of
  `Call`. `MinuteTurns` is unbounded, weights per minute are bounded by the calls.
- *Coordinator.* Two candidates decide a race, three an intransitive chain; the fourth
  and fifth are stale and foreign. Each is submitted once, so the model is finite
  without any bound.
- *Positions.* Five prices are the stop, the entry, the two prices that arm a
  floor and the take-profit; two profiles with crossing ladders; trades do not
  interact in the evaluation, so one is enough there and two for the watchdog, whose
  busy flag they share. A trade is inserted once, so the symbol set changes finitely often.
- *Recovery.* `MaxEdits`, `MaxFailures`, `MaxMounts` and `MaxRevision` bound edits,
  failing requests, lives of the page and the revision up to which hiding the page is
  tried. Two lives are what the journal is for; `MaxRevision = 4` lets each of them write
  one after its own checkpoints. One edit gives every key two values, and two failures an
  aborted commit beside a rejected checkpoint or a failed read. `ReadsFail` names the keys of
  which a read may fail: all of them in `recovery_reload`. Deadlock
  is not checked there: the user may leave for good. Nor is it in the coordinator,
  which ends when it is destroyed or every candidate is sent.
- *Auto-run.* A cap of one and three symbols make capacity run out and leave one
  candidate over; two runs give a cycle after the first. `MaxCallTime`, `MaxAutoRuns` and
  `MaxReloads` bound the buttons pressed, the auto-runs and the reloads; with two places
  for calls the answer of a stopped auto-run can come while the next one is starting.
  `auto_run_ends` has one auto-run and no manual buttons, since liveness concerns one
  auto-run at a time, and two reloads, one to lose an answer and one to meet the retry.
- *Price stream.* Two kinds differ in the code only by being routed or not; with three
  sockets of a kind one can be closing while one was replaced and one is current.
  An action that needs a fourth place waits for one. Two failures are what the
  worst case known takes (a refused constructor and a lost socket).
- *Discovery.* Two slots and two symbols let a batch be smaller or larger than the slots;
  two records of a symbol are a retry beside a newer record. In `ShadowEngine` symbols do
  not interact, and the third trade is the first whose predecessor was a re-entry.
- *Candidate stream.* The kinds share nothing but `desired`, so one is enough. Three candidates
  for two places make symbols compete; with messages of one stream every apply of two
  symbols is two messages, so that a second apply falls between them. Two changes are
  a symbol that leaves and comes back, or a handover after an entry into the membership;
  two failures a rotation and a refused constructor, or a late reply on a socket that is
  then lost.
- *Market scan.* One scan of a loop and one of the user are what the flag allows to
  overlap; two changes stop a loop that was itself begun while another's scan was under way.
  `MaxDeep` only bounds what a missing flag would allow. That loops scan for ever needs no bound.
- None of these six is checked for deadlock: the user may close every position, stop
  everything, or the bounds may be used up.

### Fairness

Only what the platform does by itself: pending timers fire (the limiter's sleeps,
the arbitration window, the flush timer, the checkpoint interval), React runs the
effects of a changed key, IndexedDB performs requests, calls back and ends transactions. `OverdueCloses`
also needs `ExchangeAnswers`: a CRITICAL call returns or is rejected (weak fairness;
`CriticalNeverWaitsForever` shows the limiter's part of it; the `fetch` itself has no deadline) and not every one is
rejected (strong fairness). Nothing is assumed of the user, the stream or the poll,
and in the limiter nothing of the exchange. Failures in `RuntimeRecovery`, aborted commits among
them, are bounded in number, which is what "whatever fails once" means in `CheckpointsCatchUp`.
Where a call is supposed to end, it is supposed that its requests end: only the two requests of a scan
(`getTickers`, `getFunding`) have a deadline of the app (`app/LongLabApp.jsx:948`). The others (`getKlines`, `getDepth`,
`getOI`, `:991-995`) have none, and a `fetch` that never settles is ended by the browser if
at all. It would leave the call of a set, the scan of a record or the flag of the deep scans
waiting, so `AutoRunEnds`, `QueueDrains` and `DeepGoesOn` say nothing of that case.
In `AutoRun` the interval ticks and a call in flight ends (a request that fails has a catch); in `PriceStream` timers fire and a socket that connects opens or
fails, with failures bounded; in `DiscoveryQueue` the interval ticks with the rate limit
free, and a scan ends (each of its requests is an `apiFetch`). In `CandidateTickStream` the
membership and control timers fire, and the exchange processes what it gets and answers;
nothing is assumed of sockets. In `MarketScan` timers fire, scans end (by their deadline), deep scans end (as said above), and
it is not the case that from some moment on every ticker request, or every scan that has its tickers, fails.

## 5. Theorems

`tlapm M_proofs.tla` checks each proof module. The theorems hold for every value of
the constants that satisfies the named assumptions of the component module.

| Theorem | Module | Statement |
|---|---|---|
| `TypeCorrect`, `ScannerTypeCorrect`, `ShadowTypeCorrect` | each `_proofs` module | `Spec => []TypeOK` |
| `LedgerDominates` | `RateLimiter_proofs` | `Spec => []LedgerDominatesHeader` |
| `CountersAreExact` | `RateLimiter_proofs` | `Spec => []CountersExact` |
| `CriticalFindsASlot`, `DirectLaunchesFit` | `RateLimiter_proofs` | `CriticalTakesAFreeSlot` and `DirectLaunchWithinLane` hold of every step |
| `WindowsHaveTimers`, `AuditIsComplete` | `CloseCoordinator_proofs` | `WindowHasTimer` and `EveryCandidateRecorded` are invariants |
| `CoordinatorKeepsPromise` | `CloseCoordinator_proofs` | `Spec => PromiseKept`: the coordinator implements `CloseVerdict` |
| `SortedWindowsRuleByTime` | `CloseCoordinator_proofs` | if the comparator is consistent on what a window collected, its winner is the earliest |
| `EarlierWins`, `EarlierOfTwoWins` | `CloseCoordinator_proofs` | `EarlierEventWins` is an invariant if the comparator is consistent on the candidates of a trade; with two candidates it always is |
| `OpenStaysInside`, `LockComesFirst` | `PositionLifecycle_proofs` | `OpenInsideBounds` and `LockOutranks` are invariants |
| `PendingTicksHaveTimer` | `PositionLifecycle_proofs` | `PendingHasTimer` is an invariant |
| `FloorIsMonotonic`, `OutcomeStands` | `PositionLifecycle_proofs` | `FloorNeverFalls` and `OutcomeIsFinal` hold of every step |
| `RestartIsSafe` | `RuntimeRecovery_proofs` | `RestartLosesOnlyUncommitted` is an invariant, whatever fails |
| `StoreIsMonotonic` | `RuntimeRecovery_proofs` | `StoreNeverGoesBack` holds of every step, whatever fails |
| `NoKindIsGivenUp`, `IdleStreamStaysDown`, `KeyCatchesUpAlways` | `PriceStream_proofs` | `NoKindGivenUp`, `IdleStaysDown` and `KeyCatchesUp` are invariants |
| `CyclesFollowTheCount`, `RunningOwns` | `AutoRun_proofs` | `CycleFollowsCount` and `RunningOwnsItsCycle` are invariants |
| `LimitsHold` | `AutoRun_proofs` | `LimitsHoldOneCallAtATime` is an invariant |
| `OneSetOfCycle`, `AllAreMarked` | `AutoRun_proofs` | `OneSetPerCycle` and `NoTradeLeftUnmarked` are invariants |
| `SlotsAreExact`, `FirstAttemptsAreSingle` | `DiscoveryQueue_proofs` | `SlotsExact` and `OneFirstAttempt` are invariants |
| `LoopScansAreInOrder`, `KlinesAreInOrder` | `MarketScan_proofs` | `LoopScansInOrder` and `KlinesInOrder` are invariants |
| `ReentryIsAlwaysEarned` | `MarketScan_proofs` | `ReentryIsEarned` is an invariant |
| `ConnectionIsKept`, `ActiveIsAlwaysTrue`, `AppliedIsAlwaysUnderway` | `MarketScan_proofs` | `ConnectionKept`, `ActiveIsTrue` and `AppliedIsUnderway` are invariants |

Along which argument:

- *Limiter.* The counters are compared with cardinalities of sets of calls, so the
  proof rests on lemmas about `Cardinality` when one call enters or leaves a
  set, and on the floor at zero of `Dec` never being reached: `CountersExact` with
  `TypeOK` is inductive, because a call that leaves the queue is counted in it.
  `LedgerDominatesHeader` is inductive with `TypeOK` alone: every step either rolls,
  raises `committed`, or takes over a header into both counters.
  `CriticalFindsASlot` needs that a CRITICAL call never sleeps for spacing
  (`SpacedLanes`), so that its slot is tested in the step that takes it.
  `DirectLaunchesFit` follows one call through `Gate`, `Slot` and `Space` in a
  single step; where the gate rolls the window first, it needs `WeightAssumption`, that
  a call alone fits its lane.
- *Coordinator.* The inductive invariant is one predicate `Good` of a single trade
  (its entry, its timer, what its listener heard); one lemma says that a step which
  keeps the other trades as they are and leaves this one good keeps the invariant.
  The refinement has one lemma per method, over the invariant: an arbitration that
  ends rules for a collected candidate because `SelectWinner` picks from the array
  whatever the comparator does.
  Which one it picks is known where the comparator orders the candidates collected:
  `Consistent` says that of a set of candidates. Then `SelectWinner` is what sorts first,
  otherwise any candidate of the array. `AllRuledRight` makes this an invariant of every window, with no
  assumption on the times. `EarlierEventWins` follows where a trade's candidates are
  consistent: any two are (`PairConsistent`), and any number whose times fall into groups
  closer than the tolerance and farther apart than it (`GroupedConsistent`). For the chain
  of `CloseCoordinator_chain.cfg` the hypothesis fails and so does the property (section 6).
- *Positions.* `OnTickIsGood` and `OnPollIsGood` say what one evaluation does to one trade
  (`Handled`: the floor does not fall, an open result is inside its bounds, a
  closed trade is not touched); each action is then shown to handle every trade, and
  both the invariant and the two action properties follow from that one fact.
  The invariant that is inductive adds to the checked ones that a trade which is not
  there yet is fresh. The tick buffer and its timer change in three kinds of step only
  (a tick sets both, the flush empties both, an answer of the watchdog sets the timer),
  so `PendingHasTimer` is inductive by itself.
- *Recovery.* No theorem supposes that anything succeeds: reads, writes, commits and the journal
  may all fail. `RestartLosesOnlyUncommitted` alone is not inductive: it says
  nothing of the writes that are under way, and one of an older value would break it.
  The invariant `IInv` follows one key from the store through the requests not yet
  over and the queued checkpoints to the state: from left to right values never
  get older (`QueueOrder`, `ChainOrder`), a journal has its place in that line by its
  revision (`JournalOrder`), the write the first checkpoint waits for is the last of its
  queue, and when it has succeeded it is the only one until it is committed or aborted
  (`UnderWay`), and what could be relied on lies before everything that is
  still to be committed (`Reliable`, `Above`). The store itself need not lie before it: a page that
  started from a journal, or from a read that failed (`Answered`), may find a newer one, and only once it has
  committed a write of its own is the store `known` and in line. The delicate step is a failed
  write: the rejected checkpoint leaves writes of other keys in their queues, which nothing
  waits for any more and which must still come before those of the next one
  (`RejectedLine`). What is confirmed before it is committed makes its key `behind`, and for such a
  key without a journal the invariant bounds what is still to be committed and not the store:
  a page that lives writes it again, one that is left gives it up. `IInv` was checked as an invariant of `recovery_reload`'s
  instance before it was proved.

- *Price stream.* What a socket state must satisfy depends on whether somebody listens
  (`Held`) or not (`Idle`); each private method gets one lemma that says what it makes of
  these, and each action cites them kind by kind. The invariant adds that `ws` names a
  socket with its handlers attached, or none, and that a stream without listeners has no
  members.
- *Auto-run.* `RunningOwnsItsCycle` rests on ids. A call that waits has `Reserved` the ids
  that follow its time, and every id that is known, of a trade or of an entry, is `Used`:
  before the next time and in nobody's reservation. A trade inserted late thus has an id
  that an auto-run names only through the answer of that call, and other answers are
  not expected. The assumption is that calls are farther apart than a set is long, without
  which two sets share ids (section 6). The parts of the invariant are said of the state and
  of `before`, so that a reload from a store of two ages keeps them.
  `LimitsHold` needs `LimitsInv`: until two calls overlap there is one call at most, the
  trades *fit* (limits kept, one trade a symbol), and what the call still means to insert
  it planned from a base that fits and of which every open trade it may meet is part; the
  places it chose are counted against the free ones of base. The limits across buckets
  hold by `LimitsAssumption`: a table offers no symbol twice and none that the other
  offers, as losers and gainers are told apart by the sign of the change (`:519-527`), and
  the caps of the buckets add up to no more than the total (`:229-236`).
  `OneSetOfCycle` and `AllAreMarked` need `SetsInv`: at most one call of an auto-run is
  under way for its starting cycle, of which no trade is there but those it made; and, as
  long as there was no reload, an auto-run that runs names every trade of its cycle.
- *Discovery queue.* A tick is described once, by its six sets of places and by what becomes
  of each place; the counts are cardinalities of disjoint unions and differences. Inductive
  with it: a failed record was tried once, one that is fetched at least once.
- *Scanner.* `LoopScansInOrder` speaks of the published universe; what is inductive says that
  the flag is set while a scan of any loop is in flight and that there is one such scan
  (`OneLoopScan`), so that no loop's scan was outrun by a loop's (`NotOutrun`), while scans by hand
  come and go; snapshots belong to calls in flight. For the deep scans `OneDeepScan`: the
  flag is set exactly while one is under way, and nothing outran it.
- *Shadow engine.* Inductive with `Due`: since the last entry the trade is remembered, or its
  cooldown runs, or it is over; and the last scan was high, or one below the threshold
  came since.
- *Candidate stream.* The proof needs `After` to behave as messages applied in turn do, which its
  definition by the last word does not show: `AfterJoined` (the messages of two sequences, one after the
  other), and from it `AfterHead`, `AfterShift`, `AfterAppend`, with `AfterLast` for a message whose
  successors say nothing yet and `AfterCovering` for messages that reach a target. `ChunkCovers`
  says that batches of any size lose and add nothing. The invariant `StreamInv` says of every
  connection, besides the three properties, that the exchange takes messages in order
  (`TakenInOrder`), that no reply was given up unless one was late (`NoneGivenUp`), and that a
  connecting socket has neither books nor messages (`Blank`), for without it `onopen` would
  start from something. Serving a message moves it from what is under way to
  what is streamed, its reply moves it into `active`, and neither changes what `After` makes of
  them; only `Reconcile` sets the target, and reaches it because it contradicts nothing, or
  else the connection counts as astray. Every private method has a lemma (`GoodOpening`,
  `GoodSent`, `GoodAnswered`, ...), and every action touches one connection by one of them.

Every inductive invariant above was checked by TLC on the instance of its run before it was proved.

Checked by TLC only: every liveness property (`CriticalNeverWaitsForever`, `WindowCloses`,
`OverdueCloses`, `CheckpointsCatchUp`, `StreamHeals`, `LetGoCloses`, `AutoRunEnds`,
`QueueDrains`, `DesiredIsStreamed`, `SettingsTakeEffect`, `DeepGoesOn`), which is beyond the prover.
The invariants and action properties of the runs are all proved.

## 6. What the code does differently from what it says

For those with a name in code font TLC refutes the formula with the configuration listed in
section 4; each takes seconds.

1. `NormalLowLeaveASlot`: "NORMAL/LOW can never occupy all six slots" (`rateLimiter/index.js:375`).
   The slot is tested before the spacing sleep and taken after it.
2. `CriticalRejectsWhenLimited`: CRITICAL calls "reject promptly" when a ban or backoff is on
   (`:284`). Both are read before the concurrency loop and not after it.
3. `EarlierEventWins` for a chain of times: "earlier STOP_LOSS beats later TAKE_PROFIT regardless of callback
   order" (the coordinator's test, line 99). The tolerance is not transitive.
4. The changelog (line 79) puts TRAIL before PROFIT_LOCK; both evaluators look at
   the lock first, and `LockOutranks` states what the code does.
5. `NoFirstCallbackRace`: the coordinator "prevents first-callback-wins race"
   (`app/LongLabApp.jsx:1541`). It is created and destroyed there, and never used.
6. `TransientErrorKeepsData`: "a transient IndexedDB error doesn't overwrite accumulated
   research data" (`:1597`). `storage.get` swallows the error (`main.jsx:53`).
7. `DiscoveryPersists`: the effects named "AES Discovery persistence" (`:2544`) write
   the blank records of a new page before they read the stored ones.
8. `OneOpenTradePerSymbol`: "maxOpenLongsPerSymbol: 1" (`:231`). Two calls in flight together plan
   from the same samples and both insert; `LimitsHoldOneCallAtATime` is what remains.
9. `PrimaryPathCarriesPositions`: "Dedicated routed WebSocket manager for open LONG
   positions" (`shadowLong/binancePriceStream.js:2`). The key recorded at `onopen` is that of
   the membership of that moment, not of the URL. `KeyCatchesUp`, which compares that key, is what remains.
10. `OneActiveShadowPerSymbol`: "oneActiveShadowPerSymbol: true" (`aesDiscovery/aesDiscoveryConfig.js:61`).
    The scan after the entry takes the open trade for closed.
11. `ResetBeforeReentry`: "requireScoreResetBeforeReentry: true" (`:63`). The gate looks at
    the last score only; `ReentryIsEarned` is what remains.
12. `DesiredIsAlwaysStreamed`: "incremental SUBSCRIBE/UNSUBSCRIBE JSON control messages instead
    of rebuilding all sockets" (`tickDirection/candidateTickStream.js:5`). A symbol that leaves and comes
    back before its UNSUBSCRIBE is answered counts as active at the second apply (`:299`),
    so nothing is sent for it; the answer then takes it away, and it stays unstreamed until the
    next change or the next socket, with nothing lost or late. Likewise a symbol that leaves before
    its SUBSCRIBE is answered is never unsubscribed. `DesiredIsStreamed` is what remains.
13. `UniverseInOrder`: "T2: prevents scan cycle overlap" (`app/LongLabApp.jsx:1468`). The refresh of the
    command palette (`:5589`), and the button during a silent scan, do not look at the flag: of two scans the one
    with the older snapshot may be published last, and positions are evaluated at its prices.
    `LoopScansInOrder` is what remains.
14. `RestartLosesNothing` of `RuntimeRecovery`: "clear it only after a matching/newer IndexedDB
    checkpoint succeeds" (`app/LongLabApp.jsx:1682`). `idbRequest` resolves at `request.onsuccess` and listens neither to
    `oncomplete` nor to `onabort` (`main.jsx:39`), so the journal is cleared before the writes are committed. A
    commit that aborts, or a page that dies in between, loses a state that was journaled and confirmed;
    while the page lives the next checkpoint repairs it. `RestartLosesOnlyUncommitted` and `CheckpointsCatchUp` are what remains.

Others without a formula:

- A socket that is closing is replaced without detaching its handlers, and the
  reconnect timer does not look for a newer socket: the older `onclose` clears `ws`, so a
  further socket is made and the one in between stays open unreachably (`:345`).
- Two sets made less than a set's length of milliseconds apart share ids (`LongLabApp.jsx:3222`).
- An exception after `markComplete` releases a slot twice (`aesDiscoveryQueue.js:177`), which
  is why `SlotsExact` is exact only while `threw` is false; and a retry is queued beside a
  newer record of the symbol (`:190`), despite "skip if already queued or fetching".
- The handover of an entry removes its symbol "unless another reason is still active"
  (`candidateTickStream.js:191`); no other reason is ever recorded, so it always does.
- The requests of a deep scan share the lane of the fast scan and have no deadline, so a fast scan
  "never waits for deep telemetry fan-out" (`docs/Telemetry_V8_Cleanup_And_Stability_Report.md:67`)
  in its own code, but does in the queue of the limiter, up to its deadline.
- `maxActiveShadowTrades` looks at the shadow trades of the page's first moments (`LongLabApp.jsx:2710`).
- The comment "never spend last 50" (`rateLimiter/index.js:32`)
  fails the same way as 1, and the test "committed increments by WEIGHT_OF(url) on
  launch" (`index.test.js:202`) does not hold when the minute turns before `_emit`,
  whose listener rolls the window.

## 7. Known limits of the models

- The Web platform is modelled from how the code uses it: timers, `fetch`, IndexedDB's
  order of requests, and the rule that a pending write of a dying page may or may not happen.
- A second tab is not modelled: it would share the journal and the store (not the ledger).
- The promise of the open database is cached even if it was rejected (`main.jsx:17`);
  a page in that state stores nothing for good, which the fairness of `FairSpec` excludes.
- A store whose keys are of different ages (a crash between the three writes of
  a checkpoint) is in `RuntimeRecovery`; `AutoRun` takes from it that each key is the latest
  value or the one before, which leaves out a chain of checkpoints that lags further.
- An aborted commit, too, leaves the store of a key further behind than `AutoRun` takes it to be,
  until the next checkpoint.
- Calls of `AutoRun` are far enough apart that ids do not collide (see section 6).
- Edits made while the page is `LOADING` are replaced by what is restored. The model
  has them; no property forbids it.

## 8. Not modelled

Scoring, entry policies, danger audits, market regime, telemetry and fee modules are
pure formulas over indicator values: no state, no order of events, real arithmetic.
Exports, filters and the user interface are views of `samples`.
`lifecycle/longCloseArbiter.js` and `archive/` are not imported by the app.

Of the candidate stream, the tick buffer (`tickDirectionBuffer.js`: bounded arrays per symbol,
pruned by age) is left out; it feeds research fields only. `sessionHealth/` and `vwapFlip/` are sequential
classifiers of finished trades and single ticks, recorded and never acted upon, with
unit tests that reach their thresholds.
