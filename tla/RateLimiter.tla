---------------------------- MODULE RateLimiter ----------------------------
(***************************************************************************)
(* The shared Binance REST limiter: one module-level ledger, and any       *)
(* number of apiFetch calls that run concurrently over it.  A call is a    *)
(* chain of synchronous segments separated by awaits:                      *)
(*                                                                         *)
(*   idle -> [budget] -> [slot] -> [spacing] -> inflight -> settled        *)
(*                                                                         *)
(* where settled means returned or thrown, and a bracketed stage is a      *)
(* sleep, entered only when the code awaits there.  Everything between two *)
(* awaits happens in one step, which is why Gate, Slot and Space below     *)
(* call one another.                                                       *)
(*                                                                         *)
(* Time.  The code compares timestamps with the UTC minute, with the wait  *)
(* budget of a CRITICAL call and with the end of a ban or of a backoff.    *)
(* Only the outcomes of those comparisons matter, so the model keeps one   *)
(* flag for each and lets it change at any moment.  How long a sleep lasts *)
(* is left open: a sleeping call may wake whenever it likes.               *)
(***************************************************************************)
EXTENDS Naturals, FiniteSets

CONSTANTS
    Call,             \* the apiFetch calls
    BasePriority,     \* [Call -> Priority]: the priority argument, normalised
    Weight,           \* [Call -> Nat]: WEIGHT_OF(url)
    RunOf,            \* [Call -> Run \cup {NoRun}]: the runId argument
    Run, NoRun,
    Reply,            \* the answers of the exchange: status, whether it reports
                      \* the used weight, weight added by others on the same IP
    \* the RL table
    WEIGHT_PER_MIN, FREEZE_CEILING, SOFT_CEILING, HIGH_RESERVE, SAFETY_MARGIN,
    CRITICAL_SAFETY_MARGIN, CRITICAL_CONCURRENT_RESERVE,
    HIGH_CONCURRENT_RESERVE, MAX_CONCURRENT, THROTTLE_CONCURRENT

Priority == {"CRITICAL", "HIGH", "NORMAL", "LOW"}
Status   == {200, 418, 429}

ASSUME CallAssumption ==
    /\ IsFiniteSet(Call)
    /\ BasePriority \in [Call -> Priority]
    /\ Weight \in [Call -> Nat \ {0}]
    /\ RunOf \in [Call -> Run \cup {NoRun}]
    /\ NoRun \notin Run
    /\ Reply \subseteq [status : Status, reported : BOOLEAN, foreign : Nat]

ASSUME TableAssumption ==
    /\ {WEIGHT_PER_MIN, FREEZE_CEILING, SOFT_CEILING, HIGH_RESERVE,
        SAFETY_MARGIN, CRITICAL_SAFETY_MARGIN, CRITICAL_CONCURRENT_RESERVE,
        HIGH_CONCURRENT_RESERVE, MAX_CONCURRENT, THROTTLE_CONCURRENT} \subseteq Nat
    /\ HIGH_RESERVE <= FREEZE_CEILING
    /\ SAFETY_MARGIN <= WEIGHT_PER_MIN
    /\ CRITICAL_SAFETY_MARGIN <= SAFETY_MARGIN
    /\ CRITICAL_CONCURRENT_RESERVE < MAX_CONCURRENT
    /\ HIGH_CONCURRENT_RESERVE < MAX_CONCURRENT
    /\ THROTTLE_CONCURRENT > 0

VARIABLES
    pc,        \* where each call is
    overdue,   \* calls whose wait budget, criticalMaxWaitMs, is over
    lane,      \* effective priority a call took when it stopped queueing
    ledger,    \* committed, measured, activeRuns and the window they belong to
    queue,     \* s.waiting and s.byPriority
    flight,    \* s.inflight and s.inflightByPriority
    banned,    \* s.banUntil > Date.now()
    backoff,   \* s.backoffUntil > Date.now()
    outdated,  \* in-flight calls with genAtLaunch # s.abortGeneration
    answer,    \* the HTTP response a call has not yet handled
    used       \* weight the exchange has counted in the current minute

vars == <<pc, overdue, lane, ledger, queue, flight, banned, backoff, outdated,
          answer, used>>

NoAnswer == [status |-> 0, header |-> 0]
Asleep   == {"budget", "slot", "spacing"}

-----------------------------------------------------------------------------
(* The ledger.  stale: the minute has turned since windowStartMs was set.  *)
(* fresh: measuredAt >= windowStartMs.                                     *)

Larger(m, n) == IF m >= n THEN m ELSE n
Dec(n) == IF n > 0 THEN n - 1 ELSE 0

RollWindowIfNeeded(l) ==
    IF l.stale
    THEN [l EXCEPT !.stale = FALSE, !.committed = 0, !.runs = {}, !.fresh = FALSE]
    ELSE l

\* Read on a rolled ledger, as the code does.
EffectiveWeight(l) == Larger(l.committed, IF l.fresh THEN l.measured ELSE 0)

BumpPriority(p) ==
    CASE p = "LOW" -> "NORMAL" [] p = "NORMAL" -> "HIGH" [] OTHER -> p

EffectivePriority(c, l) ==
    IF RunOf[c] \in l.runs THEN BumpPriority(BasePriority[c]) ELSE BasePriority[c]

LaneCeiling(p) ==
    CASE p = "CRITICAL" -> WEIGHT_PER_MIN - CRITICAL_SAFETY_MARGIN
      [] p = "HIGH"     -> WEIGHT_PER_MIN - SAFETY_MARGIN
      [] p = "NORMAL"   -> FREEZE_CEILING - HIGH_RESERVE
      [] OTHER          -> SOFT_CEILING

\* A call alone fits into the budget of its lane: WEIGHTS ends at 40, the
\* lowest ceiling is 1000.
ASSUME WeightAssumption ==
    \A c \in Call : Weight[c] <= LaneCeiling(BasePriority[c])

\* Mutant of CanLaunch: the weight of the call itself is forgotten.
CanLaunchIgnoringWeight(p, c, l) == EffectiveWeight(l) <= LaneCeiling(p)

CanLaunch(p, c, l) == EffectiveWeight(l) + Weight[c] <= LaneCeiling(p)

\* Mutant of ConcurrencyCeiling: the limit of CRITICAL taken as inclusive.
InclusiveCeiling(p, l) ==
    IF p = "CRITICAL" THEN MAX_CONCURRENT + 1 ELSE MAX_CONCURRENT

ConcurrencyCeiling(p, l) ==
    LET reserved == MAX_CONCURRENT - CRITICAL_CONCURRENT_RESERVE
        \* currentMode() reports BANNED or BACKOFF before it looks at the weight
        slow == ~banned /\ ~backoff /\ EffectiveWeight(l) >= SOFT_CEILING
    IN  CASE p = "CRITICAL" -> MAX_CONCURRENT
          [] p = "HIGH"     -> MAX_CONCURRENT - HIGH_CONCURRENT_RESERVE
          [] slow /\ THROTTLE_CONCURRENT < reserved -> THROTTLE_CONCURRENT
          [] OTHER          -> reserved

\* Mutant of Reconcile: the header does not raise the predicted ledger.
ReconcileMeasuredOnly(l, header) ==
    [RollWindowIfNeeded(l) EXCEPT !.measured = header, !.fresh = TRUE]

\* x-mbx-used-weight-1m is taken over, then the window is rolled.
Reconcile(l, header) ==
    LET r == RollWindowIfNeeded(l)
    IN  [committed |-> Larger(r.committed, header), measured |-> header,
         runs |-> r.runs, stale |-> r.stale, fresh |-> TRUE]

Commit(l, c) ==
    [l EXCEPT !.committed = @ + Weight[c],
              !.runs = IF RunOf[c] = NoRun THEN @ ELSE @ \cup {RunOf[c]}]

-----------------------------------------------------------------------------
(* The counters.                                                           *)

EnterQueue(q, c) == [waiting |-> q.waiting + 1,
                     by |-> [q.by EXCEPT ![BasePriority[c]] = @ + 1]]

LeaveQueue(q, c) == [waiting |-> Dec(q.waiting),
                     by |-> [q.by EXCEPT ![BasePriority[c]] = Dec(@)]]

TakeOff(p) == flight' = [total |-> flight.total + 1,
                         by |-> [flight.by EXCEPT ![p] = @ + 1]]

\* Mutant of FinishInflight: the counter of the lane is not released.
FinishInflightTotal(p) == flight' = [flight EXCEPT !.total = Dec(@)]

FinishInflight(p) == flight' = [total |-> Dec(flight.total),
                                by |-> [flight.by EXCEPT ![p] = Dec(@)]]

-----------------------------------------------------------------------------
(* The synchronous segments of a queued call.  l and q are the ledger and  *)
(* the queue counters as the segment finds them.  Every _emit() calls the  *)
(* registered listener with snapshot(), which rolls the window.            *)

GoTo(c, stage) == pc' = [pc EXCEPT ![c] = stage]

Sleep(c, stage, p, l, q) ==
    /\ GoTo(c, stage)
    /\ lane' = [lane EXCEPT ![c] = p]
    /\ ledger' = l
    /\ queue' = q
    /\ UNCHANGED flight

FailQueued(c, l, q) ==
    /\ GoTo(c, "settled")
    /\ ledger' = RollWindowIfNeeded(l)
    /\ queue' = LeaveQueue(q, c)
    /\ UNCHANGED <<lane, flight>>

Launch(c, p, l, q) ==
    /\ GoTo(c, "inflight")
    /\ lane' = [lane EXCEPT ![c] = p]
    /\ ledger' = RollWindowIfNeeded(Commit(l, c))
    /\ queue' = LeaveQueue(q, c)
    /\ TakeOff(p)

\* Spacing: CRITICAL has none; another call sleeps when the last launch was
\* too recent, which depends on the clock and on the jitter.
Space(c, l, q) ==
    LET p  == EffectivePriority(c, l)
        l1 == IF p \in {"NORMAL", "LOW"} THEN RollWindowIfNeeded(l) ELSE l
    IN  \/ Launch(c, p, l1, q)
        \/ p # "CRITICAL" /\ Sleep(c, "spacing", p, l1, q)

\* Mutant of Slot: only the budget loop looks at the wait budget.
SlotWithoutDeadline(c, l, q) ==
    LET p  == EffectivePriority(c, l)
        l1 == IF banned \/ backoff THEN l ELSE RollWindowIfNeeded(l)
    IN  IF flight.total < ConcurrencyCeiling(p, l1)
        THEN Space(c, l1, q)
        ELSE Sleep(c, "slot", lane[c], l1, q)

\* One test of the concurrency loop.
Slot(c, l, q) ==
    LET p  == EffectivePriority(c, l)
        l1 == IF banned \/ backoff THEN l ELSE RollWindowIfNeeded(l)
    IN  IF flight.total < ConcurrencyCeiling(p, l1)
        THEN Space(c, l1, q)
        ELSE IF p = "CRITICAL" /\ c \in overdue
        THEN FailQueued(c, l1, q)
        ELSE Sleep(c, "slot", lane[c], l1, q)

\* One turn of the backoff and budget loop.
Gate(c, l, q) ==
    LET p  == EffectivePriority(c, l)
        l1 == RollWindowIfNeeded(l)
    IN  CASE backoff /\ p = "CRITICAL" -> FailQueued(c, l, q)
          [] backoff /\ p # "CRITICAL" -> Sleep(c, "budget", lane[c], l, q)
          [] ~backoff /\ CanLaunch(p, c, l1) -> Slot(c, l1, q)
          [] ~backoff /\ ~CanLaunch(p, c, l1) ->
                IF p = "CRITICAL" /\ c \in overdue
                THEN FailQueued(c, l1, q)
                ELSE Sleep(c, "budget", lane[c], l1, q)

-----------------------------------------------------------------------------
(* apiFetch, one action per stretch between two awaits.                    *)

Enter(c) ==
    /\ pc[c] = "idle"
    /\ LET l == RollWindowIfNeeded(ledger)
           q == EnterQueue(queue, c)
       IN  IF banned THEN FailQueued(c, l, q) ELSE Gate(c, l, q)
    /\ UNCHANGED <<overdue, banned, backoff, outdated, answer, used>>

WakeInBudgetLoop(c) ==
    /\ pc[c] = "budget"
    /\ Gate(c, ledger, queue)
    /\ UNCHANGED <<overdue, banned, backoff, outdated, answer, used>>

WakeInConcurrencyLoop(c) ==
    /\ pc[c] = "slot"
    /\ Slot(c, ledger, queue)
    /\ UNCHANGED <<overdue, banned, backoff, outdated, answer, used>>

WakeFromSpacing(c) ==
    /\ pc[c] = "spacing"
    /\ Launch(c, lane[c], ledger, queue)
    /\ UNCHANGED <<overdue, banned, backoff, outdated, answer, used>>

\* The caller's AbortSignal rejects the sleep a queued call is in.
CancelQueued(c) ==
    /\ pc[c] \in Asleep
    /\ FailQueued(c, ledger, queue)
    /\ UNCHANGED <<overdue, banned, backoff, outdated, answer, used>>

\* fetch() rejects: a network failure, or the AbortSignal of a call in flight.
NetworkError(c) ==
    /\ pc[c] = "inflight"
    /\ GoTo(c, "settled")
    /\ FinishInflight(lane[c])
    /\ ledger' = RollWindowIfNeeded(ledger)
    /\ answer' = [answer EXCEPT ![c] = NoAnswer]
    /\ outdated' = outdated \ {c}
    /\ UNCHANGED <<overdue, lane, queue, banned, backoff, used>>

\* A sibling was limited since this call took off: its response is dropped
\* before the headers are read.
DropOutdated(c) ==
    /\ pc[c] = "inflight" /\ answer[c] # NoAnswer
    /\ c \in outdated /\ lane[c] # "CRITICAL"
    /\ GoTo(c, "settled")
    /\ FinishInflight(lane[c])
    /\ ledger' = RollWindowIfNeeded(ledger)
    /\ answer' = [answer EXCEPT ![c] = NoAnswer]
    /\ outdated' = outdated \ {c}
    /\ UNCHANGED <<overdue, lane, queue, banned, backoff, used>>

\* A response that may be read: headers, then the status.
HandleResponse(c) ==
    /\ pc[c] = "inflight" /\ answer[c] # NoAnswer
    /\ c \notin outdated \/ lane[c] = "CRITICAL"
    /\ FinishInflight(lane[c])
    /\ ledger' = IF answer[c].header = 0
                 THEN RollWindowIfNeeded(ledger)
                 ELSE Reconcile(ledger, answer[c].header)
    /\ GoTo(c, "settled")
    /\ banned'  = (banned \/ answer[c].status = 418)
    /\ backoff' = (backoff \/ answer[c].status = 429)
    /\ outdated' = (IF answer[c].status = 200
                    THEN outdated
                    ELSE {d \in Call : pc[d] = "inflight"}) \ {c}
    /\ answer' = [answer EXCEPT ![c] = NoAnswer]
    /\ UNCHANGED <<overdue, lane, queue, used>>

EndRun(run) ==
    /\ run \in ledger.runs
    /\ ledger' = [ledger EXCEPT !.runs = @ \ {run}]
    /\ UNCHANGED <<pc, overdue, lane, queue, flight, banned, backoff, outdated,
                   answer, used>>

\* snapshot(), currentMode() or effectiveWeight() called from outside.
Observe ==
    /\ ledger.stale
    /\ ledger' = RollWindowIfNeeded(ledger)
    /\ UNCHANGED <<pc, overdue, lane, queue, flight, banned, backoff, outdated,
                   answer, used>>

-----------------------------------------------------------------------------
(* The exchange and the clock.                                             *)

\* The exchange counts the weight, in the minute in which the request reaches
\* it, and may or may not report the count.
Serve(c) ==
    /\ pc[c] = "inflight" /\ answer[c] = NoAnswer
    /\ \E reply \in Reply :
         LET total == used + reply.foreign + Weight[c]
         IN  /\ used' = total
             /\ answer' = [answer EXCEPT ![c] =
                  [status |-> reply.status,
                   header |-> IF reply.reported THEN total ELSE 0]]
    /\ UNCHANGED <<pc, overdue, lane, ledger, queue, flight, banned, backoff, outdated>>

MinuteTurns ==
    /\ ledger' = [ledger EXCEPT !.stale = TRUE]
    /\ used' = 0
    /\ UNCHANGED <<pc, overdue, lane, queue, flight, banned, backoff, outdated, answer>>

BanEnds ==
    /\ banned /\ banned' = FALSE
    /\ UNCHANGED <<pc, overdue, lane, ledger, queue, flight, backoff, outdated, answer, used>>

BackoffEnds ==
    /\ backoff /\ backoff' = FALSE
    /\ UNCHANGED <<pc, overdue, lane, ledger, queue, flight, banned, outdated, answer, used>>

\* A maxWaitMs of 0, which null is taken for, is over before the call begins.
WaitBudgetPasses(c) ==
    /\ BasePriority[c] = "CRITICAL" /\ pc[c] \in {"idle"} \cup Asleep /\ c \notin overdue
    /\ overdue' = overdue \cup {c}
    /\ UNCHANGED <<pc, lane, ledger, queue, flight, banned, backoff, outdated, answer, used>>

-----------------------------------------------------------------------------
NoneYet == [p \in Priority |-> 0]

Init ==
    /\ pc = [c \in Call |-> "idle"]
    /\ overdue = {}
    /\ lane = BasePriority
    /\ ledger = [committed |-> 0, measured |-> 0, runs |-> {}, stale |-> TRUE,
                 fresh |-> TRUE]
    /\ queue = [waiting |-> 0, by |-> NoneYet]
    /\ flight = [total |-> 0, by |-> NoneYet]
    /\ banned = FALSE /\ backoff = FALSE
    /\ outdated = {}
    /\ answer = [c \in Call |-> NoAnswer]
    /\ used = 0

Wake(c) == WakeInBudgetLoop(c) \/ WakeInConcurrencyLoop(c) \/ WakeFromSpacing(c)

Land(c) == DropOutdated(c) \/ HandleResponse(c)

CallStep(c) == \/ Enter(c) \/ Wake(c) \/ CancelQueued(c) \/ NetworkError(c)
               \/ Land(c) \/ Serve(c) \/ WaitBudgetPasses(c)

Next == \/ \E c \in Call : CallStep(c)
        \/ \E run \in Run : EndRun(run)
        \/ Observe \/ MinuteTurns \/ BanEnds \/ BackoffEnds

Spec == Init /\ [][Next]_vars

\* A pending timer fires: a sleep ends, and a wait that lasts becomes overdue.
TimersFire == \A c \in Call : WF_vars(Wake(c)) /\ WF_vars(WaitBudgetPasses(c))

\* Only the page's own timers are relied upon.
TimerSpec == Spec /\ TimersFire

-----------------------------------------------------------------------------
(* Properties.                                                             *)

LedgerType == [committed : Nat, measured : Nat, runs : SUBSET Run,
               stale : BOOLEAN, fresh : BOOLEAN]

Counters == [Priority -> Nat]

\* The type of every variable.
TypeOK ==
    /\ pc \in [Call -> {"idle", "inflight", "settled"} \cup Asleep]
    /\ overdue \subseteq Call
    /\ lane \in [Call -> Priority]
    /\ ledger \in LedgerType
    /\ queue \in [waiting : Nat, by : Counters]
    /\ flight \in [total : Nat, by : Counters]
    /\ banned \in BOOLEAN /\ backoff \in BOOLEAN
    /\ outdated \subseteq Call
    /\ answer \in [Call -> [status : Status \cup {0}, header : Nat]]
    /\ used \in Nat

InFlight == {c \in Call : pc[c] = "inflight"}
Queued   == {c \in Call : pc[c] \in Asleep}

\* Every path out of apiFetch (launch, fast failure, abort, network error,
\* dropped or handled response) releases exactly what it took: the counters
\* the concurrency ceilings read are the number of calls really in flight or
\* really queued, per lane and in total.  A leaked unit of s.inflight would
\* take a slot from every later call for the life of the page.
CountersExact ==
    /\ flight.total = Cardinality(InFlight)
    /\ \A p \in Priority : flight.by[p] = Cardinality({c \in InFlight : lane[c] = p})
    /\ queue.waiting = Cardinality(Queued)
    /\ \A p \in Priority : queue.by[p] = Cardinality({c \in Queued : BasePriority[c] = p})

\* The predicted ledger never falls below a header of the running window: the
\* committed counter is authoritative for gating, because effectiveWeight()
\* would otherwise depend on which of two answers was handled last.
LedgerDominatesHeader ==
    ledger.fresh => ledger.committed >= ledger.measured

\* A call that overtakes nobody, that is one that passes its gate and takes
\* off without a sleep in between, leaves the ledger within its lane.
Launches(c) == pc[c] # "inflight" /\ pc'[c] = "inflight"
DirectLaunchWithinLane ==
    [][\A c \in Call : Launches(c) /\ pc[c] \in {"idle", "budget"}
         => ledger'.committed <= LaneCeiling(lane'[c])]_vars

\* A CRITICAL call never waits for spacing, so it never takes a seventh slot:
\* whatever the other lanes overbook, CRITICAL takes off only below
\* MAX_CONCURRENT.
CriticalTakesAFreeSlot ==
    [][\A c \in Call : Launches(c) /\ lane'[c] = "CRITICAL"
         => flight.total < MAX_CONCURRENT]_vars

\* "CRITICAL calls never wait indefinitely": with nothing but the page's own
\* timers, and even if the exchange never answers, the minute never turns and
\* no backoff ever ends, a queued CRITICAL call takes off or is rejected.
CriticalNeverWaitsForever ==
    \A c \in Call : BasePriority[c] = "CRITICAL" =>
        (pc[c] \in Asleep) ~> (pc[c] \notin Asleep)

-----------------------------------------------------------------------------
(* What the comments and the tests claim and the code does not keep.       *)

\* rateLimiter/index.js: NORMAL/LOW can never occupy all six slots.
NormalLowLeaveASlot ==
    flight.by["NORMAL"] + flight.by["LOW"] < MAX_CONCURRENT

\* rateLimiter/index.js: if backoff or ban is on, CRITICAL rejects promptly.
CriticalRejectsWhenLimited ==
    [][\A c \in Call : Launches(c) /\ lane'[c] = "CRITICAL"
         => ~banned /\ ~backoff]_vars

=============================================================================
