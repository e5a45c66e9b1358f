----------------------------- MODULE MarketScan -----------------------------
(***************************************************************************)
(* The scanner: the loop that fetches tickers and funding every POLL_MS    *)
(* and publishes the universe, the refresh by hand, and the deep telemetry *)
(* scan (candles and open interest) that a published universe may begin.   *)
(*                                                                         *)
(* fetchData is made anew when a setting changes (minimum volume, trailing,*)
(* sound), and with it the loop: the effect stops the old loop and starts  *)
(* one of its own.  Settings are numbered by these changes, so loop g is   *)
(* the one whose fetchData has setting g.  A loop that is stopped while it *)
(* awaits its scan goes on until its next round.                           *)
(*                                                                         *)
(* Time.  A timer fires at any moment; a request ends by its answer, an    *)
(* error or the deadline of SCAN_REQUEST_TIMEOUT_MS.  Of the two requests  *)
(* of a scan the ticker snapshot decides what is published, so the moment  *)
(* at which the exchange takes it is a step of its own.                    *)
(*                                                                         *)
(* What a published price does to positions is in PositionLifecycle, what  *)
(* it does to shadow trades in ShadowEngine.                               *)
(***************************************************************************)
EXTENDS Integers, Sequences, SequencesExt

CONSTANTS
    Place,        \* places for fetchData calls in flight
    NoScan,
    List,         \* what a deep scan fetches side by side: losers, gainers
    MaxChanges,   \* bound: how often the settings change
    MaxPresses,   \* bound: how often the user refreshes
    MaxDeep       \* bound: deep scans under way (the busy flag allows one)

Setting == 0 .. MaxChanges
Caller  == {"loop", "user"}
Scan    == [by : Caller, setting : Setting, outrun : SUBSET Caller]

ASSUME ScanAssumption ==
    /\ {MaxChanges, MaxPresses, MaxDeep} \subseteq Nat
    /\ MaxDeep > 0
    /\ NoScan \notin Scan

VARIABLES
    settings,  \* the changes so far: names the current fetchData
    loops,     \* "none", "awaiting" its scan, "armed" or "over", by setting
    firstRun,  \* the loops that have had no scan yet
    scanBusy,  \* scanBusyRef
    scans,     \* the fetchData calls in flight, NoScan elsewhere
    taken,     \* those with a ticker snapshot
    older,     \* those of them whose snapshot is older, by place
    loading,
    universe,  \* which scan was published last, and by whom it was outrun
    deepBusy,  \* deepScanBusyRef
    deepDue,   \* DEEP_TELEMETRY_SCAN_MS have passed since lastDeepScanAtRef
    deeps,     \* the deep scans under way, oldest first
    klines,    \* whether the last merge into klinesMap had been outrun
    presses

loopVars == <<settings, loops, firstRun, scanBusy>>
deepVars == <<deepBusy, deepDue, deeps, klines>>
callVars == <<scans, taken, older>>
vars == <<loopVars, callVars, loading, universe, deepVars, presses>>
-----------------------------------------------------------------------------
(***************************************************************************)
(* fetchData.                                                              *)
(***************************************************************************)
FetchData(p, caller, setting, silent) ==
    /\ scans[p] = NoScan
    /\ scans' = [scans EXCEPT ![p] = [by |-> caller, setting |-> setting, outrun |-> {}]]
    /\ loading' = (loading \/ ~silent)

\* The exchange takes the ticker snapshot that answers p.
Snapshot(p) ==
    /\ scans[p] # NoScan
    /\ p \notin taken
    /\ taken' = taken \cup {p}
    /\ older' = [older EXCEPT ![p] = taken]
    /\ UNCHANGED <<loopVars, scans, loading, universe, deepVars, presses>>

\* The call returns: to its loop, stopped or not, which arms its timer, or to
\* nobody.
Returned(p) ==
    /\ taken' = taken \ {p}
    /\ older' = [q \in Place |-> IF q = p THEN {} ELSE older[q] \ {p}]
    /\ loading' = FALSE
    /\ IF scans[p].by = "loop"
       THEN /\ scanBusy' = FALSE
            /\ loops' = [loops EXCEPT ![scans[p].setting] = "armed"]
            /\ firstRun' = firstRun \ {scans[p].setting}
       ELSE UNCHANGED <<scanBusy, loops, firstRun>>
    /\ UNCHANGED <<settings, presses>>

\* Mutant of MayScanDeep: only the period is looked at.
MayScanDeepWhenDue == deepDue /\ Len(deeps) < MaxDeep

MayScanDeep == deepDue /\ ~deepBusy

\* Mutant of ScheduleDeepTelemetryScan: the flag is set before the period is
\* looked at.
ScheduleDeepTooSoon ==
    /\ deepBusy' = TRUE
    /\ IF MayScanDeep
       THEN deepDue' = FALSE /\ deeps' = Append(deeps, [left |-> List, outrun |-> FALSE])
       ELSE UNCHANGED <<deepDue, deeps>>
    /\ UNCHANGED klines

ScheduleDeepTelemetryScan ==
    IF MayScanDeep
    THEN /\ deepBusy' = TRUE
         /\ deepDue' = FALSE
         /\ deeps' = Append(deeps, [left |-> List, outrun |-> FALSE])
         /\ UNCHANGED klines
    ELSE UNCHANGED deepVars

\* Both answers are there: whoever asked for p, it becomes the universe, and
\* scans whose snapshot is older are outrun from now on.
Publish(p) ==
    /\ scans[p] # NoScan
    /\ p \in taken
    /\ universe' = scans[p]
    /\ scans' = [q \in Place |->
          IF q = p THEN NoScan
          ELSE IF q \in older[p] THEN [scans[q] EXCEPT !.outrun = @ \cup {scans[p].by}]
          ELSE scans[q]]
    /\ ScheduleDeepTelemetryScan
    /\ Returned(p)

\* An error or the deadline: the last universe is retained.
Fails(p) ==
    /\ scans[p] # NoScan
    /\ scans' = [scans EXCEPT ![p] = NoScan]
    /\ Returned(p)
    /\ UNCHANGED <<universe, deepVars>>

\* The refresh of the command palette, which does not look at loading.
Refresh ==
    /\ presses < MaxPresses
    /\ presses' = presses + 1
    /\ \E p \in Place : FetchData(p, "user", settings, FALSE)
    /\ UNCHANGED <<loopVars, taken, older, universe, deepVars>>
-----------------------------------------------------------------------------
(***************************************************************************)
(* The scan loop.                                                          *)
(***************************************************************************)
\* Mutant of MayScan: the busy flag is not looked at.
MayScanAlways == TRUE

MayScan == ~scanBusy

\* One round of loop g, whose timer is armed again when the scan has returned,
\* or at once.
Round(g, others) ==
    \/ /\ MayScan
       /\ scanBusy' = TRUE
       /\ loops' = [others EXCEPT ![g] = "awaiting"]
       /\ \E p \in Place : FetchData(p, "loop", g, g \notin firstRun)
    \/ /\ ~MayScan
       /\ loops' = [others EXCEPT ![g] = "armed"]
       /\ UNCHANGED <<scanBusy, scans, loading>>

\* Mutant of LoopFires: a loop that was stopped while it awaited goes on.
LoopFiresAgain(g) ==
    /\ loops[g] = "armed"
    /\ Round(g, loops)
    /\ UNCHANGED <<settings, firstRun, taken, older, universe, deepVars, presses>>

LoopFires(g) ==
    /\ loops[g] = "armed"
    /\ \/ g = settings /\ Round(g, loops)
       \/ /\ g # settings
          /\ loops' = [loops EXCEPT ![g] = "over"]
          /\ UNCHANGED <<scanBusy, scans, loading>>
    /\ UNCHANGED <<settings, firstRun, taken, older, universe, deepVars, presses>>

\* The cleanup clears the timer of the old loop, which may be awaiting instead;
\* the effect begins with a round of the new one.
ChangeSettings ==
    /\ settings < MaxChanges
    /\ settings' = settings + 1
    /\ firstRun' = firstRun \cup {settings + 1}
    /\ Round(settings + 1, [loops EXCEPT ![settings] = IF @ = "armed" THEN "over" ELSE @])
    /\ UNCHANGED <<taken, older, universe, deepVars, presses>>
-----------------------------------------------------------------------------
(***************************************************************************)
(* The deep telemetry scan.                                                *)
(***************************************************************************)
\* The list l of the n-th deep scan has its answers, refused ones included, and
\* is merged; the flag is released with the last list.
DeepListEnds(n, l) ==
    /\ l \in deeps[n].left
    /\ klines' = deeps[n].outrun
    /\ LET left == deeps[n].left \ {l}
           now  == [m \in DOMAIN deeps |->
                      [deeps[m] EXCEPT !.left = IF m = n THEN left ELSE @, !.outrun = @ \/ m < n]]
       IN  /\ deeps' = IF left = {} THEN RemoveAt(now, n) ELSE now
           /\ deepBusy' = (deepBusy /\ left # {})
    /\ UNCHANGED <<loopVars, callVars, loading, universe, deepDue, presses>>

DeepBecomesDue ==
    /\ ~deepDue
    /\ deepDue' = TRUE
    /\ UNCHANGED <<loopVars, callVars, loading, universe, deepBusy, deeps, klines, presses>>
-----------------------------------------------------------------------------
\* The effect of the first render is about to run its first round.
Init ==
    /\ settings = 0
    /\ loops = [g \in Setting |-> IF g = 0 THEN "armed" ELSE "none"]
    /\ firstRun = {0}
    /\ scanBusy = FALSE
    /\ scans = [p \in Place |-> NoScan]
    /\ taken = {}
    /\ older = [p \in Place |-> {}]
    /\ loading = FALSE
    /\ universe = NoScan
    /\ deepBusy = FALSE
    /\ deepDue = TRUE
    /\ deeps = <<>>
    /\ klines = FALSE
    /\ presses = 0

Next ==
    \/ \E p \in Place : Snapshot(p) \/ Publish(p) \/ Fails(p)
    \/ Refresh
    \/ \E g \in Setting : LoopFires(g)
    \/ ChangeSettings
    \/ \E n \in DOMAIN deeps, l \in List : DeepListEnds(n, l)
    \/ DeepBecomesDue

\* Timers fire and a call ends, by its deadline at the latest; the exchange does
\* not leave every ticker request without a snapshot, nor the deadline strike
\* every scan that has one.  The requests of a deep scan end.
Fairness ==
    /\ \A p \in Place : /\ WF_vars(Publish(p) \/ Fails(p))
                        /\ SF_vars(Snapshot(p))
                        /\ SF_vars(Publish(p))
    /\ \A g \in Setting : WF_vars(LoopFires(g))
    /\ \A l \in List : WF_vars(\E n \in DOMAIN deeps : DeepListEnds(n, l))
    /\ WF_vars(DeepBecomesDue)

Spec == Init /\ [][Next]_vars /\ Fairness
-----------------------------------------------------------------------------
\* Every variable has its type.
TypeOK ==
    /\ settings \in Setting
    /\ loops \in [Setting -> {"none", "awaiting", "armed", "over"}]
    /\ firstRun \subseteq Setting
    /\ {scanBusy, loading, deepBusy, deepDue, klines} \subseteq BOOLEAN
    /\ scans \in [Place -> Scan \cup {NoScan}]
    /\ taken \subseteq Place
    /\ older \in [Place -> SUBSET Place]
    /\ universe \in Scan \cup {NoScan}
    /\ \A n \in DOMAIN deeps : deeps[n] \in [left : SUBSET List, outrun : BOOLEAN]
    /\ presses \in 0 .. MaxPresses

Published == universe # NoScan

\* What the scan loop publishes never replaces what a later snapshot of the loop
\* had published, although loops are stopped while they await a scan and the
\* one that follows is started at once (scanBusyRef).
LoopScansInOrder == Published /\ universe.by = "loop" => "loop" \notin universe.outrun

\* A deep scan never overwrites candles of a later one, however slow it is.
KlinesInOrder == ~klines

\* When the settings change no more, the universe comes to be made with them
\* for good, whatever scan was under way at the change.
SettingsTakeEffect == <>[](Published /\ universe.setting = settings)

\* Deep scans begin and end again and again.
DeepGoesOn == []<>(deeps # <<>>) /\ []<>(deeps = <<>>)

\* What scanBusyRef is there for ("prevents scan cycle overlap").  It does not
\* hold: a refresh by hand does not look at the flag.
UniverseInOrder == Published => universe.outrun = {}
=============================================================================
