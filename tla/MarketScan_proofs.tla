------------------------- MODULE MarketScan_proofs -------------------------
(***************************************************************************)
(* Proofs about the scanner and about what follows its scans.  The         *)
(* scanner: the scans of the loop are published in the order of their      *)
(* snapshots, and candles are merged in the order of the deep scans.  The  *)
(* shadow trades it decides on: a symbol is entered again only after a     *)
(* whole cooldown and a scan below the threshold.  The streams of the      *)
(* candidates it ranks: the connection is kept, what is believed to be     *)
(* subscribed is true, and no apply is lost.                               *)
(*                                                                         *)
(* The three share no state; their modules have different names for        *)
(* everything, so that all can be extended here.                           *)
(***************************************************************************)
EXTENDS MarketScan, ShadowEngine, CandidateTickStream,
        FiniteSetTheorems, SequenceTheorems, TLAPS
-----------------------------------------------------------------------------
(***************************************************************************)
(* The scanner.                                                            *)
(***************************************************************************)
ByLoop(p) == scans[p] # NoScan /\ scans[p].by = "loop"

\* scanBusyRef: it is set while a scan of a loop is in flight, whichever loop
\* asked for it, and there is one such scan at most.
OneLoopScan ==
    /\ \A p \in Place : ByLoop(p) => scanBusy
    /\ \A p, q \in Place : ByLoop(p) /\ ByLoop(q) => p = q

\* So no scan of a loop has been outrun by another.
NotOutrun == \A p \in Place : ByLoop(p) => "loop" \notin scans[p].outrun

\* Snapshots belong to calls in flight.
SnapshotsInFlight ==
    /\ \A p \in taken : scans[p] # NoScan
    /\ \A p \in Place : older[p] \subseteq taken

\* deepScanBusyRef: it is set exactly while a deep scan is under way, and there
\* is one at most, which nothing has outrun.
OneDeepScan ==
    IF deepBusy THEN \E left \in SUBSET List : deeps = <<[left |-> left, outrun |-> FALSE]>>
                ELSE deeps = <<>>

\* The invariant in three parts, which the steps disturb separately: the loops,
\* the calls with what they publish, and the deep scans.
LoopPart ==
    /\ settings \in Setting
    /\ loops \in [Setting -> {"none", "awaiting", "armed", "over"}]
    /\ firstRun \subseteq Setting
    /\ presses \in 0 .. MaxPresses

CallPart ==
    /\ {scanBusy, loading} \subseteq BOOLEAN
    /\ scans \in [Place -> Scan \cup {NoScan}]
    /\ taken \subseteq Place
    /\ older \in [Place -> SUBSET Place]
    /\ universe \in Scan \cup {NoScan}
    /\ OneLoopScan
    /\ NotOutrun
    /\ SnapshotsInFlight
    /\ LoopScansInOrder

DeepPart ==
    /\ {deepBusy, deepDue, klines} \subseteq BOOLEAN
    /\ OneDeepScan
    /\ KlinesInOrder

IInv == LoopPart /\ CallPart /\ DeepPart

LEMMA OneElement ==
    ASSUME NEW x
    PROVE  /\ Append(<<>>, x) = <<x>>
           /\ DOMAIN <<x>> = {1} /\ <<x>>[1] = x /\ <<x>> # <<>>
           /\ \A y : [m \in DOMAIN <<x>> |-> y] = <<y>>
           /\ RemoveAt(<<x>>, 1) = <<>>
<1>1. <<x>> \in Seq({x}) /\ Len(<<x>>) = 1
  OBVIOUS
<1> QED BY <1>1 DEF RemoveAt

LEMMA ListTakenOff ==
    ASSUME NEW l \in SUBSET List, NEW m \in SUBSET List, NEW b \in BOOLEAN
    PROVE  [[left |-> l, outrun |-> b] EXCEPT !.left = m, !.outrun = b] = [left |-> m, outrun |-> b]
<1> DEFINE r == [[left |-> l, outrun |-> b] EXCEPT !.left = m, !.outrun = b]
           q == [left |-> m, outrun |-> b]
           R == [left : SUBSET List, outrun : BOOLEAN]
<1>1. r \in R /\ r.left = m /\ r.outrun = b
  OBVIOUS
<1>2. q \in R /\ q.left = m /\ q.outrun = b
  OBVIOUS
<1> HIDE DEF r, q
<1>3. r = q
  BY <1>1, <1>2
<1> QED BY <1>3 DEF r, q

\* IInv says what the run checks.
LEMMA InvGivesParts == IInv => TypeOK /\ LoopScansInOrder /\ KlinesInOrder
<1>1. DeepPart => \A n \in DOMAIN deeps : deeps[n] \in [left : SUBSET List, outrun : BOOLEAN]
  <2>1. CASE deeps = <<>>
    BY <2>1
  <2>2. ASSUME NEW left \in SUBSET List, deeps = <<[left |-> left, outrun |-> FALSE]>>
        PROVE  \A n \in DOMAIN deeps : deeps[n] \in [left : SUBSET List, outrun : BOOLEAN]
    <3> DEFINE one == [left |-> left, outrun |-> FALSE]
    <3>1. one \in [left : SUBSET List, outrun : BOOLEAN]
      OBVIOUS
    <3> HIDE DEF one
    <3>2. DOMAIN <<one>> = {1} /\ <<one>>[1] = one
      BY OneElement
    <3>3. deeps = <<one>>
      BY <2>2 DEF one
    <3> QED BY <3>1, <3>2, <3>3
  <2> QED BY <2>1, <2>2 DEF DeepPart, OneDeepScan
<1> QED BY <1>1 DEF IInv, LoopPart, CallPart, DeepPart, TypeOK

LEMMA InitIInv == Init => IInv
<1> SUFFICES ASSUME Init PROVE IInv
  OBVIOUS
<1> USE ScanAssumption DEF Init
<1>1. LoopPart
  BY DEF LoopPart, Setting
<1>2. CallPart
  BY DEF CallPart, OneLoopScan, NotOutrun, ByLoop, SnapshotsInFlight, LoopScansInOrder, Published
<1>3. DeepPart
  BY DEF DeepPart, OneDeepScan, KlinesInOrder
<1> QED BY <1>1, <1>2, <1>3 DEF IInv

\* A call of a loop begins while the flag is free, any other leaves the flag.
LEMMA FetchKeeps ==
    ASSUME CallPart, NEW p \in Place, NEW caller \in Caller, NEW setting \in Setting,
           NEW silent \in BOOLEAN, FetchData(p, caller, setting, silent),
           UNCHANGED <<taken, older, universe>>,
           IF caller = "loop" THEN ~scanBusy /\ scanBusy' = TRUE ELSE scanBusy' = scanBusy
    PROVE  CallPart'
<1> DEFINE call == [by |-> caller, setting |-> setting, outrun |-> {}]
<1>1. call \in Scan /\ call # NoScan
  BY ScanAssumption DEF Scan
<1>2. scans' = [scans EXCEPT ![p] = call] /\ loading' = (loading \/ ~silent) /\ scans[p] = NoScan
  BY DEF FetchData
<1>3. call.by = caller /\ call.outrun = {}
  OBVIOUS
<1> HIDE DEF call
<1>4. /\ scans' \in [Place -> Scan \cup {NoScan}]
      /\ scans'[p] = call
      /\ \A q \in Place \ {p} : scans'[q] = scans[q]
  BY <1>1, <1>2 DEF CallPart
<1>5. /\ ByLoop(p)' <=> caller = "loop"
      /\ \A q \in Place \ {p} : ByLoop(q)' <=> ByLoop(q)
  BY <1>1, <1>3, <1>4 DEF ByLoop
<1>6. OneLoopScan'
  BY <1>5 DEF CallPart, OneLoopScan
<1>7. NotOutrun'
  BY <1>3, <1>4, <1>5 DEF CallPart, NotOutrun
<1>8. SnapshotsInFlight'
  BY <1>1, <1>4 DEF CallPart, SnapshotsInFlight
<1>9. LoopScansInOrder'
  BY DEF CallPart, LoopScansInOrder, Published
<1>10. {scanBusy', loading'} \subseteq BOOLEAN
  BY <1>2 DEF CallPart
<1> QED BY <1>4, <1>6, <1>7, <1>8, <1>9, <1>10 DEF CallPart

LEMMA SnapshotKeeps ==
    ASSUME IInv, NEW p \in Place, Snapshot(p)
    PROVE  IInv'
<1>1. LoopPart /\ CallPart /\ DeepPart
  BY DEF IInv
<1>2. LoopPart' /\ DeepPart'
  BY <1>1 DEF Snapshot, loopVars, deepVars, LoopPart, DeepPart, OneDeepScan, KlinesInOrder
<1>3. SnapshotsInFlight'
  BY <1>1 DEF Snapshot, CallPart, SnapshotsInFlight
<1>4. CallPart'
  BY <1>1, <1>3 DEF Snapshot, loopVars, CallPart, OneLoopScan, NotOutrun, ByLoop, LoopScansInOrder, Published
<1> QED BY <1>2, <1>4 DEF IInv

\* The return of a call: its place and its snapshot are free, and the flag if it
\* was a loop's.
LEMMA ReturnKeeps ==
    ASSUME LoopPart, CallPart, NEW p \in Place, scans[p] # NoScan, Returned(p),
           scans' \in [Place -> Scan \cup {NoScan}],
           scans'[p] = NoScan,
           \A q \in Place \ {p} : \/ scans'[q] = NoScan /\ scans[q] = NoScan
                                  \/ /\ scans'[q] # NoScan /\ scans[q] # NoScan
                                     /\ scans'[q].by = scans[q].by
    PROVE  /\ LoopPart'
           /\ OneLoopScan' /\ SnapshotsInFlight'
           /\ {scanBusy', loading'} \subseteq BOOLEAN
           /\ taken' \subseteq Place /\ older' \in [Place -> SUBSET Place]
<1>1. scans[p] \in Scan
  BY DEF CallPart
<1>2. scans[p].setting \in Setting
  BY <1>1 DEF Scan
<1>3. LoopPart'
  <2>1. CASE scans[p].by = "loop"
    BY <1>2, <2>1 DEF Returned, LoopPart
  <2>2. CASE scans[p].by # "loop"
    BY <2>2 DEF Returned, LoopPart
  <2> QED BY <2>1, <2>2
<1>4. ~ByLoop(p)' /\ \A q \in Place \ {p} : ByLoop(q)' <=> ByLoop(q)
  BY DEF ByLoop
<1>5. OneLoopScan'
  <2>1. CASE scans[p].by = "loop"
    <3>1. \A q \in Place \ {p} : ~ByLoop(q)
      BY <2>1 DEF CallPart, OneLoopScan, ByLoop
    <3> QED BY <1>4, <3>1 DEF OneLoopScan
  <2>2. CASE scans[p].by # "loop"
    <3>1. scanBusy' = scanBusy
      BY <2>2 DEF Returned
    <3> QED BY <1>4, <3>1 DEF CallPart, OneLoopScan
  <2> QED BY <2>1, <2>2
<1>6. /\ taken' = taken \ {p}
      /\ older' = [q \in Place |-> IF q = p THEN {} ELSE older[q] \ {p}]
  BY DEF Returned
<1>7. SnapshotsInFlight'
  BY <1>6 DEF CallPart, SnapshotsInFlight
<1>8. {scanBusy', loading'} \subseteq BOOLEAN
  BY DEF CallPart, Returned
<1> QED BY <1>3, <1>5, <1>6, <1>7, <1>8 DEF CallPart

\* A deep scan begins only when none is under way.
LEMMA ScheduleKeeps ==
    ASSUME DeepPart, ScheduleDeepTelemetryScan
    PROVE  DeepPart'
<1>1. CASE ~MayScanDeep
  BY <1>1 DEF ScheduleDeepTelemetryScan, deepVars, DeepPart, OneDeepScan, KlinesInOrder
<1>2. CASE MayScanDeep
  <2> DEFINE one == [left |-> List, outrun |-> FALSE]
  <2>1. deeps = <<>>
    BY <1>2 DEF MayScanDeep, DeepPart, OneDeepScan
  <2>2. deepBusy' = TRUE /\ deepDue' = FALSE /\ deeps' = Append(deeps, one) /\ klines' = klines
    BY <1>2 DEF ScheduleDeepTelemetryScan
  <2>3. deeps' = <<one>>
    BY <2>1, <2>2, OneElement
  <2>4. OneDeepScan'
    BY <2>2, <2>3 DEF OneDeepScan
  <2> QED BY <2>2, <2>4 DEF DeepPart, KlinesInOrder
<1> QED BY <1>1, <1>2

LEMMA PublishKeeps ==
    ASSUME IInv, NEW p \in Place, Publish(p)
    PROVE  IInv'
<1>1. LoopPart /\ CallPart /\ DeepPart
  BY DEF IInv
<1>2. DeepPart'
  BY <1>1, ScheduleKeeps DEF Publish
<1> DEFINE late(q) == [scans[q] EXCEPT !.outrun = @ \cup {scans[p].by}]
<1>3. /\ scans[p] # NoScan /\ p \in taken /\ universe' = scans[p] /\ Returned(p)
      /\ scans' = [q \in Place |-> IF q = p THEN NoScan
                                   ELSE IF q \in older[p] THEN late(q) ELSE scans[q]]
  BY DEF Publish
<1>4. scans[p] \in Scan /\ scans[p].by \in Caller
  BY <1>1, <1>3 DEF CallPart, Scan
<1>5. ASSUME NEW q \in older[p]
      PROVE  /\ q \in Place /\ scans[q] # NoScan
             /\ late(q) \in Scan /\ late(q) # NoScan
             /\ late(q).by = scans[q].by
             /\ late(q).outrun = scans[q].outrun \cup {scans[p].by}
  <2>1. q \in Place /\ scans[q] # NoScan /\ scans[q] \in Scan
    BY <1>1, <1>5 DEF CallPart, SnapshotsInFlight
  <2> QED BY <1>4, <2>1, ScanAssumption DEF Scan
<1> HIDE DEF late
<1>6. /\ scans' \in [Place -> Scan \cup {NoScan}]
      /\ scans'[p] = NoScan
      /\ \A q \in Place \ {p} : scans'[q] = IF q \in older[p] THEN late(q) ELSE scans[q]
  BY <1>1, <1>3, <1>5 DEF CallPart
<1>7. \A q \in Place \ {p} : \/ scans'[q] = NoScan /\ scans[q] = NoScan
                             \/ /\ scans'[q] # NoScan /\ scans[q] # NoScan
                                /\ scans'[q].by = scans[q].by
  BY <1>5, <1>6
<1>8. /\ LoopPart'
      /\ OneLoopScan' /\ SnapshotsInFlight'
      /\ {scanBusy', loading'} \subseteq BOOLEAN
      /\ taken' \subseteq Place /\ older' \in [Place -> SUBSET Place]
  BY <1>1, <1>3, <1>6, <1>7, ReturnKeeps
\* One that is outrun here is not a loop's if the published one is.
<1>9. NotOutrun'
  <2> SUFFICES ASSUME NEW q \in Place, ByLoop(q)' PROVE "loop" \notin scans'[q].outrun
    BY DEF NotOutrun
  <2>1. q # p /\ ByLoop(q)
    BY <1>6, <1>7 DEF ByLoop
  <2>2. "loop" \notin scans[q].outrun
    BY <1>1, <2>1 DEF CallPart, NotOutrun
  <2>3. scans[p].by # "loop"
    BY <1>1, <1>3, <2>1 DEF CallPart, OneLoopScan, ByLoop
  <2> QED BY <1>5, <1>6, <2>1, <2>2, <2>3
<1>10. LoopScansInOrder'
  <2>1. scans[p].by = "loop" => "loop" \notin scans[p].outrun
    BY <1>1, <1>3 DEF CallPart, NotOutrun, ByLoop
  <2> QED BY <1>3, <2>1 DEF LoopScansInOrder
<1>11. universe' \in Scan \cup {NoScan}
  BY <1>3, <1>4
<1> QED BY <1>2, <1>6, <1>8, <1>9, <1>10, <1>11 DEF IInv, CallPart

LEMMA FailsKeeps ==
    ASSUME IInv, NEW p \in Place, Fails(p)
    PROVE  IInv'
<1>1. LoopPart /\ CallPart /\ DeepPart
  BY DEF IInv
<1>2. DeepPart'
  BY <1>1 DEF Fails, deepVars, DeepPart, OneDeepScan, KlinesInOrder
<1>3. /\ scans' \in [Place -> Scan \cup {NoScan}]
      /\ scans'[p] = NoScan
      /\ \A q \in Place \ {p} : scans'[q] = scans[q]
  BY <1>1 DEF Fails, CallPart
<1>4. /\ LoopPart'
      /\ OneLoopScan' /\ SnapshotsInFlight'
      /\ {scanBusy', loading'} \subseteq BOOLEAN
      /\ taken' \subseteq Place /\ older' \in [Place -> SUBSET Place]
  BY <1>1, <1>3, ReturnKeeps DEF Fails
<1>5. NotOutrun'
  BY <1>1, <1>3 DEF CallPart, NotOutrun, ByLoop
<1>6. LoopScansInOrder' /\ universe' = universe
  BY <1>1 DEF Fails, CallPart, LoopScansInOrder, Published
<1> QED BY <1>1, <1>2, <1>3, <1>4, <1>5, <1>6 DEF IInv, CallPart

LEMMA RefreshKeeps ==
    ASSUME IInv, Refresh
    PROVE  IInv'
<1>1. LoopPart /\ CallPart /\ DeepPart
  BY DEF IInv
<1>2. LoopPart' /\ DeepPart'
  BY <1>1, ScanAssumption DEF Refresh, loopVars, deepVars, LoopPart, DeepPart, OneDeepScan, KlinesInOrder
<1>3. CallPart'
  <2>1. PICK p \in Place : FetchData(p, "user", settings, FALSE)
    BY DEF Refresh
  <2>2. settings \in Setting /\ "user" \in Caller /\ "user" # "loop"
    BY <1>1 DEF LoopPart, Caller
  <2>3. UNCHANGED <<taken, older, universe>> /\ scanBusy' = scanBusy
    BY DEF Refresh, loopVars
  <2> QED BY <1>1, <2>1, <2>2, <2>3, FetchKeeps
<1> QED BY <1>2, <1>3 DEF IInv

\* A round begins a call if the flag is free and arms the timer if not.
LEMMA RoundKeeps ==
    ASSUME CallPart, NEW g \in Setting,
           NEW others \in [Setting -> {"none", "awaiting", "armed", "over"}],
           Round(g, others), UNCHANGED <<taken, older, universe>>
    PROVE  /\ CallPart'
           /\ loops' \in [Setting -> {"none", "awaiting", "armed", "over"}]
<1>1. CASE ~scanBusy /\ scanBusy' = TRUE /\ loops' = [others EXCEPT ![g] = "awaiting"]
           /\ \E p \in Place : FetchData(p, "loop", g, g \notin firstRun)
  <2>1. PICK p \in Place : FetchData(p, "loop", g, g \notin firstRun)
    BY <1>1
  <2>2. "loop" \in Caller /\ (g \notin firstRun) \in BOOLEAN
    BY DEF Caller
  <2>3. CallPart'
    BY <1>1, <2>1, <2>2, FetchKeeps
  <2> QED BY <1>1, <2>3
<1>2. CASE loops' = [others EXCEPT ![g] = "armed"] /\ UNCHANGED <<scanBusy, scans, loading>>
  <2>1. CallPart'
    BY <1>2 DEF CallPart, OneLoopScan, NotOutrun, ByLoop, SnapshotsInFlight, LoopScansInOrder, Published
  <2> QED BY <1>2, <2>1
<1> QED BY <1>1, <1>2, Zenon DEF Round, MayScan

LEMMA LoopFiresKeeps ==
    ASSUME IInv, NEW g \in Setting, LoopFires(g)
    PROVE  IInv'
<1>1. LoopPart /\ CallPart /\ DeepPart
  BY DEF IInv
<1>2. /\ UNCHANGED <<settings, firstRun, presses>>
      /\ UNCHANGED <<taken, older, universe>>
      /\ UNCHANGED deepVars
  BY DEF LoopFires
<1>3. DeepPart'
  BY <1>1, <1>2 DEF deepVars, DeepPart, OneDeepScan, KlinesInOrder
<1>4. CASE Round(g, loops)
  <2>1. CallPart' /\ loops' \in [Setting -> {"none", "awaiting", "armed", "over"}]
    BY <1>1, <1>2, <1>4, RoundKeeps DEF LoopPart
  <2> QED BY <1>1, <1>2, <1>3, <2>1 DEF IInv, LoopPart
<1>5. CASE loops' = [loops EXCEPT ![g] = "over"] /\ UNCHANGED <<scanBusy, scans, loading>>
  <2>1. CallPart'
    BY <1>1, <1>2, <1>5
    DEF CallPart, OneLoopScan, NotOutrun, ByLoop, SnapshotsInFlight, LoopScansInOrder, Published
  <2>2. LoopPart'
    BY <1>1, <1>2, <1>5 DEF LoopPart
  <2> QED BY <1>3, <2>1, <2>2 DEF IInv
<1> QED BY <1>4, <1>5, Zenon DEF LoopFires

LEMMA ChangeKeeps ==
    ASSUME IInv, ChangeSettings
    PROVE  IInv'
<1>1. LoopPart /\ CallPart /\ DeepPart
  BY DEF IInv
<1>2. settings + 1 \in Setting
  BY <1>1, ScanAssumption DEF ChangeSettings, LoopPart, Setting
<1> DEFINE others == [loops EXCEPT ![settings] = IF @ = "armed" THEN "over" ELSE @]
<1>3. others \in [Setting -> {"none", "awaiting", "armed", "over"}]
  BY <1>1 DEF LoopPart
<1>4. /\ settings' = settings + 1 /\ firstRun' = firstRun \cup {settings + 1}
      /\ presses' = presses
      /\ UNCHANGED <<taken, older, universe>>
      /\ UNCHANGED deepVars
      /\ Round(settings + 1, others)
  BY DEF ChangeSettings
<1> HIDE DEF others
<1>5. CallPart' /\ loops' \in [Setting -> {"none", "awaiting", "armed", "over"}]
  BY <1>1, <1>2, <1>3, <1>4, RoundKeeps
<1>6. LoopPart'
  BY <1>1, <1>2, <1>4, <1>5 DEF LoopPart
<1>7. DeepPart'
  BY <1>1, <1>4 DEF deepVars, DeepPart, OneDeepScan, KlinesInOrder
<1> QED BY <1>5, <1>6, <1>7 DEF IInv

\* The one deep scan that is under way goes on with the list that is left, or
\* ends, and with it the flag.
LEMMA DeepListKeeps ==
    ASSUME IInv, NEW n \in DOMAIN deeps, NEW l \in List, DeepListEnds(n, l)
    PROVE  IInv'
<1>1. LoopPart /\ CallPart /\ DeepPart
  BY DEF IInv
<1>2. LoopPart' /\ CallPart'
  BY <1>1 DEF DeepListEnds, loopVars, callVars, LoopPart, CallPart, OneLoopScan, NotOutrun,
     ByLoop, SnapshotsInFlight, LoopScansInOrder, Published
<1>3. PICK all \in SUBSET List : deepBusy /\ deeps = <<[left |-> all, outrun |-> FALSE]>>
  BY <1>1 DEF DeepPart, OneDeepScan
<1> DEFINE one == [left |-> all, outrun |-> FALSE]
<1>o. DOMAIN deeps = {1} /\ deeps[1] = one /\ deeps = <<one>>
  <2> HIDE DEF one
  <2>1. deeps = <<one>>
    BY <1>3 DEF one
  <2> QED BY <2>1, OneElement
<1>4. n = 1 /\ deeps[n] = one
  BY <1>o
<1> DEFINE left == deeps[n].left \ {l}
           now  == [m \in DOMAIN deeps |->
                      [deeps[m] EXCEPT !.left = IF m = n THEN left ELSE @, !.outrun = @ \/ m < n]]
           rest == [left |-> all \ {l}, outrun |-> FALSE]
<1>5. /\ klines' = deeps[n].outrun
      /\ deeps' = IF left = {} THEN RemoveAt(now, n) ELSE now
      /\ deepBusy' = (deepBusy /\ left # {})
      /\ deepDue' = deepDue
  BY DEF DeepListEnds
<1>6. now = <<rest>>
  <2> DEFINE late == one.outrun \/ 1 < 1
  <2>1. one.outrun = FALSE /\ ~(1 < 1)
    OBVIOUS
  <2>l. late = FALSE
    BY <2>1, Zenon
  <2>e. [one EXCEPT !.left = left, !.outrun = late] = rest
    <3>1. deeps[n].left = all
      BY <1>4
    <3>2. [one EXCEPT !.left = all \ {l}, !.outrun = FALSE] = rest
      <4>1. all \in SUBSET List /\ all \ {l} \in SUBSET List /\ FALSE \in BOOLEAN
        OBVIOUS
      <4> QED BY <4>1, ListTakenOff, Zenon
    <3>3. left = all \ {l}
      BY <3>1, Zenon
    <3> HIDE DEF late, left, one, rest
    <3> QED BY <2>l, <3>2, <3>3, Zenon
  <2>2. [one EXCEPT !.left = left, !.outrun = @ \/ 1 < 1] = rest
    BY <2>e, Zenon
  <2> HIDE DEF one, rest, left
  <2>3. now = [m \in DOMAIN deeps |-> rest]
    BY <1>4, <1>o, <2>2
  <2>4. [m \in DOMAIN <<one>> |-> rest] = <<rest>>
    BY OneElement
  <2> QED BY <1>o, <2>3, <2>4
<1>7. klines' = FALSE
  <2>1. one.outrun = FALSE
    OBVIOUS
  <2> QED BY <1>4, <1>5, <2>1, Zenon
<1> HIDE DEF now
<1>8. OneDeepScan'
  <2>1. CASE left = {}
    <3>1. deeps' = <<>> /\ deepBusy' = FALSE
      BY <1>4, <1>5, <1>6, <2>1, OneElement
    <3> QED BY <3>1 DEF OneDeepScan
  <2>2. CASE left # {}
    <3>1. deeps' = <<rest>> /\ deepBusy' = TRUE
      BY <1>3, <1>5, <1>6, <2>2
    <3> QED BY <3>1 DEF OneDeepScan
  <2> QED BY <2>1, <2>2
<1>9. DeepPart'
  BY <1>1, <1>5, <1>7, <1>8 DEF DeepPart, KlinesInOrder
<1> QED BY <1>2, <1>9 DEF IInv

LEMMA DueKeeps ==
    ASSUME IInv, DeepBecomesDue
    PROVE  IInv'
<1>1. LoopPart /\ CallPart /\ DeepPart
  BY DEF IInv
<1>2. LoopPart' /\ CallPart'
  BY <1>1 DEF DeepBecomesDue, loopVars, callVars, LoopPart, CallPart, OneLoopScan, NotOutrun,
     ByLoop, SnapshotsInFlight, LoopScansInOrder, Published
<1>3. DeepPart'
  BY <1>1 DEF DeepBecomesDue, DeepPart, OneDeepScan, KlinesInOrder
<1> QED BY <1>2, <1>3 DEF IInv

LEMMA ScannerKeeps == IInv /\ [Next]_vars => IInv'
<1> SUFFICES ASSUME IInv, [Next]_vars PROVE IInv'
  OBVIOUS
<1>1. CASE UNCHANGED vars
  <2>1. LoopPart /\ CallPart /\ DeepPart
    BY DEF IInv
  <2>2. LoopPart' /\ CallPart' /\ DeepPart'
    BY <1>1, <2>1 DEF vars, loopVars, callVars, deepVars, LoopPart, CallPart, DeepPart, OneLoopScan,
       NotOutrun, ByLoop, SnapshotsInFlight, LoopScansInOrder, Published, OneDeepScan, KlinesInOrder
  <2> QED BY <2>2 DEF IInv
<1> QED BY <1>1, SnapshotKeeps, PublishKeeps, FailsKeeps, RefreshKeeps, LoopFiresKeeps,
           ChangeKeeps, DeepListKeeps, DueKeeps DEF Next

LEMMA ScannerInvariance == Spec => []IInv
<1> QED BY InitIInv, ScannerKeeps, PTL DEF Spec

\* The scanner's variables have their types, for any number of calls, settings
\* and lists.
THEOREM ScannerTypeCorrect == Spec => []TypeOK
BY InvGivesParts, ScannerInvariance, PTL

\* scanBusyRef: whatever loops are stopped while they await a scan, the scans of
\* the loops never overlap, so that none replaces the universe of a later one.
THEOREM LoopScansAreInOrder == Spec => []LoopScansInOrder
BY InvGivesParts, ScannerInvariance, PTL

\* deepScanBusyRef: no deep scan begins while one is under way, however often a
\* universe is published, so that candles are never overwritten by older ones.
THEOREM KlinesAreInOrder == Spec => []KlinesInOrder
BY InvGivesParts, ScannerInvariance, PTL
-----------------------------------------------------------------------------
(***************************************************************************)
(* The shadow engine.                                                      *)
(***************************************************************************)
\* What makes ReentryIsEarned inductive: since the last entry of s the trade is
\* still remembered, or its cooldown runs, or the cooldown is over; and the last
\* scan was high unless one was below the threshold since then.
Due(s) ==
    \/ "loaded" \in since[s]
    \/ /\ active[s] \/ cooling[s] \/ "cooled" \in since[s]
       /\ last[s] = "high" \/ since[s] \cap {"low", "mid"} # {}

ShadowInv == ShadowTypeOK /\ ReentryIsEarned /\ \A s \in Symbol : Due(s)

\* A scan keeps the types of the episode.
LEMMA UpdateTyped ==
    ASSUME ShadowTypeOK, NEW s \in Symbol, NEW level \in Level, NEW entered \in BOOLEAN,
           UpdateEpisode(s, level, entered)
    PROVE  /\ last' \in [Symbol -> Level \cup {"none"}]
           /\ reset' \in [Symbol -> BOOLEAN]
           /\ active' \in [Symbol -> BOOLEAN]
           /\ cooling' \in [Symbol -> BOOLEAN]
BY DEF ShadowTypeOK, UpdateEpisode, ResetSeen, CooldownBegins

\* What a scan makes of the episode of its symbol and of the others.
LEMMA UpdateValues ==
    ASSUME ShadowTypeOK, NEW s \in Symbol, NEW level \in Level, NEW entered \in BOOLEAN,
           UpdateEpisode(s, level, entered)
    PROVE  /\ last'[s] = level
           /\ active'[s] = entered
           /\ cooling'[s] = (cooling[s] \/ (active[s] /\ ~entered))
           /\ \A r \in Symbol \ {s} : /\ last'[r] = last[r]
                                      /\ active'[r] = active[r]
                                      /\ cooling'[r] = cooling[r]
BY DEF ShadowTypeOK, UpdateEpisode, CooldownBegins

\* An entry: it has its grounds, and the next one waits for a cooldown.
LEMMA EnterKeeps ==
    ASSUME ShadowInv, NEW s \in Symbol, NEW level \in Level, Enter(s, level)
    PROVE  ShadowInv'
<1>1. /\ ShadowTypeOK
      /\ Due(s)
      /\ ReentryIsEarned
      /\ \A r \in Symbol : Due(r)
  BY DEF ShadowInv
<1>2. UpdateEpisode(s, level, TRUE)
  BY DEF Enter
<1>3. /\ level = "high"
      /\ ~active[s]
      /\ ~cooling[s]
      /\ last[s] # "high"
  BY DEF Enter, MayEnter
<1>4. /\ since \in [Symbol -> SUBSET Event]
      /\ grounds \in [Symbol -> SUBSET Event]
      /\ since' = [since EXCEPT ![s] = {}]
      /\ grounds' = [grounds EXCEPT ![s] = since[s]]
  BY <1>1 DEF ShadowTypeOK, Enter
<1>5. ShadowTypeOK'
  <2>1. count' \in [Symbol -> 0 .. MaxTrades]
    BY <1>1, ShadowAssumption DEF ShadowTypeOK, Enter
  <2>2. open' \subseteq Trades
    <3>1. count[s] + 1 \in Number
      BY <1>1, ShadowAssumption DEF ShadowTypeOK, Enter, Number
    <3>2. <<s, count[s] + 1>> \in Trades
      BY <3>1 DEF Trades
    <3> QED BY <1>1, <3>2 DEF ShadowTypeOK, Enter
  <2>3. /\ since' \in [Symbol -> SUBSET Event]
        /\ grounds' \in [Symbol -> SUBSET Event]
    BY <1>4
  <2> QED BY <1>1, <1>2, <2>1, <2>2, <2>3, UpdateTyped DEF ShadowTypeOK
<1>6. ReentryIsEarned'
  <2>1. \/ "loaded" \in since[s]
        \/ "cooled" \in since[s] /\ since[s] \cap {"low", "mid"} # {}
    BY <1>1, <1>3 DEF Due
  <2>2. grounds'[s] = since[s] /\ \A r \in Symbol \ {s} : grounds'[r] = grounds[r]
    BY <1>4
  <2> QED BY <1>1, <2>1, <2>2 DEF ReentryIsEarned
<1>7. \A r \in Symbol : Due(r)'
  <2>1. active'[s] /\ last'[s] = "high"
    BY <1>1, <1>2, <1>3, UpdateValues
  <2>2. Due(s)'
    BY <2>1 DEF Due
  <2>3. ASSUME NEW r \in Symbol \ {s}
        PROVE  Due(r)'
    <3>1. since'[r] = since[r]
      BY <1>4
    <3>2. last'[r] = last[r] /\ active'[r] = active[r] /\ cooling'[r] = cooling[r]
      BY <1>1, <1>2, UpdateValues
    <3>3. Due(r)
      BY <1>1
    <3> QED BY <3>1, <3>2, <3>3 DEF Due
  <2> QED BY <2>2, <2>3
<1> QED BY <1>5, <1>6, <1>7 DEF ShadowInv

\* A scan that enters nothing: a remembered trade becomes a cooldown.
LEMMA PassOverKeeps ==
    ASSUME ShadowInv, NEW s \in Symbol, NEW level \in Level, NEW admitted \in BOOLEAN,
           PassOver(s, level, admitted)
    PROVE  ShadowInv'
<1>1. /\ ShadowTypeOK
      /\ ReentryIsEarned
      /\ \A r \in Symbol : Due(r)
  BY DEF ShadowInv
<1>2. UpdateEpisode(s, level, FALSE)
  BY DEF PassOver
<1>3. /\ since \in [Symbol -> SUBSET Event]
      /\ since' = [since EXCEPT ![s] = @ \cup {level}]
      /\ UNCHANGED <<count, open, grounds>>
  BY <1>1 DEF ShadowTypeOK, PassOver
<1>4. /\ since'[s] = since[s] \cup {level}
      /\ \A r \in Symbol \ {s} : since'[r] = since[r]
      /\ since' \in [Symbol -> SUBSET Event]
  BY <1>3 DEF Event
<1>5. ShadowTypeOK'
  BY <1>1, <1>2, <1>3, <1>4, UpdateTyped DEF ShadowTypeOK
<1>6. ReentryIsEarned'
  BY <1>1, <1>3 DEF ReentryIsEarned
<1>7. Due(s)'
  <2>1. /\ last'[s] = level
        /\ cooling'[s] = (cooling[s] \/ active[s])
    BY <1>1, <1>2, UpdateValues
  <2>2. Due(s)
    BY <1>1
  <2>3. level = "high" \/ level \in {"low", "mid"}
    BY DEF Level
  <2> QED BY <1>4, <2>1, <2>2, <2>3 DEF Due
<1>8. ASSUME NEW r \in Symbol \ {s}
      PROVE  Due(r)'
  <2>1. last'[r] = last[r] /\ active'[r] = active[r] /\ cooling'[r] = cooling[r]
    BY <1>1, <1>2, UpdateValues
  <2> QED BY <1>1, <1>4, <2>1 DEF Due
<1> QED BY <1>5, <1>6, <1>7, <1>8 DEF ShadowInv

\* The end of a cooldown is remembered.
LEMMA CooldownEndsKeeps ==
    ASSUME ShadowInv, NEW s \in Symbol, CooldownEnds(s)
    PROVE  ShadowInv'
<1>1. /\ ShadowTypeOK
      /\ ReentryIsEarned
      /\ \A r \in Symbol : Due(r)
  BY DEF ShadowInv
<1>2. /\ since \in [Symbol -> SUBSET Event]
      /\ since' = [since EXCEPT ![s] = @ \cup {"cooled"}]
      /\ cooling \in [Symbol -> BOOLEAN]
      /\ cooling' = [cooling EXCEPT ![s] = FALSE]
      /\ UNCHANGED <<last, reset, active, count, open, grounds>>
  BY <1>1 DEF ShadowTypeOK, CooldownEnds
<1>3. ShadowTypeOK'
  BY <1>1, <1>2 DEF ShadowTypeOK, Event
<1>4. ReentryIsEarned'
  BY <1>1, <1>2 DEF ReentryIsEarned
<1>5. ASSUME NEW r \in Symbol
      PROVE  Due(r)'
  <2>1. Due(r)
    BY <1>1
  <2>2. CASE r = s
    <3>1. since'[r] = since[r] \cup {"cooled"}
      BY <1>2, <2>2
    <3> QED BY <1>2, <2>1, <3>1 DEF Due
  <2>3. CASE r # s
    BY <1>2, <2>1, <2>3 DEF Due
  <2> QED BY <2>2, <2>3
<1> QED BY <1>3, <1>4, <1>5 DEF ShadowInv

\* A reload counts as grounds for every symbol.
LEMMA ReloadKeeps ==
    ASSUME ShadowInv, Reload
    PROVE  ShadowInv'
<1>1. ShadowTypeOK /\ ReentryIsEarned
  BY DEF ShadowInv
<1>2. ShadowTypeOK'
  <2>1. since' \in [Symbol -> SUBSET Event]
    BY <1>1 DEF ShadowTypeOK, Reload, Event
  <2>2. open' \subseteq Trades
    BY DEF Reload
  <2> QED BY <1>1, <2>1, <2>2 DEF ShadowTypeOK, Reload
<1>3. ReentryIsEarned'
  BY <1>1 DEF ReentryIsEarned, Reload
<1>4. \A r \in Symbol : Due(r)'
  BY DEF Due, Reload
<1> QED BY <1>2, <1>3, <1>4 DEF ShadowInv

LEMMA ShadowKeeps == ShadowInv /\ [ShadowNext]_shadowVars => ShadowInv'
<1> SUFFICES ASSUME ShadowInv, [ShadowNext]_shadowVars
             PROVE  ShadowInv'
  OBVIOUS
<1>1. ASSUME NEW s \in Symbol, NEW level \in Level, NEW admitted \in BOOLEAN,
             ScanCompletes(s, level, admitted)
      PROVE  ShadowInv'
  <2>1. CASE Enter(s, level)
    BY <2>1, EnterKeeps
  <2>2. CASE PassOver(s, level, admitted)
    BY <2>2, PassOverKeeps
  <2> QED BY <1>1, <2>1, <2>2 DEF ScanCompletes
<1>2. ASSUME NEW s \in Symbol, CooldownEnds(s)
      PROVE  ShadowInv'
  BY <1>2, CooldownEndsKeeps
<1>3. ASSUME NEW t \in Trades, ShadowCloses(t)
      PROVE  ShadowInv'
  BY <1>3 DEF ShadowCloses, episode, ShadowInv, ShadowTypeOK, ReentryIsEarned, Due
<1>4. CASE Reload
  BY <1>4, ReloadKeeps
<1>5. CASE UNCHANGED shadowVars
  BY <1>5 DEF shadowVars, ShadowInv, ShadowTypeOK, ReentryIsEarned, Due
<1> QED BY <1>1, <1>2, <1>3, <1>4, <1>5 DEF ShadowNext

LEMMA ShadowInitial == ShadowInit => ShadowInv
<1> SUFFICES ASSUME ShadowInit
             PROVE  ShadowInv
  OBVIOUS
<1>1. ShadowTypeOK
  BY ShadowAssumption DEF ShadowInit, ShadowTypeOK, Event
<1>2. ReentryIsEarned
  BY DEF ShadowInit, ReentryIsEarned
<1>3. \A s \in Symbol : Due(s)
  BY DEF ShadowInit, Due
<1> QED BY <1>1, <1>2, <1>3 DEF ShadowInv

LEMMA ShadowInvariance == ShadowSpec => []ShadowInv
BY ShadowInitial, ShadowKeeps, PTL DEF ShadowSpec

\* Every variable has its type, for any symbols and any number of trades.
THEOREM ShadowTypeCorrect == ShadowSpec => []ShadowTypeOK
<1>1. ShadowInv => ShadowTypeOK
  BY DEF ShadowInv
<1> QED BY <1>1, ShadowInvariance, PTL

\* maybeShadowEntry and updateEpisodeState: no symbol is entered twice on one
\* rise of its score, whatever the scans, closes and reloads in between.
THEOREM ReentryIsAlwaysEarned == ShadowSpec => []ReentryIsEarned
<1>1. ShadowInv => ReentryIsEarned
  BY DEF ShadowInv
<1> QED BY <1>1, ShadowInvariance, PTL

-----------------------------------------------------------------------------
(***************************************************************************)
(* The candidates' streams.  First what After makes of a set of streams:   *)
(* it is defined by the last message that names a stream, and these lemmas *)
(* give it the laws of messages applied one by one.                        *)
(***************************************************************************)
Method == {"SUBSCRIBE", "UNSUBSCRIBE"}
Msg    == [method : Method, streams : SUBSET Candidate]
Sent   == [method : Method, streams : SUBSET Candidate,
           fate : {"out", "ok", "error"}, awaited : BOOLEAN]
ConnectionType ==
    [ws : {"none", "connecting", "open", "closing", "closed"}, rotation : BOOLEAN,
     active : SUBSET Candidate, wanted : SUBSET Candidate, queue : Seq(Msg), ctrl : BOOLEAN,
     sent : Seq(Sent), subs : SUBSET Candidate, astray : BOOLEAN, late : BOOLEAN,
     leaving : Nat, timers : Nat]

\* A stream is there when nothing took it away, or when the last that named it
\* brought it.
LEMMA InAfter ==
    ASSUME NEW st \in SUBSET Candidate, NEW ms \in Seq(Msg)
    PROVE  /\ After(st, ms) \subseteq Candidate
           /\ \A s \in Candidate : s \in After(st, ms) <=>
                \/ /\ s \in st
                   /\ \A i \in 1 .. Len(ms) : ~Unsubscribes(ms[i], s)
                \/ \E i \in 1 .. Len(ms) :
                     /\ Subscribes(ms[i], s)
                     /\ \A j \in 1 .. Len(ms) : Unsubscribes(ms[j], s) => j < i
<1>1. DOMAIN ms = 1 .. Len(ms)
  BY LenProperties
<1>2. After(st, ms) \subseteq Candidate
  BY DEF After
<1>3. ASSUME NEW s \in Candidate
      PROVE  LET ends == {i \in DOMAIN ms : Unsubscribes(ms[i], s)}
             IN  s \in After(st, ms) <=>
                   \/ s \in st /\ ends = {}
                   \/ \E i \in DOMAIN ms : Subscribes(ms[i], s) /\ \A j \in ends : j < i
  BY DEF After
<1> QED BY <1>1, <1>2, <1>3

\* One message, applied, says of a stream what it names.
LEMMA OneNaming ==
    ASSUME NEW st \in SUBSET Candidate, NEW m \in Msg, NEW s \in Candidate
    PROVE  /\ Applied(st, m) \in SUBSET Candidate
           /\ s \in Applied(st, m) <=>
                (s \in st /\ ~Unsubscribes(m, s)) \/ Subscribes(m, s)
           /\ ~(Subscribes(m, s) /\ Unsubscribes(m, s))
BY DEF Applied, Msg, Method, Subscribes, Unsubscribes

\* Messages that follow each other take effect in turn.
LEMMA AfterJoined ==
    ASSUME NEW st \in SUBSET Candidate,
           NEW a \in Seq(Msg), NEW b \in Seq(Msg), NEW c \in Seq(Msg),
           Len(c) = Len(a) + Len(b),
           \A i \in 1 .. Len(a) : c[i] = a[i],
           \A i \in 1 .. Len(b) : c[Len(a) + i] = b[i]
    PROVE  After(st, c) = After(After(st, a), b)
<1>1. /\ After(st, a) \in SUBSET Candidate
      /\ After(st, c) \subseteq Candidate
      /\ After(After(st, a), b) \subseteq Candidate
  BY InAfter
<1>2. Len(a) \in Nat /\ Len(b) \in Nat
  BY LenProperties
<1>3. \A i \in 1 .. Len(c) : \/ i \in 1 .. Len(a) /\ c[i] = a[i]
                             \/ /\ i - Len(a) \in 1 .. Len(b)
                                /\ i > Len(a) /\ c[i] = b[i - Len(a)]
  BY <1>2
<1> SUFFICES ASSUME NEW s \in Candidate
             PROVE  s \in After(st, c) <=> s \in After(After(st, a), b)
  BY <1>1
<1> DEFINE Ua(i) == Unsubscribes(a[i], s)
           Ub(i) == Unsubscribes(b[i], s)
           Uc(i) == Unsubscribes(c[i], s)
           Sa(i) == Subscribes(a[i], s)
           Sb(i) == Subscribes(b[i], s)
           Sc(i) == Subscribes(c[i], s)
<1>4. s \in After(st, c) <=>
         \/ s \in st /\ \A i \in 1 .. Len(c) : ~Uc(i)
         \/ \E i \in 1 .. Len(c) : Sc(i) /\ \A j \in 1 .. Len(c) : Uc(j) => j < i
  BY InAfter
<1>5. s \in After(st, a) <=>
         \/ s \in st /\ \A i \in 1 .. Len(a) : ~Ua(i)
         \/ \E i \in 1 .. Len(a) : Sa(i) /\ \A j \in 1 .. Len(a) : Ua(j) => j < i
  BY InAfter
<1>6. s \in After(After(st, a), b) <=>
         \/ s \in After(st, a) /\ \A i \in 1 .. Len(b) : ~Ub(i)
         \/ \E i \in 1 .. Len(b) : Sb(i) /\ \A j \in 1 .. Len(b) : Ub(j) => j < i
  BY <1>1, InAfter
<1>7. /\ \A i \in 1 .. Len(a) : i \in 1 .. Len(c) /\ Uc(i) = Ua(i) /\ Sc(i) = Sa(i)
      /\ \A i \in 1 .. Len(b) : /\ Len(a) + i \in 1 .. Len(c)
                                /\ Uc(Len(a) + i) = Ub(i) /\ Sc(Len(a) + i) = Sb(i)
  BY <1>2
<1>8. \A i \in 1 .. Len(c) : \/ i \in 1 .. Len(a) /\ Uc(i) = Ua(i) /\ Sc(i) = Sa(i)
                             \/ /\ i - Len(a) \in 1 .. Len(b) /\ i > Len(a)
                                /\ Uc(i) = Ub(i - Len(a)) /\ Sc(i) = Sb(i - Len(a))
  BY <1>3
<1> HIDE DEF Ua, Ub, Uc, Sa, Sb, Sc
<1>9. CASE \E i \in 1 .. Len(b) : Ub(i)
  <2>1. ASSUME NEW i \in 1 .. Len(c), Sc(i), \A j \in 1 .. Len(c) : Uc(j) => j < i
        PROVE  i - Len(a) \in 1 .. Len(b) /\ Sb(i - Len(a))
               /\ \A j \in 1 .. Len(b) : Ub(j) => j < i - Len(a)
    <3>1. PICK n \in 1 .. Len(b) : Ub(n)
      BY <1>9
    <3>2. Len(a) + n < i
      BY <3>1, <2>1, <1>7
    <3>3. i - Len(a) \in 1 .. Len(b) /\ Sb(i - Len(a))
      BY <3>2, <2>1, <1>8, <1>2
    <3>4. \A j \in 1 .. Len(b) : Ub(j) => Len(a) + j < i
      BY <2>1, <1>7
    <3>5. ASSUME NEW j \in 1 .. Len(b), Ub(j)
          PROVE  j < i - Len(a)
      <4>1. Len(a) + j < i /\ j \in Nat /\ i \in Nat
        BY <3>4, <3>5, <2>1
      <4> QED BY <4>1, <1>2
    <3> QED BY <3>3, <3>5
  <2>2. ASSUME NEW i \in 1 .. Len(b), Sb(i), \A j \in 1 .. Len(b) : Ub(j) => j < i
        PROVE  Len(a) + i \in 1 .. Len(c) /\ Sc(Len(a) + i)
               /\ \A j \in 1 .. Len(c) : Uc(j) => j < Len(a) + i
    <3>1. Len(a) + i \in 1 .. Len(c) /\ Sc(Len(a) + i)
      BY <2>2, <1>7
    <3>2. ASSUME NEW j \in 1 .. Len(c), Uc(j)
          PROVE  j < Len(a) + i
      <4>1. CASE j \in 1 .. Len(a)
        BY <4>1, <1>2
      <4>2. CASE j - Len(a) \in 1 .. Len(b) /\ Uc(j) = Ub(j - Len(a))
        <5>1. Ub(j - Len(a))
          BY <4>2, <3>2
        <5>2. j - Len(a) < i
          BY <5>1, <4>2, <2>2
        <5> QED BY <5>2, <1>2
      <4> QED BY <4>1, <4>2, <1>8
    <3> QED BY <3>1, <3>2
  <2>3. \E i \in 1 .. Len(c) : Uc(i)
    BY <1>9, <1>7
  <2>4. s \in After(st, c) <=> \E i \in 1 .. Len(c) : Sc(i) /\ \A j \in 1 .. Len(c) : Uc(j) => j < i
    BY <1>4, <2>3
  <2>5. s \in After(After(st, a), b) <=>
          \E i \in 1 .. Len(b) : Sb(i) /\ \A j \in 1 .. Len(b) : Ub(j) => j < i
    BY <1>6, <1>9
  <2>6. (\E i \in 1 .. Len(c) : Sc(i) /\ \A j \in 1 .. Len(c) : Uc(j) => j < i)
          => \E i \in 1 .. Len(b) : Sb(i) /\ \A j \in 1 .. Len(b) : Ub(j) => j < i
    BY <2>1
  <2>7. (\E i \in 1 .. Len(b) : Sb(i) /\ \A j \in 1 .. Len(b) : Ub(j) => j < i)
          => \E i \in 1 .. Len(c) : Sc(i) /\ \A j \in 1 .. Len(c) : Uc(j) => j < i
    BY <2>2
  <2> QED BY <2>4, <2>5, <2>6, <2>7
<1>10. CASE /\ \A i \in 1 .. Len(b) : ~Ub(i)
            /\ \E i \in 1 .. Len(b) : Sb(i)
  <2>1. s \in After(After(st, a), b)
    BY <1>10, <1>6
  <2>2. PICK n \in 1 .. Len(b) : Sb(n)
    BY <1>10
  <2>3. Len(a) + n \in 1 .. Len(c) /\ Sc(Len(a) + n)
    BY <2>2, <1>7
  <2>4. \A j \in 1 .. Len(c) : Uc(j) => j \in 1 .. Len(a)
    BY <1>8, <1>10
  <2>5. \A j \in 1 .. Len(c) : Uc(j) => j < Len(a) + n
    BY <2>4, <1>2
  <2> QED BY <2>1, <2>3, <2>5, <1>4
<1>11. CASE /\ \A i \in 1 .. Len(b) : ~Ub(i)
            /\ \A i \in 1 .. Len(b) : ~Sb(i)
  <2>1. s \in After(After(st, a), b) <=> s \in After(st, a)
    BY <1>11, <1>6
  <2>2. \A j \in 1 .. Len(c) : /\ Uc(j) => j \in 1 .. Len(a) /\ Ua(j)
                               /\ Sc(j) => j \in 1 .. Len(a) /\ Sa(j)
    BY <1>8, <1>11
  <2>3. \A j \in 1 .. Len(a) : j \in 1 .. Len(c) /\ (Ua(j) => Uc(j)) /\ (Sa(j) => Sc(j))
    BY <1>7
  <2>4. s \in After(st, c) <=> s \in After(st, a)
    BY <2>2, <2>3, <1>4, <1>5
  <2> QED BY <2>1, <2>4
<1> QED BY <1>9, <1>10, <1>11

LEMMA AfterNone ==
    ASSUME NEW st \in SUBSET Candidate, NEW ms \in Seq(Msg), Len(ms) = 0
    PROVE  After(st, ms) = st
<1> DEFINE none == 1 .. Len(ms)
<1>1. /\ After(st, ms) \subseteq Candidate
      /\ \A s \in Candidate : s \in After(st, ms) <=>
           \/ s \in st /\ \A i \in none : ~Unsubscribes(ms[i], s)
           \/ \E i \in none :
                /\ Subscribes(ms[i], s)
                /\ \A j \in none : Unsubscribes(ms[j], s) => j < i
  BY InAfter, Zenon
<1>2. none = {}
  OBVIOUS
<1> HIDE DEF none
<1> QED BY <1>1, <1>2

LEMMA AfterOne ==
    ASSUME NEW st \in SUBSET Candidate, NEW m \in Msg, NEW one \in Seq(Msg),
           Len(one) = 1, one[1] = m
    PROVE  After(st, one) = Applied(st, m)
<1>1. /\ After(st, one) \subseteq Candidate
      /\ \A s \in Candidate : s \in After(st, one) <=>
            (s \in st /\ ~Unsubscribes(m, s)) \/ (Subscribes(m, s) /\ ~Unsubscribes(m, s))
  BY InAfter
<1>2. Applied(st, m) \subseteq Candidate
  BY DEF Applied, Msg
<1>3. \A s \in Candidate : /\ s \in Applied(st, m) <=>
                                (s \in st /\ ~Unsubscribes(m, s)) \/ Subscribes(m, s)
                           /\ ~(Subscribes(m, s) /\ Unsubscribes(m, s))
  BY OneNaming
<1> QED BY <1>1, <1>2, <1>3

\* The first message takes effect, then the others.
LEMMA AfterHead ==
    ASSUME NEW st \in SUBSET Candidate, NEW ms \in Seq(Msg), ms # <<>>
    PROVE  /\ Head(ms) \in Msg /\ Tail(ms) \in Seq(Msg)
           /\ After(st, ms) = After(Applied(st, Head(ms)), Tail(ms))
<1>1. /\ Head(ms) \in Msg /\ Tail(ms) \in Seq(Msg)
      /\ Len(Tail(ms)) = Len(ms) - 1 /\ Len(ms) \in Nat \ {0}
      /\ \A i \in 1 .. Len(Tail(ms)) : Tail(ms)[i] = ms[i + 1]
  BY HeadTailProperties, EmptySeq
<1>2. Head(ms) = ms[1]
  BY <1>1
<1> DEFINE one == <<ms[1]>>
<1>3. one \in Seq(Msg) /\ Len(one) = 1 /\ one[1] = ms[1]
  BY <1>1, <1>2
<1> HIDE DEF one
<1>4. /\ Len(ms) = Len(one) + Len(Tail(ms))
      /\ \A i \in 1 .. Len(one) : ms[i] = one[i]
      /\ \A i \in 1 .. Len(Tail(ms)) : ms[Len(one) + i] = Tail(ms)[i]
  BY <1>1, <1>3
<1>5. After(st, ms) = After(After(st, one), Tail(ms))
  BY <1>1, <1>3, <1>4, AfterJoined
<1>6. After(st, one) = Applied(st, Head(ms))
  BY <1>1, <1>2, <1>3, AfterOne
<1> QED BY <1>1, <1>5, <1>6

\* Only what the messages say of streams counts.
LEMMA AfterSame ==
    ASSUME NEW st \in SUBSET Candidate, NEW a \in Seq(Msg), NEW b \in Seq(Msg),
           Len(a) = Len(b),
           \A i \in 1 .. Len(a) : a[i].method = b[i].method /\ a[i].streams = b[i].streams
    PROVE  After(st, a) = After(st, b)
<1>1. \A i \in 1 .. Len(a), s \in Candidate :
         /\ Subscribes(a[i], s) <=> Subscribes(b[i], s)
         /\ Unsubscribes(a[i], s) <=> Unsubscribes(b[i], s)
  BY DEF Subscribes, Unsubscribes
<1>2. \A s \in Candidate : s \in After(st, a) <=> s \in After(st, b)
  <2> TAKE s \in Candidate
  <2> DEFINE Ua(i) == Unsubscribes(a[i], s)
             Ub(i) == Unsubscribes(b[i], s)
             Sa(i) == Subscribes(a[i], s)
             Sb(i) == Subscribes(b[i], s)
  <2>1. s \in After(st, a) <=>
           \/ s \in st /\ \A i \in 1 .. Len(a) : ~Ua(i)
           \/ \E i \in 1 .. Len(a) : Sa(i) /\ \A j \in 1 .. Len(a) : Ua(j) => j < i
    BY InAfter
  <2>2. s \in After(st, b) <=>
           \/ s \in st /\ \A i \in 1 .. Len(b) : ~Ub(i)
           \/ \E i \in 1 .. Len(b) : Sb(i) /\ \A j \in 1 .. Len(b) : Ub(j) => j < i
    BY InAfter
  <2>3. \A i \in 1 .. Len(a) : (Ua(i) <=> Ub(i)) /\ (Sa(i) <=> Sb(i))
    BY <1>1
  <2> HIDE DEF Ua, Ub, Sa, Sb
  <2> QED BY <2>1, <2>2, <2>3
<1>3. After(st, a) \subseteq Candidate /\ After(st, b) \subseteq Candidate
  BY InAfter
<1> QED BY <1>2, <1>3

\* When the messages after the i-th name nothing yet, the i-th has the last word.
LEMMA AfterLast ==
    ASSUME NEW st \in SUBSET Candidate, NEW a \in Seq(Msg), NEW b \in Seq(Msg),
           Len(a) = Len(b), NEW n \in 1 .. Len(a),
           \A i \in 1 .. Len(a) : i # n => a[i] = b[i],
           \A i \in n .. Len(a) : a[i].streams = {}
    PROVE  After(st, b) = Applied(After(st, a), b[n])
<1>1. b[n] \in Msg /\ Len(a) \in Nat
  BY ElementOfSeq, LenProperties
<1>2. /\ After(st, a) \in SUBSET Candidate /\ After(st, b) \subseteq Candidate
      /\ Applied(After(st, a), b[n]) \subseteq Candidate
  <2>1. After(st, a) \in SUBSET Candidate /\ After(st, b) \subseteq Candidate
    BY InAfter
  <2> QED BY <2>1, <1>1 DEF Applied, Msg
<1> SUFFICES ASSUME NEW s \in Candidate
             PROVE  s \in After(st, b) <=> s \in Applied(After(st, a), b[n])
  BY <1>2
<1> DEFINE Ua(i) == Unsubscribes(a[i], s)
           Ub(i) == Unsubscribes(b[i], s)
           Sa(i) == Subscribes(a[i], s)
           Sb(i) == Subscribes(b[i], s)
<1>3. s \in After(st, a) <=>
         \/ s \in st /\ \A i \in 1 .. Len(a) : ~Ua(i)
         \/ \E i \in 1 .. Len(a) : Sa(i) /\ \A j \in 1 .. Len(a) : Ua(j) => j < i
  BY InAfter
<1>4. s \in After(st, b) <=>
         \/ s \in st /\ \A i \in 1 .. Len(b) : ~Ub(i)
         \/ \E i \in 1 .. Len(b) : Sb(i) /\ \A j \in 1 .. Len(b) : Ub(j) => j < i
  BY InAfter
<1>5. /\ s \in Applied(After(st, a), b[n]) <=> (s \in After(st, a) /\ ~Ub(n)) \/ Sb(n)
      /\ ~(Sb(n) /\ Ub(n))
  BY <1>1, <1>2, OneNaming
<1>6. \A i \in n .. Len(a) : ~Ua(i) /\ ~Sa(i)
  BY DEF Subscribes, Unsubscribes
<1>7. \A i \in 1 .. Len(a) : i # n => (Ua(i) <=> Ub(i)) /\ (Sa(i) <=> Sb(i))
  OBVIOUS
<1> HIDE DEF Ua, Ub, Sa, Sb
<1>8. \A i \in 1 .. Len(a) : i > n => ~Ub(i) /\ ~Sb(i)
  BY <1>6, <1>7, <1>1
<1>9. CASE Ub(n)
  <2>1. ~Sb(n)
    BY <1>9, <1>5
  <2>2. s \notin After(st, b)
    BY <1>9, <1>8, <1>4, <2>1, <1>1
  <2> QED BY <2>1, <2>2, <1>9, <1>5
<1>10. CASE Sb(n)
  <2>1. ~Ub(n)
    BY <1>10, <1>5
  <2>2. \A j \in 1 .. Len(b) : Ub(j) => j < n
    BY <1>8, <2>1, <1>1
  <2> QED BY <2>2, <1>10, <1>4, <1>5
<1>11. CASE ~Ub(n) /\ ~Sb(n)
  <2>1. \A i \in 1 .. Len(a) : (Ua(i) <=> Ub(i)) /\ (Sa(i) <=> Sb(i))
    BY <1>11, <1>6, <1>7, <1>1
  <2> QED BY <2>1, <1>11, <1>3, <1>4, <1>5
<1> QED BY <1>9, <1>10, <1>11

\* A message that names nothing changes nothing.
LEMMA AfterAppend ==
    ASSUME NEW st \in SUBSET Candidate, NEW a \in Seq(Msg), NEW b \in Seq(Msg),
           Len(b) = Len(a) + 1,
           \A i \in 1 .. Len(a) : b[i] = a[i],
           b[Len(a) + 1].streams = {}
    PROVE  After(st, b) = After(st, a)
<1>1. /\ After(st, a) \subseteq Candidate /\ After(st, b) \subseteq Candidate
      /\ Len(a) \in Nat
  BY InAfter, LenProperties
<1> SUFFICES ASSUME NEW s \in Candidate
             PROVE  s \in After(st, b) <=> s \in After(st, a)
  BY <1>1
<1> DEFINE Ua(i) == Unsubscribes(a[i], s)
           Ub(i) == Unsubscribes(b[i], s)
           Sa(i) == Subscribes(a[i], s)
           Sb(i) == Subscribes(b[i], s)
<1>2. s \in After(st, a) <=>
         \/ s \in st /\ \A i \in 1 .. Len(a) : ~Ua(i)
         \/ \E i \in 1 .. Len(a) : Sa(i) /\ \A j \in 1 .. Len(a) : Ua(j) => j < i
  BY InAfter
<1>3. s \in After(st, b) <=>
         \/ s \in st /\ \A i \in 1 .. Len(b) : ~Ub(i)
         \/ \E i \in 1 .. Len(b) : Sb(i) /\ \A j \in 1 .. Len(b) : Ub(j) => j < i
  BY InAfter
<1>4. \A i \in 1 .. Len(a) : (Ua(i) <=> Ub(i)) /\ (Sa(i) <=> Sb(i))
  OBVIOUS
<1>5. ~Ub(Len(a) + 1) /\ ~Sb(Len(a) + 1)
  BY DEF Subscribes, Unsubscribes
<1>6. \A i \in 1 .. Len(b) : i \in 1 .. Len(a) \/ i = Len(a) + 1
  BY <1>1
<1>7. \A i \in 1 .. Len(a) : i \in 1 .. Len(b)
  BY <1>1
<1> HIDE DEF Ua, Ub, Sa, Sb
<1> QED BY <1>2, <1>3, <1>4, <1>5, <1>6, <1>7

\* Messages that contradict nothing of a target and name all it lacks reach it.
LEMMA AfterCovering ==
    ASSUME NEW st \in SUBSET Candidate, NEW target \in SUBSET Candidate,
           NEW ms \in Seq(Msg),
           \A i \in 1 .. Len(ms), s \in Candidate :
              /\ Subscribes(ms[i], s) => s \in target
              /\ Unsubscribes(ms[i], s) => s \notin target,
           \A s \in target \ st : \E i \in 1 .. Len(ms) : Subscribes(ms[i], s),
           \A s \in st \ target : \E i \in 1 .. Len(ms) : Unsubscribes(ms[i], s)
    PROVE  After(st, ms) = target
<1>1. After(st, ms) \subseteq Candidate
  BY InAfter
<1> SUFFICES ASSUME NEW s \in Candidate
             PROVE  s \in After(st, ms) <=> s \in target
  BY <1>1
<1> DEFINE U(i) == Unsubscribes(ms[i], s)
           S(i) == Subscribes(ms[i], s)
<1>2. s \in After(st, ms) <=>
         \/ s \in st /\ \A i \in 1 .. Len(ms) : ~U(i)
         \/ \E i \in 1 .. Len(ms) : S(i) /\ \A j \in 1 .. Len(ms) : U(j) => j < i
  BY InAfter
<1>3. \A i \in 1 .. Len(ms) : (S(i) => s \in target) /\ (U(i) => s \notin target)
  OBVIOUS
<1>4. /\ s \in target \ st => \E i \in 1 .. Len(ms) : S(i)
      /\ s \in st \ target => \E i \in 1 .. Len(ms) : U(i)
  OBVIOUS
<1> HIDE DEF U, S
<1> QED BY <1>2, <1>3, <1>4

-----------------------------------------------------------------------------
(* What is queued and what was sent. *)

\* SetToSeq leaves out nothing.
LEMMA InSequence ==
    ASSUME NEW S, IsFiniteSet(S)
    PROVE  LET s == SetToSeq(S)
           IN  /\ s \in Seq(S)
               /\ \A x \in S : \E i \in 1 .. Len(s) : s[i] = x
<1> DEFINE n == Cardinality(S)
           F == [1 .. n -> S]
           s == CHOOSE f \in F : IsInjective(f)
<1>1. n \in Nat /\ ExistsBijection(1 .. n, S)
  BY FS_CardinalityType
<1>2. IsFiniteSet(1 .. n) /\ Cardinality(1 .. n) = n
  BY <1>1, FS_Interval
<1>3. \E f \in F : IsInjective(f)
  BY <1>1 DEF ExistsBijection, Bijection, Injection
<1>4. s \in F /\ IsInjective(s)
  BY <1>3
<1>5. s = SetToSeq(S)
  BY DEF SetToSeq
<1> HIDE DEF s
<1>6. s \in Injection(1 .. n, S)
  BY <1>4 DEF Injection
<1>7. s \in Surjection(1 .. n, S)
  BY <1>2, <1>6, FS_Injection
<1>8. \A x \in S : \E i \in 1 .. n : s[i] = x
  BY <1>7 DEF Surjection
<1>9. s \in Seq(S)
  BY <1>1, <1>4, SeqDef
<1>10. Len(s) = n
  BY <1>1, <1>4, <1>9, LenProperties
<1> QED BY <1>5, <1>8, <1>9, <1>10

\* Chunk: nothing is lost, nothing is added.
LEMMA ChunkCovers ==
    ASSUME NEW method \in Method, NEW S \in SUBSET Candidate
    PROVE  LET b == Chunk(method, S)
           IN  /\ b \in Seq(Msg)
               /\ \A i \in 1 .. Len(b) : b[i].method = method /\ b[i].streams \subseteq S
               /\ \A x \in S : \E i \in 1 .. Len(b) : x \in b[i].streams
<1> DEFINE s == SetToSeq(S)
           batch(n) == {s[i] : i \in {j \in DOMAIN s : (j - 1) \div BatchSize = n - 1}}
           N == (Len(s) + BatchSize - 1) \div BatchSize
           b == [n \in 1 .. N |-> Message(method, batch(n))]
<1>1. IsFiniteSet(S)
  BY FS_Subset, TickStreamAssumption
<1>2. s \in Seq(S) /\ \A x \in S : \E i \in 1 .. Len(s) : s[i] = x
  BY <1>1, InSequence
<1>3. b = Chunk(method, S)
  BY DEF Chunk
<1> HIDE DEF s
<1>4. Len(s) \in Nat /\ DOMAIN s = 1 .. Len(s)
  BY <1>2, LenProperties
<1>5. BatchSize \in Nat /\ BatchSize > 0
  BY TickStreamAssumption
<1>6. N \in Nat
  BY <1>4, <1>5
<1>7. \A i \in 1 .. Len(s) : s[i] \in S
  BY <1>2, ElementOfSeq
<1>8. \A n : batch(n) \subseteq S
  BY <1>4, <1>7
<1>9. ASSUME NEW i \in 1 .. Len(s)
      PROVE  \E n \in 1 .. N : s[i] \in batch(n)
  <2> DEFINE q == (i - 1) \div BatchSize
  <2>1. q \in Nat /\ q * BatchSize <= i - 1
    BY <1>4, <1>5
  <2>2. (q + 1) * BatchSize <= Len(s) + BatchSize - 1
    BY <2>1, <1>4, <1>5
  <2> HIDE DEF q
  <2>3. q + 1 <= N
    BY <2>1, <2>2, <1>4, <1>5
  <2> HIDE DEF N
  <2>4. (i - 1) \div BatchSize = (q + 1) - 1
    BY <2>1 DEF q
  <2>5. s[i] \in batch(q + 1)
    BY <2>4, <1>4
  <2>6. q + 1 \in 1 .. N
    BY <2>1, <2>3, <1>6
  <2> QED BY <2>5, <2>6
<1> HIDE DEF batch, N
<1>10. \A n \in 1 .. N : Message(method, batch(n)) \in Msg
  BY <1>8 DEF Message, Msg
<1>11. b \in [1 .. N -> Msg]
  BY <1>10
<1>12. b \in Seq(Msg)
  BY <1>6, <1>11, SeqDef
<1>13. Len(b) = N
  BY <1>6, <1>11, <1>12, LenProperties
<1>14. \A n \in 1 .. N : b[n].method = method /\ b[n].streams = batch(n)
  BY DEF Message
<1> HIDE DEF b
<1>15. \A n \in 1 .. Len(b) : b[n].method = method /\ b[n].streams \subseteq S
  BY <1>8, <1>13, <1>14
<1>16. \A x \in S : \E n \in 1 .. Len(b) : x \in b[n].streams
  <2> TAKE x \in S
  <2>1. PICK i \in 1 .. Len(s) : s[i] = x
    BY <1>2
  <2>2. PICK n \in 1 .. N : s[i] \in batch(n)
    BY <1>9
  <2> QED BY <2>1, <2>2, <1>13, <1>14
<1> QED BY <1>3, <1>12, <1>15, <1>16

\* Fates: a message for each that was sent, empty when its fate is another.
LEMMA FatesKnown ==
    ASSUME NEW c, c.sent \in Seq(Sent), NEW fates
    PROVE  LET f == Fates(c, fates)
           IN  /\ f \in Seq(Msg)
               /\ Len(f) = Len(c.sent)
               /\ \A i \in 1 .. Len(c.sent) :
                    /\ f[i] = Message(c.sent[i].method,
                                  IF c.sent[i].fate \in fates THEN c.sent[i].streams ELSE {})
                    /\ f[i].method = c.sent[i].method
                    /\ c.sent[i].fate \in fates => f[i].streams = c.sent[i].streams
                    /\ c.sent[i].fate \notin fates => f[i].streams = {}
<1> DEFINE n == Len(c.sent)
           named(i) == Message(c.sent[i].method,
                           IF c.sent[i].fate \in fates THEN c.sent[i].streams ELSE {})
           f == [i \in 1 .. n |-> named(i)]
<1>1. n \in Nat /\ DOMAIN c.sent = 1 .. n
  BY LenProperties
<1>2. f = Fates(c, fates)
  BY <1>1 DEF Fates
<1>3. \A i \in 1 .. n : c.sent[i] \in Sent
  BY ElementOfSeq
<1>4. \A i \in 1 .. n : named(i) \in Msg
  BY <1>3 DEF Sent, Msg, Message
<1>5. f \in [1 .. n -> Msg]
  BY <1>4
<1>6. f \in Seq(Msg)
  BY <1>1, <1>5, SeqDef
<1>7. Len(f) = n
  BY <1>1, <1>5, <1>6, LenProperties
<1>8. \A i \in 1 .. n : /\ f[i] = named(i)
                        /\ f[i].method = c.sent[i].method
                        /\ c.sent[i].fate \in fates => f[i].streams = c.sent[i].streams
                        /\ c.sent[i].fate \notin fates => f[i].streams = {}
  BY DEF Message
<1> HIDE DEF f
<1> QED BY <1>2, <1>6, <1>7, <1>8

-----------------------------------------------------------------------------
(***************************************************************************)
(* The connections.                                                        *)
(***************************************************************************)

\* The exchange takes messages in the order in which they were sent.
TakenInOrder(c) ==
    \A i, j \in 1 .. Len(c.sent) :
        i < j /\ c.sent[i].fate = "out" => c.sent[j].fate = "out"

\* As long as no acknowledgement came too late every reply will be heeded.
NoneGivenUp(c) == ~c.late => \A i \in 1 .. Len(c.sent) : c.sent[i].awaited

\* A socket that is connecting has no past.
Blank(c) ==
    c.ws = "connecting" =>
        /\ c.active = {} /\ c.subs = {} /\ ~c.late
        /\ c.queue = <<>> /\ c.sent = <<>>

\* The conjuncts of ActiveIsTrue and AppliedIsUnderway, and of ConnectionKept.
BooksAgree(c) ==
    c.ws = "open" /\ ~c.late => After(c.active, Fates(c, {"ok"})) = c.subs

Underway(c) == Fates(c, {"out", "ok"}) \o c.queue

NothingLost(c) ==
    c.ws = "open" /\ ~c.astray /\ ~c.late => After(c.active, Underway(c)) = c.wanted

Kept(c) == \/ c.ws \in {"connecting", "open", "closing"}
           \/ c.leaving > 0 \/ c.timers > 0

\* A connection as every step leaves it.
Good(c) ==
    /\ c \in ConnectionType
    /\ TakenInOrder(c) /\ NoneGivenUp(c) /\ Blank(c) /\ BooksAgree(c) /\ NothingLost(c)

\* The elements of two sequences, one after the other.
LEMMA JoinedSeq ==
    ASSUME NEW a \in Seq(Msg), NEW b \in Seq(Msg)
    PROVE  /\ a \o b \in Seq(Msg)
           /\ \A i \in 1 .. Len(a \o b) : \/ i \in 1 .. Len(a) /\ (a \o b)[i] = a[i]
                                          \/ i - Len(a) \in 1 .. Len(b)
                                             /\ (a \o b)[i] = b[i - Len(a)]
           /\ \A i \in 1 .. Len(a) : i \in 1 .. Len(a \o b) /\ (a \o b)[i] = a[i]
           /\ \A i \in 1 .. Len(b) : /\ Len(a) + i \in 1 .. Len(a \o b)
                                     /\ (a \o b)[Len(a) + i] = b[i]
<1> DEFINE j == a \o b
<1>1. /\ j \in Seq(Msg) /\ Len(j) = Len(a) + Len(b)
      /\ \A i \in 1 .. Len(a) + Len(b) : j[i] = IF i <= Len(a) THEN a[i] ELSE b[i - Len(a)]
  BY ConcatProperties
<1>2. Len(a) \in Nat /\ Len(b) \in Nat
  BY LenProperties
<1> HIDE DEF j
<1>3. \A i \in 1 .. Len(j) : \/ i \in 1 .. Len(a) /\ j[i] = a[i]
                             \/ i - Len(a) \in 1 .. Len(b) /\ j[i] = b[i - Len(a)]
  BY <1>1, <1>2
<1>4. \A i \in 1 .. Len(a) : i \in 1 .. Len(j) /\ j[i] = a[i]
  BY <1>1, <1>2
<1>5. \A i \in 1 .. Len(b) : Len(a) + i \in 1 .. Len(j) /\ j[Len(a) + i] = b[i]
  <2> TAKE i \in 1 .. Len(b)
  <2>1. /\ Len(a) + i \in 1 .. Len(a) + Len(b) /\ ~(Len(a) + i <= Len(a))
        /\ Len(a) + i - Len(a) = i
    BY <1>2
  <2> QED BY <2>1, <1>1
<1> QED BY <1>1, <1>3, <1>4, <1>5 DEF j

LEMMA Regrouped ==
    ASSUME NEW a \in Seq(Msg), NEW b \in Seq(Msg), NEW c \in Seq(Msg)
    PROVE  (a \o b) \o c = a \o (b \o c)
BY ConcatAssociative

\* What is under way: what was sent and not refused, then what is queued.
LEMMA UnderwayKnown ==
    ASSUME NEW c \in ConnectionType
    PROVE  LET f == Fates(c, {"out", "ok"})
               u == Underway(c)
           IN  /\ u \in Seq(Msg)
               /\ Len(u) = Len(f) + Len(c.queue)
               /\ \A i \in 1 .. Len(f) : u[i] = f[i]
               /\ \A i \in 1 .. Len(c.queue) : u[Len(f) + i] = c.queue[i]
<1> DEFINE f == Fates(c, {"out", "ok"})
           q == c.queue
<1>1. c.sent \in Seq(Sent) /\ q \in Seq(Msg)
  BY DEF ConnectionType
<1>2. f \in Seq(Msg)
  BY <1>1, FatesKnown
<1>3. Len(f) \in Nat /\ Len(q) \in Nat
  BY <1>1, <1>2, LenProperties
<1>4. Underway(c) = f \o q
  BY DEF Underway
<1> HIDE DEF f, q
<1>5. /\ f \o q \in Seq(Msg) /\ Len(f \o q) = Len(f) + Len(q)
      /\ \A i \in 1 .. Len(f) + Len(q) :
            (f \o q)[i] = IF i <= Len(f) THEN f[i] ELSE q[i - Len(f)]
  BY <1>1, <1>2, ConcatProperties
<1>6. \A i \in 1 .. Len(f) : (f \o q)[i] = f[i]
  BY <1>3, <1>5
<1>7. \A i \in 1 .. Len(q) : (f \o q)[Len(f) + i] = q[i]
  <2> TAKE i \in 1 .. Len(q)
  <2>1. Len(f) + i \in 1 .. Len(f) + Len(q) /\ ~(Len(f) + i <= Len(f))
        /\ Len(f) + i - Len(f) = i
    BY <1>3
  <2> QED BY <2>1, <1>5
<1> QED BY <1>4, <1>5, <1>6, <1>7 DEF f, q

\* Reconcile on an open connection, from whatever was queued before.
LEMMA ReconcileReaches ==
    ASSUME desired \in SUBSET Candidate, NEW c \in ConnectionType, c.ws = "open"
    PROVE  LET d == Reconcile(c)
           IN  /\ d \in ConnectionType
               /\ d.sent = c.sent /\ d.ws = "open" /\ d.active = c.active
               /\ d.subs = c.subs /\ d.late = c.late
               /\ d.timers = c.timers /\ d.leaving = c.leaving
               /\ NothingLost(d)
<1> DEFINE lacking     == desired \ c.active
           surplus     == c.active \ desired
           subscribe   == Chunk("SUBSCRIBE", lacking)
           unsubscribe == Chunk("UNSUBSCRIBE", surplus)
           batches     == subscribe \o unsubscribe
           fates       == Fates(c, {"out", "ok"})
           before      == Underway(c)
           astray      == \E i \in DOMAIN before : Contradicts(before[i])
           due         == c.ctrl \/ batches # <<>>
           d           == Reconcile(c)
<1>1. /\ c.active \in SUBSET Candidate /\ c.queue \in Seq(Msg) /\ c.sent \in Seq(Sent)
  BY DEF ConnectionType
<1>2. "SUBSCRIBE" \in Method /\ "UNSUBSCRIBE" \in Method /\ lacking \in SUBSET Candidate
      /\ surplus \in SUBSET Candidate
  BY <1>1 DEF Method
<1>3. d = [c EXCEPT !.wanted = desired, !.queue = c.queue \o batches,
                    !.ctrl = due, !.astray = astray]
  BY DEF Reconcile, Underway
<1>4. Underway(c) = fates \o c.queue
  BY DEF Underway
<1>5. /\ \A x \in lacking : x \in desired /\ x \notin c.active
      /\ \A x \in surplus : x \notin desired /\ x \in c.active
      /\ \A x \in desired \ c.active : x \in lacking
      /\ \A x \in c.active \ desired : x \in surplus
  OBVIOUS
<1> HIDE DEF lacking, surplus
<1>6. /\ subscribe \in Seq(Msg)
      /\ \A i \in 1 .. Len(subscribe) : /\ subscribe[i].method = "SUBSCRIBE"
                                        /\ subscribe[i].streams \subseteq lacking
      /\ \A x \in lacking : \E i \in 1 .. Len(subscribe) : x \in subscribe[i].streams
  BY <1>2, ChunkCovers
<1>7. /\ unsubscribe \in Seq(Msg)
      /\ \A i \in 1 .. Len(unsubscribe) : /\ unsubscribe[i].method = "UNSUBSCRIBE"
                                          /\ unsubscribe[i].streams \subseteq surplus
      /\ \A x \in surplus : \E i \in 1 .. Len(unsubscribe) : x \in unsubscribe[i].streams
  BY <1>2, ChunkCovers
<1> HIDE DEF subscribe, unsubscribe
<1>8. batches \in Seq(Msg)
  BY <1>6, <1>7, JoinedSeq
<1>9. \A i \in 1 .. Len(batches) :
         \/ batches[i].method = "SUBSCRIBE" /\ batches[i].streams \subseteq lacking
         \/ batches[i].method = "UNSUBSCRIBE" /\ batches[i].streams \subseteq surplus
  BY <1>6, <1>7, JoinedSeq
<1>10. /\ \A x \in lacking : \E i \in 1 .. Len(batches) : Subscribes(batches[i], x)
       /\ \A x \in surplus : \E i \in 1 .. Len(batches) : Unsubscribes(batches[i], x)
  <2>1. /\ \A i \in 1 .. Len(subscribe) :
              i \in 1 .. Len(batches) /\ batches[i] = subscribe[i]
        /\ \A i \in 1 .. Len(unsubscribe) :
              /\ Len(subscribe) + i \in 1 .. Len(batches)
              /\ batches[Len(subscribe) + i] = unsubscribe[i]
    BY <1>6, <1>7, JoinedSeq
  <2> HIDE DEF batches
  <2>2. ASSUME NEW x \in lacking
        PROVE  \E i \in 1 .. Len(batches) : Subscribes(batches[i], x)
    <3>1. PICK i \in 1 .. Len(subscribe) : x \in subscribe[i].streams
      BY <1>6
    <3> QED BY <3>1, <2>1, <1>6 DEF Subscribes
  <2>3. ASSUME NEW x \in surplus
        PROVE  \E i \in 1 .. Len(batches) : Unsubscribes(batches[i], x)
    <3>1. PICK i \in 1 .. Len(unsubscribe) : x \in unsubscribe[i].streams
      BY <1>7
    <3>2. Unsubscribes(unsubscribe[i], x)
      BY <3>1, <1>7 DEF Unsubscribes
    <3> QED BY <3>2, <2>1
  <2> QED BY <2>2, <2>3
<1> HIDE DEF batches
<1>11. before \in Seq(Msg) /\ fates \in Seq(Msg) /\ DOMAIN before = 1 .. Len(before)
  <2>1. before \in Seq(Msg) /\ fates \in Seq(Msg)
    BY <1>1, UnderwayKnown, FatesKnown
  <2> QED BY <2>1, LenProperties
<1>12. c.queue \o batches \in Seq(Msg)
  BY <1>1, <1>8, ConcatProperties
<1>13. due \in BOOLEAN /\ astray \in BOOLEAN
  BY <1>1
<1> HIDE DEF due
<1>14. /\ d.sent = c.sent /\ d.ws = "open" /\ d.active = c.active
       /\ d.subs = c.subs /\ d.late = c.late
       /\ d.timers = c.timers /\ d.leaving = c.leaving
       /\ d.queue = c.queue \o batches /\ d.wanted = desired
  BY <1>3 DEF ConnectionType
<1>15. d.astray <=> astray
  BY <1>3 DEF ConnectionType
<1>16. d \in ConnectionType
  <2> HIDE DEF astray
  <2> QED BY <1>3, <1>12, <1>13 DEF ConnectionType
<1>17. NothingLost(d)
  <2> SUFFICES ASSUME ~astray
               PROVE  After(c.active, Underway(d)) = desired
    BY <1>14, <1>15 DEF NothingLost
  <2>1. Underway(d) = before \o batches
    <3>1. Underway(d) = fates \o (c.queue \o batches)
      BY <1>14 DEF Underway, Fates
    <3>2. (fates \o c.queue) \o batches = fates \o (c.queue \o batches)
      BY <1>1, <1>8, <1>11, Regrouped
    <3> QED BY <3>1, <3>2, <1>4
  <2> DEFINE all == before \o batches
  <2>2. all \in Seq(Msg)
    BY <1>8, <1>11, JoinedSeq
  <2>3. \A i \in 1 .. Len(before) : ~Contradicts(before[i])
    BY <1>11
  <2> HIDE DEF before, d, fates
  <2>4. \A i \in 1 .. Len(all) : \/ \E j \in 1 .. Len(before) : all[i] = before[j]
                                 \/ \E j \in 1 .. Len(batches) : all[i] = batches[j]
    BY <1>8, <1>11, JoinedSeq
  <2>5. \A j \in 1 .. Len(batches) : \E i \in 1 .. Len(all) : all[i] = batches[j]
    BY <1>8, <1>11, JoinedSeq
  <2> HIDE DEF all
  <2>6. ASSUME NEW i \in 1 .. Len(all), NEW s \in Candidate
        PROVE  /\ Subscribes(all[i], s) => s \in desired
               /\ Unsubscribes(all[i], s) => s \notin desired
    <3>1. CASE \E j \in 1 .. Len(before) : all[i] = before[j]
      BY <3>1, <2>3 DEF Contradicts, Subscribes, Unsubscribes
    <3>2. CASE \E j \in 1 .. Len(batches) : all[i] = batches[j]
      BY <3>2, <1>5, <1>9 DEF Subscribes, Unsubscribes
    <3> QED BY <3>1, <3>2, <2>4
  <2>7. /\ \A s \in desired \ c.active : \E i \in 1 .. Len(all) : Subscribes(all[i], s)
        /\ \A s \in c.active \ desired : \E i \in 1 .. Len(all) : Unsubscribes(all[i], s)
    BY <1>5, <1>10, <2>5
  <2>8. After(c.active, all) = desired
    BY <1>1, <2>2, <2>6, <2>7, AfterCovering
  <2> QED BY <2>1, <2>8 DEF all
<1> QED BY <1>14, <1>16, <1>17

\* What changes neither the books nor the socket keeps the invariant.
LEMMA SameBooks ==
    ASSUME NEW c, Good(c), NEW d \in ConnectionType,
           /\ d.ws = c.ws /\ d.active = c.active /\ d.wanted = c.wanted
           /\ d.queue = c.queue /\ d.sent = c.sent /\ d.subs = c.subs
           /\ d.astray = c.astray /\ d.late = c.late
    PROVE  Good(d)
BY DEF Good, TakenInOrder, NoneGivenUp, Blank, BooksAgree, NothingLost, Underway, Fates

\* Of a socket that is neither connecting nor open only the messages count.
LEMMA OffLine ==
    ASSUME NEW d \in ConnectionType, d.ws \notin {"connecting", "open"},
           TakenInOrder(d), NoneGivenUp(d)
    PROVE  Good(d)
BY DEF Good, Blank, BooksAgree, NothingLost

\* On a socket that nothing was sent on.
LEMMA NothingSent ==
    ASSUME NEW d, d.sent = <<>>
    PROVE  TakenInOrder(d) /\ NoneGivenUp(d)
<1>1. Len(d.sent) = 0
  BY EmptySeq
<1> QED BY <1>1 DEF TakenInOrder, NoneGivenUp

\* Each private method, and each step of the exchange, leaves a connection as it
\* should be.
LEMMA GoodNew == Good(NewState)
<1> DEFINE d == NewState
<1>1. /\ d.ws = "none" /\ d.sent = <<>>
  BY DEF NewState
<1>2. <<>> \in Seq(Msg) /\ <<>> \in Seq(Sent)
  BY EmptySeq
<1>3. d \in ConnectionType
  BY <1>2 DEF NewState, ConnectionType
<1> HIDE DEF d
<1> QED BY <1>1, <1>3, NothingSent, OffLine DEF d

LEMMA GoodScheduled ==
    ASSUME NEW c, Good(c)
    PROVE  Good(ScheduleReconnect(c)) /\ Kept(ScheduleReconnect(c))
<1> DEFINE d == ScheduleReconnect(c)
<1>1. c \in ConnectionType
  BY DEF Good
<1>2. d \in ConnectionType
  BY <1>1 DEF ScheduleReconnect, ConnectionType
<1>3. /\ d.ws = c.ws /\ d.active = c.active /\ d.wanted = c.wanted
      /\ d.queue = c.queue /\ d.sent = c.sent /\ d.subs = c.subs
      /\ d.astray = c.astray /\ d.late = c.late /\ d.timers > 0
  BY <1>1 DEF ScheduleReconnect, ConnectionType
<1> HIDE DEF d
<1> QED BY <1>2, <1>3, SameBooks DEF Kept, d

LEMMA GoodOpening ==
    ASSUME NEW c, Good(c), NEW throws
    PROVE  LET d == OpenPersistentConnection(c, throws) IN Good(d) /\ Kept(d)
<1> DEFINE left == IF c.ws = "closing" THEN c.leaving + 1 ELSE c.leaving
           d    == [NewState EXCEPT !.ws = "connecting", !.timers = c.timers, !.leaving = left]
<1>1. CASE c.ws \in {"connecting", "open"}
  BY <1>1 DEF OpenPersistentConnection, Kept
<1>2. CASE c.ws \notin {"connecting", "open"} /\ throws
  BY <1>2, GoodScheduled DEF OpenPersistentConnection
<1>3. CASE c.ws \notin {"connecting", "open"} /\ ~throws
  <2>1. c.timers \in Nat /\ left \in Nat
    BY DEF Good, ConnectionType
  <2>2. OpenPersistentConnection(c, throws) = d
    BY <1>3 DEF OpenPersistentConnection
  <2> HIDE DEF left
  <2>3. <<>> \in Seq(Msg) /\ <<>> \in Seq(Sent)
    BY EmptySeq
  <2>4. d \in ConnectionType
    BY <2>1, <2>3 DEF NewState, ConnectionType
  <2>5. /\ d.ws = "connecting" /\ d.sent = <<>> /\ d.queue = <<>>
        /\ d.active = {} /\ d.subs = {} /\ ~d.late
    BY DEF NewState
  <2> HIDE DEF d
  <2>6. Good(d)
    BY <2>4, <2>5, NothingSent DEF Good, Blank, BooksAgree, NothingLost
  <2> QED BY <2>2, <2>5, <2>6 DEF Kept
<1> QED BY <1>1, <1>2, <1>3

LEMMA GoodClosed ==
    ASSUME NEW c, Good(c)
    PROVE  Good(OnClose(c)) /\ Kept(OnClose(c))
<1> DEFINE d == [c EXCEPT !.ws = "closed", !.rotation = FALSE]
<1>1. d \in ConnectionType
  BY DEF Good, ConnectionType
<1>2. d.ws = "closed" /\ d.sent = c.sent /\ d.late = c.late
  BY DEF Good, ConnectionType
<1> HIDE DEF d
<1>3. TakenInOrder(d) /\ NoneGivenUp(d)
  BY <1>2 DEF Good, TakenInOrder, NoneGivenUp
<1>4. Good(d)
  BY <1>1, <1>2, <1>3, OffLine
<1> QED BY <1>4, GoodScheduled DEF OnClose, d

LEMMA GoodParted ==
    ASSUME NEW c, Good(c), NEW ws \in {"none", "closing"}
    PROVE  Good(Parted(c, ws))
<1> DEFINE d == Parted(c, ws)
<1>1. <<>> \in Seq(Sent)
  BY EmptySeq
<1>2. d \in ConnectionType
  BY <1>1 DEF Good, ConnectionType, Parted
<1>3. d.ws = ws /\ d.sent = <<>>
  BY DEF Good, ConnectionType, Parted
<1> HIDE DEF d
<1>4. Good(d)
  BY <1>2, <1>3, NothingSent, OffLine
<1> QED BY <1>4 DEF d

LEMMA GoodRotated ==
    ASSUME NEW c, Good(c)
    PROVE  Good(Rotated(c)) /\ Kept(Rotated(c))
<1> DEFINE p == Parted(c, "none")
           more == p.leaving + 1
           r == [p EXCEPT !.rotation = FALSE, !.leaving = more]
<1>1. Good(p)
  BY GoodParted
<1> HIDE DEF p
<1>2. r \in ConnectionType
  <2>1. more \in Nat
    BY <1>1 DEF Good, ConnectionType
  <2> HIDE DEF more
  <2> QED BY <1>1, <2>1 DEF Good, ConnectionType
<1>3. /\ r.ws = p.ws /\ r.active = p.active /\ r.wanted = p.wanted
      /\ r.queue = p.queue /\ r.sent = p.sent /\ r.subs = p.subs
      /\ r.astray = p.astray /\ r.late = p.late /\ r.leaving > 0
  BY <1>1 DEF Good, ConnectionType
<1> HIDE DEF r
<1>4. Good(r) /\ Kept(r)
  BY <1>1, <1>2, <1>3, SameBooks DEF Kept
<1>5. Rotated(c) = r \/ Rotated(c) = ScheduleReconnect(r)
  BY DEF Rotated, r, p
<1> QED BY <1>4, <1>5, GoodScheduled

LEMMA GoodLeft ==
    ASSUME NEW c, Good(c), c.leaving > 0
    PROVE  LET d == ScheduleReconnect([c EXCEPT !.leaving = @ - 1]) IN Good(d) /\ Kept(d)
<1> DEFINE less == c.leaving - 1
           r == [c EXCEPT !.leaving = less]
<1>1. c \in ConnectionType
  BY DEF Good
<1>2. r \in ConnectionType
  <2>1. less \in Nat
    BY <1>1 DEF ConnectionType
  <2> HIDE DEF less
  <2> QED BY <1>1, <2>1 DEF ConnectionType
<1>3. /\ r.ws = c.ws /\ r.active = c.active /\ r.wanted = c.wanted
      /\ r.queue = c.queue /\ r.sent = c.sent /\ r.subs = c.subs
      /\ r.astray = c.astray /\ r.late = c.late
  BY <1>1 DEF ConnectionType
<1> HIDE DEF r
<1>4. Good(r)
  BY <1>2, <1>3, SameBooks
<1> QED BY <1>4, GoodScheduled DEF r

LEMMA GoodTimerSpent ==
    ASSUME NEW c, Good(c), c.timers > 0
    PROVE  Good([c EXCEPT !.timers = @ - 1])
<1> DEFINE r == [c EXCEPT !.timers = @ - 1]
<1>1. c \in ConnectionType
  BY DEF Good
<1>2. r \in ConnectionType
  BY <1>1 DEF ConnectionType
<1>3. /\ r.ws = c.ws /\ r.active = c.active /\ r.wanted = c.wanted
      /\ r.queue = c.queue /\ r.sent = c.sent /\ r.subs = c.subs
      /\ r.astray = c.astray /\ r.late = c.late
  BY <1>1 DEF ConnectionType
<1> HIDE DEF r
<1>4. Good(r)
  BY <1>2, <1>3, SameBooks
<1> QED BY <1>4 DEF r

\* _reconcileSubscriptions, whether the connection is open or not.
LEMMA GoodReconciled ==
    ASSUME desired \in SUBSET Candidate, NEW c, Good(c)
    PROVE  /\ Good(Reconcile(c))
           /\ Kept(c) => Kept(Reconcile(c))
<1> DEFINE d == Reconcile(c)
<1>1. CASE c.ws # "open"
  BY <1>1 DEF Reconcile
<1>2. CASE c.ws = "open"
  <2>1. /\ d \in ConnectionType
        /\ d.sent = c.sent /\ d.ws = "open" /\ d.active = c.active
        /\ d.subs = c.subs /\ d.late = c.late
        /\ d.timers = c.timers /\ d.leaving = c.leaving
        /\ NothingLost(d)
    BY <1>2, ReconcileReaches DEF Good
  <2> HIDE DEF d
  <2>2. Good(d)
    BY <1>2, <2>1 DEF Good, TakenInOrder, NoneGivenUp, Blank, BooksAgree, Fates
  <2>3. Kept(d)
    BY <2>1 DEF Kept
  <2> QED BY <2>2, <2>3 DEF d
<1> QED BY <1>1, <1>2

\* onopen: the first reconciliation, from a socket without a past.
LEMMA GoodOpened ==
    ASSUME desired \in SUBSET Candidate, NEW c, Good(c), c.ws = "connecting"
    PROVE  LET d == Reconcile([c EXCEPT !.ws = "open", !.rotation = TRUE, !.active = {}])
           IN  Good(d) /\ Kept(d)
<1> DEFINE o == [c EXCEPT !.ws = "open", !.rotation = TRUE, !.active = {}]
           d == Reconcile(o)
           f == Fates(d, {"ok"})
<1>1. c \in ConnectionType /\ c.subs = {} /\ c.sent = <<>> /\ ~c.late
  BY DEF Good, Blank
<1>2. o \in ConnectionType
  BY <1>1 DEF ConnectionType
<1>3. o.ws = "open" /\ o.active = {} /\ o.subs = {} /\ o.sent = <<>>
  BY <1>1 DEF ConnectionType
<1> HIDE DEF o
<1>4. /\ d \in ConnectionType
      /\ d.sent = <<>> /\ d.ws = "open" /\ d.active = {} /\ d.subs = {}
      /\ NothingLost(d)
  BY <1>2, <1>3, ReconcileReaches
<1> HIDE DEF d
<1>5. f \in Seq(Msg) /\ Len(f) = 0
  <2>1. d.sent \in Seq(Sent) /\ Len(d.sent) = 0
    BY <1>4, EmptySeq
  <2> QED BY <2>1, FatesKnown
<1> HIDE DEF f
<1>6. After(d.active, f) = d.subs
  BY <1>4, <1>5, AfterNone
<1>7. Good(d)
  BY <1>4, <1>6, NothingSent DEF Good, Blank, BooksAgree, f
<1> QED BY <1>4, <1>7 DEF Kept, d, o

-----------------------------------------------------------------------------
(* Control messages: what each of them does to the books. *)

\* The first of several messages takes effect.
LEMMA AfterShift ==
    ASSUME NEW st \in SUBSET Candidate, NEW u \in Seq(Msg), NEW v \in Seq(Msg),
           Len(u) = Len(v) + 1,
           \A i \in 1 .. Len(v) : /\ v[i].method = u[i + 1].method
                                  /\ v[i].streams = u[i + 1].streams
    PROVE  After(st, u) = After(Applied(st, u[1]), v)
<1>1. Len(v) \in Nat /\ Len(u) # 0
  BY LenProperties
<1>2. u # <<>>
  BY <1>1, EmptySeq
<1>3. /\ Head(u) \in Msg /\ Tail(u) \in Seq(Msg)
      /\ After(st, u) = After(Applied(st, Head(u)), Tail(u))
  BY <1>2, AfterHead
<1>4. /\ Head(u) = u[1] /\ Len(Tail(u)) = Len(v)
      /\ \A i \in 1 .. Len(v) : Tail(u)[i] = u[i + 1]
  <2>1. /\ Len(Tail(u)) = Len(u) - 1
        /\ \A i \in 1 .. Len(Tail(u)) : Tail(u)[i] = u[i + 1]
    BY <1>2, HeadTailProperties
  <2> QED BY <2>1, <1>1
<1>5. Applied(st, u[1]) \in SUBSET Candidate
  BY <1>3, <1>4 DEF Applied, Msg
<1> DEFINE t == Tail(u)
<1>6. /\ t \in Seq(Msg) /\ Len(t) = Len(v)
      /\ \A i \in 1 .. Len(t) : t[i].method = v[i].method /\ t[i].streams = v[i].streams
  BY <1>3, <1>4
<1> HIDE DEF t
<1>7. After(Applied(st, u[1]), t) = After(Applied(st, u[1]), v)
  BY <1>5, <1>6, AfterSame
<1> QED BY <1>3, <1>4, <1>7 DEF t

\* _handleCtrlAck: the oldest reply is taken from what is on its way.
LEMMA GoodAnswered ==
    ASSUME NEW c, Good(c), c.sent # <<>>, Head(c.sent).fate # "out"
    PROVE  LET d == [c EXCEPT !.sent = Tail(@), !.active = Acknowledged(c, Head(c.sent))]
           IN  /\ Good(d)
               /\ Kept(c) => Kept(d)
<1> DEFINE m == c.sent[1]
           n == Len(c.sent)
           rest == Tail(c.sent)
           now == Acknowledged(c, m)
           d == [c EXCEPT !.sent = rest, !.active = now]
<1>1. c \in ConnectionType /\ c.sent \in Seq(Sent) /\ c.active \in SUBSET Candidate
  BY DEF Good, ConnectionType
<1>2. /\ n \in Nat \ {0} /\ m \in Sent /\ m = Head(c.sent) /\ m.fate # "out"
      /\ rest \in Seq(Sent) /\ Len(rest) = n - 1
      /\ \A i \in 1 .. Len(rest) : i + 1 \in 1 .. n /\ rest[i] = c.sent[i + 1]
  <2>1. n \in Nat \ {0}
    BY <1>1, EmptySeq
  <2>2. m \in Sent
    BY <1>1, <2>1, ElementOfSeq
  <2>3. m = Head(c.sent)
    BY <1>1, <2>1
  <2>4. /\ rest \in Seq(Sent) /\ Len(rest) = n - 1
        /\ \A i \in 1 .. Len(rest) : rest[i] = c.sent[i + 1]
    BY <1>1, HeadTailProperties
  <2> QED BY <2>1, <2>2, <2>3, <2>4
<1>3. now \in SUBSET Candidate
  BY <1>1, <1>2 DEF Acknowledged, Applied, Sent
<1> HIDE DEF m, now, rest
<1>4. d \in ConnectionType
  BY <1>1, <1>2, <1>3 DEF ConnectionType
<1>5. /\ d.sent = rest /\ d.active = now /\ d.ws = c.ws /\ d.subs = c.subs
      /\ d.wanted = c.wanted /\ d.queue = c.queue /\ d.astray = c.astray
      /\ d.late = c.late /\ d.leaving = c.leaving /\ d.timers = c.timers
  BY <1>1 DEF ConnectionType
<1> HIDE DEF d
<1>6. TakenInOrder(d)
  <2> SUFFICES ASSUME NEW i \in 1 .. Len(rest), NEW j \in 1 .. Len(rest),
                      i < j, rest[i].fate = "out"
               PROVE  rest[j].fate = "out"
    BY <1>5 DEF TakenInOrder
  <2>1. /\ i + 1 \in 1 .. n /\ j + 1 \in 1 .. n /\ i + 1 < j + 1
        /\ c.sent[i + 1].fate = "out"
    BY <1>2
  <2>2. c.sent[j + 1].fate = "out"
    BY <2>1 DEF Good, TakenInOrder
  <2> QED BY <2>2, <1>2
<1>7. NoneGivenUp(d)
  BY <1>2, <1>5 DEF Good, NoneGivenUp
<1>8. Blank(d)
  BY <1>5 DEF Good, Blank
<1>9. ASSUME NEW fates \in {{"ok"}, {"out", "ok"}}, ~c.late
      PROVE  LET f == Fates(c, fates)
                 g == Fates(d, fates)
             IN  /\ f \in Seq(Msg) /\ g \in Seq(Msg) /\ Len(f) = Len(g) + 1
                 /\ \A i \in 1 .. Len(g) : /\ g[i].method = f[i + 1].method
                                           /\ g[i].streams = f[i + 1].streams
                 /\ Applied(c.active, f[1]) = now
  <2> DEFINE f == Fates(c, fates)
             g == Fates(d, fates)
  <2>1. /\ f \in Seq(Msg) /\ Len(f) = n
        /\ \A i \in 1 .. n : /\ f[i].method = c.sent[i].method
                             /\ c.sent[i].fate \in fates => f[i].streams = c.sent[i].streams
                             /\ c.sent[i].fate \notin fates => f[i].streams = {}
    BY <1>1, FatesKnown
  <2>2. /\ g \in Seq(Msg) /\ Len(g) = Len(rest)
        /\ \A i \in 1 .. Len(rest) :
              /\ g[i].method = rest[i].method
              /\ rest[i].fate \in fates => g[i].streams = rest[i].streams
              /\ rest[i].fate \notin fates => g[i].streams = {}
    <3>1. d.sent \in Seq(Sent)
      BY <1>2, <1>5
    <3> QED BY <3>1, <1>5, FatesKnown
  <2> HIDE DEF f, g
  <2>3. Len(f) = Len(g) + 1
    BY <2>1, <2>2, <1>2
  <2>4. \A i \in 1 .. Len(g) : /\ g[i].method = f[i + 1].method
                               /\ g[i].streams = f[i + 1].streams
    <3> TAKE i \in 1 .. Len(g)
    <3>1. i + 1 \in 1 .. n /\ rest[i] = c.sent[i + 1]
      BY <1>2, <2>2
    <3> QED BY <3>1, <2>1, <2>2
  <2>5. Applied(c.active, f[1]) = now
    <3>1. 1 \in 1 .. n /\ m = c.sent[1]
      BY <1>2 DEF m
    <3>2. f[1].method = m.method
      BY <3>1, <2>1
    <3>3. m.awaited
      BY <3>1, <1>9 DEF Good, NoneGivenUp
    <3>4. CASE m.fate = "ok"
      <4>1. f[1].streams = m.streams
        BY <3>1, <3>4, <2>1
      <4> QED BY <3>2, <3>3, <3>4, <4>1 DEF now, Acknowledged, Applied
    <3>5. CASE m.fate = "error"
      <4>1. f[1].streams = {}
        BY <3>1, <3>5, <2>1
      <4> QED BY <3>2, <3>5, <4>1 DEF now, Acknowledged, Applied
    <3> QED BY <3>4, <3>5, <1>2 DEF Sent
  <2> QED BY <2>1, <2>2, <2>3, <2>4, <2>5 DEF f, g
<1>10. BooksAgree(d)
  <2> SUFFICES ASSUME c.ws = "open", ~c.late
               PROVE  After(now, Fates(d, {"ok"})) = c.subs
    BY <1>5 DEF BooksAgree
  <2> DEFINE f == Fates(c, {"ok"})
             g == Fates(d, {"ok"})
  <2>1. /\ f \in Seq(Msg) /\ g \in Seq(Msg) /\ Len(f) = Len(g) + 1
        /\ \A i \in 1 .. Len(g) : /\ g[i].method = f[i + 1].method
                                  /\ g[i].streams = f[i + 1].streams
        /\ Applied(c.active, f[1]) = now
    BY <1>9
  <2>2. After(c.active, f) = c.subs
    BY DEF Good, BooksAgree
  <2> HIDE DEF f, g
  <2>3. After(c.active, f) = After(Applied(c.active, f[1]), g)
    BY <1>1, <2>1, AfterShift
  <2> QED BY <2>1, <2>2, <2>3 DEF g
<1>11. NothingLost(d)
  <2> SUFFICES ASSUME c.ws = "open", ~c.late, ~c.astray
               PROVE  After(now, Underway(d)) = c.wanted
    BY <1>5 DEF NothingLost
  <2> DEFINE f == Fates(c, {"out", "ok"})
             g == Fates(d, {"out", "ok"})
             u == Underway(c)
             v == Underway(d)
             q == c.queue
  <2>1. /\ f \in Seq(Msg) /\ g \in Seq(Msg) /\ Len(f) = Len(g) + 1
        /\ \A i \in 1 .. Len(g) : /\ g[i].method = f[i + 1].method
                                  /\ g[i].streams = f[i + 1].streams
        /\ Applied(c.active, f[1]) = now
    BY <1>9
  <2>2. After(c.active, u) = c.wanted
    BY DEF Good, NothingLost
  <2>3. /\ u \in Seq(Msg) /\ Len(u) = Len(f) + Len(q)
        /\ \A i \in 1 .. Len(f) : u[i] = f[i]
        /\ \A i \in 1 .. Len(q) : u[Len(f) + i] = q[i]
    BY <1>1, UnderwayKnown
  <2>4. /\ v \in Seq(Msg) /\ Len(v) = Len(g) + Len(q)
        /\ \A i \in 1 .. Len(g) : v[i] = g[i]
        /\ \A i \in 1 .. Len(q) : v[Len(g) + i] = q[i]
    BY <1>4, <1>5, UnderwayKnown
  <2>5. Len(g) \in Nat /\ Len(q) \in Nat
    <3>1. q \in Seq(Msg)
      BY <1>1 DEF ConnectionType
    <3> QED BY <2>1, <3>1, LenProperties
  <2> HIDE DEF f, g, u, v, q
  <2>6. Len(u) = Len(v) + 1
    BY <2>1, <2>3, <2>4, <2>5
  <2>7. u[1] = f[1]
    BY <2>1, <2>3, <2>5
  <2>8. \A i \in 1 .. Len(v) : v[i].method = u[i + 1].method /\ v[i].streams = u[i + 1].streams
    <3> TAKE i \in 1 .. Len(v)
    <3>1. CASE i \in 1 .. Len(g)
      <4>1. u[i + 1] = f[i + 1]
        BY <3>1, <2>1, <2>3, <2>5
      <4> QED BY <3>1, <4>1, <2>1, <2>4
    <3>2. CASE i - Len(g) \in 1 .. Len(q)
      <4>1. /\ v[Len(g) + (i - Len(g))] = q[i - Len(g)]
            /\ u[Len(f) + (i - Len(g))] = q[i - Len(g)]
        BY <3>2, <2>3, <2>4
      <4>2. Len(g) + (i - Len(g)) = i /\ Len(f) + (i - Len(g)) = i + 1
        BY <2>1, <2>5
      <4> QED BY <4>1, <4>2
    <3> QED BY <3>1, <3>2, <2>4, <2>5
  <2>9. After(c.active, u) = After(Applied(c.active, u[1]), v)
    BY <1>1, <2>3, <2>4, <2>6, <2>8, AfterShift
  <2> QED BY <2>1, <2>2, <2>7, <2>9 DEF v
<1>12. Kept(c) => Kept(d)
  BY <1>5 DEF Kept
<1>13. Good(d)
  BY <1>4, <1>6, <1>7, <1>8, <1>10, <1>11 DEF Good
<1> QED BY <1>2, <1>12, <1>13 DEF d, rest, now

\* _drainCtrlQueue on a socket that is not open.
LEMMA GoodDropped ==
    ASSUME NEW c, Good(c), c.queue # <<>>, c.ws # "open"
    PROVE  /\ Good(Drained(c))
           /\ Kept(c) => Kept(Drained(c))
<1> DEFINE rest == Tail(c.queue)
           due  == Len(c.queue) > 1
           d    == [c EXCEPT !.queue = rest, !.ctrl = due]
<1>1. c \in ConnectionType /\ c.queue \in Seq(Msg)
  BY DEF Good, ConnectionType
<1>2. rest \in Seq(Msg) /\ due \in BOOLEAN
  BY <1>1, HeadTailProperties
<1>3. c.ws \notin {"connecting", "open"}
  BY DEF Good, Blank
<1>4. Drained(c) = d
  BY DEF Drained
<1> HIDE DEF rest, due
<1>5. d \in ConnectionType
  BY <1>1, <1>2 DEF ConnectionType
<1>6. d.ws = c.ws /\ d.sent = c.sent /\ d.late = c.late
      /\ d.leaving = c.leaving /\ d.timers = c.timers
  BY <1>1 DEF ConnectionType
<1> HIDE DEF d
<1>7. TakenInOrder(d) /\ NoneGivenUp(d)
  BY <1>6 DEF Good, TakenInOrder, NoneGivenUp
<1>8. Good(d)
  BY <1>3, <1>5, <1>6, <1>7, OffLine
<1> QED BY <1>4, <1>6, <1>8 DEF Kept

\* _drainCtrlQueue on an open socket: the head of the queue is sent.
LEMMA GoodSent ==
    ASSUME NEW c, Good(c), c.queue # <<>>, c.ws = "open"
    PROVE  LET m == Head(c.queue)
               d == [Drained(c) EXCEPT !.sent = Append(@,
                        [method |-> m.method, streams |-> m.streams,
                         fate |-> "out", awaited |-> TRUE])]
           IN  Good(d) /\ Kept(d)
<1> DEFINE m    == Head(c.queue)
           rest == Tail(c.queue)
           due  == Len(c.queue) > 1
           e    == [method |-> m.method, streams |-> m.streams,
                    fate |-> "out", awaited |-> TRUE]
           sent == Append(c.sent, e)
           n    == Len(c.sent)
           d    == [c EXCEPT !.queue = rest, !.ctrl = due, !.sent = sent]
<1>1. /\ c \in ConnectionType /\ c.queue \in Seq(Msg) /\ c.sent \in Seq(Sent)
      /\ c.active \in SUBSET Candidate
  BY DEF Good, ConnectionType
<1>2. /\ m \in Msg /\ rest \in Seq(Msg) /\ due \in BOOLEAN
      /\ m = c.queue[1] /\ Len(c.queue) = Len(rest) + 1 /\ Len(rest) \in Nat
      /\ \A i \in 1 .. Len(rest) : rest[i] = c.queue[i + 1]
  <2>1. /\ m \in Msg /\ rest \in Seq(Msg) /\ Len(rest) = Len(c.queue) - 1
        /\ \A i \in 1 .. Len(rest) : rest[i] = c.queue[i + 1]
    BY <1>1, HeadTailProperties
  <2>2. Len(c.queue) \in Nat \ {0}
    BY <1>1, EmptySeq
  <2>3. m = c.queue[1]
    BY <1>1, <2>2
  <2> QED BY <2>1, <2>2, <2>3
<1>3. /\ e \in Sent /\ e.method = m.method /\ e.streams = m.streams
      /\ e.fate = "out" /\ e.awaited
  BY <1>2 DEF Msg, Sent
<1>4. [Drained(c) EXCEPT !.sent = Append(@, e)] = d
  BY <1>1 DEF Drained, ConnectionType
<1> HIDE DEF m, rest, due, e
<1>5. /\ n \in Nat /\ sent \in Seq(Sent) /\ Len(sent) = n + 1
      /\ \A i \in 1 .. n : sent[i] = c.sent[i]
      /\ sent[n + 1] = e
  BY <1>1, <1>3, AppendProperties, LenProperties
<1> HIDE DEF sent
<1>6. d \in ConnectionType
  BY <1>1, <1>2, <1>5 DEF ConnectionType
<1>7. /\ d.sent = sent /\ d.queue = rest /\ d.active = c.active /\ d.ws = "open"
      /\ d.subs = c.subs /\ d.wanted = c.wanted /\ d.astray = c.astray /\ d.late = c.late
  BY <1>1 DEF ConnectionType
<1> HIDE DEF d
<1>8. \A i \in 1 .. Len(sent) : (i \in 1 .. n /\ sent[i] = c.sent[i]) \/ (i = n + 1 /\ sent[i] = e)
  BY <1>5
<1>9. TakenInOrder(d)
  <2> SUFFICES ASSUME NEW i \in 1 .. Len(sent), NEW j \in 1 .. Len(sent),
                      i < j, sent[i].fate = "out"
               PROVE  sent[j].fate = "out"
    BY <1>7 DEF TakenInOrder
  <2>1. CASE j = n + 1
    BY <2>1, <1>3, <1>5
  <2>2. CASE j \in 1 .. n
    <3>1. i \in 1 .. n /\ sent[i] = c.sent[i] /\ sent[j] = c.sent[j]
      BY <2>2, <1>5
    <3> QED BY <3>1, <2>2 DEF Good, TakenInOrder
  <2> QED BY <2>1, <2>2, <1>8
<1>10. NoneGivenUp(d)
  BY <1>3, <1>7, <1>8 DEF Good, NoneGivenUp
<1>11. Blank(d)
  BY <1>7 DEF Blank
<1>12. BooksAgree(d)
  <2> SUFFICES ASSUME ~c.late
               PROVE  After(c.active, Fates(d, {"ok"})) = c.subs
    BY <1>7 DEF BooksAgree
  <2> DEFINE f == Fates(c, {"ok"})
             g == Fates(d, {"ok"})
  <2>1. /\ f \in Seq(Msg) /\ Len(f) = n
        /\ \A i \in 1 .. n :
              f[i] = Message(c.sent[i].method,
                        IF c.sent[i].fate \in {"ok"} THEN c.sent[i].streams ELSE {})
    BY <1>1, FatesKnown
  <2>2. /\ g \in Seq(Msg) /\ Len(g) = n + 1
        /\ \A i \in 1 .. n + 1 :
              /\ g[i] = Message(sent[i].method,
                           IF sent[i].fate \in {"ok"} THEN sent[i].streams ELSE {})
              /\ sent[i].fate \notin {"ok"} => g[i].streams = {}
    BY <1>5, <1>7, FatesKnown
  <2> HIDE DEF f, g
  <2>3. \A i \in 1 .. Len(f) : g[i] = f[i]
    <3> TAKE i \in 1 .. Len(f)
    <3>1. i \in 1 .. n /\ i \in 1 .. n + 1 /\ sent[i] = c.sent[i]
      BY <2>1, <1>5
    <3> QED BY <3>1, <2>1, <2>2
  <2>4. g[Len(f) + 1].streams = {}
    BY <2>1, <2>2, <1>3, <1>5
  <2>5. After(c.active, g) = After(c.active, f)
    BY <1>1, <2>1, <2>2, <2>3, <2>4, AfterAppend
  <2>6. After(c.active, f) = c.subs
    BY DEF Good, BooksAgree, f
  <2> QED BY <2>5, <2>6 DEF g
<1>13. NothingLost(d)
  <2> SUFFICES ASSUME ~c.late, ~c.astray
               PROVE  After(c.active, Underway(d)) = c.wanted
    BY <1>7 DEF NothingLost
  <2> DEFINE fates == {"out", "ok"}
             f == Fates(c, fates)
             g == Fates(d, fates)
             u == Underway(c)
             v == Underway(d)
             q == c.queue
  <2>1. After(c.active, u) = c.wanted
    BY DEF Good, NothingLost
  <2>2. /\ u \in Seq(Msg) /\ Len(u) = Len(f) + Len(q)
        /\ \A i \in 1 .. Len(f) : u[i] = f[i]
        /\ \A i \in 1 .. Len(q) : u[Len(f) + i] = q[i]
    BY <1>1, UnderwayKnown
  <2>3. /\ v \in Seq(Msg) /\ Len(v) = Len(g) + Len(rest)
        /\ \A i \in 1 .. Len(g) : v[i] = g[i]
        /\ \A i \in 1 .. Len(rest) : v[Len(g) + i] = rest[i]
    BY <1>6, <1>7, UnderwayKnown
  <2>4. "out" \in fates
    OBVIOUS
  <2> HIDE DEF fates
  <2>5. /\ Len(f) = n
        /\ \A i \in 1 .. n :
              f[i] = Message(c.sent[i].method,
                        IF c.sent[i].fate \in fates THEN c.sent[i].streams ELSE {})
    BY <1>1, FatesKnown
  <2>6. /\ Len(g) = n + 1
        /\ \A i \in 1 .. n + 1 :
              /\ g[i] = Message(sent[i].method,
                           IF sent[i].fate \in fates THEN sent[i].streams ELSE {})
              /\ g[i].method = sent[i].method
              /\ sent[i].fate \in fates => g[i].streams = sent[i].streams
    BY <1>5, <1>7, FatesKnown
  <2> HIDE DEF f, g, u, v
  <2>7. Len(u) = Len(v)
    <3>1. /\ Len(u) = n + Len(q) /\ Len(v) = (n + 1) + Len(rest)
          /\ Len(q) = Len(rest) + 1 /\ n \in Nat /\ Len(rest) \in Nat
      BY <2>2, <2>3, <2>5, <2>6, <1>2, <1>5
    <3> HIDE DEF n, q
    <3> QED BY <3>1
  <2>8. \A i \in 1 .. Len(u) : u[i].method = v[i].method /\ u[i].streams = v[i].streams
    <3> TAKE i \in 1 .. Len(u)
    <3>1. CASE i \in 1 .. n
      <4>1. i \in 1 .. n + 1 /\ sent[i] = c.sent[i]
        BY <3>1, <1>5
      <4>2. f[i] = g[i]
        BY <3>1, <4>1, <2>5, <2>6
      <4> QED BY <3>1, <4>1, <4>2, <2>2, <2>3, <2>5, <2>6
    <3>2. CASE i = n + 1
      <4>1. 1 \in 1 .. Len(q)
        BY <1>2
      <4>2. u[n + 1] = q[1]
        BY <4>1, <2>2, <2>5
      <4>3. n + 1 \in 1 .. Len(g)
        BY <1>5, <2>6
      <4>4. v[n + 1] = g[n + 1]
        BY <4>3, <2>3
      <4>5. g[n + 1].method = e.method /\ g[n + 1].streams = e.streams
        BY <4>3, <2>4, <2>6, <1>3, <1>5
      <4> QED BY <3>2, <4>2, <4>4, <4>5, <1>2, <1>3
    <3>3. CASE i - (n + 1) \in 1 .. Len(rest)
      <4> DEFINE j == i - (n + 1)
      <4>1. j \in 1 .. Len(rest) /\ j + 1 \in 1 .. Len(q) /\ i = n + (j + 1) /\ i = (n + 1) + j
        <5>1. /\ i \in Nat /\ n \in Nat /\ Len(rest) \in Nat /\ Len(q) = Len(rest) + 1
          BY <1>2, <1>5
        <5> HIDE DEF n, q
        <5> QED BY <5>1, <3>3
      <4> HIDE DEF j
      <4>2. u[i] = q[j + 1]
        BY <4>1, <2>2, <2>5
      <4>3. v[i] = rest[j]
        BY <4>1, <2>3, <2>6
      <4>4. rest[j] = q[j + 1]
        BY <4>1, <1>2
      <4> QED BY <4>2, <4>3, <4>4
    <3>4. i \in 1 .. n \/ i = n + 1 \/ i - (n + 1) \in 1 .. Len(rest)
      BY <2>3, <2>6, <2>7, <1>2, <1>5
    <3> QED BY <3>1, <3>2, <3>3, <3>4
  <2>9. After(c.active, u) = After(c.active, v)
    BY <1>1, <2>2, <2>3, <2>7, <2>8, AfterSame
  <2> QED BY <2>1, <2>9 DEF v
<1>14. Good(d)
  BY <1>6, <1>9, <1>10, <1>11, <1>12, <1>13 DEF Good
<1>15. Kept(d)
  BY <1>7 DEF Kept
<1> QED BY <1>4, <1>14, <1>15 DEF m, e

\* One message that was sent is noted differently.
LEMMA Noted ==
    ASSUME NEW sent \in Seq(Sent), NEW i \in DOMAIN sent, NEW e \in Sent
    PROVE  LET now == [sent EXCEPT ![i] = e]
           IN  /\ Len(sent) \in Nat /\ i \in 1 .. Len(sent) /\ sent[i] \in Sent
               /\ now \in Seq(Sent) /\ Len(now) = Len(sent)
               /\ \A j \in 1 .. Len(sent) : now[j] = IF j = i THEN e ELSE sent[j]
<1>1. Len(sent) \in Nat /\ i \in 1 .. Len(sent)
  BY LenProperties
<1>2. sent[i] \in Sent
  BY <1>1, ElementOfSeq
<1> HIDE DEF Sent
<1> QED BY <1>1, <1>2, ExceptSeq

\* The messages after one that is out are out as well.
LEMMA OutAfter ==
    ASSUME NEW c, Good(c), NEW i \in 1 .. Len(c.sent),
           \A j \in 1 .. i : c.sent[j].fate = "out" <=> j = i
    PROVE  \A j \in 1 .. Len(c.sent) : c.sent[j].fate = "out" <=> j >= i
<1>1. c.sent[i].fate = "out" /\ Len(c.sent) \in Nat
  <2>1. c.sent \in Seq(Sent)
    BY DEF Good, ConnectionType
  <2> QED BY <2>1, LenProperties
<1> TAKE j \in 1 .. Len(c.sent)
<1>2. CASE j <= i
  BY <1>2
<1>3. CASE j > i
  BY <1>1, <1>3 DEF Good, TakenInOrder
<1> QED BY <1>2, <1>3

\* The exchange takes the first message it has not taken, or refuses it, or its
\* deadline passes.
LEMMA GoodServed ==
    ASSUME NEW c, Good(c), NEW i \in DOMAIN c.sent,
           \A j \in 1 .. i : c.sent[j].fate = "out" <=> j = i
    PROVE  LET d == [c EXCEPT !.sent[i].fate = "ok", !.subs = Applied(@, c.sent[i])]
           IN  /\ Good(d)
               /\ Kept(c) => Kept(d)
<1> DEFINE m    == c.sent[i]
           e    == [m EXCEPT !.fate = "ok"]
           n    == Len(c.sent)
           sent == [c.sent EXCEPT ![i] = e]
           subs == Applied(c.subs, m)
           d    == [c EXCEPT !.sent = sent, !.subs = subs]
<1>1. /\ c \in ConnectionType /\ c.sent \in Seq(Sent)
      /\ c.active \in SUBSET Candidate /\ c.subs \in SUBSET Candidate
  BY DEF Good, ConnectionType
<1>2. n \in Nat /\ i \in 1 .. n /\ m \in Sent
  <2>1. n \in Nat /\ i \in 1 .. n
    BY <1>1, LenProperties
  <2> QED BY <1>1, <2>1, ElementOfSeq
<1>3. /\ e \in Sent /\ e.method = m.method /\ e.streams = m.streams
      /\ e.fate = "ok" /\ e.awaited = m.awaited
  BY <1>2 DEF Sent
<1>4. [c EXCEPT !.sent[i].fate = "ok", !.subs = Applied(@, c.sent[i])] = d
  BY <1>1 DEF ConnectionType
<1>5. subs \in SUBSET Candidate
  BY <1>1, <1>2 DEF Applied, Sent
<1>6. \A j \in 1 .. n : c.sent[j].fate = "out" <=> j >= i
  BY <1>2, OutAfter
<1> HIDE DEF e
<1>7. /\ sent \in Seq(Sent) /\ Len(sent) = n
      /\ \A j \in 1 .. n : sent[j] = IF j = i THEN e ELSE c.sent[j]
  BY <1>1, <1>3, Noted
<1> HIDE DEF sent, subs, m
<1>8. d \in ConnectionType
  BY <1>1, <1>5, <1>7 DEF ConnectionType
<1>9. /\ d.sent = sent /\ d.queue = c.queue /\ d.active = c.active /\ d.ws = c.ws
      /\ d.subs = subs /\ d.wanted = c.wanted /\ d.astray = c.astray /\ d.late = c.late
      /\ d.leaving = c.leaving /\ d.timers = c.timers
  BY <1>1 DEF ConnectionType
<1> HIDE DEF d
<1>10. \A j \in 1 .. n : sent[j].fate = "out" <=> j > i
  BY <1>2, <1>3, <1>6, <1>7
<1>11. TakenInOrder(d)
  <2> HIDE DEF n
  <2> QED BY <1>2, <1>7, <1>9, <1>10 DEF TakenInOrder
<1>12. NoneGivenUp(d)
  BY <1>2, <1>3, <1>7, <1>9 DEF Good, NoneGivenUp, m
<1>13. Blank(d)
  <2>1. c.ws # "connecting"
    <3>1. c.sent # <<>>
      BY <1>2, EmptySeq
    <3> QED BY <3>1 DEF Good, Blank
  <2> QED BY <2>1, <1>9 DEF Blank
<1>14. BooksAgree(d)
  <2> SUFFICES ASSUME c.ws = "open", ~c.late
               PROVE  After(c.active, Fates(d, {"ok"})) = subs
    BY <1>9 DEF BooksAgree
  <2> DEFINE f == Fates(c, {"ok"})
             g == Fates(d, {"ok"})
  <2>1. /\ f \in Seq(Msg) /\ Len(f) = n
        /\ \A j \in 1 .. n :
              /\ f[j] = Message(c.sent[j].method,
                           IF c.sent[j].fate \in {"ok"} THEN c.sent[j].streams ELSE {})
              /\ c.sent[j].fate \notin {"ok"} => f[j].streams = {}
    BY <1>1, FatesKnown
  <2>2. /\ g \in Seq(Msg) /\ Len(g) = n
        /\ \A j \in 1 .. n :
              /\ g[j] = Message(sent[j].method,
                           IF sent[j].fate \in {"ok"} THEN sent[j].streams ELSE {})
              /\ g[j].method = sent[j].method
              /\ sent[j].fate \in {"ok"} => g[j].streams = sent[j].streams
    BY <1>7, <1>9, FatesKnown
  <2> HIDE DEF f, g
  <2>3. \A j \in 1 .. Len(f) : j # i => f[j] = g[j]
    BY <2>1, <2>2, <1>7
  <2>4. \A j \in i .. Len(f) : f[j].streams = {}
    BY <2>1, <1>2, <1>6
  <2>5. After(c.active, g) = Applied(After(c.active, f), g[i])
    <3>1. /\ c.active \in SUBSET Candidate /\ f \in Seq(Msg) /\ g \in Seq(Msg)
          /\ Len(f) = Len(g) /\ i \in 1 .. Len(f)
      BY <1>1, <1>2, <2>1, <2>2
    <3> HIDE DEF n
    <3> QED BY <3>1, <2>3, <2>4, AfterLast
  <2>6. After(c.active, f) = c.subs
    BY DEF Good, BooksAgree, f
  <2>7. g[i].method = m.method /\ g[i].streams = m.streams
    BY <2>2, <1>2, <1>3, <1>7
  <2>8. Applied(c.subs, g[i]) = subs
    BY <2>7 DEF Applied, subs
  <2> QED BY <2>5, <2>6, <2>8 DEF g
<1>15. NothingLost(d)
  <2> SUFFICES ASSUME c.ws = "open", ~c.late, ~c.astray
               PROVE  After(c.active, Underway(d)) = c.wanted
    BY <1>9 DEF NothingLost
  <2> DEFINE fates == {"out", "ok"}
             f == Fates(c, fates)
             g == Fates(d, fates)
             u == Underway(c)
             v == Underway(d)
             q == c.queue
  <2>1. After(c.active, u) = c.wanted
    BY DEF Good, NothingLost
  <2>2. /\ u \in Seq(Msg) /\ Len(u) = Len(f) + Len(q)
        /\ \A j \in 1 .. Len(f) : u[j] = f[j]
        /\ \A j \in 1 .. Len(q) : u[Len(f) + j] = q[j]
    BY <1>1, UnderwayKnown
  <2>3. /\ v \in Seq(Msg) /\ Len(v) = Len(g) + Len(q)
        /\ \A j \in 1 .. Len(g) : v[j] = g[j]
        /\ \A j \in 1 .. Len(q) : v[Len(g) + j] = q[j]
    BY <1>8, <1>9, UnderwayKnown
  <2>4. "out" \in fates /\ "ok" \in fates
    OBVIOUS
  <2> HIDE DEF fates
  <2>5. /\ Len(f) = n
        /\ \A j \in 1 .. n :
              /\ f[j].method = c.sent[j].method
              /\ c.sent[j].fate \in fates => f[j].streams = c.sent[j].streams
              /\ c.sent[j].fate \notin fates => f[j].streams = {}
    BY <1>1, FatesKnown
  <2>6. /\ Len(g) = n
        /\ \A j \in 1 .. n :
              /\ g[j].method = sent[j].method
              /\ sent[j].fate \in fates => g[j].streams = sent[j].streams
              /\ sent[j].fate \notin fates => g[j].streams = {}
    BY <1>7, <1>9, FatesKnown
  <2>7. \A j \in 1 .. n : f[j].method = g[j].method /\ f[j].streams = g[j].streams
    <3> HIDE DEF f, g
    <3> TAKE j \in 1 .. n
    <3>1. CASE j = i
      <4>1. c.sent[j] = m /\ m.fate = "out" /\ sent[j] = e
        BY <3>1, <1>2, <1>6, <1>7 DEF m
      <4> QED BY <4>1, <1>3, <2>4, <2>5, <2>6
    <3>2. CASE j # i
      <4>1. sent[j] = c.sent[j]
        BY <3>2, <1>7
      <4>2. f[j].method = g[j].method
        BY <4>1, <2>5, <2>6
      <4>3. CASE c.sent[j].fate \in fates
        BY <4>1, <4>2, <4>3, <2>5, <2>6
      <4>4. CASE c.sent[j].fate \notin fates
        BY <4>1, <4>2, <4>4, <2>5, <2>6
      <4> QED BY <4>3, <4>4
    <3> QED BY <3>1, <3>2
  <2> HIDE DEF f, g, u, v
  <2>8. Len(q) \in Nat
    <3>1. q \in Seq(Msg)
      BY <1>1 DEF ConnectionType
    <3> QED BY <3>1, LenProperties
  <2>9. Len(u) = Len(v)
    BY <2>2, <2>3, <2>5, <2>6
  <2>10. \A j \in 1 .. Len(u) : u[j].method = v[j].method /\ u[j].streams = v[j].streams
    <3> HIDE DEF n, q
    <3> TAKE j \in 1 .. Len(u)
    <3>1. CASE j \in 1 .. n
      BY <3>1, <2>2, <2>3, <2>5, <2>6, <2>7
    <3>2. CASE j - n \in 1 .. Len(q)
      <4>1. n + (j - n) = j
        BY <1>2
      <4>2. u[n + (j - n)] = q[j - n] /\ v[n + (j - n)] = q[j - n]
        BY <3>2, <2>2, <2>3, <2>5, <2>6
      <4> QED BY <4>1, <4>2
    <3>3. j \in 1 .. n \/ j - n \in 1 .. Len(q)
      BY <2>2, <2>5, <2>8, <1>2
    <3> QED BY <3>1, <3>2, <3>3
  <2>11. After(c.active, u) = After(c.active, v)
    BY <1>1, <2>2, <2>3, <2>9, <2>10, AfterSame
  <2> QED BY <2>1, <2>11 DEF v
<1>16. Good(d)
  BY <1>8, <1>11, <1>12, <1>13, <1>14, <1>15 DEF Good
<1>17. Kept(c) => Kept(d)
  BY <1>9 DEF Kept
<1> QED BY <1>4, <1>16, <1>17

LEMMA GoodRefused ==
    ASSUME NEW c, Good(c), NEW i \in DOMAIN c.sent,
           \A j \in 1 .. i : c.sent[j].fate = "out" <=> j = i
    PROVE  LET d == [c EXCEPT !.sent[i].fate = "error", !.astray = TRUE]
           IN  /\ Good(d)
               /\ Kept(c) => Kept(d)
<1> DEFINE m    == c.sent[i]
           e    == [m EXCEPT !.fate = "error"]
           n    == Len(c.sent)
           sent == [c.sent EXCEPT ![i] = e]
           d    == [c EXCEPT !.sent = sent, !.astray = TRUE]
<1>1. /\ c \in ConnectionType /\ c.sent \in Seq(Sent) /\ c.active \in SUBSET Candidate
  BY DEF Good, ConnectionType
<1>2. n \in Nat /\ i \in 1 .. n /\ m \in Sent
  <2>1. n \in Nat /\ i \in 1 .. n
    BY <1>1, LenProperties
  <2> QED BY <1>1, <2>1, ElementOfSeq
<1>3. e \in Sent /\ e.fate = "error" /\ e.awaited = m.awaited /\ e.method = m.method
  BY <1>2 DEF Sent
<1>4. [c EXCEPT !.sent[i].fate = "error", !.astray = TRUE] = d
  BY <1>1 DEF ConnectionType
<1>5. \A j \in 1 .. n : c.sent[j].fate = "out" <=> j >= i
  BY <1>2, OutAfter
<1> HIDE DEF e
<1>6. /\ sent \in Seq(Sent) /\ Len(sent) = n
      /\ \A j \in 1 .. n : sent[j] = IF j = i THEN e ELSE c.sent[j]
  BY <1>1, <1>3, Noted
<1> HIDE DEF sent, m
<1>7. d \in ConnectionType
  BY <1>1, <1>6 DEF ConnectionType
<1>8. /\ d.sent = sent /\ d.active = c.active /\ d.ws = c.ws /\ d.subs = c.subs
      /\ d.astray /\ d.late = c.late /\ d.leaving = c.leaving /\ d.timers = c.timers
  BY <1>1 DEF ConnectionType
<1> HIDE DEF d
<1>9. \A j \in 1 .. n : sent[j].fate = "out" <=> j > i
  BY <1>2, <1>3, <1>5, <1>6
<1>10. TakenInOrder(d)
  <2> HIDE DEF n
  <2> QED BY <1>2, <1>6, <1>8, <1>9 DEF TakenInOrder
<1>11. NoneGivenUp(d)
  BY <1>2, <1>3, <1>6, <1>8 DEF Good, NoneGivenUp, m
<1>12. c.ws # "connecting"
  <2>1. c.sent # <<>>
    BY <1>2, EmptySeq
  <2> QED BY <2>1 DEF Good, Blank
<1>13. BooksAgree(d)
  <2> SUFFICES ASSUME c.ws = "open", ~c.late
               PROVE  After(c.active, Fates(d, {"ok"})) = c.subs
    BY <1>8 DEF BooksAgree
  <2> DEFINE f == Fates(c, {"ok"})
             g == Fates(d, {"ok"})
  <2>1. /\ f \in Seq(Msg) /\ Len(f) = n
        /\ \A j \in 1 .. n :
              /\ f[j].method = c.sent[j].method
              /\ c.sent[j].fate \in {"ok"} => f[j].streams = c.sent[j].streams
              /\ c.sent[j].fate \notin {"ok"} => f[j].streams = {}
    BY <1>1, FatesKnown
  <2>2. /\ g \in Seq(Msg) /\ Len(g) = n
        /\ \A j \in 1 .. n :
              /\ g[j].method = sent[j].method
              /\ sent[j].fate \in {"ok"} => g[j].streams = sent[j].streams
              /\ sent[j].fate \notin {"ok"} => g[j].streams = {}
    BY <1>6, <1>8, FatesKnown
  <2> HIDE DEF f, g
  <2>3. \A j \in 1 .. Len(f) : f[j].method = g[j].method /\ f[j].streams = g[j].streams
    <3> TAKE j \in 1 .. Len(f)
    <3>1. CASE j = i
      <4>1. c.sent[j] = m /\ c.sent[j].fate = "out" /\ sent[j] = e
        BY <3>1, <1>2, <1>5, <1>6 DEF m
      <4> QED BY <3>1, <4>1, <1>2, <1>3, <2>1, <2>2
    <3>2. CASE j # i
      <4>1. sent[j] = c.sent[j]
        BY <3>2, <1>6, <2>1
      <4>2. f[j].method = g[j].method
        BY <4>1, <2>1, <2>2
      <4>3. CASE c.sent[j].fate \in {"ok"}
        BY <4>1, <4>2, <4>3, <2>1, <2>2
      <4>4. CASE c.sent[j].fate \notin {"ok"}
        BY <4>1, <4>2, <4>4, <2>1, <2>2
      <4> QED BY <4>3, <4>4
    <3> QED BY <3>1, <3>2
  <2>4. After(c.active, f) = After(c.active, g)
    BY <1>1, <2>1, <2>2, <2>3, AfterSame
  <2>5. After(c.active, f) = c.subs
    BY DEF Good, BooksAgree, f
  <2> QED BY <2>4, <2>5 DEF g
<1>14. Good(d)
  BY <1>7, <1>8, <1>10, <1>11, <1>12, <1>13 DEF Good, Blank, NothingLost
<1>15. Kept(c) => Kept(d)
  BY <1>8 DEF Kept
<1> QED BY <1>4, <1>14, <1>15

LEMMA GoodTimedOut ==
    ASSUME NEW c, Good(c), NEW i \in DOMAIN c.sent
    PROVE  LET d == [c EXCEPT !.sent[i].awaited = FALSE, !.late = TRUE]
           IN  /\ Good(d)
               /\ Kept(c) => Kept(d)
<1> DEFINE m    == c.sent[i]
           e    == [m EXCEPT !.awaited = FALSE]
           n    == Len(c.sent)
           sent == [c.sent EXCEPT ![i] = e]
           d    == [c EXCEPT !.sent = sent, !.late = TRUE]
<1>1. c \in ConnectionType /\ c.sent \in Seq(Sent)
  BY DEF Good, ConnectionType
<1>2. n \in Nat /\ i \in 1 .. n /\ m \in Sent
  <2>1. n \in Nat /\ i \in 1 .. n
    BY <1>1, LenProperties
  <2> QED BY <1>1, <2>1, ElementOfSeq
<1>3. e \in Sent /\ e.fate = m.fate
  BY <1>2 DEF Sent
<1>4. [c EXCEPT !.sent[i].awaited = FALSE, !.late = TRUE] = d
  BY <1>1 DEF ConnectionType
<1> HIDE DEF e
<1>5. /\ sent \in Seq(Sent) /\ Len(sent) = n
      /\ \A j \in 1 .. n : sent[j] = IF j = i THEN e ELSE c.sent[j]
  BY <1>1, <1>3, Noted
<1> HIDE DEF sent, m
<1>6. d \in ConnectionType
  BY <1>1, <1>5 DEF ConnectionType
<1>7. /\ d.sent = sent /\ d.ws = c.ws /\ d.late
      /\ d.leaving = c.leaving /\ d.timers = c.timers
  BY <1>1 DEF ConnectionType
<1> HIDE DEF d
<1>8. \A j \in 1 .. n : sent[j].fate = c.sent[j].fate
  BY <1>3, <1>5 DEF m
<1>9. TakenInOrder(d)
  BY <1>5, <1>7, <1>8 DEF Good, TakenInOrder
<1>10. c.ws # "connecting"
  <2>1. c.sent # <<>>
    BY <1>2, EmptySeq
  <2> QED BY <2>1 DEF Good, Blank
<1>11. Good(d)
  BY <1>6, <1>7, <1>9, <1>10 DEF Good, NoneGivenUp, Blank, BooksAgree, NothingLost
<1>12. Kept(c) => Kept(d)
  BY <1>7 DEF Kept
<1> QED BY <1>4, <1>11, <1>12

-----------------------------------------------------------------------------
\* The invariant of the candidates' streams.  What is acknowledged on a socket
\* stays true only because the exchange answers in order and every reply is
\* heeded, and because a new socket starts from nothing.
StreamInv ==
    /\ members \subseteq Candidate /\ desired \subseteq Candidate
    /\ handover \subseteq Candidate
    /\ \A k \in Kind : Good(conn[k])
    /\ DOMAIN conn = Kind
    /\ phase = "started" => \A k \in Kind : Kept(conn[k])

\* What is good for one connection is good for all: no step touches two.
LEMMA BecomesKeeps ==
    ASSUME StreamInv, NEW k \in Kind, NEW d, Becomes(k, d), Good(d), Kept(conn[k]) => Kept(d)
    PROVE  StreamInv'
<1>1. /\ conn' = [conn EXCEPT ![k] = d]
      /\ UNCHANGED <<phase, members, desired, handover>>
  BY DEF Becomes
<1>2. /\ DOMAIN conn' = Kind
      /\ \A i \in Kind : conn'[i] = IF i = k THEN d ELSE conn[i]
  BY <1>1 DEF StreamInv
<1>3. \A i \in Kind : Good(conn'[i]) /\ (Kept(conn[i]) => Kept(conn'[i]))
  BY <1>2 DEF StreamInv
<1> QED BY <1>1, <1>2, <1>3 DEF StreamInv

LEMMA AppKeeps ==
    ASSUME StreamInv,
           \/ Start \/ Apply \/ Destroy
           \/ \E incoming \in SUBSET Candidate : SetMembership(incoming)
           \/ \E s \in Candidate : NotifyLifecycleHandover(s) \/ HandoverEnds(s)
    PROVE  StreamInv'
<1>1. CASE Start
  <2>1. PICK refused \in SUBSET Kind :
           conn' = [k \in Kind |-> OpenPersistentConnection(conn[k], k \in refused)]
    BY <1>1 DEF Start
  <2>2. ASSUME NEW k \in Kind
        PROVE  Good(conn'[k]) /\ Kept(conn'[k])
    <3> DEFINE throws == k \in refused
    <3>1. conn'[k] = OpenPersistentConnection(conn[k], throws)
      BY <2>1
    <3> HIDE DEF throws
    <3>2. Good(conn[k])
      BY DEF StreamInv
    <3> QED BY <3>1, <3>2, GoodOpening
  <2>3. UNCHANGED <<members, desired, handover>> /\ DOMAIN conn' = Kind
    BY <1>1, <2>1 DEF Start
  <2> QED BY <2>2, <2>3 DEF StreamInv
<1>2. CASE Apply
  <2>1. /\ DOMAIN conn' = Kind /\ \A k \in Kind : conn'[k] = Reconcile(conn[k])
        /\ UNCHANGED <<phase, members, desired, handover>>
    BY <1>2 DEF Apply
  <2>2. \A k \in Kind : Good(conn'[k]) /\ (Kept(conn[k]) => Kept(conn'[k]))
    <3> TAKE k \in Kind
    <3>1. Good(conn[k]) /\ desired \in SUBSET Candidate
      BY DEF StreamInv
    <3>2. Good(Reconcile(conn[k])) /\ (Kept(conn[k]) => Kept(Reconcile(conn[k])))
      BY <3>1, GoodReconciled
    <3> QED BY <2>1, <3>2
  <2> QED BY <2>1, <2>2 DEF StreamInv
<1>3. CASE Destroy
  <2>1. \A k \in Kind : conn'[k] = NewState
    BY <1>3 DEF Destroy
  <2>2. phase' # "started" /\ UNCHANGED <<members, desired, handover>> /\ DOMAIN conn' = Kind
    BY <1>3 DEF Destroy
  <2> QED BY <2>1, <2>2, GoodNew DEF StreamInv
<1>4. ASSUME NEW incoming \in SUBSET Candidate, SetMembership(incoming)
      PROVE  StreamInv'
  <2>1. members' \subseteq Candidate /\ desired' \subseteq Candidate
    BY <1>4 DEF SetMembership, StreamInv
  <2>2. UNCHANGED <<phase, handover, conn>>
    BY <1>4 DEF SetMembership
  <2> QED BY <2>1, <2>2 DEF StreamInv
<1>5. ASSUME NEW s \in Candidate, NotifyLifecycleHandover(s)
      PROVE  StreamInv'
  BY <1>5 DEF NotifyLifecycleHandover, StreamInv
<1>6. ASSUME NEW s \in Candidate, HandoverEnds(s)
      PROVE  StreamInv'
  BY <1>6 DEF HandoverEnds, StreamInv
<1> QED BY <1>1, <1>2, <1>3, <1>4, <1>5, <1>6

LEMMA MessagesKeep ==
    ASSUME StreamInv, NEW k \in Kind,
           \/ CtrlTimerFires(k) \/ ReplyArrives(k)
           \/ \E i \in DOMAIN conn[k].sent : Serve(k, i) \/ Refuse(k, i) \/ AckTimesOut(k, i)
    PROVE  StreamInv'
<1> DEFINE c == conn[k]
<1>1. Good(c)
  BY DEF StreamInv
<1>2. CASE CtrlTimerFires(k) /\ c.ws # "open"
  <2>1. c.queue # <<>> /\ Becomes(k, Drained(c))
    BY <1>2 DEF CtrlTimerFires
  <2>2. Good(Drained(c)) /\ (Kept(c) => Kept(Drained(c)))
    BY <1>1, <1>2, <2>1, GoodDropped
  <2> QED BY <2>1, <2>2, BecomesKeeps
<1>3. CASE CtrlTimerFires(k) /\ c.ws = "open"
  <2> DEFINE m == Head(c.queue)
             d == [Drained(c) EXCEPT !.sent = Append(@,
                      [method |-> m.method, streams |-> m.streams,
                       fate |-> "out", awaited |-> TRUE])]
  <2>1. c.queue # <<>> /\ Becomes(k, d)
    BY <1>3 DEF CtrlTimerFires
  <2>2. Good(d) /\ Kept(d)
    BY <1>1, <1>3, <2>1, GoodSent
  <2> HIDE DEF d
  <2> QED BY <2>1, <2>2, BecomesKeeps
<1>4. CASE ReplyArrives(k)
  <2> DEFINE d == [c EXCEPT !.sent = Tail(@), !.active = Acknowledged(c, Head(c.sent))]
  <2>1. c.sent # <<>> /\ Head(c.sent).fate # "out" /\ Becomes(k, d)
    BY <1>4 DEF ReplyArrives
  <2>2. Good(d) /\ (Kept(c) => Kept(d))
    BY <1>1, <2>1, GoodAnswered
  <2> HIDE DEF d
  <2> QED BY <2>1, <2>2, BecomesKeeps
<1>5. ASSUME NEW i \in DOMAIN conn[k].sent, Serve(k, i)
      PROVE  StreamInv'
  <2> DEFINE d == [c EXCEPT !.sent[i].fate = "ok", !.subs = Applied(@, c.sent[i])]
  <2>1. (\A j \in 1 .. i : c.sent[j].fate = "out" <=> j = i) /\ Becomes(k, d)
    BY <1>5 DEF Serve, Processes
  <2>2. Good(d) /\ (Kept(c) => Kept(d))
    BY <1>1, <2>1, GoodServed
  <2> HIDE DEF d
  <2> QED BY <2>1, <2>2, BecomesKeeps
<1>6. ASSUME NEW i \in DOMAIN conn[k].sent, Refuse(k, i)
      PROVE  StreamInv'
  <2> DEFINE d == [c EXCEPT !.sent[i].fate = "error", !.astray = TRUE]
  <2>1. (\A j \in 1 .. i : c.sent[j].fate = "out" <=> j = i) /\ Becomes(k, d)
    BY <1>6 DEF Refuse, Processes
  <2>2. Good(d) /\ (Kept(c) => Kept(d))
    BY <1>1, <2>1, GoodRefused
  <2> HIDE DEF d
  <2> QED BY <2>1, <2>2, BecomesKeeps
<1>7. ASSUME NEW i \in DOMAIN conn[k].sent, AckTimesOut(k, i)
      PROVE  StreamInv'
  <2> DEFINE d == [c EXCEPT !.sent[i].awaited = FALSE, !.late = TRUE]
  <2>1. Becomes(k, d)
    BY <1>7 DEF AckTimesOut
  <2>2. Good(d) /\ (Kept(c) => Kept(d))
    BY <1>1, GoodTimedOut
  <2> HIDE DEF d
  <2> QED BY <2>1, <2>2, BecomesKeeps
<1> QED BY <1>2, <1>3, <1>4, <1>5, <1>6, <1>7

LEMMA SocketsKeep ==
    ASSUME StreamInv, NEW k \in Kind,
           \/ Opens(k) \/ ConnectFails(k) \/ BeginsToClose(k) \/ Closes(k)
           \/ RotationFires(k) \/ LeavingCloses(k) \/ ReconnectFires(k)
    PROVE  StreamInv'
<1> DEFINE c == conn[k]
<1>1. Good(c)
  BY DEF StreamInv
<1>2. CASE Opens(k)
  <2> DEFINE d == Reconcile([c EXCEPT !.ws = "open", !.rotation = TRUE, !.active = {}])
  <2>1. c.ws = "connecting" /\ Becomes(k, d)
    BY <1>2 DEF Opens
  <2>2. Good(d) /\ Kept(d)
    <3>1. desired \in SUBSET Candidate
      BY DEF StreamInv
    <3> QED BY <1>1, <2>1, <3>1, GoodOpened
  <2> HIDE DEF d
  <2> QED BY <2>1, <2>2, BecomesKeeps
<1>3. CASE ConnectFails(k) \/ Closes(k)
  <2>1. Becomes(k, OnClose(c))
    BY <1>3 DEF ConnectFails, Closes
  <2> QED BY <1>1, <2>1, GoodClosed, BecomesKeeps
<1>4. CASE BeginsToClose(k)
  <2> DEFINE d == Parted(c, "closing")
  <2>1. Becomes(k, d)
    BY <1>4 DEF BeginsToClose
  <2>2. Good(d)
    BY <1>1, GoodParted
  <2>3. Kept(d)
    BY <1>1 DEF Good, ConnectionType, Parted, Kept
  <2> HIDE DEF d
  <2> QED BY <2>1, <2>2, <2>3, BecomesKeeps
<1>5. CASE RotationFires(k)
  <2>1. Becomes(k, Rotated(c))
    BY <1>5 DEF RotationFires
  <2> QED BY <1>1, <2>1, GoodRotated, BecomesKeeps
<1>6. CASE LeavingCloses(k)
  <2> DEFINE d == ScheduleReconnect([c EXCEPT !.leaving = @ - 1])
  <2>1. c.leaving > 0 /\ Becomes(k, d)
    BY <1>6 DEF LeavingCloses
  <2>2. Good(d) /\ Kept(d)
    BY <1>1, <2>1, GoodLeft
  <2> HIDE DEF d
  <2> QED BY <2>1, <2>2, BecomesKeeps
<1>7. CASE ReconnectFires(k)
  <2> DEFINE spent == [c EXCEPT !.timers = @ - 1]
  <2>1. PICK throws \in BOOLEAN : Becomes(k, OpenPersistentConnection(spent, throws))
    BY <1>7 DEF ReconnectFires
  <2>2. Good(spent)
    BY <1>1, <1>7, GoodTimerSpent DEF ReconnectFires
  <2> HIDE DEF spent
  <2> DEFINE d == OpenPersistentConnection(spent, throws)
  <2>3. Good(d) /\ Kept(d)
    BY <2>2, GoodOpening
  <2> HIDE DEF d
  <2>4. Becomes(k, d)
    BY <2>1 DEF d
  <2> QED BY <2>3, <2>4, BecomesKeeps
<1> QED BY <1>2, <1>3, <1>4, <1>5, <1>6, <1>7

LEMMA StreamKeeps == StreamInv /\ [StreamNext]_streamVars => StreamInv'
<1> SUFFICES ASSUME StreamInv, [StreamNext]_streamVars
             PROVE  StreamInv'
  OBVIOUS
<1>1. CASE UNCHANGED streamVars
  BY <1>1 DEF streamVars, StreamInv
<1>2. CASE \/ Start \/ Apply \/ Destroy
           \/ \E incoming \in SUBSET Candidate : SetMembership(incoming)
           \/ \E s \in Candidate : NotifyLifecycleHandover(s) \/ HandoverEnds(s)
  BY <1>2, AppKeeps
<1>3. ASSUME NEW k \in Kind,
             \/ CtrlTimerFires(k) \/ ReplyArrives(k)
             \/ \E i \in DOMAIN conn[k].sent : Serve(k, i) \/ Refuse(k, i) \/ AckTimesOut(k, i)
      PROVE  StreamInv'
  BY <1>3, MessagesKeep
<1>4. ASSUME NEW k \in Kind,
             \/ Opens(k) \/ ConnectFails(k) \/ BeginsToClose(k) \/ Closes(k)
             \/ RotationFires(k) \/ LeavingCloses(k) \/ ReconnectFires(k)
      PROVE  StreamInv'
  BY <1>4, SocketsKeep
<1> QED BY <1>1, <1>2, <1>3, <1>4 DEF StreamNext

LEMMA StreamInitial == StreamInit => StreamInv
<1> SUFFICES ASSUME StreamInit
             PROVE  StreamInv
  OBVIOUS
<1>1. DOMAIN conn = Kind /\ \A k \in Kind : conn[k] = NewState
  BY DEF StreamInit
<1> QED BY <1>1, GoodNew DEF StreamInit, StreamInv

LEMMA StreamInvariance == StreamSpec => []StreamInv
BY StreamInitial, StreamKeeps, PTL DEF StreamSpec

\* While the stream is started every kind has a socket or a timer that will
\* reconnect, however rotations, closes and refused constructors follow each
\* other: for any number of failures and any kinds.
THEOREM ConnectionIsKept == StreamSpec => []ConnectionKept
<1>1. StreamInv => ConnectionKept
  BY DEF StreamInv, Kept, ConnectionKept
<1> QED BY <1>1, StreamInvariance, PTL

\* _handleCtrlAck: what the stream believes to be subscribed is what the
\* exchange streams but for the replies on their way, for any symbols, batch
\* size and number of messages under way.
THEOREM ActiveIsAlwaysTrue == StreamSpec => []ActiveIsTrue
<1>1. StreamInv => ActiveIsTrue
  BY DEF StreamInv, Good, BooksAgree, ActiveIsTrue
<1> QED BY <1>1, StreamInvariance, PTL

\* _reconcileSubscriptions: an apply that contradicts nothing under way loses
\* nothing, whatever was queued or sent before it and in batches of any size.
THEOREM AppliedIsAlwaysUnderway == StreamSpec => []AppliedIsUnderway
<1>1. StreamInv => AppliedIsUnderway
  BY DEF StreamInv, Good, NothingLost, Underway, AppliedIsUnderway
<1> QED BY <1>1, StreamInvariance, PTL
=============================================================================
