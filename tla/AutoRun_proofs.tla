--------------------------- MODULE AutoRun_proofs ---------------------------
(***************************************************************************)
(* Cycles are counted as they end, what runs belongs to its cycle, a cycle *)
(* is of one set and marked as it ends, and the limits hold one call at a  *)
(* time, for any tickers, limits, number of calls and number of reloads.   *)
(*                                                                         *)
(* The second rests on the ids of trades.  A call that waits has reserved  *)
(* the ids that follow its time; every id that is known, of a trade or of  *)
(* an entry, is used: before the next time and in nobody's reservation.    *)
(* So a trade that is inserted late has an id that no entry of an auto-run *)
(* names but through the answer of its own call, and answers of other      *)
(* auto-runs or cycles are not expected.                                   *)
(*                                                                         *)
(* The parts of the invariant are operators of the calls cs, the last time *)
(* at, the trades ts and the count n of auto-runs, to be used of the state *)
(* before a step and of the state after it.                                *)
(***************************************************************************)
EXTENDS AutoRun, FiniteSetTheorems, TLAPS

\* As many ids as any set needs and any two calls are apart.
Size == CHOOSE n \in Nat : /\ \A b \in Bucket : Len(Tickers[b]) <= n
                           /\ \A gap \in GapSteps : n <= gap

Waits(cs, s) == cs[s] # None /\ cs[s].from # "single"
Reserved(c)  == {n \in Nat : c.at <= n /\ n < c.at + Size}

Used(n, cs, at) ==
    /\ n \in Nat /\ n < at + Size
    /\ \A s \in Slot : Waits(cs, s) => n \notin Reserved(cs[s])

Owned(ids, run, cycle, cs, at, ts) ==
    \A n \in ids : /\ Used(n, cs, at)
                   /\ \A t \in ts : t.id = n => t.run = run /\ t.cycle = cycle

TradesOk(cs, at, ts) ==
    /\ \A t \in ts : Used(t.id, cs, at)
    /\ \A t, u \in ts : t.id = u.id => t.run = u.run /\ t.cycle = u.cycle

Follows(a) ==
    /\ a.completed <= MaxRuns
    /\ a.phase # "done" => a.completed < MaxRuns
    /\ a.phase \in {"starting", "running"} => a.cycle = a.completed + 1
    /\ a.phase = "cooldown" => a.cycle \in {a.completed, a.completed + 1}

RunOk(a, n, cs, at, ts) ==
    a # None => /\ a.id \in 1 .. n
                /\ Follows(a)
                /\ a.phase = "running" <=> a.entries # {}
                /\ Owned(a.entries, a.id, a.cycle, cs, at, ts)

\* The auto-run of a button's call waits for it, in its first cycle.
Answers(c, a) ==
    (c.from = "control" /\ a # None /\ a.id = c.run) => a.phase = "starting" /\ a.cycle = 1

CallOk(s, a, n, cs, at, ts) ==
    Waits(cs, s) =>
        /\ cs[s].at <= at
        /\ cs[s].left # {}
        /\ cs[s].run <= n
        /\ Owned(cs[s].made, cs[s].run, cs[s].cycle, cs, at, ts)
        /\ cs[s].from = "manual" => cs[s].run = 0
        /\ cs[s].from = "control" => cs[s].cycle = 1
        /\ Answers(cs[s], a)

Apart(cs) ==
    \A s, r \in Slot :
        (s # r /\ Waits(cs, s) /\ Waits(cs, r)) =>
            /\ Reserved(cs[s]) \cap Reserved(cs[r]) = {}
            /\ (cs[s].from = "control" /\ cs[r].from # "manual") => cs[s].run # cs[r].run

\* A manual entry is of a symbol, and of no auto-run.
Singles(cs) ==
    \A s \in Slot :
        (cs[s] # None /\ cs[s].from = "single") => cs[s].run = 0 /\ cs[s].wanted \in Symbol

Known == trades \cup before.trades

IInv ==
    /\ TypeOK
    /\ TradesOk(calls, lastAt, Known)
    /\ RunOk(auto, started, calls, lastAt, Known)
    /\ RunOk(before.auto, started, calls, lastAt, Known)
    /\ \A s \in Slot : CallOk(s, auto, started, calls, lastAt, Known)
    /\ Apart(calls)
    /\ Singles(calls)
-----------------------------------------------------------------------------
(* Types.                                                                  *)

LEMMA SizeFits ==
  /\ Size \in Nat
  /\ \A b \in Bucket : Len(Tickers[b]) <= Size
  /\ \A gap \in GapSteps : Size <= gap /\ gap \in Nat
  <1>1. \A b \in Bucket : Len(Tickers[b]) \in Nat
    BY AutoRunAssumption
  <1>2. /\ Losers \in Bucket /\ Gainers \in Bucket
        /\ \A b \in Bucket : b = Losers \/ b = Gainers
    BY DEF Bucket
  <1>3. /\ \A gap \in GapSteps : gap \in Nat
        /\ \A b \in Bucket, gap \in GapSteps : Len(Tickers[b]) <= gap
    BY AutoRunAssumption
  <1>4. \E n \in Nat : (\A b \in Bucket : Len(Tickers[b]) <= n) /\ \A gap \in GapSteps : n <= gap
    <2>1. CASE Len(Tickers[Losers]) <= Len(Tickers[Gainers])
      BY <1>1, <1>2, <1>3, <2>1
    <2>2. CASE Len(Tickers[Gainers]) <= Len(Tickers[Losers])
      BY <1>1, <1>2, <1>3, <2>2
    <2>. QED
      BY <1>1, <1>2, <2>1, <2>2
  <1>. QED
    BY <1>3, <1>4 DEF Size

LEMMA TradeFields ==
  ASSUME NEW t \in Trades
  PROVE  /\ t.id \in Nat /\ t.symbol \in Symbol /\ t.bucket \in Bucket /\ t.run \in Nat
         /\ t.cycle \in Nat /\ t.set \in Nat /\ t.open \in BOOLEAN /\ t.finished \in BOOLEAN
  BY DEF Trades

LEMMA TradeTurned ==
  ASSUME NEW t \in Trades, NEW v \in BOOLEAN
  PROVE  /\ [t EXCEPT !.open = v] \in Trades
         /\ [t EXCEPT !.finished = v] \in Trades
         /\ [t EXCEPT !.open = v].id = t.id
         /\ [t EXCEPT !.open = v].run = t.run
         /\ [t EXCEPT !.open = v].cycle = t.cycle
         /\ [t EXCEPT !.finished = v].id = t.id
         /\ [t EXCEPT !.finished = v].run = t.run
         /\ [t EXCEPT !.finished = v].cycle = t.cycle
  BY DEF Trades

LEMMA AutoFields ==
  ASSUME NEW a \in AutoRuns
  PROVE  /\ a.id \in Nat /\ a.target \in Targets /\ a.phase \in Phases
         /\ a.cycle \in Nat /\ a.completed \in Nat /\ a.entries \in SUBSET Nat
         /\ a # None
  BY AutoRunAssumption DEF AutoRuns

LEMMA InPhaseTyped ==
  ASSUME NEW a \in AutoRuns, NEW phase \in Phases, NEW cycle \in Nat, NEW completed \in Nat,
         NEW entries \in SUBSET Nat, NEW b, b = InPhase(a, phase, cycle, completed, entries)
  PROVE  /\ b \in AutoRuns /\ b # None
         /\ b.id = a.id /\ b.phase = phase /\ b.cycle = cycle
         /\ b.completed = completed /\ b.entries = entries
  <1>1. b = [id |-> a.id, target |-> a.target, phase |-> phase, cycle |-> cycle,
             completed |-> completed, entries |-> entries]
    BY DEF InPhase
  <1>2. b \in AutoRuns
    BY <1>1, AutoFields DEF AutoRuns
  <1>. QED
    BY <1>1, <1>2, AutoFields

LEMMA CallFields ==
  ASSUME NEW c \in Calls
  PROVE  /\ c.from \in {"engine", "control", "manual", "single"}
         /\ c.run \in Nat /\ c.cycle \in Nat /\ c.set \in Nat /\ c.at \in Nat
         /\ c.left \in SUBSET Bucket /\ c.base \in SUBSET Trades /\ c.made \in SUBSET Nat
         /\ c.wanted \in Symbol \cup {None}
  BY DEF Calls

LEMMA OpenTrades ==
  ASSUME NEW ts \in SUBSET Trades
  PROVE  Open(ts) \in SUBSET Trades
  BY DEF Open
-----------------------------------------------------------------------------
(* The entries of a part.                                                  *)

LEMMA PlaceInSet ==
  ASSUME NEW b \in Bucket, NEW cand \in SUBSET DOMAIN Tickers[b], NEW i \in cand
  PROVE  PlaceAmong(cand, i) \in 1 .. Len(Tickers[b])
  <1>1. Tickers[b] \in Seq(Symbol)
    BY AutoRunAssumption
  <1>2. /\ DOMAIN Tickers[b] = 1 .. Len(Tickers[b])
        /\ Len(Tickers[b]) \in Nat
    BY <1>1
  <1>3. i \in 1 .. Len(Tickers[b]) /\ i \in Nat /\ i >= 1
    BY <1>2
  <1>. DEFINE upTo == {j \in cand : j <= i}
  <1>4. upTo \subseteq 1 .. i /\ i \in upTo
    <2>1. ASSUME NEW j \in upTo PROVE j \in 1 .. i
      <3>1. j \in DOMAIN Tickers[b] /\ j <= i
        OBVIOUS
      <3>2. j \in 1 .. Len(Tickers[b])
        BY <1>2, <3>1
      <3>. QED
        BY <1>3, <3>1, <3>2
    <2>2. i \in upTo
      BY <1>3
    <2>. QED
      BY <2>1, <2>2
  <1>5. IsFiniteSet(1 .. i) /\ Cardinality(1 .. i) = i
    BY <1>3, FS_Interval
  <1>. HIDE DEF upTo
  <1>6. IsFiniteSet(upTo) /\ Cardinality(upTo) <= i
    BY <1>4, <1>5, FS_Subset
  <1>7. Cardinality(upTo) \in Nat /\ Cardinality(upTo) # 0
    BY <1>4, <1>6, FS_CardinalityType, FS_EmptySet
  <1>8. Cardinality(upTo) \in 1 .. Len(Tickers[b])
    BY <1>2, <1>3, <1>6, <1>7
  <1>. QED
    BY <1>8 DEF PlaceAmong, upTo

LEMMA NewEntriesReserved ==
  ASSUME NEW c \in Calls, c.left # {}, NEW t \in NewEntries(c)
  PROVE  /\ t \in Trades
         /\ t.id \in Reserved(c)
         /\ t.run = c.run /\ t.cycle = c.cycle
  <1>. DEFINE b    == PartOf(c)
              cand == Candidates(c.base, b)
  <1>1. b \in Bucket
    BY CallFields DEF PartOf, Bucket
  <1>2. PICK i \in Plan(c.base, b) : t = Entry(IdAt(c, i), Tickers[b][i], b, c)
    BY DEF NewEntries
  <1>. HIDE DEF b
  <1>3. i \in cand /\ cand \in SUBSET DOMAIN Tickers[b]
    BY DEF Plan, Candidates
  <1>4. IdAt(c, i) = c.at + PlaceAmong(cand, i) - 1
    BY DEF IdAt, b
  <1>5. PlaceAmong(cand, i) \in 1 .. Len(Tickers[b])
    <2>. HIDE DEF cand
    <2>. QED
      BY <1>1, <1>3, PlaceInSet
  <1>6. c.at \in Nat /\ Size \in Nat /\ Len(Tickers[b]) <= Size /\ Len(Tickers[b]) \in Nat
    <2>1. Tickers[b] \in Seq(Symbol)
      BY <1>1, AutoRunAssumption
    <2>. QED
      BY <1>1, <2>1, CallFields, SizeFits
  <1>7. IdAt(c, i) \in Reserved(c) /\ IdAt(c, i) \in Nat
    <2>. DEFINE p == PlaceAmong(cand, i)
    <2>1. IdAt(c, i) = c.at + p - 1 /\ p \in 1 .. Len(Tickers[b])
      BY <1>4, <1>5
    <2>. HIDE DEF p
    <2>. QED
      BY <1>6, <2>1 DEF Reserved
  <1>8. Tickers[b][i] \in Symbol
    <2>1. i \in DOMAIN Tickers[b]
      BY <1>3
    <2>. QED
      BY <1>1, <2>1 DEF Symbol, Offered
  <1>9. t = [id |-> IdAt(c, i), symbol |-> Tickers[b][i], bucket |-> b, run |-> c.run,
             cycle |-> c.cycle, set |-> c.set, open |-> TRUE, finished |-> FALSE]
    BY <1>2 DEF Entry
  <1>. QED
    BY <1>1, <1>7, <1>8, <1>9, CallFields DEF Trades
-----------------------------------------------------------------------------
(* What a step may do to the calls and the trades, and what stays of it.   *)

\* A call that waits waited before, or has reserved ids beyond all others.
Moves(cs, at, cs2, at2) ==
    /\ at <= at2
    /\ \A s \in Slot : Waits(cs2, s) =>
          \/ cs2[s] = cs[s]
          \/ cs2[s].at \in Nat /\ at + Size <= cs2[s].at /\ cs2[s].at <= at2

\* A trade has the key of one that was there, or is new, of one cycle.
TradesMove(ts, ts2, run, cycle, cs, at, cs2, at2) ==
    \A t \in ts2 :
        \/ \E u \in ts : u.id = t.id /\ u.run = t.run /\ u.cycle = t.cycle
        \/ /\ ~Used(t.id, cs, at) /\ Used(t.id, cs2, at2)
           /\ t.run = run /\ t.cycle = cycle

LEMMA UsedStays ==
  ASSUME NEW cs, NEW at \in Nat, NEW cs2, NEW at2 \in Nat, Moves(cs, at, cs2, at2),
         NEW n, Used(n, cs, at)
  PROVE  Used(n, cs2, at2)
  <1>1. n \in Nat /\ n < at + Size /\ Size \in Nat /\ at <= at2
    BY SizeFits DEF Used, Moves
  <1>2. ASSUME NEW s \in Slot, Waits(cs2, s)
        PROVE  n \notin Reserved(cs2[s])
    <2>1. CASE cs2[s] = cs[s]
      BY <1>2, <2>1 DEF Used, Waits
    <2>2. CASE cs2[s].at \in Nat /\ at + Size <= cs2[s].at
      BY <1>1, <2>2 DEF Reserved
    <2>. QED
      BY <1>2, <2>1, <2>2 DEF Moves
  <1>. QED
    BY <1>1, <1>2 DEF Used

LEMMA OwnedStays ==
  ASSUME NEW cs, NEW at \in Nat, NEW cs2, NEW at2 \in Nat, Moves(cs, at, cs2, at2),
         NEW ts, NEW ts2, NEW run, NEW cycle,
         TradesMove(ts, ts2, run, cycle, cs, at, cs2, at2),
         NEW ids, NEW r, NEW c, Owned(ids, r, c, cs, at, ts)
  PROVE  Owned(ids, r, c, cs2, at2, ts2)
  <1>1. ASSUME NEW n \in ids
        PROVE  /\ Used(n, cs2, at2)
               /\ \A t \in ts2 : t.id = n => t.run = r /\ t.cycle = c
    <2>1. Used(n, cs, at) /\ \A t \in ts : t.id = n => t.run = r /\ t.cycle = c
      BY DEF Owned
    <2>2. Used(n, cs2, at2)
      BY <2>1, UsedStays
    <2>. QED
      BY <2>1, <2>2 DEF TradesMove
  <1>. QED
    BY <1>1 DEF Owned

LEMMA TradesStay ==
  ASSUME NEW cs, NEW at \in Nat, NEW cs2, NEW at2 \in Nat, Moves(cs, at, cs2, at2),
         NEW ts, NEW ts2, NEW run, NEW cycle,
         TradesMove(ts, ts2, run, cycle, cs, at, cs2, at2),
         TradesOk(cs, at, ts)
  PROVE  TradesOk(cs2, at2, ts2)
  <1>1. ASSUME NEW t \in ts2 PROVE Used(t.id, cs2, at2)
    <2>1. CASE \E u \in ts : u.id = t.id
      BY <2>1, UsedStays DEF TradesOk
    <2>. QED
      BY <2>1 DEF TradesMove
  <1>2. ASSUME NEW t \in ts2, NEW u \in ts2, t.id = u.id
        PROVE  t.run = u.run /\ t.cycle = u.cycle
    <2>1. \A x \in ts : Used(x.id, cs, at)
      BY DEF TradesOk
    <2>2. CASE Used(t.id, cs, at)
      <3>1. /\ \E x \in ts : x.id = t.id /\ x.run = t.run /\ x.cycle = t.cycle
            /\ \E x \in ts : x.id = u.id /\ x.run = u.run /\ x.cycle = u.cycle
        BY <1>2, <2>2 DEF TradesMove
      <3>. QED
        BY <1>2, <3>1 DEF TradesOk
    <2>3. CASE ~Used(t.id, cs, at)
      BY <1>2, <2>1, <2>3 DEF TradesMove
    <2>. QED
      BY <2>2, <2>3
  <1>. QED
    BY <1>1, <1>2 DEF TradesOk

LEMMA RunStays ==
  ASSUME NEW cs, NEW at \in Nat, NEW cs2, NEW at2 \in Nat, Moves(cs, at, cs2, at2),
         NEW ts, NEW ts2, NEW run, NEW cycle,
         TradesMove(ts, ts2, run, cycle, cs, at, cs2, at2),
         NEW n \in Nat, NEW n2 \in Nat, n <= n2,
         NEW a, RunOk(a, n, cs, at, ts)
  PROVE  RunOk(a, n2, cs2, at2, ts2)
  <1>1. SUFFICES ASSUME a # None
                 PROVE  RunOk(a, n2, cs2, at2, ts2)
    BY DEF RunOk
  <1>2. /\ a.id \in 1 .. n /\ Follows(a)
        /\ a.phase = "running" <=> a.entries # {}
        /\ Owned(a.entries, a.id, a.cycle, cs, at, ts)
    BY <1>1 DEF RunOk
  <1>3. Owned(a.entries, a.id, a.cycle, cs2, at2, ts2)
    BY <1>2, OwnedStays
  <1>4. a.id \in 1 .. n2
    BY <1>2
  <1>. QED
    BY <1>2, <1>3, <1>4 DEF RunOk

LEMMA CallStays ==
  ASSUME NEW cs, NEW at \in Nat, NEW cs2, NEW at2 \in Nat, Moves(cs, at, cs2, at2),
         NEW ts, NEW ts2, NEW run, NEW cycle,
         TradesMove(ts, ts2, run, cycle, cs, at, cs2, at2),
         NEW n \in Nat, NEW n2 \in Nat, n <= n2,
         NEW a, NEW a2, NEW s, CallOk(s, a, n, cs, at, ts),
         Waits(cs2, s) => /\ cs[s] \in Calls
                          /\ cs2[s] = cs[s]
                          /\ Answers(cs[s], a2)
  PROVE  CallOk(s, a2, n2, cs2, at2, ts2)
  <1>1. SUFFICES ASSUME Waits(cs2, s)
                 PROVE  CallOk(s, a2, n2, cs2, at2, ts2)
    BY DEF CallOk
  <1>2. cs[s] \in Calls /\ cs2[s] = cs[s] /\ Answers(cs[s], a2) /\ Waits(cs, s)
    BY <1>1 DEF Waits
  <1>3. /\ cs[s].at <= at /\ cs[s].left # {} /\ cs[s].run <= n
        /\ Owned(cs[s].made, cs[s].run, cs[s].cycle, cs, at, ts)
        /\ cs[s].from = "manual" => cs[s].run = 0
        /\ cs[s].from = "control" => cs[s].cycle = 1
    BY <1>2 DEF CallOk
  <1>4. Owned(cs[s].made, cs[s].run, cs[s].cycle, cs2, at2, ts2)
    BY <1>3, OwnedStays
  <1>5. cs[s].at <= at2 /\ cs[s].run <= n2
    BY <1>2, <1>3, CallFields DEF Moves
  <1>. QED
    BY <1>2, <1>3, <1>4, <1>5 DEF CallOk
-----------------------------------------------------------------------------
(* What an answer makes of the auto-run.                                   *)

LEMMA SettledKeeps ==
  ASSUME NEW cs, NEW at, NEW ts, NEW n,
         NEW a \in AutoRuns \cup {None}, RunOk(a, n, cs, at, ts),
         NEW c \in Calls, NEW made \in SUBSET Nat,
         Expects(a, c) => a.cycle = c.cycle /\ Owned(made, c.run, c.cycle, cs, at, ts),
         NEW b, b = Settled(a, c, made)
  PROVE  /\ b \in AutoRuns \cup {None}
         /\ RunOk(b, n, cs, at, ts)
         /\ b = a \/ (Expects(a, c) /\ b # None /\ b.id = a.id)
  <1>1. CASE ~Expects(a, c)
    BY <1>1 DEF Settled
  <1>2. CASE Expects(a, c)
    <2>1. a \in AutoRuns /\ a # None /\ a.id = c.run /\ a.phase = "starting"
      BY <1>2 DEF Expects
    <2>. DEFINE phase == IF made = {} THEN "done" ELSE "running"
    <2>2. b = InPhase(a, phase, a.cycle, a.completed, made)
      BY <1>2 DEF Settled
    <2>3. phase \in Phases /\ (phase = "running" <=> made # {}) /\ phase # "starting" /\ phase # "cooldown"
      BY DEF Phases
    <2>. HIDE DEF phase
    <2>4. /\ b \in AutoRuns /\ b # None /\ b.id = a.id /\ b.phase = phase /\ b.cycle = a.cycle
          /\ b.completed = a.completed /\ b.entries = made
      BY <2>1, <2>2, <2>3, AutoFields, InPhaseTyped
    <2>5. Follows(b) /\ b.id \in 1 .. n
      BY <2>1, <2>3, <2>4 DEF RunOk, Follows
    <2>6. Owned(b.entries, b.id, b.cycle, cs, at, ts)
      BY <1>2, <2>1, <2>4
    <2>. QED
      BY <1>2, <2>3, <2>4, <2>5, <2>6 DEF RunOk
  <1>. QED
    BY <1>1, <1>2

\* An auto-run in another phase, without entries.
LEMMA EmptyPhase ==
  ASSUME NEW cs, NEW at, NEW ts, NEW n,
         NEW a \in AutoRuns, RunOk(a, n, cs, at, ts),
         NEW phase \in Phases \ {"running"}, NEW cycle \in Nat, NEW completed \in Nat,
         NEW b, b = InPhase(a, phase, cycle, completed, {}),
         completed <= MaxRuns,
         phase # "done" => completed < MaxRuns,
         phase = "starting" => cycle = completed + 1,
         phase = "cooldown" => cycle \in {completed, completed + 1}
  PROVE  /\ b \in AutoRuns /\ b # None /\ b.id = a.id /\ b.phase = phase /\ b.cycle = cycle
         /\ RunOk(b, n, cs, at, ts)
  <1>1. /\ b \in AutoRuns /\ b # None /\ b.id = a.id /\ b.phase = phase /\ b.cycle = cycle
        /\ b.completed = completed /\ b.entries = {}
    BY InPhaseTyped
  <1>2. Follows(b)
    BY <1>1 DEF Follows
  <1>3. Owned({}, b.id, b.cycle, cs, at, ts)
    BY DEF Owned
  <1>4. b.id \in 1 .. n
    BY <1>1, AutoFields DEF RunOk
  <1>. QED
    BY <1>1, <1>2, <1>3, <1>4 DEF RunOk

LEMMA ResumeKeeps ==
  ASSUME NEW cs, NEW at, NEW ts, NEW n, TradesOk(cs, at, ts),
         NEW a \in AutoRuns \cup {None}, RunOk(a, n, cs, at, ts),
         NEW some \in SUBSET ts, some \subseteq Trades,
         NEW b, b = Resume(a, some)
  PROVE  b \in AutoRuns \cup {None} /\ RunOk(b, n, cs, at, ts)
  <1>1. CASE a = None \/ a.phase # "starting"
    BY <1>1 DEF Resume
  <1>2. CASE a # None /\ a.phase = "starting"
    <2>. DEFINE mine == OpenOfCycle(a, some)
                ids  == {t.id : t \in mine}
    <2>1. a \in AutoRuns /\ Follows(a) /\ a.id \in 1 .. n
      BY <1>2 DEF RunOk
    <2>2. CASE mine = {}
      <3>1. b = InPhase(a, "cooldown", a.cycle, a.completed, {})
        BY <1>2, <2>2 DEF Resume
      <3>2. /\ a.completed < MaxRuns /\ a.completed <= MaxRuns /\ a.cycle = a.completed + 1
            /\ "cooldown" \in Phases \ {"running"}
        BY <1>2, <2>1, AutoFields DEF Follows, Phases
      <3>. QED
        BY <2>1, <3>1, <3>2, AutoFields, EmptyPhase
    <2>3. CASE mine # {}
      <3>1. b = InPhase(a, "running", a.cycle, a.completed, ids)
        BY <1>2, <2>3 DEF Resume
      <3>2. \A t \in mine : t \in ts /\ t \in Trades /\ t.run = a.id /\ t.cycle = a.cycle
        BY DEF OpenOfCycle, Open
      <3>. HIDE DEF mine
      <3>3. ids \in SUBSET Nat /\ ids # {}
        BY <2>3, <3>2, TradeFields
      <3>4. Owned(ids, a.id, a.cycle, cs, at, ts)
        BY <3>2 DEF Owned, TradesOk
      <3>. HIDE DEF ids
      <3>5. /\ b \in AutoRuns /\ b # None /\ b.id = a.id /\ b.phase = "running"
            /\ b.cycle = a.cycle /\ b.completed = a.completed /\ b.entries = ids
        <4>1. "running" \in Phases
          BY DEF Phases
        <4>. QED
          BY <2>1, <3>1, <3>3, <4>1, AutoFields, InPhaseTyped
      <3>6. Follows(b)
        BY <1>2, <2>1, <3>5 DEF Follows
      <3>. QED
        BY <2>1, <3>3, <3>4, <3>5, <3>6 DEF RunOk
    <2>. QED
      BY <2>2, <2>3
  <1>. QED
    BY <1>1, <1>2
-----------------------------------------------------------------------------
(* Steps, by what they do to the calls.                                    *)

LEMMA Typed ==
  ASSUME IInv
  PROVE  /\ auto \in AutoRuns \cup {None}
         /\ trades \in SUBSET Trades
         /\ calls \in [Slot -> Calls \cup {None}]
         /\ before.auto \in AutoRuns \cup {None}
         /\ before.trades \in SUBSET Trades
         /\ before \in [auto : AutoRuns \cup {None}, trades : SUBSET Trades]
         /\ lastAt \in Nat /\ started \in Nat /\ reloads \in Nat
         /\ overlap \in BOOLEAN
         /\ Known \in SUBSET Trades
         /\ \A s \in Slot : Waits(calls, s) => calls[s] \in Calls
  BY DEF IInv, TypeOK, Known, Waits

\* The older store is that of before the step, or of no time.
Remembers == Remember \/ UNCHANGED before

LEMMA Remembered ==
  ASSUME IInv, Remembers
  PROVE  /\ before'.auto \in {auto, before.auto, None}
         /\ before'.trades \subseteq Known
         /\ before' \in [auto : AutoRuns \cup {None}, trades : SUBSET Trades]
  <1>1. CASE before' = [auto |-> auto, trades |-> trades]
    BY <1>1, Typed DEF Known
  <1>2. CASE before' = Oldest
    BY <1>2 DEF Oldest
  <1>3. CASE before' = before
    BY <1>3, Typed DEF Known
  <1>. QED
    BY <1>1, <1>2, <1>3 DEF Remembers, Remember

\* A step of which the calls and the trades are as Moves and TradesMove say.
LEMMA StepKeeps ==
  ASSUME IInv, Remembers, NEW run, NEW cycle,
         Moves(calls, lastAt, calls', lastAt'),
         TradesMove(Known, trades', run, cycle, calls, lastAt, calls', lastAt'),
         auto' \in AutoRuns \cup {None}, trades' \in SUBSET Trades,
         calls' \in [Slot -> Calls \cup {None}],
         lastAt' \in Nat, started' \in Nat, started <= started', reloads' \in Nat,
         overlap' \in BOOLEAN
  PROVE  /\ TradesMove(Known, Known', run, cycle, calls, lastAt, calls', lastAt')
         /\ \A a : RunOk(a, started, calls, lastAt, Known) =>
                      RunOk(a, started', calls', lastAt', Known')
         /\ \A ids, r, c : Owned(ids, r, c, calls, lastAt, Known) =>
                      Owned(ids, r, c, calls', lastAt', Known')
         /\ TradesOk(calls', lastAt', Known')
         /\ (/\ RunOk(auto', started', calls', lastAt', Known')
             /\ \A s \in Slot : CallOk(s, auto', started', calls', lastAt', Known')
             /\ Apart(calls') /\ Singles(calls')) => IInv'
  <1>1. TradesMove(Known, Known', run, cycle, calls, lastAt, calls', lastAt')
    BY Remembered DEF Known, TradesMove
  <1>2. \A a : RunOk(a, started, calls, lastAt, Known) =>
                      RunOk(a, started', calls', lastAt', Known')
    BY <1>1, Typed, RunStays
  <1>3. \A ids, r, c : Owned(ids, r, c, calls, lastAt, Known) =>
                      Owned(ids, r, c, calls', lastAt', Known')
    BY <1>1, Typed, OwnedStays
  <1>4. TradesOk(calls', lastAt', Known')
    BY <1>1, Typed, TradesStay DEF IInv
  <1>5. RunOk(before'.auto, started', calls', lastAt', Known')
    BY <1>2, Remembered DEF IInv, RunOk
  <1>6. TypeOK'
    BY Remembered DEF TypeOK
  <1>. QED
    BY <1>1, <1>2, <1>3, <1>4, <1>5, <1>6 DEF IInv

LEMMA OneGoesOn ==
  ASSUME IInv, NEW run, NEW cycle,
         Moves(calls, lastAt, calls', lastAt'),
         TradesMove(Known, Known', run, cycle, calls, lastAt, calls', lastAt'),
         lastAt' \in Nat, started' \in Nat, started <= started',
         NEW s \in Slot,
         Waits(calls', s) => calls'[s] = calls[s] /\ Answers(calls[s], auto')
  PROVE  CallOk(s, auto', started', calls', lastAt', Known')
  <1>1. CallOk(s, auto, started, calls, lastAt, Known)
    BY DEF IInv
  <1>2. Waits(calls', s) => /\ calls[s] \in Calls
                            /\ calls'[s] = calls[s]
                            /\ Answers(calls[s], auto')
    BY Typed DEF Waits
  <1>3. lastAt \in Nat /\ started \in Nat
    BY Typed
  <1>. QED
    BY <1>1, <1>2, <1>3, CallStays

\* Every call that waits goes on as it is, or some have ended.
LEMMA CallsGoOn ==
  ASSUME IInv, Remembers, NEW run, NEW cycle,
         \A s \in Slot : Waits(calls', s) => calls'[s] = calls[s] /\ Answers(calls[s], auto'),
         Singles(calls'),
         TradesMove(Known, trades', run, cycle, calls, lastAt, calls', lastAt'),
         auto' \in AutoRuns \cup {None}, trades' \in SUBSET Trades,
         calls' \in [Slot -> Calls \cup {None}],
         lastAt' \in Nat, lastAt <= lastAt', started' \in Nat, started <= started',
         reloads' \in Nat, overlap' \in BOOLEAN
  PROVE  /\ Moves(calls, lastAt, calls', lastAt')
         /\ RunOk(auto', started', calls', lastAt', Known') => IInv'
  <1>1. Moves(calls, lastAt, calls', lastAt')
    BY DEF Moves
  <1>2. TradesMove(Known, Known', run, cycle, calls, lastAt, calls', lastAt')
    BY <1>1, StepKeeps
  <1>3. ASSUME NEW s \in Slot
        PROVE  CallOk(s, auto', started', calls', lastAt', Known')
    BY <1>1, <1>2, OneGoesOn
  <1>4. Apart(calls')
    <2>1. \A s \in Slot : Waits(calls', s) => Waits(calls, s) /\ calls'[s] = calls[s]
      BY DEF Waits
    <2>. QED
      BY <2>1 DEF IInv, Apart
  <1>. QED
    BY <1>1, <1>3, <1>4, StepKeeps

\* The call at s becomes d, which has reserved new ids.
LEMMA CallComes ==
  ASSUME IInv, Remembers, NEW run, NEW cycle, NEW s \in Slot, NEW d \in Calls,
         d.from # "single", d.at = lastAt', lastAt + Size <= lastAt',
         calls' = [calls EXCEPT ![s] = d],
         \A r \in Slot \ {s} : Waits(calls, r) =>
            /\ Answers(calls[r], auto')
            /\ (d.from = "control" /\ calls[r].from # "manual") => d.run # calls[r].run
            /\ (calls[r].from = "control" /\ d.from # "manual") => d.run # calls[r].run,
         TradesMove(Known, trades', run, cycle, calls, lastAt, calls', lastAt'),
         auto' \in AutoRuns \cup {None}, trades' \in SUBSET Trades,
         lastAt' \in Nat, started' \in Nat, started <= started',
         reloads' \in Nat, overlap' \in BOOLEAN
  PROVE  /\ Moves(calls, lastAt, calls', lastAt')
         /\ (/\ RunOk(auto', started', calls', lastAt', Known')
             /\ CallOk(s, auto', started', calls', lastAt', Known')) => IInv'
  <1>0. /\ calls' \in [Slot -> Calls \cup {None}]
        /\ calls'[s] = d /\ \A r \in Slot : r # s => calls'[r] = calls[r]
        /\ Size \in Nat /\ lastAt \in Nat
    BY Typed, SizeFits
  <1>1. Moves(calls, lastAt, calls', lastAt')
    BY <1>0 DEF Moves
  <1>2. TradesMove(Known, Known', run, cycle, calls, lastAt, calls', lastAt')
    BY <1>0, <1>1, StepKeeps
  <1>3. ASSUME NEW r \in Slot, r # s
        PROVE  CallOk(r, auto', started', calls', lastAt', Known')
    <2>1. Waits(calls', r) => calls'[r] = calls[r] /\ Answers(calls[r], auto')
      BY <1>0, <1>3 DEF Waits
    <2>. QED
      BY <1>1, <1>2, <2>1, OneGoesOn
  <1>4. ASSUME NEW r \in Slot, r # s, Waits(calls, r)
        PROVE  Reserved(d) \cap Reserved(calls[r]) = {}
    <2>1. calls[r].at \in Nat /\ calls[r].at <= lastAt
      BY <1>4, Typed, CallFields DEF IInv, CallOk
    <2>. QED
      BY <1>0, <2>1 DEF Reserved
  <1>5. Apart(calls')
    <2>1. \A r \in Slot : r # s => (Waits(calls', r) <=> Waits(calls, r)) /\ calls'[r] = calls[r]
      BY <1>0 DEF Waits
    <2>. QED
      BY <1>0, <1>4, <2>1 DEF IInv, Apart
  <1>6. Singles(calls')
    BY <1>0 DEF IInv, Singles
  <1>. QED
    BY <1>0, <1>1, <1>3, <1>5, <1>6, StepKeeps

\* Trades whose keys were there.
LEMMA OldTrades ==
  ASSUME NEW cs, NEW at, NEW cs2, NEW at2, NEW ts, NEW ts2,
         \A t \in ts2 : \E u \in ts : u.id = t.id /\ u.run = t.run /\ u.cycle = t.cycle
  PROVE  TradesMove(ts, ts2, 0, 0, cs, at, cs2, at2)
  BY DEF TradesMove

LEMMA KnownTrades ==
  /\ \A t \in trades : \E u \in Known : u.id = t.id /\ u.run = t.run /\ u.cycle = t.cycle
  /\ trades \subseteq Known
  BY DEF Known

\* Nothing happens to the calls.
LEMMA CallsStand ==
  ASSUME IInv, Remembers, UNCHANGED <<calls, lastAt, started, reloads, overlap>>,
         \A t \in trades' : \E u \in Known : u.id = t.id /\ u.run = t.run /\ u.cycle = t.cycle,
         auto' \in AutoRuns \cup {None}, trades' \in SUBSET Trades,
         \A s \in Slot : Waits(calls, s) => Answers(calls[s], auto'),
         RunOk(auto', started, calls, lastAt, Known)
  PROVE  IInv'
  <1>1. TradesMove(Known, trades', 0, 0, calls, lastAt, calls', lastAt')
    BY OldTrades
  <1>2. /\ calls' \in [Slot -> Calls \cup {None}]
        /\ lastAt' \in Nat /\ lastAt <= lastAt' /\ started' \in Nat /\ started <= started'
        /\ reloads' \in Nat /\ overlap' \in BOOLEAN
    BY Typed
  <1>3. \A s \in Slot : Waits(calls', s) => calls'[s] = calls[s] /\ Answers(calls[s], auto')
    OBVIOUS
  <1>4. Moves(calls, lastAt, calls', lastAt')
    BY <1>2 DEF Moves
  <1>5. RunOk(auto', started', calls', lastAt', Known')
    BY <1>1, <1>2, <1>4, StepKeeps
  <1>6. Singles(calls')
    BY DEF IInv
  <1>. QED
    BY <1>1, <1>2, <1>3, <1>5, <1>6, CallsGoOn

LEMMA AnswersNow ==
  ASSUME IInv, NEW s \in Slot, Waits(calls, s)
  PROVE  Answers(calls[s], auto)
  BY DEF IInv, CallOk
-----------------------------------------------------------------------------
(* The actions.                                                            *)

LEMMA StopKeeps ==
  ASSUME IInv, StopAutoRun
  PROVE  IInv'
  <1>1. /\ auto' = None /\ trades' = trades
        /\ UNCHANGED <<calls, lastAt, started, reloads, overlap>>
        /\ Remembers
    BY DEF StopAutoRun, Remembers
  <1>2. RunOk(auto', started, calls, lastAt, Known) /\ \A c : Answers(c, auto')
    BY <1>1 DEF RunOk, Answers
  <1>. QED
    BY <1>1, <1>2, Typed, KnownTrades, CallsStand

LEMMA RunWindowKeeps ==
  ASSUME IInv, RunWindowEnds
  PROVE  IInv'
  <1>1. /\ auto # None /\ auto.phase = "running"
        /\ trades' = {[t EXCEPT !.finished = (t.finished \/ SourceCompleted(auto, t))] : t \in trades}
        /\ auto' = WindowOver(auto)
        /\ UNCHANGED <<calls, lastAt, started, reloads, overlap>>
        /\ Remembers
    BY Zenon DEF RunWindowEnds, Remembers
  <1>2. /\ trades' \in SUBSET Trades
        /\ \A t \in trades' : \E u \in Known : u.id = t.id /\ u.run = t.run /\ u.cycle = t.cycle
    <2>1. ASSUME NEW u \in trades
          PROVE  \E v \in BOOLEAN : v = (u.finished \/ SourceCompleted(auto, u))
      BY Zenon
    <2>2. ASSUME NEW t \in trades'
          PROVE  \E u \in trades : \E v \in BOOLEAN : t = [u EXCEPT !.finished = v]
      <3>1. PICK u \in trades : t = [u EXCEPT !.finished = (u.finished \/ SourceCompleted(auto, u))]
        BY <1>1, Zenon
      <3>2. PICK v \in BOOLEAN : v = (u.finished \/ SourceCompleted(auto, u))
        BY <2>1
      <3>3. t = [u EXCEPT !.finished = v]
        BY <3>1, <3>2, Zenon
      <3>. QED
        BY <3>3
    <2>3. ASSUME NEW t \in trades'
          PROVE  t \in Trades /\ \E u \in trades : u.id = t.id /\ u.run = t.run /\ u.cycle = t.cycle
      <3>1. PICK u \in trades : \E v \in BOOLEAN : t = [u EXCEPT !.finished = v]
        BY <2>2
      <3>2. PICK v \in BOOLEAN : t = [u EXCEPT !.finished = v]
        BY <3>1
      <3>3. u \in Trades
        BY Typed
      <3>. QED
        BY <3>2, <3>3, TradeTurned
    <2>. QED
      BY <2>3, KnownTrades
  <1>3. auto \in AutoRuns /\ RunOk(auto, started, calls, lastAt, Known)
    BY <1>1, Typed DEF IInv
  <1>. DEFINE phase == IF auto.completed + 1 >= MaxRuns THEN "done" ELSE "cooldown"
  <1>4. auto' = InPhase(auto, phase, auto.cycle, auto.completed + 1, {})
    BY <1>1 DEF WindowOver
  <1>5. /\ phase \in Phases \ {"running"} /\ phase # "starting"
        /\ phase # "done" => auto.completed + 1 < MaxRuns
        /\ auto.completed + 1 <= MaxRuns
        /\ auto.cycle = auto.completed + 1
        /\ auto.cycle \in Nat /\ auto.completed + 1 \in Nat
    BY <1>1, <1>3, AutoFields, AutoRunAssumption DEF RunOk, Follows, Phases
  <1>. HIDE DEF phase
  <1>6. /\ auto' \in AutoRuns /\ auto'.id = auto.id
        /\ RunOk(auto', started, calls, lastAt, Known)
    BY <1>3, <1>4, <1>5, EmptyPhase
  <1>7. \A s \in Slot : Waits(calls, s) => Answers(calls[s], auto')
    BY <1>1, <1>6, AnswersNow DEF Answers
  <1>. QED
    BY <1>1, <1>2, <1>6, <1>7, CallsStand

LEMMA CloseKeeps ==
  ASSUME IInv, NEW t \in trades, CloseTrade(t)
  PROVE  IInv'
  <1>1. /\ trades' = (trades \ {t}) \cup {[t EXCEPT !.open = FALSE]}
        /\ auto' = auto
        /\ UNCHANGED <<calls, lastAt, started, reloads, overlap>>
        /\ Remembers
    BY DEF CloseTrade, Remembers
  <1>2. /\ trades' \in SUBSET Trades
        /\ \A x \in trades' : \E u \in Known : u.id = x.id /\ u.run = x.run /\ u.cycle = x.cycle
    <2>. DEFINE u == [t EXCEPT !.open = FALSE]
    <2>1. u \in Trades /\ u.id = t.id /\ u.run = t.run /\ u.cycle = t.cycle
      BY Typed, TradeTurned
    <2>2. trades' = (trades \ {t}) \cup {u}
      BY <1>1
    <2>. HIDE DEF u
    <2>. QED
      BY <2>1, <2>2, Typed, KnownTrades
  <1>3. /\ RunOk(auto', started, calls, lastAt, Known)
        /\ \A s \in Slot : Waits(calls, s) => Answers(calls[s], auto')
    BY <1>1, AnswersNow DEF IInv
  <1>. QED
    BY <1>1, <1>2, <1>3, Typed, CallsStand

LEMMA RemoveKeeps ==
  ASSUME IInv, NEW gone, RemoveTrades(gone)
  PROVE  IInv'
  <1>1. /\ trades' = trades \ gone
        /\ auto' = auto
        /\ UNCHANGED <<calls, lastAt, started, reloads, overlap>>
        /\ Remembers
    BY DEF RemoveTrades, Remembers
  <1>2. /\ trades' \in SUBSET Trades
        /\ \A x \in trades' : \E u \in Known : u.id = x.id /\ u.run = x.run /\ u.cycle = x.cycle
    BY <1>1, Typed, KnownTrades
  <1>3. /\ RunOk(auto', started, calls, lastAt, Known)
        /\ \A s \in Slot : Waits(calls, s) => Answers(calls[s], auto')
    BY <1>1, AnswersNow DEF IInv
  <1>. QED
    BY <1>1, <1>2, <1>3, Typed, CallsStand

\* The store has the value of now or the one before of either: all of these
\* are known, and no call waits any more.
LEMMA ReloadKeeps ==
  ASSUME IInv, Reload
  PROVE  IInv'
  <1>1. PICK a \in {auto, before.auto}, ts \in {trades, before.trades} :
          /\ auto' = Resume(a, ts)
          /\ trades' = ts
          /\ before' = IF reloads' < MaxReloads THEN [auto |-> a, trades |-> ts] ELSE Oldest
    BY DEF Reload
  <1>2. /\ calls' = [s \in Slot |-> None]
        /\ lastAt' = lastAt /\ started' = started /\ overlap' = overlap /\ reloads' = reloads + 1
    BY DEF Reload
  <1>3. /\ a \in AutoRuns \cup {None} /\ RunOk(a, started, calls, lastAt, Known)
        /\ ts \in SUBSET Known /\ ts \in SUBSET Trades
        /\ TradesOk(calls, lastAt, Known)
    BY Typed DEF IInv, Known
  <1>4. auto' \in AutoRuns \cup {None} /\ RunOk(auto', started, calls, lastAt, Known)
    BY <1>1, <1>3, ResumeKeeps
  <1>5. \A s \in Slot : ~Waits(calls', s)
    BY <1>2 DEF Waits
  <1>6. Moves(calls, lastAt, calls', lastAt') /\ lastAt' \in Nat /\ started' \in Nat
        /\ started <= started'
    BY <1>2, <1>5, Typed DEF Moves
  <1>7. /\ before' \in [auto : AutoRuns \cup {None}, trades : SUBSET Trades]
        /\ before'.auto \in {a, None}
        /\ Known' \subseteq Known
    <2>1. CASE before' = [auto |-> a, trades |-> ts]
      BY <1>1, <1>3, <2>1 DEF Known
    <2>2. CASE before' = Oldest
      BY <1>1, <1>3, <2>2 DEF Known, Oldest
    <2>. QED
      BY <1>1, <2>1, <2>2
  <1>8. TradesMove(Known, Known', 0, 0, calls, lastAt, calls', lastAt')
    BY <1>7, OldTrades
  <1>9. TradesOk(calls', lastAt', Known')
    BY <1>3, <1>6, <1>8, Typed, TradesStay
  <1>10. RunOk(auto', started', calls', lastAt', Known')
    BY <1>4, <1>6, <1>8, Typed, RunStays
  <1>11. RunOk(before'.auto, started', calls', lastAt', Known')
    <2>1. RunOk(a, started', calls', lastAt', Known')
      BY <1>3, <1>6, <1>8, Typed, RunStays
    <2>. QED
      BY <1>7, <2>1 DEF RunOk
  <1>12. TypeOK'
    <2>1. calls' \in [Slot -> Calls \cup {None}] /\ reloads' \in Nat /\ overlap' \in BOOLEAN
      BY <1>2, Typed
    <2>. QED
      BY <1>1, <1>3, <1>4, <1>6, <1>7, <2>1 DEF TypeOK
  <1>13. (\A s \in Slot : CallOk(s, auto', started', calls', lastAt', Known')) /\ Apart(calls')
    BY <1>5 DEF CallOk, Apart
  <1>14. Singles(calls')
    BY <1>2 DEF Singles
  <1>. QED
    BY <1>9, <1>10, <1>11, <1>12, <1>13, <1>14 DEF IInv

\* The answer of the call at s, in the state after the step: made is owned by
\* the call, and nobody else waits for the auto-run that expects it.
LEMMA AnswerTaken ==
  ASSUME IInv, NEW s \in Slot, Waits(calls, s), NEW made \in SUBSET Nat,
         NEW cs, NEW at, NEW ts,
         RunOk(auto, started, cs, at, ts),
         Owned(made, calls[s].run, calls[s].cycle, cs, at, ts),
         auto' = Settled(auto, calls[s], made)
  PROVE  /\ auto' \in AutoRuns \cup {None}
         /\ RunOk(auto', started, cs, at, ts)
         /\ \A r \in Slot \ {s} : Waits(calls, r) => Answers(calls[r], auto')
  <1>. DEFINE c == calls[s]
  <1>1. c \in Calls /\ auto \in AutoRuns \cup {None}
    BY Typed
  <1>2. Expects(auto, c) => /\ auto.id = c.run /\ auto.id >= 1 /\ auto.phase = "starting"
                            /\ auto.cycle = c.cycle /\ c.from # "manual"
    <2>1. SUFFICES ASSUME Expects(auto, c)
                   PROVE  /\ auto.id = c.run /\ auto.id >= 1 /\ auto.phase = "starting"
                          /\ auto.cycle = c.cycle /\ c.from # "manual"
      OBVIOUS
    <2>2. /\ auto # None /\ auto.id = c.run /\ auto.phase = "starting"
          /\ c.from = "engine" => auto.cycle = c.cycle
      BY <2>1 DEF Expects
    <2>3. auto.id \in Nat /\ auto.id >= 1
      BY <1>1, <2>2, AutoFields DEF RunOk
    <2>4. /\ c.from = "manual" => c.run = 0
          /\ c.from = "control" => c.cycle = 1
          /\ Answers(c, auto)
      BY DEF IInv, CallOk
    <2>5. c.from \in {"engine", "control", "manual"}
      BY <1>1, CallFields DEF Waits
    <2>. QED
      BY <2>2, <2>3, <2>4, <2>5 DEF Answers
  <1>3. /\ auto' \in AutoRuns \cup {None}
        /\ RunOk(auto', started, cs, at, ts)
        /\ auto' = auto \/ (Expects(auto, c) /\ auto' # None /\ auto'.id = auto.id)
    BY <1>1, <1>2, SettledKeeps
  <1>4. ASSUME NEW r \in Slot \ {s}, Waits(calls, r)
        PROVE  Answers(calls[r], auto')
    <2>1. CASE auto' = auto
      BY <1>4, <2>1, AnswersNow
    <2>2. CASE Expects(auto, c) /\ auto'.id = auto.id
      <3>1. calls[r].from = "control" => calls[r].run # c.run
        BY <1>2, <1>4, <2>2 DEF IInv, Apart
      <3>. QED
        BY <1>2, <2>2, <3>1 DEF Answers
    <2>. QED
      BY <1>3, <2>1, <2>2
  <1>. QED
    BY <1>3, <1>4

LEMMA NothingOwned == \A run, cycle, cs, at, ts : Owned({}, run, cycle, cs, at, ts)
  BY DEF Owned

LEMMA SlotFreed ==
  ASSUME IInv, NEW s \in Slot, calls' = [calls EXCEPT ![s] = None]
  PROVE  /\ calls' \in [Slot -> Calls \cup {None}]
         /\ \A r \in Slot : Waits(calls', r) => r # s /\ Waits(calls, r) /\ calls'[r] = calls[r]
         /\ Singles(calls')
  <1>1. calls'[s] = None /\ \A r \in Slot : r # s => calls'[r] = calls[r]
    BY Typed
  <1>2. Singles(calls')
    BY <1>1 DEF IInv, Singles
  <1>. QED
    BY <1>1, <1>2, Typed DEF Waits

LEMMA RejectKeeps ==
  ASSUME IInv, NEW s \in Slot, CallRejects(s)
  PROVE  IInv'
  <1>1. /\ calls[s] # None
        /\ calls' = [calls EXCEPT ![s] = None]
        /\ auto' = Settled(auto, calls[s], {})
        /\ UNCHANGED <<trades, lastAt, started, reloads, overlap>>
        /\ Remembers
    BY DEF CallRejects, Free, Remembers
  <1>2. /\ auto' \in AutoRuns \cup {None}
        /\ RunOk(auto', started, calls, lastAt, Known)
        /\ \A r \in Slot \ {s} : Waits(calls, r) => Answers(calls[r], auto')
    <2>0. auto \in AutoRuns \cup {None} /\ RunOk(auto, started, calls, lastAt, Known) /\ {} \in SUBSET Nat
      BY Typed DEF IInv
    <2>1. CASE Waits(calls, s)
      BY <1>1, <2>0, <2>1, AnswerTaken, NothingOwned
    <2>2. CASE ~Waits(calls, s)
      <3>1. calls[s].run = 0
        BY <1>1, <2>2 DEF Waits, IInv, Singles
      <3>2. ~Expects(auto, calls[s])
        BY <2>0, <3>1, AutoFields DEF Expects, RunOk
      <3>3. auto' = auto
        BY <1>1, <3>2 DEF Settled
      <3>. QED
        BY <2>0, <3>3, AnswersNow
    <2>. QED
      BY <2>1, <2>2
  <1>3. /\ calls' \in [Slot -> Calls \cup {None}]
        /\ \A r \in Slot : Waits(calls', r) => r # s /\ Waits(calls, r) /\ calls'[r] = calls[r]
        /\ Singles(calls')
    BY <1>1, SlotFreed
  <1>4. \A r \in Slot : Waits(calls', r) => calls'[r] = calls[r] /\ Answers(calls[r], auto')
    BY <1>2, <1>3
  <1>5. TradesMove(Known, trades', 0, 0, calls, lastAt, calls', lastAt')
    BY <1>1, KnownTrades, OldTrades
  <1>6. /\ trades' \in SUBSET Trades /\ lastAt' \in Nat /\ lastAt <= lastAt' /\ started' \in Nat
        /\ started <= started' /\ reloads' \in Nat /\ overlap' \in BOOLEAN
    BY <1>1, Typed
  <1>7. Moves(calls, lastAt, calls', lastAt')
    BY <1>2, <1>3, <1>4, <1>5, <1>6, <1>1, CallsGoOn
  <1>8. RunOk(auto', started', calls', lastAt', Known')
    BY <1>1, <1>2, <1>3, <1>5, <1>6, <1>7, StepKeeps
  <1>. QED
    BY <1>1, <1>2, <1>3, <1>4, <1>5, <1>6, <1>8, CallsGoOn

\* What a part inserts is new, and of the call's cycle.
LEMMA NewTrades ==
  ASSUME IInv, NEW s \in Slot, Waits(calls, s),
         \A r \in Slot : r # s => calls'[r] = calls[r],
         Waits(calls', s) => calls'[s].at \in Nat /\ lastAt + Size <= calls'[s].at,
         lastAt' \in Nat, lastAt <= lastAt',
         trades' = trades \cup NewEntries(calls[s])
  PROVE  /\ trades' \in SUBSET Trades
         /\ TradesMove(Known, trades', calls[s].run, calls[s].cycle, calls, lastAt, calls', lastAt')
  <1>. DEFINE c == calls[s]
  <1>1. /\ c \in Calls /\ c.left # {} /\ c.at \in Nat /\ c.at <= lastAt
        /\ lastAt \in Nat /\ Size \in Nat
    BY Typed, CallFields, SizeFits DEF IInv, CallOk
  <1>. HIDE DEF c
  <1>2. \A t \in NewEntries(c) : /\ t \in Trades
                                 /\ t.id \in Reserved(c)
                                 /\ t.run = c.run /\ t.cycle = c.cycle
    BY <1>1, NewEntriesReserved
  <1>3. ASSUME NEW n \in Reserved(c)
        PROVE  ~Used(n, calls, lastAt) /\ Used(n, calls', lastAt')
    <2>1. n \in Nat /\ n < c.at + Size
      BY DEF Reserved
    <2>2. ~Used(n, calls, lastAt)
      BY DEF Used, c
    <2>3. n < lastAt + Size /\ n < lastAt' + Size
      BY <1>1, <2>1
    <2>4. ASSUME NEW r \in Slot, Waits(calls', r)
          PROVE  n \notin Reserved(calls'[r])
      <3>1. CASE r = s
        <4>1. calls'[s].at \in Nat /\ lastAt + Size <= calls'[s].at
          BY <2>4, <3>1
        <4>2. n \notin Reserved(calls'[s])
          BY <1>1, <2>1, <2>3, <4>1 DEF Reserved
        <4>. QED
          BY <3>1, <4>2
      <3>2. CASE r # s
        BY <2>4, <3>2 DEF IInv, Apart, Waits, c
      <3>. QED
        BY <3>1, <3>2
    <2>. QED
      BY <2>1, <2>2, <2>3, <2>4 DEF Used
  <1>4. trades' = trades \cup NewEntries(c)
    BY DEF c
  <1>5. trades' \in SUBSET Trades
    BY <1>2, <1>4, Typed
  <1>6. TradesMove(Known, trades', c.run, c.cycle, calls, lastAt, calls', lastAt')
    BY <1>2, <1>3, <1>4, KnownTrades DEF TradesMove
  <1>. QED
    BY <1>5, <1>6 DEF c

\* The ids a call has made so far are its own.
LEMMA MadeOwned ==
  ASSUME NEW cs, NEW at, NEW ts, TradesOk(cs, at, ts),
         NEW c \in Calls, Owned(c.made, c.run, c.cycle, cs, at, ts),
         NEW new \in SUBSET ts,
         \A t \in new : t \in Trades /\ t.run = c.run /\ t.cycle = c.cycle
  PROVE  /\ MadeSoFar(c, new) \in SUBSET Nat
         /\ Owned(MadeSoFar(c, new), c.run, c.cycle, cs, at, ts)
  <1>. DEFINE ids == {t.id : t \in new}
  <1>1. ids \in SUBSET Nat
    BY TradeFields
  <1>2. Owned(ids, c.run, c.cycle, cs, at, ts)
    BY DEF Owned, TradesOk
  <1>. HIDE DEF ids
  <1>3. MadeSoFar(c, new) = c.made \cup ids
    BY DEF MadeSoFar, ids
  <1>4. Owned(c.made \cup ids, c.run, c.cycle, cs, at, ts)
    BY <1>2 DEF Owned
  <1>. QED
    BY <1>1, <1>3, <1>4, CallFields

LEMMA PartKeeps ==
  ASSUME IInv, NEW s \in Slot, PartReady(s)
  PROVE  IInv'
  <1>. DEFINE c == calls[s]
              new == NewEntries(c)
              made == MadeSoFar(c, new)
  <1>1. /\ Waits(calls, s)
        /\ trades' = trades \cup new
        /\ UNCHANGED <<started, reloads, overlap>>
        /\ Remembers
    BY DEF PartReady, Free, Waits, Remembers
  <1>2. /\ c \in Calls /\ c.left # {} /\ c.run <= started
        /\ Owned(c.made, c.run, c.cycle, calls, lastAt, Known)
        /\ c.from = "manual" => c.run = 0
        /\ c.from = "control" => c.cycle = 1
        /\ Answers(c, auto)
        /\ c.from # "single"
        /\ lastAt \in Nat /\ started' \in Nat /\ started <= started'
        /\ reloads' \in Nat /\ overlap' \in BOOLEAN
    BY <1>1, Typed DEF IInv, CallOk, Waits
  <1>3. \A t \in new : t \in Trades /\ t.run = c.run /\ t.cycle = c.cycle
    BY <1>2, NewEntriesReserved
  <1>4. CASE /\ calls' = [calls EXCEPT ![s] = None]
             /\ auto' = Settled(auto, c, made)
             /\ lastAt' = lastAt
    <2>1. /\ calls' \in [Slot -> Calls \cup {None}] /\ ~Waits(calls', s) /\ Singles(calls')
          /\ \A r \in Slot : r # s => calls'[r] = calls[r]
          /\ lastAt' \in Nat /\ lastAt <= lastAt'
          /\ Moves(calls, lastAt, calls', lastAt')
      <3>1. \A r \in Slot : r # s => calls'[r] = calls[r]
        BY <1>4, Typed
      <3>2. calls' \in [Slot -> Calls \cup {None}] /\ ~Waits(calls', s) /\ Singles(calls')
        BY <1>4, SlotFreed
      <3>3. lastAt' \in Nat /\ lastAt <= lastAt'
        BY <1>2, <1>4
      <3>4. Moves(calls, lastAt, calls', lastAt')
        BY <3>1, <3>2, <3>3 DEF Moves
      <3>. QED
        BY <3>1, <3>2, <3>3, <3>4
    <2>2. /\ trades' \in SUBSET Trades
          /\ TradesMove(Known, trades', c.run, c.cycle, calls, lastAt, calls', lastAt')
      BY <1>1, <2>1, NewTrades
    <2>3. /\ TradesMove(Known, Known', c.run, c.cycle, calls, lastAt, calls', lastAt')
          /\ new \subseteq Known'
      BY <1>1, <2>2, Remembered DEF TradesMove, Known
    <2>4. /\ TradesOk(calls', lastAt', Known')
          /\ Owned(c.made, c.run, c.cycle, calls', lastAt', Known')
          /\ RunOk(auto, started, calls', lastAt', Known')
      <3>1. TradesOk(calls, lastAt, Known) /\ RunOk(auto, started, calls, lastAt, Known)
        BY DEF IInv
      <3>2. started \in Nat
        BY Typed
      <3>. QED
        BY <1>2, <2>1, <2>3, <3>1, <3>2, TradesStay, OwnedStays, RunStays
    <2>5. made \in SUBSET Nat /\ Owned(made, c.run, c.cycle, calls', lastAt', Known')
      <3>. HIDE DEF new, c
      <3>. QED
        BY <1>2, <1>3, <2>3, <2>4, MadeOwned
    <2>. HIDE DEF made
    <2>6. /\ auto' \in AutoRuns \cup {None}
          /\ RunOk(auto', started, calls', lastAt', Known')
          /\ \A r \in Slot \ {s} : Waits(calls, r) => Answers(calls[r], auto')
      BY <1>1, <1>4, <2>4, <2>5, AnswerTaken
    <2>7. \A r \in Slot : Waits(calls', r) => calls'[r] = calls[r] /\ Answers(calls[r], auto')
      BY <2>1, <2>6 DEF Waits
    <2>8. RunOk(auto', started', calls', lastAt', Known')
      BY <1>1, <2>6
    <2>. QED
      BY <1>1, <1>2, <2>1, <2>2, <2>6, <2>7, <2>8, CallsGoOn
  <1>5. CASE /\ c.left # {PartOf(c)}
             /\ \E gap \in GapSteps :
                   /\ lastAt' = lastAt + gap
                   /\ calls' = [calls EXCEPT ![s] = NextPart(c, lastAt', made)]
             /\ auto' = auto
    <2>. DEFINE d == NextPart(c, lastAt', made)
    <2>1. /\ lastAt' \in Nat /\ lastAt + Size <= lastAt' /\ lastAt <= lastAt'
          /\ calls' = [calls EXCEPT ![s] = d]
      BY <1>2, <1>5, SizeFits
    <2>2. made \in SUBSET Nat
      BY <1>2, <1>3, TradeFields, CallFields DEF MadeSoFar
    <2>3. /\ d = [from |-> c.from, run |-> c.run, cycle |-> c.cycle, set |-> c.set, at |-> lastAt',
                  left |-> c.left \ {PartOf(c)}, base |-> c.base, made |-> made, wanted |-> c.wanted]
          /\ PartOf(c) \in c.left
      <3>1. PartOf(c) \in c.left
        BY <1>2, CallFields DEF PartOf, Bucket
      <3>. QED
        BY <3>1 DEF NextPart
    <2>. HIDE DEF made
    <2>4. /\ d \in Calls
          /\ d.from = c.from /\ d.run = c.run /\ d.cycle = c.cycle /\ d.at = lastAt'
          /\ d.left # {} /\ d.made = made
      <3>. HIDE DEF c, d
      <3>1. d \in Calls
        BY <1>2, <2>1, <2>2, <2>3, CallFields DEF Calls
      <3>. QED
        BY <1>2, <1>5, <2>3, <3>1
    <2>. HIDE DEF d
    <2>5. /\ calls'[s] = d
          /\ \A r \in Slot : r # s => calls'[r] = calls[r]
      BY <2>1, Typed
    <2>6. Moves(calls, lastAt, calls', lastAt')
      BY <2>1, <2>4, <2>5 DEF Moves
    <2>7. /\ trades' \in SUBSET Trades
          /\ TradesMove(Known, trades', c.run, c.cycle, calls, lastAt, calls', lastAt')
      BY <1>1, <2>1, <2>4, <2>5, NewTrades
    <2>8. /\ TradesMove(Known, Known', c.run, c.cycle, calls, lastAt, calls', lastAt')
          /\ new \subseteq Known'
      BY <1>1, <2>7, Remembered DEF TradesMove, Known
    <2>9. /\ TradesOk(calls', lastAt', Known')
          /\ Owned(c.made, c.run, c.cycle, calls', lastAt', Known')
          /\ RunOk(auto, started, calls', lastAt', Known')
      <3>1. TradesOk(calls, lastAt, Known) /\ RunOk(auto, started, calls, lastAt, Known)
        BY DEF IInv
      <3>2. started \in Nat
        BY Typed
      <3>. QED
        BY <1>2, <2>1, <2>6, <2>8, <3>1, <3>2, TradesStay, OwnedStays, RunStays
    <2>10. Owned(made, c.run, c.cycle, calls', lastAt', Known')
      <3>. HIDE DEF new, c
      <3>. QED
        BY <1>2, <1>3, <2>8, <2>9, MadeOwned DEF made
    <2>11. CallOk(s, auto', started', calls', lastAt', Known')
      BY <1>1, <1>2, <1>5, <2>1, <2>4, <2>5, <2>10 DEF CallOk, Answers
    <2>12. RunOk(auto', started', calls', lastAt', Known') /\ auto' \in AutoRuns \cup {None}
      BY <1>1, <1>5, <2>9, Typed
    <2>13. \A r \in Slot \ {s} : Waits(calls, r) =>
              /\ Answers(calls[r], auto')
              /\ (d.from = "control" /\ calls[r].from # "manual") => d.run # calls[r].run
              /\ (calls[r].from = "control" /\ d.from # "manual") => d.run # calls[r].run
      BY <1>1, <1>5, <2>4, AnswersNow DEF IInv, Apart
    <2>. QED
      BY <1>1, <1>2, <2>1, <2>4, <2>7, <2>11, <2>12, <2>13, CallComes
  <1>6. \/ /\ calls' = [calls EXCEPT ![s] = None]
           /\ auto' = Settled(auto, c, made)
           /\ lastAt' = lastAt
        \/ /\ c.left # {PartOf(c)}
           /\ \E gap \in GapSteps :
                 /\ lastAt' = lastAt + gap
                 /\ calls' = [calls EXCEPT ![s] = NextPart(c, lastAt', made)]
           /\ auto' = auto
    BY DEF PartReady
  <1>. QED
    BY <1>4, <1>5, <1>6

\* A start set is called when the auto-run has become a.
LEMMA StartSetKeeps ==
  ASSUME IInv, Remembers, NEW s \in Slot, Free(s),
         NEW from \in {"control", "engine", "manual"},
         NEW a \in AutoRuns \cup {None}, RunOk(a, started', calls, lastAt, Known),
         NEW run \in Nat, NEW cycle \in Nat, run <= started',
         NEW buckets \in SUBSET Bucket,
         CallStartSet(s, from, a, run, cycle, buckets),
         trades' = trades, reloads' = reloads, started' \in Nat, started <= started',
         from = "manual" => run = 0,
         from = "control" => cycle = 1,
         from # "manual" => a # None /\ a.id = run /\ a.phase = "starting" /\ a.cycle = cycle,
         \A r \in Slot : Waits(calls, r) =>
            /\ Answers(calls[r], a)
            /\ (calls[r].from = "control" /\ from # "manual") => calls[r].run # run
            /\ (from = "control" /\ calls[r].from # "manual") => calls[r].run # run
  PROVE  IInv'
  <1>. DEFINE todo == {b \in buckets : Plan(trades, b) # {}}
  <1>1. PICK gap \in GapSteps :
          LET c == CallOf(from, run, cycle, lastAt + gap, todo)
          IN  /\ lastAt' = lastAt + gap
              /\ calls' = IF todo = {} THEN calls ELSE [calls EXCEPT ![s] = c]
              /\ auto' = IF todo = {} THEN Settled(a, c, {}) ELSE a
              /\ overlap' = (overlap \/ (todo # {} /\ \E r \in Slot : ~Free(r)))
    BY DEF CallStartSet
  <1>2. todo \in SUBSET Bucket
    OBVIOUS
  <1>. HIDE DEF todo
  <1>. DEFINE c == CallOf(from, run, cycle, lastAt + gap, todo)
  <1>3. /\ lastAt \in Nat /\ lastAt' \in Nat /\ lastAt' = lastAt + gap /\ lastAt + Size <= lastAt'
        /\ lastAt <= lastAt'
    BY <1>1, Typed, SizeFits
  <1>4. overlap' \in BOOLEAN
    BY <1>1, Zenon
  <1>5. /\ c \in Calls
        /\ c.from = from /\ c.run = run /\ c.cycle = cycle /\ c.at = lastAt' /\ c.left = todo
        /\ c.made = {}
    <2>1. c = [from |-> from, run |-> run, cycle |-> cycle, set |-> lastAt', at |-> lastAt',
               left |-> todo, base |-> Open(trades), made |-> {}, wanted |-> None]
      BY <1>3 DEF CallOf
    <2>2. Open(trades) \in SUBSET Trades
      BY Typed, OpenTrades
    <2>. HIDE DEF c
    <2>. QED
      BY <1>2, <1>3, <2>1, <2>2 DEF Calls
  <1>6. /\ calls' = IF todo = {} THEN calls ELSE [calls EXCEPT ![s] = c]
        /\ auto' = IF todo = {} THEN Settled(a, c, {}) ELSE a
    BY <1>1
  <1>. HIDE DEF c
  <1>7. /\ TradesMove(Known, trades', 0, 0, calls, lastAt, calls', lastAt')
        /\ trades' \in SUBSET Trades /\ reloads' \in Nat /\ started \in Nat
    BY KnownTrades, OldTrades, Typed
  <1>8. TradesMove(Known, Known', 0, 0, calls, lastAt, calls', lastAt')
    BY <1>7, Remembered DEF TradesMove, Known
  <1>9. CASE todo = {}
    <2>1. calls' = calls /\ auto' = Settled(a, c, {})
      BY <1>6, <1>9
    <2>2. Moves(calls, lastAt, calls', lastAt')
      BY <1>3, <2>1 DEF Moves
    <2>3. RunOk(a, started', calls', lastAt', Known')
      BY <1>3, <1>8, <2>2, RunStays
    <2>4. /\ Expects(a, c) => a.id = run /\ a.cycle = c.cycle /\ from # "manual"
      <3>1. (a # None) => a.id >= 1
        BY AutoFields DEF RunOk
      <3>. QED
        BY <1>5, <3>1 DEF Expects
    <2>5. /\ auto' \in AutoRuns \cup {None}
          /\ RunOk(auto', started', calls', lastAt', Known')
          /\ auto' = a \/ (Expects(a, c) /\ auto'.id = a.id)
      <3>1. {} \in SUBSET Nat /\ Owned({}, c.run, c.cycle, calls', lastAt', Known')
        BY NothingOwned
      <3>. QED
        BY <1>5, <2>1, <2>3, <2>4, <3>1, SettledKeeps
    <2>6. \A r \in Slot : Waits(calls', r) => calls'[r] = calls[r] /\ Answers(calls[r], auto')
      BY <2>1, <2>4, <2>5 DEF Answers
    <2>7. calls' \in [Slot -> Calls \cup {None}] /\ Singles(calls')
      BY <2>1, Typed DEF IInv
    <2>. QED
      BY <1>3, <1>4, <1>7, <2>5, <2>6, <2>7, CallsGoOn
  <1>10. CASE todo # {}
    <2>1. calls' = [calls EXCEPT ![s] = c] /\ auto' = a
      BY <1>6, <1>10
    <2>2. calls'[s] = c /\ \A r \in Slot : r # s => calls'[r] = calls[r]
      BY <2>1, Typed
    <2>3. Moves(calls, lastAt, calls', lastAt')
      BY <1>3, <1>5, <2>2 DEF Moves
    <2>4. RunOk(auto', started', calls', lastAt', Known')
      BY <1>3, <1>8, <2>1, <2>3, RunStays
    <2>5. CallOk(s, auto', started', calls', lastAt', Known')
      BY <1>3, <1>5, <1>10, <2>1, <2>2, NothingOwned DEF CallOk, Answers
    <2>6. \A r \in Slot \ {s} : Waits(calls, r) =>
            /\ Answers(calls[r], auto')
            /\ (c.from = "control" /\ calls[r].from # "manual") => c.run # calls[r].run
            /\ (calls[r].from = "control" /\ c.from # "manual") => c.run # calls[r].run
      BY <1>5, <2>1
    <2>7. c.from # "single" /\ c.at = lastAt'
      BY <1>5
    <2>. QED
      BY <1>3, <1>4, <1>5, <1>7, <2>1, <2>4, <2>5, <2>6, <2>7, CallComes
  <1>. QED
    BY <1>9, <1>10

LEMMA StartAutoRunKeeps ==
  ASSUME IInv, NEW s \in Slot, NEW target \in Targets, StartAutoRun(s, target)
  PROVE  IInv'
  <1>. DEFINE a == [id |-> started', target |-> target, phase |-> "starting", cycle |-> 1,
                    completed |-> 0, entries |-> {}]
  <1>1. /\ Free(s) /\ started' = started + 1 /\ started \in Nat /\ started' \in Nat
        /\ CallStartSet(s, "control", a, started', 1, target)
        /\ Remembers /\ trades' = trades /\ reloads' = reloads
        /\ target \in SUBSET Bucket
    BY Typed, AutoRunAssumption DEF StartAutoRun, Remembers
  <1>2. /\ a \in AutoRuns /\ a # None
        /\ a.id = started' /\ a.phase = "starting" /\ a.cycle = 1 /\ a.completed = 0 /\ a.entries = {}
    <2>1. a \in AutoRuns
      BY <1>1 DEF AutoRuns, Phases
    <2>. QED
      BY <2>1, AutoFields
  <1>. HIDE DEF a
  <1>3. RunOk(a, started', calls, lastAt, Known)
    <2>1. Follows(a)
      BY <1>2, AutoRunAssumption DEF Follows
    <2>. QED
      BY <1>1, <1>2, <2>1, NothingOwned DEF RunOk
  <1>4. ASSUME NEW r \in Slot, Waits(calls, r)
        PROVE  Answers(calls[r], a) /\ calls[r].run # started'
    <2>1. calls[r].run <= started /\ calls[r].run \in Nat
      BY <1>4, Typed, CallFields DEF IInv, CallOk
    <2>. QED
      BY <1>1, <1>2, <2>1 DEF Answers
  <1>5. started <= started'
    BY <1>1
  <1>. QED
    BY <1>1, <1>2, <1>3, <1>4, <1>5, StartSetKeeps

LEMMA ManualSetKeeps ==
  ASSUME IInv, NEW s \in Slot, NEW b \in Bucket, StartManualSet(s, b)
  PROVE  IInv'
  <1>1. /\ Free(s) /\ CallStartSet(s, "manual", auto, 0, 0, {b})
        /\ Remembers /\ trades' = trades /\ reloads' = reloads /\ started' = started
        /\ {b} \in SUBSET Bucket
    BY DEF StartManualSet, Remembers
  <1>2. /\ auto \in AutoRuns \cup {None} /\ started \in Nat /\ started' \in Nat
        /\ 0 <= started' /\ started <= started'
        /\ RunOk(auto, started', calls, lastAt, Known)
    BY <1>1, Typed DEF IInv
  <1>3. \A r \in Slot : Waits(calls, r) => Answers(calls[r], auto)
    BY AnswersNow
  <1>. QED
    BY <1>1, <1>2, <1>3, StartSetKeeps

LEMMA CooldownKeeps ==
  ASSUME IInv, NEW s \in Slot, CooldownEnds(s)
  PROVE  IInv'
  <1>. DEFINE a == NextCycle(auto)
  <1>1. /\ Free(s) /\ auto # None /\ auto.phase = "cooldown"
        /\ CallStartSet(s, "engine", a, auto.id, auto.completed + 1, auto.target)
        /\ Remembers /\ trades' = trades /\ reloads' = reloads /\ started' = started
    BY DEF CooldownEnds, Remembers
  <1>2. /\ auto \in AutoRuns /\ started \in Nat
        /\ auto.id \in 1 .. started /\ Follows(auto)
        /\ RunOk(auto, started, calls, lastAt, Known)
    BY <1>1, Typed DEF IInv, RunOk
  <1>3. /\ auto.id \in Nat /\ auto.completed \in Nat /\ auto.completed + 1 \in Nat
        /\ auto.id <= started' /\ started' \in Nat /\ started <= started'
        /\ auto.completed < MaxRuns /\ auto.completed <= MaxRuns
        /\ auto.target \in SUBSET Bucket
    BY <1>1, <1>2, AutoFields, AutoRunAssumption DEF Follows
  <1>4. a = InPhase(auto, "starting", auto.completed + 1, auto.completed, {})
    BY DEF NextCycle
  <1>5. "starting" \in Phases \ {"running"}
    BY DEF Phases
  <1>. HIDE DEF a
  <1>6. /\ a \in AutoRuns /\ a # None /\ a.id = auto.id /\ a.phase = "starting"
        /\ a.cycle = auto.completed + 1
        /\ RunOk(a, started, calls, lastAt, Known)
    BY <1>2, <1>3, <1>4, <1>5, EmptyPhase
  <1>7. ASSUME NEW r \in Slot, Waits(calls, r)
        PROVE  /\ Answers(calls[r], a)
               /\ calls[r].from = "control" => calls[r].run # auto.id
    BY <1>1, <1>6, <1>7, AnswersNow DEF Answers
  <1>. QED
    BY <1>1, <1>3, <1>6, <1>7, StartSetKeeps

LEMMA StartSingleKeeps ==
  ASSUME IInv, NEW s \in Slot, NEW b \in Bucket, NEW symbol \in Symbol, StartSingle(s, b, symbol)
  PROVE  IInv'
  <1>. DEFINE c == CallOf("single", 0, 0, 0, {b})
              d == [c EXCEPT !.wanted = symbol]
  <1>1. /\ calls' = [calls EXCEPT ![s] = d]
        /\ overlap' = (overlap \/ \E r \in Slot : ~Free(r))
        /\ UNCHANGED <<auto, trades, before, lastAt, started, reloads>>
        /\ Remembers
    BY DEF StartSingle, Remembers
  <1>2. d = [from |-> "single", run |-> 0, cycle |-> 0, set |-> 0, at |-> 0, left |-> {b},
             base |-> Open(trades), made |-> {}, wanted |-> symbol]
    BY DEF CallOf
  <1>. HIDE DEF d
  <1>3. d \in Calls /\ d # None => d.from = "single" /\ d.run = 0 /\ d.wanted \in Symbol
    BY <1>2
  <1>4. d \in Calls
    <2>1. Open(trades) \in SUBSET Trades
      BY Typed, OpenTrades
    <2>. QED
      BY <1>2, <2>1 DEF Calls
  <1>5. /\ calls' \in [Slot -> Calls \cup {None}]
        /\ calls'[s] = d
        /\ \A r \in Slot : r # s => calls'[r] = calls[r]
    BY <1>1, <1>4, Typed
  <1>6. Singles(calls')
    BY <1>2, <1>5 DEF IInv, Singles
  <1>7. \A r \in Slot : Waits(calls', r) => calls'[r] = calls[r] /\ Answers(calls[r], auto')
    <2>1. d.from = "single"
      BY <1>2
    <2>. QED
      BY <1>1, <1>5, <2>1, AnswersNow DEF Waits
  <1>8. overlap' \in BOOLEAN
    BY <1>1, Zenon
  <1>9. /\ TradesMove(Known, trades', 0, 0, calls, lastAt, calls', lastAt')
        /\ auto' \in AutoRuns \cup {None} /\ trades' \in SUBSET Trades
        /\ lastAt' \in Nat /\ lastAt <= lastAt' /\ started' \in Nat /\ started <= started'
        /\ reloads' \in Nat
    BY <1>1, KnownTrades, OldTrades, Typed
  <1>10. Moves(calls, lastAt, calls', lastAt')
    BY <1>1, <1>5, <1>6, <1>7, <1>8, <1>9, CallsGoOn
  <1>11. RunOk(auto', started', calls', lastAt', Known')
    <2>1. RunOk(auto, started, calls, lastAt, Known)
      BY DEF IInv
    <2>2. RunOk(auto, started', calls', lastAt', Known')
      BY <1>1, <1>5, <1>8, <1>9, <1>10, <2>1, StepKeeps
    <2>. QED
      BY <1>1, <2>2
  <1>. QED
    BY <1>1, <1>5, <1>6, <1>7, <1>8, <1>9, <1>11, CallsGoOn

LEMMA PastTheSet ==
  ASSUME NEW m \in Nat, NEW n \in Nat, NEW z \in Nat, 1 <= z, m + z <= n
  PROVE  ~(n < m + z) /\ n < n + z
  OBVIOUS

LEMMA InsertSingleKeeps ==
  ASSUME IInv, NEW s \in Slot, InsertSingle(s)
  PROVE  IInv'
  <1>. DEFINE c == calls[s]
              t == Entry(lastAt', c.wanted, PartOf(c), [c EXCEPT !.set = lastAt'])
  <1>1. /\ c # None /\ c.from = "single"
        /\ trades' = trades \cup {t}
        /\ calls' = [calls EXCEPT ![s] = None]
        /\ UNCHANGED <<auto, started, reloads, overlap>>
        /\ Remembers
    BY DEF InsertSingle, Free, Remembers
  <1>2. /\ lastAt \in Nat /\ lastAt' \in Nat /\ lastAt + Size <= lastAt' /\ lastAt <= lastAt'
    BY Typed, SizeFits DEF InsertSingle
  <1>3. c \in Calls /\ c.wanted \in Symbol
    BY <1>1, Typed DEF IInv, Singles
  <1>4. 1 <= Size /\ Size \in Nat
    <2>1. PICK b \in Bucket : \E i \in DOMAIN Tickers[b] : c.wanted = Tickers[b][i]
      BY <1>3 DEF Symbol, Offered
    <2>2. PICK i \in DOMAIN Tickers[b] : c.wanted = Tickers[b][i]
      BY <2>1
    <2>3. Tickers[b] \in Seq(Symbol)
      BY AutoRunAssumption
    <2>4. DOMAIN Tickers[b] = 1 .. Len(Tickers[b]) /\ Len(Tickers[b]) \in Nat
      BY <2>3
    <2>5. i \in 1 .. Len(Tickers[b])
      BY <2>4
    <2>6. Len(Tickers[b]) <= Size /\ Size \in Nat
      BY SizeFits
    <2>. QED
      BY <2>4, <2>5, <2>6
  <1>5. t \in Trades /\ t.id = lastAt' /\ t.run = c.run /\ t.cycle = c.cycle
    <2>. DEFINE cc == [c EXCEPT !.set = lastAt']
    <2>1. cc.run = c.run /\ cc.cycle = c.cycle /\ cc.set = lastAt'
      BY <1>3 DEF Calls
    <2>. HIDE DEF cc
    <2>2. t = [id |-> lastAt', symbol |-> c.wanted, bucket |-> PartOf(c), run |-> c.run,
               cycle |-> c.cycle, set |-> lastAt', open |-> TRUE, finished |-> FALSE]
      BY <2>1 DEF Entry, cc
    <2>3. PartOf(c) \in Bucket
      BY DEF PartOf, Bucket
    <2>. HIDE DEF c, t
    <2>. QED
      BY <1>2, <1>3, <2>2, <2>3, CallFields DEF Trades
  <1>. HIDE DEF t
  <1>6. /\ calls' \in [Slot -> Calls \cup {None}] /\ Singles(calls')
        /\ \A r \in Slot : Waits(calls', r) => r # s /\ Waits(calls, r) /\ calls'[r] = calls[r]
    BY <1>1, SlotFreed
  <1>7. ~Used(lastAt', calls, lastAt) /\ Used(lastAt', calls', lastAt')
    <2>1. ~(lastAt' < lastAt + Size) /\ lastAt' < lastAt' + Size
      <3>. DEFINE m == lastAt
                  n == lastAt'
      <3>1. m \in Nat /\ n \in Nat /\ m + Size <= n
        BY <1>2
      <3>. HIDE DEF m, n
      <3>2. ~(n < m + Size) /\ n < n + Size
        BY <1>4, <3>1, PastTheSet
      <3>. QED
        BY <3>2 DEF m, n
    <2>2. ASSUME NEW r \in Slot, Waits(calls', r)
          PROVE  lastAt' \notin Reserved(calls'[r])
      <3>1. calls'[r] = calls[r] /\ calls[r].at \in Nat /\ calls[r].at <= lastAt
        BY <1>6, <2>2, Typed, CallFields DEF IInv, CallOk
      <3>. QED
        BY <1>2, <1>4, <3>1 DEF Reserved
    <2>. QED
      BY <1>2, <2>1, <2>2 DEF Used
  <1>8. /\ TradesMove(Known, trades', c.run, c.cycle, calls, lastAt, calls', lastAt')
        /\ trades' \in SUBSET Trades
    <2>. HIDE DEF c
    <2>. QED
      BY <1>1, <1>5, <1>7, KnownTrades, Typed DEF TradesMove
  <1>9. /\ auto' \in AutoRuns \cup {None} /\ started' \in Nat /\ started <= started'
        /\ reloads' \in Nat /\ overlap' \in BOOLEAN
        /\ \A r \in Slot : Waits(calls', r) => calls'[r] = calls[r] /\ Answers(calls[r], auto')
    <2>1. UNCHANGED <<auto, started, reloads, overlap>>
      BY <1>1
    <2>2. /\ auto \in AutoRuns \cup {None} /\ started \in Nat
          /\ reloads \in Nat /\ overlap \in BOOLEAN
      BY Typed
    <2>3. overlap' \in BOOLEAN
      BY <2>1, <2>2, Zenon
    <2>4. ASSUME NEW r \in Slot, Waits(calls', r)
          PROVE  calls'[r] = calls[r] /\ Answers(calls[r], auto')
      <3>1. Waits(calls, r) /\ calls'[r] = calls[r]
        BY <1>6, <2>4
      <3>2. Answers(calls[r], auto)
        BY <3>1, AnswersNow
      <3>. QED
        BY <2>1, <3>1, <3>2, Zenon
    <2>5. started <= started'
      BY <2>1, <2>2
    <2>6. auto' \in AutoRuns \cup {None} /\ started' \in Nat /\ reloads' \in Nat
      BY <2>1, <2>2
    <2>. QED
      BY <2>3, <2>4, <2>5, <2>6, Zenon
  <1>10. Moves(calls, lastAt, calls', lastAt')
    BY <1>1, <1>2, <1>6, <1>8, <1>9, CallsGoOn
  <1>11. RunOk(auto', started', calls', lastAt', Known')
    <2>1. RunOk(auto, started, calls, lastAt, Known)
      BY DEF IInv
    <2>2. RunOk(auto, started', calls', lastAt', Known')
      BY <1>1, <1>2, <1>6, <1>8, <1>9, <1>10, <2>1, StepKeeps
    <2>. QED
      BY <1>1, <2>2
  <1>. QED
    BY <1>1, <1>2, <1>6, <1>8, <1>9, <1>11, CallsGoOn
-----------------------------------------------------------------------------
LEMMA Initial == Init => IInv
  <1>1. SUFFICES ASSUME Init PROVE IInv
    OBVIOUS
  <1>2. /\ auto = None /\ trades = {} /\ calls = [s \in Slot |-> None] /\ before = Oldest
        /\ lastAt = 0 /\ started = 0 /\ reloads = 0
    BY <1>1 DEF Init
  <1>3. Known = {} /\ before.auto = None
    BY <1>2 DEF Known, Oldest
  <1>4. TypeOK
    <2>1. before \in [auto : AutoRuns \cup {None}, trades : SUBSET Trades]
      BY <1>2 DEF Oldest
    <2>2. calls \in [Slot -> Calls \cup {None}]
      BY <1>2
    <2>3. overlap \in BOOLEAN
      BY <1>1, Zenon DEF Init
    <2>. QED
      BY <1>2, <2>1, <2>2, <2>3 DEF TypeOK
  <1>5. \A s \in Slot : ~Waits(calls, s) /\ calls[s] = None
    BY <1>2 DEF Waits
  <1>. QED
    BY <1>2, <1>3, <1>4, <1>5 DEF IInv, TradesOk, RunOk, CallOk, Apart, Singles

LEMMA Inductive == IInv /\ [Next]_vars => IInv'
  <1>1. SUFFICES ASSUME IInv, [Next]_vars PROVE IInv'
    OBVIOUS
  <1>2. CASE \E s \in Slot, target \in Targets : StartAutoRun(s, target)
    BY <1>1, <1>2, StartAutoRunKeeps
  <1>3. CASE StopAutoRun
    BY <1>1, <1>3, StopKeeps
  <1>4. CASE \E s \in Slot, b \in Bucket : StartManualSet(s, b)
    BY <1>1, <1>4, ManualSetKeeps
  <1>5. CASE \E s \in Slot, b \in Bucket, symbol \in Symbol : StartSingle(s, b, symbol)
    BY <1>1, <1>5, StartSingleKeeps
  <1>6. CASE \E s \in Slot : InsertSingle(s)
    BY <1>1, <1>6, InsertSingleKeeps
  <1>7. CASE \E s \in Slot : PartReady(s)
    BY <1>1, <1>7, PartKeeps
  <1>8. CASE \E s \in Slot : CallRejects(s)
    BY <1>1, <1>8, RejectKeeps
  <1>9. CASE RunWindowEnds
    BY <1>1, <1>9, RunWindowKeeps
  <1>10. CASE \E s \in Slot : CooldownEnds(s)
    BY <1>1, <1>10, CooldownKeeps
  <1>11. CASE \E t \in trades : CloseTrade(t)
    BY <1>1, <1>11, CloseKeeps
  <1>12. CASE \E gone \in {{t} : t \in trades} \cup {trades \ Open(trades), trades} : RemoveTrades(gone)
    BY <1>1, <1>12, RemoveKeeps
  <1>13. CASE Reload
    BY <1>1, <1>13, ReloadKeeps
  <1>14. CASE UNCHANGED vars
    BY <1>1, <1>14 DEF vars, IInv, TypeOK, Known
  <1>. QED
    BY <1>1, <1>2, <1>3, <1>4, <1>5, <1>6, <1>7, <1>8, <1>9, <1>10, <1>11, <1>12, <1>13, <1>14
       DEF Next

LEMMA Invariance == Spec => []IInv
  BY Initial, Inductive, PTL DEF Spec

\* Every variable of the auto-run and of the admission keeps its type.
THEOREM TypeCorrect == Spec => []TypeOK
  <1>1. IInv => TypeOK
    BY DEF IInv
  <1>. QED
    BY <1>1, Invariance, PTL

\* Whatever answers come late, are rejected or are lost with a reload, a cycle
\* is counted once, when its window ends, and never more than maxRuns are.
THEOREM CyclesFollowTheCount == Spec => []CycleFollowsCount
  <1>1. IInv => CycleFollowsCount
    BY DEF IInv, RunOk, Follows, CycleFollowsCount, IsLive
  <1>. QED
    BY <1>1, Invariance, PTL

\* What a running auto-run has for its entries are trades of its own cycle,
\* also after a reload from a store of two ages.
THEOREM RunningOwns == Spec => []RunningOwnsItsCycle
  <1>1. IInv => RunningOwnsItsCycle
    BY DEF IInv, RunOk, Owned, Known, RunningOwnsItsCycle
  <1>. QED
    BY <1>1, Invariance, PTL
-----------------------------------------------------------------------------
(* The limits.  As long as no two calls were in flight together, the open  *)
(* trades fit, those of either age of the store; the base of the call in   *)
(* flight fitted, and all that is open in a bucket it has yet to do was    *)
(* open in its base.  So what it planned for the bucket fits beside what   *)
(* is there.                                                               *)

OpenIn(ts, b) == {t \in Open(ts) : t.bucket = b}

OnePerSymbol(ts) == \A t, u \in Open(ts) : t.symbol = u.symbol => t = u

Fits(ts) ==
    /\ IsFiniteSet(ts)
    /\ \A t \in ts : t.symbol \in Offered(t.bucket) /\ t.bucket \in Bucket
    /\ OnePerSymbol(ts)
    /\ \A b \in Bucket : Cardinality(OpenIn(ts, b)) <= Cap[b]

PlanHolds(c, ts) ==
    /\ Fits(c.base)
    /\ c.left # {}
    /\ \A t \in Open(ts) : t.bucket \in c.left => IsActive(c.base, t.symbol)
    /\ c.from = "single" =>
         /\ c.left = {PartOf(c)}
         /\ c.wanted \in Offered(PartOf(c))
         /\ ~IsActive(c.base, c.wanted)
         /\ AvailableBucketSlots(c.base, PartOf(c)) > 0

LimitsInv ==
    ~overlap =>
      /\ Fits(trades) /\ Fits(before.trades)
      /\ \A s, r \in Slot : (~Free(s) /\ ~Free(r)) => s = r
      /\ \A s \in Slot : ~Free(s) => PlanHolds(calls[s], trades)
-----------------------------------------------------------------------------
(* How many entries a plan has.                                            *)

\* The first k of a finite set of places are k at most.
LEMMA FirstOnes ==
  ASSUME NEW c \in SUBSET Nat, IsFiniteSet(c), NEW k \in Nat,
         NEW p, p = {i \in c : PlaceAmong(c, i) <= k}
  PROVE  IsFiniteSet(p) /\ Cardinality(p) <= k
  <1>. DEFINE upTo(i) == {j \in c : j <= i}
              f == [i \in p |-> PlaceAmong(c, i)]
  <1>1. ASSUME NEW i \in c
        PROVE  IsFiniteSet(upTo(i)) /\ PlaceAmong(c, i) = Cardinality(upTo(i)) /\ i \in upTo(i)
    <2>1. upTo(i) \in SUBSET c /\ i \in upTo(i)
      OBVIOUS
    <2>. HIDE DEF upTo
    <2>2. IsFiniteSet(upTo(i))
      BY <2>1, FS_Subset
    <2>. QED
      BY <2>1, <2>2 DEF PlaceAmong, upTo
  <1>2. ASSUME NEW i \in p
        PROVE  f[i] \in 1 .. k
    <2>1. i \in c /\ f[i] = Cardinality(upTo(i)) /\ f[i] <= k
      BY <1>1
    <2>2. Cardinality(upTo(i)) \in Nat /\ Cardinality(upTo(i)) # 0
      <3>. HIDE DEF upTo
      <3>. QED
        BY <1>1, <2>1, FS_CardinalityType, FS_EmptySet
    <2>. HIDE DEF f, upTo
    <2>. QED
      BY <2>1, <2>2
  <1>3. ASSUME NEW i \in p, NEW j \in p, i < j
        PROVE  f[i] # f[j]
    <2>1. i \in c /\ j \in c
      OBVIOUS
    <2>2. upTo(i) \in SUBSET upTo(j) /\ j \notin upTo(i)
      <3>1. i \in Nat /\ j \in Nat /\ \A n \in c : n \in Nat
        BY <2>1
      <3>2. \A n \in Nat : n <= i => n <= j
        BY <1>3, <3>1
      <3>3. ~(j <= i)
        BY <1>3, <3>1
      <3>. QED
        BY <3>1, <3>2, <3>3
    <2>3. IsFiniteSet(upTo(j)) /\ j \in upTo(j)
      BY <1>1, <2>1
    <2>4. Cardinality(upTo(i)) # Cardinality(upTo(j))
      <3>. HIDE DEF upTo
      <3>. QED
        BY <2>2, <2>3, FS_Subset
    <2>. QED
      BY <1>1, <2>1, <2>4
  <1>4. f \in Injection(p, 1 .. k)
    <2>1. f \in [p -> 1 .. k]
      BY <1>2
    <2>2. ASSUME NEW i \in p, NEW j \in p, f[i] = f[j]
          PROVE  i = j
      <3>1. i \in Nat /\ j \in Nat
        OBVIOUS
      <3>. HIDE DEF f
      <3>. QED
        BY <1>3, <2>2, <3>1
    <2>. HIDE DEF f
    <2>. QED
      BY <2>1, <2>2 DEF Injection, IsInjective
  <1>5. IsFiniteSet(1 .. k) /\ Cardinality(1 .. k) = k
    BY FS_Interval
  <1>. HIDE DEF f
  <1>. QED
    BY <1>4, <1>5, FS_Injection
LEMMA OneBucket ==
  ASSUME NEW b \in Bucket, NEW d \in Bucket, NEW x, x \in Offered(b), x \in Offered(d)
  PROVE  b = d
  BY LimitsAssumption DEF Bucket

LEMMA OpenInFinite ==
  ASSUME NEW ts, IsFiniteSet(ts), NEW b
  PROVE  /\ IsFiniteSet(Open(ts)) /\ Cardinality(Open(ts)) \in Nat
         /\ IsFiniteSet(OpenIn(ts, b)) /\ Cardinality(OpenIn(ts, b)) \in Nat
  <1>1. Open(ts) \in SUBSET ts /\ OpenIn(ts, b) \in SUBSET ts
    BY DEF Open, OpenIn
  <1>. QED
    BY <1>1, FS_Subset, FS_CardinalityType

LEMMA SlotsOfBucket ==
  ASSUME NEW base, IsFiniteSet(base), NEW b \in Bucket
  PROVE  /\ AvailableBucketSlots(base, b) \in Int
         /\ AvailableBucketSlots(base, b) + Cardinality(OpenIn(base, b)) <= Cap[b]
  <1>. DEFINE k == AvailableBucketSlots(base, b)
              o == Cardinality(Open(base))
              n == Cardinality(OpenIn(base, b))
  <1>1. o \in Nat /\ n \in Nat /\ Cap[b] \in Nat /\ MaxOpen \in Nat
    BY OpenInFinite, AutoRunAssumption
  <1>2. k = IF MaxOpen - o < Cap[b] - n THEN MaxOpen - o ELSE Cap[b] - n
    BY DEF AvailableBucketSlots, OpenIn
  <1>. HIDE DEF o, n, k
  <1>3. k \in Int /\ k + n <= Cap[b]
    BY <1>1, <1>2
  <1>. QED
    BY <1>3 DEF n, k

LEMMA PlanFits ==
  ASSUME NEW base, IsFiniteSet(base), NEW b \in Bucket
  PROVE  /\ IsFiniteSet(Plan(base, b))
         /\ Plan(base, b) # {} =>
              Cardinality(Plan(base, b)) + Cardinality(OpenIn(base, b)) <= Cap[b]
  <1>. DEFINE c == Candidates(base, b)
              k == AvailableBucketSlots(base, b)
  <1>1. /\ Tickers[b] \in Seq(Symbol) /\ Cap[b] \in Nat /\ MaxOpen \in Nat
    BY AutoRunAssumption
  <1>2. /\ DOMAIN Tickers[b] = 1 .. Len(Tickers[b]) /\ Len(Tickers[b]) \in Nat
    BY <1>1
  <1>3. c \in SUBSET DOMAIN Tickers[b]
    BY DEF Candidates
  <1>4. c \in SUBSET Nat /\ IsFiniteSet(c)
    <2>. DEFINE n == Len(Tickers[b])
    <2>0. 1 \in Int /\ n \in Int
      BY <1>2
    <2>1. IsFiniteSet(1 .. n)
      <3>. HIDE DEF n
      <3>. QED
        BY <2>0, FS_Interval
    <2>2. \A i \in 1 .. Len(Tickers[b]) : i \in Nat
      BY <1>2
    <2>. HIDE DEF c
    <2>. QED
      BY <1>2, <1>3, <2>1, <2>2, FS_Subset
  <1>5. k \in Int /\ k + Cardinality(OpenIn(base, b)) <= Cap[b]
    BY SlotsOfBucket
  <1>6. Plan(base, b) = {i \in c : PlaceAmong(c, i) <= k}
    BY DEF Plan
  <1>. HIDE DEF c, k
  <1>7. CASE k \in Nat
    <2>1. IsFiniteSet(Plan(base, b)) /\ Cardinality(Plan(base, b)) <= k
      BY <1>4, <1>6, <1>7, FirstOnes
    <2>2. Cardinality(Plan(base, b)) \in Nat /\ Cardinality(OpenIn(base, b)) \in Nat
      BY <2>1, FS_CardinalityType, OpenInFinite
    <2>. QED
      BY <1>1, <1>5, <2>1, <2>2
  <1>8. CASE k \notin Nat
    <2>1. ASSUME NEW i \in c PROVE ~(PlaceAmong(c, i) <= k)
      BY <1>2, <1>3, <1>5, <1>8, PlaceInSet
    <2>2. Plan(base, b) = {}
      BY <1>6, <2>1
    <2>. QED
      BY <2>2, FS_EmptySet
  <1>. QED
    BY <1>7, <1>8

\* What a part inserts is open, of the part's bucket, one per symbol and of
\* symbols that were not open at the call.
LEMMA NewEntriesFit ==
  ASSUME NEW c \in Calls, c.left # {}, IsFiniteSet(c.base), NEW b, b = PartOf(c)
  PROVE  /\ b \in Bucket /\ b \in c.left
         /\ IsFiniteSet(NewEntries(c))
         /\ NewEntries(c) # {} =>
              Cardinality(NewEntries(c)) + Cardinality(OpenIn(c.base, b)) <= Cap[b]
         /\ \A t \in NewEntries(c) :
              /\ t.open /\ t.bucket = b /\ t.set = c.set
              /\ t.symbol \in Offered(b)
              /\ ~IsActive(c.base, t.symbol)
         /\ \A t, u \in NewEntries(c) : t.symbol = u.symbol => t = u
  <1>1. b \in Bucket /\ b \in c.left
    BY CallFields DEF PartOf, Bucket
  <1>. DEFINE e(i) == Entry(IdAt(c, i), Tickers[b][i], b, c)
              p == Plan(c.base, b)
              f == [i \in p |-> e(i)]
              new == NewEntries(c)
  <1>2. new = {e(i) : i \in p}
    BY DEF NewEntries
  <1>3. /\ IsFiniteSet(p)
        /\ p # {} => Cardinality(p) + Cardinality(OpenIn(c.base, b)) <= Cap[b]
    BY <1>1, PlanFits
  <1>4. \A i \in p : /\ e(i).open /\ e(i).bucket = b /\ e(i).set = c.set
                     /\ e(i).symbol = Tickers[b][i]
    BY DEF Entry
  <1>5. \A i \in p : /\ i \in DOMAIN Tickers[b] /\ ~IsActive(c.base, Tickers[b][i])
                     /\ Tickers[b][i] \in Offered(b)
    BY DEF Plan, Candidates, Offered
  <1>6. f \in Surjection(p, new)
    <2>. HIDE DEF p, e, new
    <2>. QED
      BY <1>2 DEF Surjection
  <1>. HIDE DEF e, f, p
  <1>7. IsFiniteSet(new) /\ Cardinality(new) <= Cardinality(p)
    BY <1>3, <1>6, FS_Surjection
  <1>8. new # {} => Cardinality(new) + Cardinality(OpenIn(c.base, b)) <= Cap[b]
    <2>1. new # {} => p # {}
      BY <1>2
    <2>2. Cardinality(new) \in Nat /\ Cardinality(p) \in Nat
          /\ Cardinality(OpenIn(c.base, b)) \in Nat /\ Cap[b] \in Nat
      BY <1>1, <1>3, <1>7, FS_CardinalityType, OpenInFinite, AutoRunAssumption
    <2>. HIDE DEF new
    <2>. QED
      BY <1>3, <1>7, <2>1, <2>2
  <1>9. ASSUME NEW t \in new, NEW u \in new, t.symbol = u.symbol
        PROVE  t = u
    <2>1. PICK i \in p : t = e(i)
      BY <1>2
    <2>2. PICK j \in p : u = e(j)
      BY <1>2
    <2>3. Tickers[b][i] = Tickers[b][j]
      BY <1>4, <1>9, <2>1, <2>2
    <2>4. i = j
      BY <1>1, <1>5, <2>3, LimitsAssumption
    <2>. QED
      BY <2>1, <2>2, <2>4
  <1>10. \A t \in new : /\ t.open /\ t.bucket = b /\ t.set = c.set
                        /\ t.symbol \in Offered(b)
                        /\ ~IsActive(c.base, t.symbol)
    BY <1>2, <1>4, <1>5
  <1>. QED
    BY <1>1, <1>7, <1>8, <1>9, <1>10 DEF new
\* Every open trade of ts2 is one of ts, which was open.
Narrows(ts, ts2) ==
    /\ IsFiniteSet(ts2)
    /\ \A t \in ts2 : \E u \in ts : u.symbol = t.symbol /\ u.bucket = t.bucket
    /\ \A t \in Open(ts2) : \E u \in Open(ts) : u.symbol = t.symbol /\ u.bucket = t.bucket
    /\ OnePerSymbol(ts2)

LEMMA NoMore ==
  ASSUME NEW ts, IsFiniteSet(ts), NEW ts2, OnePerSymbol(ts2), NEW b,
         \A t \in OpenIn(ts2, b) : \E u \in OpenIn(ts, b) : u.symbol = t.symbol
  PROVE  Cardinality(OpenIn(ts2, b)) <= Cardinality(OpenIn(ts, b))
  <1>. DEFINE s2 == OpenIn(ts2, b)
              s  == OpenIn(ts, b)
              f  == [t \in s2 |-> CHOOSE u \in s : u.symbol = t.symbol]
  <1>1. \A t \in s2 : f[t] \in s /\ f[t].symbol = t.symbol
    OBVIOUS
  <1>2. f \in [s2 -> s]
    <2>. HIDE DEF s, s2
    <2>. QED
      BY <1>1
  <1>3. \A t, u \in s2 : t.symbol = u.symbol => t = u
    BY DEF OnePerSymbol, OpenIn
  <1>. HIDE DEF f, s, s2
  <1>4. f \in Injection(s2, s)
    BY <1>1, <1>2, <1>3 DEF Injection, IsInjective
  <1>5. IsFiniteSet(s)
    BY OpenInFinite DEF s
  <1>6. Cardinality(s2) <= Cardinality(s)
    BY <1>4, <1>5, FS_Injection
  <1>. QED
    BY <1>6 DEF s, s2

LEMMA NothingFits == Fits({})
  <1>1. Open({}) = {} /\ \A b : OpenIn({}, b) = {}
    BY DEF Open, OpenIn
  <1>2. \A b \in Bucket : 0 <= Cap[b]
    BY AutoRunAssumption
  <1>. QED
    BY <1>1, <1>2, FS_EmptySet DEF Fits, OnePerSymbol

LEMMA FitsStays ==
  ASSUME NEW ts, NEW ts2, Fits(ts), Narrows(ts, ts2)
  PROVE  Fits(ts2)
  <1>1. IsFiniteSet(ts) /\ IsFiniteSet(ts2) /\ OnePerSymbol(ts2)
    BY DEF Fits, Narrows
  <1>2. ASSUME NEW b \in Bucket
        PROVE  Cardinality(OpenIn(ts2, b)) <= Cap[b]
    <2>1. \A t \in OpenIn(ts2, b) : \E u \in OpenIn(ts, b) : u.symbol = t.symbol
      BY DEF OpenIn, Narrows
    <2>2. Cardinality(OpenIn(ts2, b)) <= Cardinality(OpenIn(ts, b))
      BY <1>1, <2>1, NoMore
    <2>3. Cardinality(OpenIn(ts, b)) <= Cap[b]
      BY DEF Fits
    <2>4. /\ Cardinality(OpenIn(ts, b)) \in Nat /\ Cardinality(OpenIn(ts2, b)) \in Nat
          /\ Cap[b] \in Nat
      BY <1>1, OpenInFinite, AutoRunAssumption
    <2>. QED
      BY <2>2, <2>3, <2>4
  <1>3. \A t \in ts2 : t.symbol \in Offered(t.bucket) /\ t.bucket \in Bucket
    BY DEF Fits, Narrows
  <1>. QED
    BY <1>1, <1>2, <1>3 DEF Fits

LEMMA PlanStays ==
  ASSUME NEW ts, NEW ts2, Narrows(ts, ts2), NEW c, PlanHolds(c, ts)
  PROVE  PlanHolds(c, ts2)
  <1>1. ASSUME NEW t \in Open(ts2), t.bucket \in c.left
        PROVE  IsActive(c.base, t.symbol)
    <2>1. PICK u \in Open(ts) : u.symbol = t.symbol /\ u.bucket = t.bucket
      BY DEF Narrows
    <2>. QED
      BY <1>1, <2>1 DEF PlanHolds
  <1>. QED
    BY <1>1 DEF PlanHolds

\* What was planned for bucket b is inserted.
LEMMA InsertionFits ==
  ASSUME NEW ts, Fits(ts), NEW base, Fits(base), NEW b \in Bucket,
         \A t \in OpenIn(ts, b) : IsActive(base, t.symbol),
         NEW new, IsFiniteSet(new),
         \A t \in new : /\ t.open /\ t.bucket = b /\ t.symbol \in Offered(b)
                        /\ ~IsActive(base, t.symbol),
         \A t, u \in new : t.symbol = u.symbol => t = u,
         new # {} => Cardinality(new) + Cardinality(OpenIn(base, b)) <= Cap[b]
  PROVE  Fits(ts \cup new)
  <1>. DEFINE all == ts \cup new
  <1>1. /\ IsFiniteSet(ts) /\ IsFiniteSet(base) /\ OnePerSymbol(ts)
        /\ \A t \in ts : t.symbol \in Offered(t.bucket) /\ t.bucket \in Bucket
        /\ \A t \in base : t.symbol \in Offered(t.bucket) /\ t.bucket \in Bucket
        /\ \A d \in Bucket : Cardinality(OpenIn(ts, d)) <= Cap[d]
    BY DEF Fits
  <1>2. IsFiniteSet(all)
    BY <1>1, FS_Union
  <1>3. \A t \in all : t.symbol \in Offered(t.bucket) /\ t.bucket \in Bucket
    BY <1>1
  <1>4. Open(all) = Open(ts) \cup new
    BY DEF Open
  <1>5. ASSUME NEW t \in Open(ts), NEW u \in new
        PROVE  t.symbol # u.symbol
    <2>1. SUFFICES ASSUME t.symbol = u.symbol PROVE FALSE
      OBVIOUS
    <2>2. t \in ts /\ t.symbol \in Offered(t.bucket) /\ t.bucket \in Bucket
      BY <1>1 DEF Open
    <2>3. t.bucket = b
      BY <2>1, <2>2, OneBucket
    <2>. QED
      BY <2>1, <2>3 DEF OpenIn
  <1>6. OnePerSymbol(all)
    BY <1>1, <1>4, <1>5 DEF OnePerSymbol
  <1>7. ASSUME NEW d \in Bucket
        PROVE  Cardinality(OpenIn(all, d)) <= Cap[d]
    <2>1. CASE d # b \/ new = {}
      <3>1. OpenIn(all, d) = OpenIn(ts, d)
        BY <1>4, <2>1 DEF OpenIn
      <3>. QED
        BY <1>1, <3>1
    <2>2. CASE d = b /\ new # {}
      <3>1. OpenIn(all, b) = OpenIn(ts, b) \cup new /\ OpenIn(ts, b) \cap new = {}
        BY <1>4, <1>5 DEF OpenIn
      <3>. DEFINE m == Cardinality(OpenIn(ts, b))
                  n == Cardinality(new)
                  o == Cardinality(OpenIn(base, b))
      <3>2. Cardinality(OpenIn(all, b)) = m + n - 0
        <4>1. IsFiniteSet(OpenIn(ts, b))
          BY <1>1, OpenInFinite
        <4>2. Cardinality(OpenIn(ts, b) \cup new) = m + n - Cardinality(OpenIn(ts, b) \cap new)
          BY <4>1, FS_Union
        <4>. QED
          BY <3>1, <4>2, FS_EmptySet
      <3>3. m <= o
        <4>1. ASSUME NEW t \in OpenIn(ts, b)
              PROVE  \E u \in OpenIn(base, b) : u.symbol = t.symbol
          <5>1. PICK u \in Open(base) : u.symbol = t.symbol
            BY DEF IsActive
          <5>2. /\ u.symbol \in Offered(u.bucket) /\ u.bucket \in Bucket
                /\ t.symbol \in Offered(b)
            BY <1>1 DEF Open, OpenIn
          <5>. QED
            BY <5>1, <5>2, OneBucket DEF OpenIn
        <4>. QED
          BY <1>1, <4>1, NoMore
      <3>4. n + o <= Cap[b]
        BY <2>2
      <3>5. m \in Nat /\ n \in Nat /\ o \in Nat /\ Cap[b] \in Nat
        BY <1>1, OpenInFinite, FS_CardinalityType, AutoRunAssumption
      <3>. HIDE DEF m, n, o
      <3>. QED
        BY <2>2, <3>2, <3>3, <3>4, <3>5
    <2>. QED
      BY <2>1, <2>2
  <1>. QED
    BY <1>2, <1>3, <1>6, <1>7 DEF Fits
-----------------------------------------------------------------------------
(* The steps.                                                              *)

LEMMA StoreFits ==
  ASSUME IInv, LimitsInv, ~overlap, Remembers
  PROVE  Fits(before'.trades)
  <1>1. Fits(trades) /\ Fits(before.trades)
    BY DEF LimitsInv
  <1>2. CASE before' = [auto |-> auto, trades |-> trades]
    BY <1>1, <1>2
  <1>3. CASE before' = Oldest
    BY <1>3, NothingFits DEF Oldest
  <1>4. CASE before' = before
    BY <1>1, <1>4
  <1>. QED
    BY <1>2, <1>3, <1>4 DEF Remembers, Remember

LEMMA SameNarrows ==
  ASSUME NEW ts, Fits(ts)
  PROVE  Narrows(ts, ts)
  BY DEF Fits, Narrows

\* Trades close, change or go, and calls go on or end.
LEMMA NarrowingFits ==
  ASSUME IInv, LimitsInv, ~overlap, Remembers, Narrows(trades, trades'),
         \A s \in Slot : calls'[s] \in {calls[s], None}
  PROVE  LimitsInv'
  <1>1. Fits(trades') /\ Fits(before'.trades)
    BY StoreFits, FitsStays DEF LimitsInv
  <1>2. ASSUME NEW s \in Slot, ~Free(s)'
        PROVE  ~Free(s) /\ PlanHolds(calls'[s], trades')
    BY <1>2, PlanStays DEF LimitsInv, Free
  <1>. QED
    BY <1>1, <1>2 DEF LimitsInv

LEMMA StopFits ==
  ASSUME IInv, LimitsInv, ~overlap, StopAutoRun
  PROVE  LimitsInv'
  <1>1. Remembers /\ trades' = trades /\ calls' = calls
    BY DEF StopAutoRun, Remembers
  <1>2. Narrows(trades, trades')
    BY <1>1, SameNarrows DEF LimitsInv
  <1>. QED
    BY <1>1, <1>2, NarrowingFits

LEMMA RejectFits ==
  ASSUME IInv, LimitsInv, ~overlap, NEW s \in Slot, CallRejects(s)
  PROVE  LimitsInv'
  <1>1. Remembers /\ trades' = trades /\ calls' = [calls EXCEPT ![s] = None]
    BY DEF CallRejects, Remembers
  <1>2. Narrows(trades, trades')
    BY <1>1, SameNarrows DEF LimitsInv
  <1>3. \A r \in Slot : calls'[r] \in {calls[r], None}
    BY <1>1, Typed
  <1>. QED
    BY <1>1, <1>2, <1>3, NarrowingFits

LEMMA RemoveFits ==
  ASSUME IInv, LimitsInv, ~overlap, NEW gone, RemoveTrades(gone)
  PROVE  LimitsInv'
  <1>1. Remembers /\ trades' = trades \ gone /\ calls' = calls
    BY DEF RemoveTrades, Remembers
  <1>2. Narrows(trades, trades')
    <2>1. IsFiniteSet(trades')
      BY <1>1, FS_Subset DEF LimitsInv, Fits
    <2>. QED
      BY <1>1, <2>1 DEF LimitsInv, Fits, Narrows, Open, OnePerSymbol
  <1>. QED
    BY <1>1, <1>2, NarrowingFits

LEMMA CloseFits ==
  ASSUME IInv, LimitsInv, ~overlap, NEW t \in trades, CloseTrade(t)
  PROVE  LimitsInv'
  <1>. DEFINE u == [t EXCEPT !.open = FALSE]
  <1>1. Remembers /\ trades' = (trades \ {t}) \cup {u} /\ calls' = calls
    BY DEF CloseTrade, Remembers
  <1>2. u.symbol = t.symbol /\ u.bucket = t.bucket /\ ~u.open
    BY Typed DEF Trades
  <1>. HIDE DEF u
  <1>3. Narrows(trades, trades')
    <2>1. IsFiniteSet(trades')
      BY <1>1, FS_RemoveElement, FS_AddElement DEF LimitsInv, Fits
    <2>2. Open(trades') \subseteq Open(trades)
      BY <1>1, <1>2 DEF Open
    <2>3. \A x \in trades' : \E y \in trades : y.symbol = x.symbol /\ y.bucket = x.bucket
      BY <1>1, <1>2
    <2>. QED
      BY <2>1, <2>2, <2>3 DEF LimitsInv, Fits, Narrows, OnePerSymbol
  <1>. QED
    BY <1>1, <1>3, NarrowingFits

LEMMA RunWindowFits ==
  ASSUME IInv, LimitsInv, ~overlap, RunWindowEnds
  PROVE  LimitsInv'
  <1>. DEFINE m(t) == [t EXCEPT !.finished = (t.finished \/ SourceCompleted(auto, t))]
              f    == [t \in trades |-> m(t)]
  <1>1. /\ Remembers /\ calls' = calls
        /\ trades' = {m(t) : t \in trades}
    BY Zenon DEF RunWindowEnds, Remembers
  <1>2. ASSUME NEW t \in trades
        PROVE  m(t).symbol = t.symbol /\ m(t).bucket = t.bucket /\ m(t).open = t.open
    BY Typed DEF Trades
  <1>. HIDE DEF m
  <1>3. IsFiniteSet(trades')
    <2>1. f \in Surjection(trades, trades')
      BY <1>1 DEF Surjection
    <2>2. IsFiniteSet(trades)
      BY DEF LimitsInv, Fits
    <2>. HIDE DEF f
    <2>. QED
      BY <2>1, <2>2, FS_Surjection
  <1>4. ASSUME NEW t \in trades'
        PROVE  \E u \in trades : /\ t = m(u) /\ u.symbol = t.symbol /\ u.bucket = t.bucket
                                 /\ u.open = t.open
    BY <1>1, <1>2
  <1>5. Narrows(trades, trades')
    BY <1>3, <1>4 DEF LimitsInv, Fits, Narrows, Open, OnePerSymbol
  <1>. QED
    BY <1>1, <1>5, NarrowingFits
LEMMA OpenOfOpen ==
  ASSUME NEW ts
  PROVE  /\ Open(Open(ts)) = Open(ts)
         /\ \A x : IsActive(Open(ts), x) <=> IsActive(ts, x)
         /\ \A b \in Bucket : AvailableBucketSlots(Open(ts), b) = AvailableBucketSlots(ts, b)
  <1>1. Open(Open(ts)) = Open(ts)
    BY DEF Open
  <1>. QED
    BY <1>1 DEF IsActive, AvailableBucketSlots

LEMMA OpenFits ==
  ASSUME NEW ts, Fits(ts)
  PROVE  Fits(Open(ts))
  <1>1. Open(ts) \subseteq ts /\ Open(Open(ts)) = Open(ts)
    BY OpenOfOpen DEF Open
  <1>2. IsFiniteSet(Open(ts))
    BY OpenInFinite DEF Fits
  <1>3. Narrows(ts, Open(ts))
    BY <1>1, <1>2 DEF Narrows, Fits, OnePerSymbol
  <1>. QED
    BY <1>3, FitsStays

\* A call comes where there was none; trades stay.
LEMMA ComingFits ==
  ASSUME IInv, LimitsInv, ~overlap, Remembers, trades' = trades, NEW s \in Slot, NEW c,
         \A r \in Slot : Free(r), calls' = [calls EXCEPT ![s] = c],
         PlanHolds(c, trades)
  PROVE  LimitsInv'
  <1>1. calls'[s] = c /\ \A r \in Slot : r # s => calls'[r] = None
    BY Typed DEF Free
  <1>2. Fits(trades') /\ Fits(before'.trades)
    BY StoreFits DEF LimitsInv
  <1>. QED
    BY <1>1, <1>2 DEF LimitsInv, Free

LEMMA StartSetFits ==
  ASSUME IInv, LimitsInv, ~overlap', Remembers, trades' = trades, NEW s \in Slot,
         NEW from \in {"engine", "control", "manual"},
         NEW a, NEW run, NEW cycle, NEW buckets,
         CallStartSet(s, from, a, run, cycle, buckets)
  PROVE  LimitsInv'
  <1>1. PICK gap \in GapSteps :
          LET at   == lastAt + gap
              todo == {b \in buckets : Plan(trades, b) # {}}
              c    == CallOf(from, run, cycle, at, todo)
          IN  /\ calls' = IF todo = {} THEN calls ELSE [calls EXCEPT ![s] = c]
              /\ overlap' = (overlap \/ (todo # {} /\ \E r \in Slot : ~Free(r)))
    BY Zenon DEF CallStartSet
  <1>. DEFINE todo == {b \in buckets : Plan(trades, b) # {}}
              c    == CallOf(from, run, cycle, lastAt + gap, todo)
  <1>2. ~overlap /\ (todo = {} \/ \A r \in Slot : Free(r))
    BY <1>1
  <1>3. CASE todo = {}
    <2>1. calls' = calls /\ Narrows(trades, trades')
      BY <1>1, <1>2, <1>3, SameNarrows DEF LimitsInv
    <2>. QED
      BY <1>2, <2>1, NarrowingFits
  <1>4. CASE todo # {}
    <2>1. calls' = [calls EXCEPT ![s] = c] /\ \A r \in Slot : Free(r)
      BY <1>1, <1>2, <1>4
    <2>2. c.base = Open(trades) /\ c.left = todo /\ c.from # "single"
      BY DEF CallOf
    <2>3. Fits(Open(trades))
      BY <1>2, OpenFits DEF LimitsInv
    <2>4. \A t \in Open(trades) : IsActive(Open(trades), t.symbol)
      BY OpenOfOpen DEF IsActive
    <2>. HIDE DEF todo, c
    <2>5. PlanHolds(c, trades)
      BY <1>4, <2>2, <2>3, <2>4 DEF PlanHolds
    <2>. QED
      BY <1>2, <2>1, <2>5, ComingFits
  <1>. QED
    BY <1>3, <1>4

LEMMA StartSingleFits ==
  ASSUME IInv, LimitsInv, ~overlap', NEW s \in Slot, NEW b \in Bucket, NEW symbol \in Symbol,
         StartSingle(s, b, symbol)
  PROVE  LimitsInv'
  <1>. DEFINE c == [CallOf("single", 0, 0, 0, {b}) EXCEPT !.wanted = symbol]
  <1>1. /\ calls' = [calls EXCEPT ![s] = c]
        /\ overlap' = (overlap \/ \E r \in Slot : ~Free(r))
        /\ Remembers /\ trades' = trades
        /\ symbol \in Offered(b) /\ ~IsActive(trades, symbol)
        /\ AvailableBucketSlots(trades, b) > 0
    BY DEF StartSingle, Remembers
  <1>2. ~overlap /\ \A r \in Slot : Free(r)
    BY <1>1
  <1>3. /\ c.base = Open(trades) /\ c.left = {b} /\ c.from = "single" /\ c.wanted = symbol
        /\ PartOf(c) = b
    BY DEF CallOf, PartOf, Bucket
  <1>4. Fits(Open(trades))
    BY <1>2, OpenFits DEF LimitsInv
  <1>5. \A t \in Open(trades) : IsActive(Open(trades), t.symbol)
    BY OpenOfOpen DEF IsActive
  <1>6. /\ ~IsActive(Open(trades), symbol)
        /\ AvailableBucketSlots(Open(trades), b) > 0
    BY <1>1, OpenOfOpen
  <1>. HIDE DEF c
  <1>7. PlanHolds(c, trades)
    BY <1>1, <1>3, <1>4, <1>5, <1>6 DEF PlanHolds
  <1>. QED
    BY <1>1, <1>2, <1>7, ComingFits

\* The only call there is inserts what it planned for the bucket b, and ends
\* or goes on as d without that bucket.
LEMMA InsertingFits ==
  ASSUME IInv, LimitsInv, ~overlap, Remembers, NEW s \in Slot, ~Free(s),
         NEW c, c = calls[s], NEW b \in Bucket, b \in c.left,
         NEW new, trades' = trades \cup new, IsFiniteSet(new),
         \A t \in new : /\ t.open /\ t.bucket = b /\ t.symbol \in Offered(b)
                        /\ ~IsActive(c.base, t.symbol),
         \A t, u \in new : t.symbol = u.symbol => t = u,
         new # {} => Cardinality(new) + Cardinality(OpenIn(c.base, b)) <= Cap[b],
         NEW d, calls' = [calls EXCEPT ![s] = d],
         d # None => /\ d.base = c.base /\ d.left = c.left \ {b} /\ d.left # {}
                     /\ d.from # "single"
  PROVE  LimitsInv'
  <1>1. /\ Fits(trades) /\ PlanHolds(c, trades) /\ Fits(c.base)
        /\ \A r \in Slot : ~Free(r) => r = s
    BY DEF LimitsInv, PlanHolds
  <1>2. \A t \in OpenIn(trades, b) : IsActive(c.base, t.symbol)
    BY <1>1 DEF PlanHolds, OpenIn
  <1>3. Fits(trades')
    BY <1>1, <1>2, InsertionFits
  <1>4. Fits(before'.trades)
    BY StoreFits
  <1>5. calls'[s] = d /\ \A r \in Slot : r # s => calls'[r] = None
    BY <1>1, Typed DEF Free
  <1>6. ASSUME d # None
        PROVE  PlanHolds(d, trades')
    <2>1. ASSUME NEW t \in Open(trades'), t.bucket \in d.left
          PROVE  IsActive(c.base, t.symbol)
      BY <1>1, <1>6, <2>1 DEF PlanHolds, Open
    <2>. QED
      BY <1>1, <1>6, <2>1 DEF PlanHolds
  <1>. QED
    BY <1>3, <1>4, <1>5, <1>6 DEF LimitsInv, Free

LEMMA InsertSingleFits ==
  ASSUME IInv, LimitsInv, ~overlap, NEW s \in Slot, InsertSingle(s)
  PROVE  LimitsInv'
  <1>. DEFINE c == calls[s]
              b == PartOf(c)
              t == Entry(lastAt', c.wanted, b, [c EXCEPT !.set = lastAt'])
  <1>1. /\ ~Free(s) /\ c.from = "single"
        /\ trades' = trades \cup {t}
        /\ calls' = [calls EXCEPT ![s] = None]
        /\ Remembers
    BY DEF InsertSingle, Remembers
  <1>2. t.open /\ t.bucket = b /\ t.symbol = c.wanted
    BY DEF Entry
  <1>. HIDE DEF t
  <1>3. /\ b \in Bucket /\ b \in c.left /\ c.wanted \in Offered(b)
        /\ ~IsActive(c.base, c.wanted)
        /\ AvailableBucketSlots(c.base, b) > 0
        /\ IsFiniteSet(c.base)
    <2>1. b \in Bucket
      BY DEF PartOf, Bucket
    <2>. QED
      BY <1>1, <2>1 DEF LimitsInv, PlanHolds, Fits
  <1>4. IsFiniteSet({t}) /\ Cardinality({t}) = 1
    BY FS_Singleton
  <1>5. Cardinality({t}) + Cardinality(OpenIn(c.base, b)) <= Cap[b]
    <2>1. /\ AvailableBucketSlots(c.base, b) \in Int
          /\ AvailableBucketSlots(c.base, b) + Cardinality(OpenIn(c.base, b)) <= Cap[b]
          /\ Cardinality(OpenIn(c.base, b)) \in Nat
          /\ Cap[b] \in Nat
      BY <1>3, SlotsOfBucket, OpenInFinite, AutoRunAssumption
    <2>. HIDE DEF b, c
    <2>. QED
      BY <1>3, <1>4, <2>1
  <1>. DEFINE new == {t}
  <1>6. /\ \A x, y \in new : x.symbol = y.symbol => x = y
        /\ \A x \in new : /\ x.open /\ x.bucket = b /\ x.symbol \in Offered(b)
                           /\ ~IsActive(c.base, x.symbol)
    BY <1>2, <1>3
  <1>7. /\ IsFiniteSet(new) /\ trades' = trades \cup new
        /\ Cardinality(new) + Cardinality(OpenIn(c.base, b)) <= Cap[b]
    BY <1>1, <1>4, <1>5
  <1>. HIDE DEF b, c, new
  <1>. QED
    BY <1>1, <1>3, <1>6, <1>7, InsertingFits DEF c

LEMMA PartFits ==
  ASSUME IInv, LimitsInv, ~overlap, NEW s \in Slot, PartReady(s)
  PROVE  LimitsInv'
  <1>. DEFINE c   == calls[s]
              b   == PartOf(c)
              new == NewEntries(c)
  <1>1. /\ ~Free(s) /\ c.from # "single" /\ Remembers
        /\ trades' = trades \cup new
        /\ \/ calls' = [calls EXCEPT ![s] = None]
           \/ /\ c.left # {b}
              /\ \E gap \in GapSteps : calls' = [calls EXCEPT
                   ![s] = NextPart(c, lastAt', MadeSoFar(c, new))]
    BY DEF PartReady, Remembers
  <1>2. c \in Calls /\ c.left # {} /\ IsFiniteSet(c.base)
    BY <1>1, Typed DEF LimitsInv, PlanHolds, Fits, Free, Waits
  <1>3. /\ b \in Bucket /\ b \in c.left
        /\ IsFiniteSet(new)
        /\ new # {} => Cardinality(new) + Cardinality(OpenIn(c.base, b)) <= Cap[b]
        /\ \A t \in new : /\ t.open /\ t.bucket = b /\ t.symbol \in Offered(b)
                           /\ ~IsActive(c.base, t.symbol)
        /\ \A t, u \in new : t.symbol = u.symbol => t = u
    <2>. HIDE DEF c
    <2>. QED
      BY <1>2, NewEntriesFit
  <1>4. ASSUME NEW d, d = NextPart(c, lastAt', MadeSoFar(c, new)), c.left # {b}
        PROVE  /\ d.base = c.base /\ d.left = c.left \ {b} /\ d.left # {}
               /\ d.from # "single"
    BY <1>1, <1>3, <1>4 DEF NextPart
  <1>5. PICK d : /\ calls' = [calls EXCEPT ![s] = d]
                 /\ d # None => /\ d.base = c.base /\ d.left = c.left \ {b} /\ d.left # {}
                                /\ d.from # "single"
    BY <1>1, <1>4
  <1>. HIDE DEF b, c, new
  <1>. QED
    BY <1>1, <1>3, <1>5, InsertingFits DEF c

LEMMA ReloadFits ==
  ASSUME IInv, LimitsInv, ~overlap, Reload
  PROVE  LimitsInv'
  <1>1. PICK a \in {auto, before.auto}, ts \in {trades, before.trades} :
          /\ trades' = ts
          /\ before' = IF reloads' < MaxReloads THEN [auto |-> a, trades |-> ts] ELSE Oldest
    BY DEF Reload
  <1>2. calls' = [s \in Slot |-> None]
    BY DEF Reload
  <1>3. Fits(ts)
    BY DEF LimitsInv
  <1>4. Fits(before'.trades)
    <2>1. CASE before' = [auto |-> a, trades |-> ts]
      BY <1>3, <2>1
    <2>2. CASE before' = Oldest
      BY <2>2, NothingFits DEF Oldest
    <2>. QED
      BY <1>1, <2>1, <2>2
  <1>. QED
    BY <1>1, <1>2, <1>3, <1>4 DEF LimitsInv, Free

LEMMA LimitsInductive == IInv /\ LimitsInv /\ [Next]_vars => LimitsInv'
  <1>1. SUFFICES ASSUME IInv, LimitsInv, [Next]_vars, ~overlap' PROVE LimitsInv'
    BY DEF LimitsInv
  <1>2. CASE \E s \in Slot, target \in Targets : StartAutoRun(s, target)
    <2>1. PICK s \in Slot, target \in Targets : StartAutoRun(s, target)
      BY <1>2
    <2>2. /\ Remembers /\ trades' = trades
          /\ \E a : CallStartSet(s, "control", a, started', 1, target)
      BY <2>1 DEF StartAutoRun, Remembers
    <2>. QED
      BY <1>1, <2>2, StartSetFits
  <1>3. CASE \E s \in Slot, b \in Bucket : StartManualSet(s, b)
    <2>1. PICK s \in Slot, b \in Bucket : StartManualSet(s, b)
      BY <1>3
    <2>2. /\ Remembers /\ trades' = trades
          /\ CallStartSet(s, "manual", auto, 0, 0, {b})
      BY <2>1 DEF StartManualSet, Remembers
    <2>. QED
      BY <1>1, <2>2, StartSetFits
  <1>4. CASE \E s \in Slot : CooldownEnds(s)
    <2>1. PICK s \in Slot : CooldownEnds(s)
      BY <1>4
    <2>2. /\ Remembers /\ trades' = trades
          /\ CallStartSet(s, "engine", NextCycle(auto), auto.id, auto.completed + 1, auto.target)
      BY <2>1 DEF CooldownEnds, Remembers
    <2>. QED
      BY <1>1, <2>2, StartSetFits
  <1>5. CASE \E s \in Slot, b \in Bucket, symbol \in Symbol : StartSingle(s, b, symbol)
    BY <1>1, <1>5, StartSingleFits
  <1>6. CASE StopAutoRun
    BY <1>1, <1>6, StopFits DEF StopAutoRun
  <1>7. CASE \E s \in Slot : InsertSingle(s)
    <2>1. PICK s \in Slot : InsertSingle(s)
      BY <1>7
    <2>2. overlap' = overlap
      BY <2>1 DEF InsertSingle
    <2>. QED
      BY <1>1, <2>1, <2>2, InsertSingleFits
  <1>8. CASE \E s \in Slot : PartReady(s)
    BY <1>1, <1>8, PartFits DEF PartReady
  <1>9. CASE \E s \in Slot : CallRejects(s)
    <2>1. PICK s \in Slot : CallRejects(s)
      BY <1>9
    <2>2. overlap' = overlap
      BY <2>1 DEF CallRejects
    <2>. QED
      BY <1>1, <2>1, <2>2, RejectFits
  <1>10. CASE RunWindowEnds
    BY <1>1, <1>10, RunWindowFits DEF RunWindowEnds
  <1>11. CASE \E t \in trades : CloseTrade(t)
    BY <1>1, <1>11, CloseFits DEF CloseTrade
  <1>12. CASE \E gone \in {{t} : t \in trades} \cup {trades \ Open(trades), trades} : RemoveTrades(gone)
    BY <1>1, <1>12, RemoveFits DEF RemoveTrades
  <1>13. CASE Reload
    BY <1>1, <1>13, ReloadFits DEF Reload
  <1>14. CASE UNCHANGED vars
    BY <1>1, <1>14 DEF vars, LimitsInv, Free
  <1>. QED
    BY <1>1, <1>2, <1>3, <1>4, <1>5, <1>6, <1>7, <1>8, <1>9, <1>10, <1>11, <1>12, <1>13, <1>14
       DEF Next

LEMMA FitsWithinLimits ==
  ASSUME IInv, LimitsInv, ~overlap
  PROVE  WithinLimits
  <1>1. Fits(trades) /\ OnePerSymbol(trades) /\ IsFiniteSet(trades)
    BY DEF LimitsInv, Fits
  <1>. DEFINE l == OpenIn(trades, Losers)
              g == OpenIn(trades, Gainers)
  <1>2. Open(trades) = l \cup g /\ l \cap g = {}
    BY <1>1, AutoRunAssumption DEF Fits, OpenIn, Open, Bucket
  <1>3. /\ IsFiniteSet(l) /\ IsFiniteSet(g)
        /\ Cardinality(l) \in Nat /\ Cardinality(g) \in Nat
    BY <1>1, OpenInFinite
  <1>4. Cardinality(Open(trades)) = Cardinality(l) + Cardinality(g)
    <2>. HIDE DEF l, g
    <2>1. Cardinality(l \cup g) = Cardinality(l) + Cardinality(g) - Cardinality(l \cap g)
      BY <1>3, FS_Union
    <2>. QED
      BY <1>2, <1>3, <2>1, FS_EmptySet
  <1>5. Cardinality(l) <= Cap[Losers] /\ Cardinality(g) <= Cap[Gainers]
    BY <1>1 DEF Fits, Bucket
  <1>6. Cap[Losers] \in Nat /\ Cap[Gainers] \in Nat /\ MaxOpen \in Nat
        /\ Cap[Losers] + Cap[Gainers] <= MaxOpen
    BY AutoRunAssumption, LimitsAssumption DEF Bucket
  <1>7. Cardinality(Open(trades)) <= MaxOpen
    <2>. HIDE DEF l, g
    <2>. QED
      BY <1>3, <1>4, <1>5, <1>6
  <1>8. \A b \in Bucket : Cardinality({t \in Open(trades) : t.bucket = b}) <= Cap[b]
    BY <1>1 DEF Fits, OpenIn
  <1>. QED
    BY <1>1, <1>7, <1>8 DEF WithinLimits, OnePerSymbol

\* A set inserts what it planned before its awaits, and still no bucket and no
\* symbol is over its limit, unless two calls were in flight together: the
\* limits of LONG_BUCKET_POSITION_LIMITS for any tickers, caps and number of
\* calls, also after a reload from either age of the store.
THEOREM LimitsHold == Spec => []LimitsHoldOneCallAtATime
  <1>1. Init => LimitsInv
    <2>1. SUFFICES ASSUME Init PROVE LimitsInv
      OBVIOUS
    <2>2. trades = {} /\ before.trades = {} /\ \A s \in Slot : Free(s)
      BY <2>1 DEF Init, Oldest, Free
    <2>. QED
      BY <2>2, NothingFits DEF LimitsInv
  <1>2. IInv /\ LimitsInv => LimitsHoldOneCallAtATime
    BY FitsWithinLimits DEF LimitsHoldOneCallAtATime
  <1>. QED
    BY <1>1, <1>2, LimitsInductive, Invariance, PTL DEF Spec
-----------------------------------------------------------------------------
(* One set per cycle, and what a cycle leaves unmarked.  An auto-run has   *)
(* open trades of no cycle after the one it has begun; a call in flight is *)
(* the only one of its run, its auto-run waits for it, and the open trades *)
(* of its cycle are those it has made.                                     *)

OneSet(ts) ==
    \A t, u \in Open(ts) : (t.run # 0 /\ t.run = u.run /\ t.cycle = u.cycle) => t.set = u.set

\* The last cycle that an auto-run may have started.
Begun(a) == IF a.phase = "cooldown" THEN a.completed ELSE a.completed + 1

Bounded(a, ts) == a # None => \A t \in Open(ts) : t.run = a.id => t.cycle <= Begun(a)

ForRun(cs, s) == cs[s] # None /\ cs[s].run # 0

\* The open trades of the cycle of call c are of its set, and its auto-run
\* waits for it.
Mine(c, a, ts) ==
    /\ \A t \in Open(ts) : (t.run = c.run /\ t.cycle = c.cycle) => t.set = c.set
    /\ (a # None /\ a.id = c.run) => a.phase = "starting" /\ a.cycle = c.cycle

OneEach(cs) ==
    \A s, r \in Slot : (ForRun(cs, s) /\ ForRun(cs, r) /\ cs[s].run = cs[r].run) => s = r

\* They are those it has made, and an auto-run that runs names all of its cycle.
MadeAll(c, ts) == \A t \in Open(ts) : (t.run = c.run /\ t.cycle = c.cycle) => t.id \in c.made

Marked(a, ts) ==
    a # None => \A t \in Open(ts) : t.run = a.id =>
        /\ t.cycle <= a.completed => t.finished
        /\ (a.phase = "running" /\ t.cycle = a.cycle) => t.id \in a.entries

SetsInv ==
    /\ \A t \in Known : t.run <= started
    /\ \A ts \in {trades, before.trades} :
          OneSet(ts) /\ Bounded(auto, ts) /\ Bounded(before.auto, ts)
    /\ \A s \in Slot : ForRun(calls, s) => Mine(calls[s], auto, trades)
    /\ OneEach(calls)
    /\ reloads = 0 =>
         /\ Marked(auto, trades)
         /\ \A s \in Slot : ForRun(calls, s) => MadeAll(calls[s], trades)

\* Every open trade of ts2 is one of ts, which was open.
Survive(ts, ts2) ==
    /\ \A t \in ts2 : \E u \in ts : u.run = t.run
    /\ \A t \in Open(ts2) : \E u \in Open(ts) :
          /\ u.id = t.id /\ u.run = t.run /\ u.cycle = t.cycle /\ u.set = t.set
          /\ u.finished => t.finished

LEMMA Survived ==
  ASSUME NEW ts, NEW ts2, Survive(ts, ts2)
  PROVE  /\ OneSet(ts) => OneSet(ts2)
         /\ \A a : Bounded(a, ts) => Bounded(a, ts2)
         /\ \A a, c : Mine(c, a, ts) => Mine(c, a, ts2)
         /\ \A c : MadeAll(c, ts) => MadeAll(c, ts2)
         /\ \A a : Marked(a, ts) => Marked(a, ts2)
  <1>1. OneSet(ts) => OneSet(ts2)
    BY DEF Survive, OneSet
  <1>2. ASSUME NEW a, Bounded(a, ts) PROVE Bounded(a, ts2)
    BY <1>2 DEF Survive, Bounded
  <1>3. ASSUME NEW a, NEW c, Mine(c, a, ts) PROVE Mine(c, a, ts2)
    BY <1>3 DEF Survive, Mine
  <1>4. ASSUME NEW c, MadeAll(c, ts) PROVE MadeAll(c, ts2)
    BY <1>4 DEF Survive, MadeAll
  <1>5. ASSUME NEW a, Marked(a, ts) PROVE Marked(a, ts2)
    BY <1>5 DEF Survive, Marked
  <1>. QED
    BY <1>1, <1>2, <1>3, <1>4, <1>5

LEMMA SameSurvive ==
  ASSUME NEW ts
  PROVE  Survive(ts, ts)
  BY DEF Survive

\* What the two ages of the store hold.
LEMMA StoredSets ==
  ASSUME IInv, SetsInv, Remember \/ UNCHANGED <<before, auto, trades>>,
         OneSet(trades'), Bounded(auto', trades'), Bounded(auto', trades), Bounded(auto, trades'),
         started <= started', started' \in Nat, \A t \in trades' : t.run <= started'
  PROVE  /\ \A t \in Known' : t.run <= started'
         /\ \A ts \in {trades', before'.trades} :
               OneSet(ts) /\ Bounded(auto', ts) /\ Bounded(before'.auto, ts)
  <1>0. \A t \in Known : t.run <= started'
    BY Typed, TradeFields DEF SetsInv
  <1>1. CASE before' = [auto |-> auto, trades |-> trades]
    BY <1>0, <1>1 DEF SetsInv, Known
  <1>2. CASE before' = Oldest
    <2>1. Open({}) = {}
      BY DEF Open
    <2>. QED
      BY <1>2, <2>1 DEF Oldest, Known, OneSet, Bounded
  <1>3. CASE UNCHANGED <<before, auto, trades>>
    BY <1>0, <1>3 DEF SetsInv, Known
  <1>. QED
    BY <1>1, <1>2, <1>3 DEF Remember

LEMMA MineWaits ==
  ASSUME IInv, NEW s \in Slot, ForRun(calls, s)
  PROVE  /\ Waits(calls, s) /\ calls[s] \in Calls
         /\ calls[s].run <= started /\ calls[s].run \in Nat
  <1>1. Waits(calls, s)
    BY DEF ForRun, Waits, IInv, Singles
  <1>2. calls[s] \in Calls
    BY <1>1, Typed
  <1>. QED
    BY <1>1, <1>2, CallFields DEF IInv, CallOk

\* Trades close, change or go; calls go on or end.
LEMMA SurvivalKeeps ==
  ASSUME IInv, SetsInv, IInv', Remember \/ UNCHANGED <<before, auto, trades>>, Survive(trades, trades'),
         UNCHANGED <<started, reloads>>,
         \A s \in Slot : ForRun(calls', s) =>
            /\ calls'[s] = calls[s]
            /\ (auto' # None /\ auto'.id = calls[s].run) =>
                  auto' = auto,
         \A ts \in SUBSET Trades : Bounded(auto, ts) => Bounded(auto', ts),
         reloads = 0 => Marked(auto', trades')
  PROVE  SetsInv'
  <1>1. /\ OneSet(trades) /\ Bounded(auto, trades)
        /\ OneSet(trades') /\ Bounded(auto, trades')
    BY Survived DEF SetsInv
  <1>0. trades \in SUBSET Trades /\ trades' \in SUBSET Trades
    BY Typed DEF IInv, TypeOK
  <1>2. started' \in Nat /\ started <= started' /\ \A t \in trades' : t.run <= started'
    BY Typed DEF SetsInv, Known, Survive
  <1>3. ASSUME NEW s \in Slot, ForRun(calls', s)
        PROVE  /\ Mine(calls'[s], auto', trades') /\ calls'[s] = calls[s] /\ ForRun(calls, s)
               /\ reloads = 0 => MadeAll(calls'[s], trades')
    <2>1. ForRun(calls, s) /\ calls'[s] = calls[s]
      BY <1>3 DEF ForRun
    <2>2. Mine(calls[s], auto, trades') /\ (reloads = 0 => MadeAll(calls[s], trades'))
      BY <2>1, Survived DEF SetsInv
    <2>3. Mine(calls[s], auto', trades')
      BY <1>3, <2>2 DEF Mine
    <2>. QED
      BY <2>1, <2>2, <2>3
  <1>4. OneEach(calls')
    BY <1>3 DEF SetsInv, OneEach
  <1>5. /\ \A t \in Known' : t.run <= started'
        /\ \A ts \in {trades', before'.trades} :
               OneSet(ts) /\ Bounded(auto', ts) /\ Bounded(before'.auto, ts)
    BY <1>0, <1>1, <1>2, StoredSets
  <1>. QED
    BY <1>3, <1>4, <1>5 DEF SetsInv
\* An answer that is taken ends the start: what is bounded and marked stays so.
LEMMA AnsweredSets ==
  ASSUME NEW a \in AutoRuns \cup {None}, NEW c, NEW made \in SUBSET Nat,
         NEW b, b = Settled(a, c, made)
  PROVE  /\ ~Expects(a, c) => b = a
         /\ Expects(a, c) =>
              /\ a # None /\ a.phase = "starting" /\ a.id = c.run
              /\ b # None /\ b.id = a.id /\ b.cycle = a.cycle /\ b.completed = a.completed
              /\ b.entries = made /\ b.phase \in {"done", "running"}
              /\ b.phase = "running" <=> made # {}
         /\ \A ts : Bounded(a, ts) => Bounded(b, ts)
         /\ (b # None) => (a # None /\ b.id = a.id)
  <1>1. CASE ~Expects(a, c)
    BY <1>1 DEF Settled
  <1>2. CASE Expects(a, c)
    <2>. DEFINE phase == IF made = {} THEN "done" ELSE "running"
    <2>1. a \in AutoRuns /\ a # None /\ a.phase = "starting" /\ a.id = c.run
      BY <1>2 DEF Expects
    <2>2. b = InPhase(a, phase, a.cycle, a.completed, made)
      BY <1>2 DEF Settled
    <2>3. phase \in Phases /\ phase \in {"done", "running"} /\ (phase = "running" <=> made # {})
      BY DEF Phases
    <2>. HIDE DEF phase
    <2>4. /\ b # None /\ b.id = a.id /\ b.cycle = a.cycle /\ b.completed = a.completed
          /\ b.entries = made /\ b.phase = phase
      BY <2>1, <2>2, <2>3, AutoFields, InPhaseTyped
    <2>. QED
      BY <1>2, <2>1, <2>3, <2>4 DEF Bounded, Begun
  <1>. QED
    BY <1>1, <1>2

LEMMA StopSets ==
  ASSUME IInv, SetsInv, IInv', StopAutoRun
  PROVE  SetsInv'
  <1>1. /\ auto' = None /\ trades' = trades /\ Remember
        /\ UNCHANGED <<calls, started, reloads>>
    BY DEF StopAutoRun
  <1>2. Survive(trades, trades') /\ Marked(auto', trades') /\ \A ts : Bounded(auto', ts)
    BY <1>1, SameSurvive DEF Marked, Bounded
  <1>. QED
    BY <1>1, <1>2, SurvivalKeeps

LEMMA CloseSets ==
  ASSUME IInv, SetsInv, IInv', NEW t \in trades, CloseTrade(t)
  PROVE  SetsInv'
  <1>. DEFINE u == [t EXCEPT !.open = FALSE]
  <1>1. /\ auto' = auto /\ trades' = (trades \ {t}) \cup {u} /\ Remember
        /\ UNCHANGED <<calls, started, reloads>>
    BY DEF CloseTrade
  <1>2. u.run = t.run /\ ~u.open
    BY Typed DEF Trades
  <1>. HIDE DEF u
  <1>3. Survive(trades, trades')
    BY <1>1, <1>2 DEF Survive, Open
  <1>4. reloads = 0 => Marked(auto', trades')
    BY <1>1, <1>3, Survived DEF SetsInv
  <1>. QED
    BY <1>1, <1>3, <1>4, SurvivalKeeps

LEMMA RemoveSets ==
  ASSUME IInv, SetsInv, IInv', NEW gone, RemoveTrades(gone)
  PROVE  SetsInv'
  <1>1. /\ auto' = auto /\ trades' = trades \ gone /\ Remember
        /\ UNCHANGED <<calls, started, reloads>>
    BY DEF RemoveTrades
  <1>2. Survive(trades, trades')
    BY <1>1 DEF Survive, Open
  <1>3. reloads = 0 => Marked(auto', trades')
    BY <1>1, <1>2, Survived DEF SetsInv
  <1>. QED
    BY <1>1, <1>2, <1>3, SurvivalKeeps

\* The window marks what its entries name, which is all of its cycle.
LEMMA RunWindowSets ==
  ASSUME IInv, SetsInv, IInv', RunWindowEnds
  PROVE  SetsInv'
  <1>. DEFINE m(t) == [t EXCEPT !.finished = (t.finished \/ SourceCompleted(auto, t))]
  <1>1. /\ auto # None /\ auto.phase = "running" /\ auto' = WindowOver(auto)
        /\ trades' = {m(t) : t \in trades} /\ Remember
        /\ UNCHANGED <<calls, started, reloads>>
    BY Zenon DEF RunWindowEnds
  <1>2. /\ auto \in AutoRuns /\ auto.cycle = auto.completed + 1 /\ auto.entries # {}
        /\ auto.completed \in Nat
    BY <1>1, Typed, AutoFields DEF IInv, RunOk, Follows
  <1>3. ASSUME NEW t \in trades
        PROVE  /\ m(t).id = t.id /\ m(t).run = t.run /\ m(t).cycle = t.cycle /\ m(t).set = t.set
               /\ m(t).open = t.open
               /\ (t.finished \/ SourceCompleted(auto, t)) => m(t).finished
    <2>1. t \in Trades
      BY Typed
    <2>2. /\ m(t).id = t.id /\ m(t).run = t.run /\ m(t).cycle = t.cycle /\ m(t).set = t.set
          /\ m(t).open = t.open
      BY <2>1 DEF Trades
    <2>3. m(t).finished = (t.finished \/ SourceCompleted(auto, t))
      BY <2>1 DEF Trades
    <2>. QED
      BY <2>2, <2>3
  <1>. HIDE DEF m
  <1>4. Survive(trades, trades')
    BY <1>1, <1>3 DEF Survive, Open
  <1>5. /\ auto' # None /\ auto'.id = auto.id /\ auto'.completed = auto.completed + 1
        /\ auto'.phase \in {"done", "cooldown"}
    <2>. DEFINE phase == IF auto.completed + 1 >= MaxRuns THEN "done" ELSE "cooldown"
    <2>1. auto' = InPhase(auto, phase, auto.cycle, auto.completed + 1, {})
      BY <1>1 DEF WindowOver
    <2>2. /\ phase \in Phases /\ phase \in {"done", "cooldown"}
          /\ auto.cycle \in Nat /\ auto.completed + 1 \in Nat
      BY <1>2 DEF Phases
    <2>. HIDE DEF phase
    <2>. QED
      BY <1>2, <2>1, <2>2, InPhaseTyped
  <1>6. ASSUME NEW ts, Bounded(auto, ts), ts \in SUBSET Trades
        PROVE  Bounded(auto', ts)
    BY <1>1, <1>2, <1>5, <1>6, TradeFields DEF Bounded, Begun, Open
  <1>7. ASSUME NEW s \in Slot, ForRun(calls, s)
        PROVE  auto'.id # calls[s].run
    BY <1>1, <1>5, <1>7 DEF SetsInv, Mine
  <1>8. ASSUME reloads = 0
        PROVE  Marked(auto', trades')
    <2>1. SUFFICES ASSUME NEW t \in Open(trades'), t.run = auto.id, t.cycle <= auto.completed + 1
                   PROVE  t.finished
      BY <1>5 DEF Marked
    <2>2. PICK u \in trades : t = m(u)
      BY <1>1 DEF Open
    <2>3. /\ u \in Open(trades) /\ u.run = auto.id /\ u.cycle = t.cycle /\ u.cycle \in Nat
      BY <1>3, <2>1, <2>2, Typed, TradeFields DEF Open
    <2>4. CASE u.cycle <= auto.completed
      BY <1>1, <1>3, <1>8, <2>2, <2>3, <2>4 DEF SetsInv, Marked
    <2>5. CASE u.cycle = auto.cycle
      <3>1. u.id \in auto.entries
        BY <1>1, <1>8, <2>3, <2>5 DEF SetsInv, Marked
      <3>2. SourceCompleted(auto, u)
        BY <2>3, <2>5, <3>1 DEF SourceCompleted, Open
      <3>. QED
        BY <1>3, <2>2, <3>2
    <2>. QED
      BY <1>2, <2>1, <2>3, <2>4, <2>5
  <1>. QED
    BY <1>1, <1>4, <1>6, <1>7, <1>8, SurvivalKeeps

LEMMA RejectSets ==
  ASSUME IInv, SetsInv, IInv', NEW s \in Slot, CallRejects(s)
  PROVE  SetsInv'
  <1>1. /\ calls[s] # None /\ calls' = [calls EXCEPT ![s] = None]
        /\ auto' = Settled(auto, calls[s], {}) /\ trades' = trades /\ Remember
        /\ UNCHANGED <<started, reloads>>
    BY DEF CallRejects, Free
  <1>2. /\ auto \in AutoRuns \cup {None} /\ {} \in SUBSET Nat
    BY Typed
  <1>3. /\ ~Expects(auto, calls[s]) => auto' = auto
        /\ Expects(auto, calls[s]) =>
              /\ auto # None /\ auto.id = calls[s].run
              /\ auto' # None /\ auto'.id = auto.id /\ auto'.completed = auto.completed
              /\ auto'.phase # "running"
        /\ \A ts : Bounded(auto, ts) => Bounded(auto', ts)
    BY <1>1, <1>2, AnsweredSets
  <1>4. ASSUME NEW r \in Slot, ForRun(calls', r)
        PROVE  /\ calls'[r] = calls[r]
               /\ (auto' # None /\ auto'.id = calls[r].run) => auto' = auto
    <2>1. r # s /\ calls'[r] = calls[r] /\ ForRun(calls, r)
      BY <1>1, <1>4, Typed DEF ForRun
    <2>2. Expects(auto, calls[s]) => auto.id # calls[r].run
      <3>1. SUFFICES ASSUME Expects(auto, calls[s]) PROVE calls[s].run # calls[r].run
        BY <1>3
      <3>2. calls[s].run # 0
        BY <1>3, <3>1, Typed DEF IInv, RunOk
      <3>. QED
        BY <1>1, <2>1, <3>2 DEF ForRun, SetsInv, OneEach
    <2>. QED
      BY <1>3, <2>1, <2>2
  <1>5. ASSUME reloads = 0
        PROVE  Marked(auto', trades')
    BY <1>1, <1>3, <1>5 DEF SetsInv, Marked
  <1>6. Survive(trades, trades')
    BY <1>1, SameSurvive
  <1>. QED
    BY <1>1, <1>3, <1>4, <1>5, <1>6, SurvivalKeeps
\* A start set is called for auto-run a, or for none (run 0), of which there is
\* no open trade and no call yet.
LEMMA StartSetSets ==
  ASSUME IInv, SetsInv, IInv', Remember \/ UNCHANGED <<before, auto, trades>>,
         trades' = trades, reloads' = reloads, started <= started',
         NEW s \in Slot, Free(s), NEW from \in {"engine", "control", "manual"},
         NEW a \in AutoRuns \cup {None}, NEW run \in Nat, NEW cycle \in Nat, NEW buckets,
         CallStartSet(s, from, a, run, cycle, buckets),
         \A ts \in {trades, before.trades} : Bounded(a, ts),
         a # None /\ a.id = run => a.phase = "starting" /\ a.cycle = cycle,
         run # 0 => \A t \in Open(trades) : ~(t.run = run /\ t.cycle = cycle),
         \A r \in Slot : ForRun(calls, r) =>
            /\ (a # None /\ a.id = calls[r].run) => a = auto
            /\ calls[r].run # run,
         reloads = 0 => Marked(a, trades)
  PROVE  SetsInv'
  <1>1. PICK gap \in GapSteps :
          LET at   == lastAt + gap
              todo == {b \in buckets : Plan(trades, b) # {}}
              c    == CallOf(from, run, cycle, at, todo)
          IN  /\ calls' = IF todo = {} THEN calls ELSE [calls EXCEPT ![s] = c]
              /\ auto' = IF todo = {} THEN Settled(a, c, {}) ELSE a
    BY Zenon DEF CallStartSet
  <1>. DEFINE todo == {b \in buckets : Plan(trades, b) # {}}
              c    == CallOf(from, run, cycle, lastAt + gap, todo)
  <1>2. c.run = run /\ c.cycle = cycle
    BY DEF CallOf
  <1>. HIDE DEF c
  <1>3. /\ auto' = a \/ (a # None /\ auto' # None /\ auto'.id = a.id /\ auto'.phase # "running"
                          /\ auto'.completed = a.completed /\ a.id = run /\ todo = {})
        /\ \A ts : Bounded(a, ts) => Bounded(auto', ts)
    <2>1. CASE todo = {}
      <3>1. auto' = Settled(a, c, {}) /\ {} \in SUBSET Nat
        BY <1>1, <2>1 DEF c
      <3>. QED
        BY <1>2, <2>1, <3>1, AnsweredSets
    <2>2. CASE todo # {}
      BY <1>1, <2>2
    <2>. QED
      BY <2>1, <2>2
  <1>. HIDE DEF todo
  <1>4. started' \in Nat /\ \A t \in trades' : t.run <= started'
    <2>1. started \in Nat /\ started' \in Nat /\ \A t \in trades : t.run <= started /\ t.run \in Nat
      BY Typed, TradeFields DEF SetsInv, Known, IInv, TypeOK
    <2>. QED
      BY <2>1
  <1>5. Remember \/ UNCHANGED <<before, auto, trades>>
    OBVIOUS
  <1>6. /\ OneSet(trades) /\ Bounded(auto, trades) /\ Bounded(auto', trades)
    BY <1>3 DEF SetsInv
  <1>7. /\ \A t \in Known' : t.run <= started'
        /\ \A ts \in {trades', before'.trades} :
               OneSet(ts) /\ Bounded(auto', ts) /\ Bounded(before'.auto, ts)
    BY <1>4, <1>5, <1>6, StoredSets
  <1>8. ASSUME NEW r \in Slot, ForRun(calls, r)
        PROVE  Mine(calls[r], auto', trades')
    BY <1>3, <1>8 DEF SetsInv, Mine
  <1>9. reloads' = 0 => Marked(auto', trades')
    <2>1. SUFFICES ASSUME reloads = 0, auto' # a PROVE Marked(auto', trades')
      BY <1>3
    <2>. QED
      BY <1>3, <2>1 DEF Marked
  <1>10. ASSUME NEW r \in Slot, ForRun(calls', r)
         PROVE  \/ ForRun(calls, r) /\ calls'[r] = calls[r] /\ calls[r].run # run
                \/ r = s /\ calls'[r] = c /\ auto' = a /\ run # 0
    <2>1. CASE todo = {}
      <3>1. calls' = calls
        BY <1>1, <2>1 DEF todo
      <3>. QED
        BY <1>10, <3>1
    <2>2. CASE todo # {}
      <3>1. calls' = [calls EXCEPT ![s] = c] /\ auto' = a
        BY <1>1, <2>2 DEF todo, c
      <3>. QED
        BY <1>2, <1>10, <3>1, Typed DEF ForRun
    <2>. QED
      BY <2>1, <2>2
  <1>11. ASSUME run # 0, auto' = a
         PROVE  Mine(c, auto', trades') /\ MadeAll(c, trades')
    BY <1>2, <1>11 DEF Mine, MadeAll
  <1>12. OneEach(calls')
    BY <1>2, <1>10 DEF SetsInv, OneEach
  <1>13. ASSUME NEW r \in Slot, ForRun(calls', r)
         PROVE  /\ Mine(calls'[r], auto', trades')
                /\ reloads' = 0 => MadeAll(calls'[r], trades')
    BY <1>8, <1>10, <1>11, <1>13 DEF SetsInv
  <1>. QED
    BY <1>7, <1>9, <1>12, <1>13 DEF SetsInv

LEMMA NobodysTrades ==
  ASSUME IInv, SetsInv
  PROVE  /\ \A t \in trades \cup before.trades : t.run # started + 1
         /\ \A r \in Slot : ForRun(calls, r) => calls[r].run # started + 1
  <1>1. \A t \in trades \cup before.trades : t.run <= started /\ t.run \in Nat
    BY Typed, TradeFields DEF SetsInv, Known
  <1>2. started \in Nat
    BY Typed
  <1>3. \A r \in Slot : ForRun(calls, r) => calls[r].run <= started /\ calls[r].run \in Nat
    BY MineWaits
  <1>. QED
    BY <1>1, <1>2, <1>3

LEMMA StartAutoRunSets ==
  ASSUME IInv, SetsInv, IInv', NEW s \in Slot, NEW target \in Targets, StartAutoRun(s, target)
  PROVE  SetsInv'
  <1>. DEFINE a == [id |-> started', target |-> target, phase |-> "starting", cycle |-> 1,
                    completed |-> 0, entries |-> {}]
  <1>1. /\ Free(s) /\ started' = started + 1 /\ started \in Nat /\ started' \in Nat
        /\ CallStartSet(s, "control", a, started', 1, target)
        /\ Remember /\ trades' = trades /\ reloads' = reloads
    BY Typed DEF StartAutoRun
  <1>2. /\ a \in AutoRuns /\ a # None /\ a.id = started' /\ a.phase = "starting" /\ a.cycle = 1
    <2>1. a \in AutoRuns
      BY <1>1 DEF AutoRuns, Phases
    <2>. QED
      BY <2>1, AutoFields
  <1>. HIDE DEF a
  <1>3. /\ \A t \in trades \cup before.trades : t.run # a.id
        /\ \A r \in Slot : ForRun(calls, r) => calls[r].run # a.id
    BY <1>1, <1>2, NobodysTrades
  <1>4. /\ \A ts \in {trades, before.trades} : Bounded(a, ts)
        /\ Marked(a, trades)
        /\ \A t \in Open(trades) : t.run # a.id
    BY <1>3 DEF Bounded, Marked, Open
  <1>5. started <= started' /\ 1 \in Nat
    BY <1>1
  <1>. QED
    BY <1>1, <1>2, <1>3, <1>4, <1>5, StartSetSets
LEMMA ManualSetSets ==
  ASSUME IInv, SetsInv, IInv', NEW s \in Slot, NEW b \in Bucket, StartManualSet(s, b)
  PROVE  SetsInv'
  <1>1. /\ Free(s) /\ Plan(trades, b) # {}
        /\ CallStartSet(s, "manual", auto, 0, 0, {b})
        /\ UNCHANGED <<trades, before, started, reloads>>
    BY DEF StartManualSet
  <1>2. auto' = auto
    <2>1. {x \in {b} : Plan(trades, x) # {}} # {}
      BY <1>1
    <2>. QED
      BY <1>1, <2>1 DEF CallStartSet
  <1>3. /\ auto \in AutoRuns \cup {None} /\ started <= started' /\ 0 \in Nat
        /\ auto # None => auto.id # 0
    BY <1>1, Typed DEF IInv, RunOk
  <1>4. /\ \A ts \in {trades, before.trades} : Bounded(auto, ts)
        /\ \A r \in Slot : ForRun(calls, r) => calls[r].run # 0
        /\ reloads = 0 => Marked(auto, trades)
    BY DEF SetsInv, ForRun
  <1>5. UNCHANGED <<before, auto, trades>>
    BY <1>1, <1>2
  <1>. QED
    BY <1>1, <1>3, <1>4, <1>5, StartSetSets

\* A cooldown has no open trade of the cycle that comes.
LEMMA CooldownSets ==
  ASSUME IInv, SetsInv, IInv', NEW s \in Slot, CooldownEnds(s)
  PROVE  SetsInv'
  <1>. DEFINE a == NextCycle(auto)
  <1>1. /\ Free(s) /\ auto # None /\ auto.phase = "cooldown"
        /\ CallStartSet(s, "engine", a, auto.id, auto.completed + 1, auto.target)
        /\ Remember /\ trades' = trades /\ reloads' = reloads /\ started' = started
    BY DEF CooldownEnds
  <1>2. /\ auto \in AutoRuns /\ auto.id \in Nat /\ auto.completed \in Nat
        /\ auto.completed + 1 \in Nat /\ started <= started'
    BY <1>1, Typed, AutoFields
  <1>3. /\ a \in AutoRuns /\ a # None /\ a.id = auto.id /\ a.phase = "starting"
        /\ a.cycle = auto.completed + 1 /\ a.completed = auto.completed
    <2>1. "starting" \in Phases /\ {} \in SUBSET Nat
      BY DEF Phases
    <2>. QED
      BY <1>2, <2>1, InPhaseTyped DEF NextCycle
  <1>. HIDE DEF a
  <1>4. /\ trades \in SUBSET Trades /\ before.trades \in SUBSET Trades
    BY Typed
  <1>5. ASSUME NEW ts \in {trades, before.trades}, NEW t \in Open(ts), t.run = auto.id
        PROVE  t.cycle <= auto.completed /\ t.cycle \in Nat
    <2>1. t.cycle <= auto.completed
      BY <1>1, <1>5 DEF SetsInv, Bounded, Begun
    <2>. QED
      BY <1>4, <2>1, TradeFields DEF Open
  <1>6. \A ts \in {trades, before.trades} : Bounded(a, ts)
    BY <1>2, <1>3, <1>5 DEF Bounded, Begun
  <1>7. \A t \in Open(trades) : ~(t.run = auto.id /\ t.cycle = auto.completed + 1)
    BY <1>2, <1>5
  <1>8. \A r \in Slot : ForRun(calls, r) => calls[r].run # auto.id
    BY <1>1 DEF SetsInv, Mine
  <1>9. reloads = 0 => Marked(a, trades)
    BY <1>1, <1>3 DEF SetsInv, Marked
  <1>. QED
    BY <1>1, <1>2, <1>3, <1>6, <1>7, <1>8, <1>9, StartSetSets

LEMMA StartSingleSets ==
  ASSUME IInv, SetsInv, IInv', NEW s \in Slot, NEW b \in Bucket, NEW symbol \in Symbol,
         StartSingle(s, b, symbol)
  PROVE  SetsInv'
  <1>. DEFINE c == [CallOf("single", 0, 0, 0, {b}) EXCEPT !.wanted = symbol]
  <1>1. /\ calls' = [calls EXCEPT ![s] = c]
        /\ UNCHANGED <<auto, trades, before, started, reloads>>
    BY DEF StartSingle
  <1>2. c.run = 0
    BY DEF CallOf
  <1>. HIDE DEF c
  <1>3. \A r \in Slot : ForRun(calls', r) => calls'[r] = calls[r]
    BY <1>1, <1>2, Typed DEF ForRun
  <1>4. Survive(trades, trades') /\ (reloads = 0 => Marked(auto', trades'))
    BY <1>1, SameSurvive DEF SetsInv
  <1>. QED
    BY <1>1, <1>3, <1>4, SurvivalKeeps

\* A trade of no auto-run touches nothing.
LEMMA InsertSingleSets ==
  ASSUME IInv, SetsInv, IInv', NEW s \in Slot, InsertSingle(s)
  PROVE  SetsInv'
  <1>. DEFINE c == calls[s]
              t == Entry(lastAt', c.wanted, PartOf(c), [c EXCEPT !.set = lastAt'])
  <1>1. /\ c # None /\ c.from = "single"
        /\ trades' = trades \cup {t}
        /\ calls' = [calls EXCEPT ![s] = None]
        /\ UNCHANGED <<auto, started, reloads>> /\ Remember
    BY DEF InsertSingle, Free
  <1>2. t.run = 0
    <2>1. c \in Calls /\ c.run = 0
      BY <1>1, Typed DEF IInv, Singles
    <2>. QED
      BY <2>1 DEF Entry, Calls
  <1>. HIDE DEF t
  <1>3. auto # None => auto.id # 0
    BY Typed DEF IInv, RunOk
  <1>4. ASSUME NEW r \in Slot, ForRun(calls', r)
        PROVE  calls'[r] = calls[r] /\ ForRun(calls, r) /\ calls[r].run # 0
    BY <1>1, <1>4, Typed DEF ForRun
  <1>5. Open(trades') \subseteq Open(trades) \cup {t}
    BY <1>1 DEF Open
  <1>6. /\ OneSet(trades') /\ Bounded(auto', trades') /\ Bounded(auto, trades')
        /\ Bounded(auto', trades)
    BY <1>1, <1>2, <1>3, <1>5 DEF SetsInv, OneSet, Bounded
  <1>7. started' \in Nat /\ started <= started' /\ \A x \in trades' : x.run <= started'
    BY <1>1, <1>2, Typed DEF SetsInv, Known
  <1>8. /\ \A x \in Known' : x.run <= started'
        /\ \A ts \in {trades', before'.trades} :
               OneSet(ts) /\ Bounded(auto', ts) /\ Bounded(before'.auto, ts)
    BY <1>1, <1>6, <1>7, StoredSets
  <1>9. ASSUME NEW r \in Slot, ForRun(calls', r)
        PROVE  Mine(calls'[r], auto', trades') /\ (reloads = 0 => MadeAll(calls'[r], trades'))
    <2>1. /\ Mine(calls[r], auto, trades) /\ (reloads = 0 => MadeAll(calls[r], trades))
          /\ calls'[r] = calls[r] /\ calls[r].run # 0
      BY <1>4, <1>9 DEF SetsInv
    <2>2. \A x \in Open(trades') : x.run = calls[r].run => x \in Open(trades)
      BY <1>2, <1>5, <2>1
    <2>3. Mine(calls[r], auto', trades')
      BY <1>1, <2>1, <2>2 DEF Mine
    <2>4. reloads = 0 => MadeAll(calls[r], trades')
      BY <2>1, <2>2 DEF MadeAll
    <2>. QED
      BY <2>1, <2>3, <2>4
  <1>10. OneEach(calls')
    BY <1>4 DEF SetsInv, OneEach
  <1>11. reloads' = 0 => Marked(auto', trades')
    BY <1>1, <1>2, <1>3, <1>5 DEF SetsInv, Marked
  <1>. QED
    BY <1>1, <1>8, <1>9, <1>10, <1>11 DEF SetsInv
LEMMA NewEntriesOfSet ==
  ASSUME NEW c, NEW t \in NewEntries(c)
  PROVE  t.run = c.run /\ t.cycle = c.cycle /\ t.set = c.set
  BY DEF NewEntries, Entry

LEMMA PartSets ==
  ASSUME IInv, SetsInv, IInv', NEW s \in Slot, PartReady(s)
  PROVE  SetsInv'
  <1>. DEFINE c    == calls[s]
              new  == NewEntries(c)
              made == MadeSoFar(c, new)
  <1>1. /\ c # None /\ c.from # "single" /\ Remember
        /\ trades' = trades \cup new
        /\ UNCHANGED <<started, reloads>>
        /\ \/ /\ calls' = [calls EXCEPT ![s] = None]
              /\ auto' = Settled(auto, c, made)
           \/ /\ \E gap \in GapSteps : calls' = [calls EXCEPT ![s] = NextPart(c, lastAt', made)]
              /\ auto' = auto
    BY DEF PartReady, Free
  <1>2. /\ c \in Calls /\ c.left # {} /\ c.run \in Nat /\ c.run <= started /\ c.made \in SUBSET Nat
        /\ c.from = "manual" => c.run = 0
        /\ auto \in AutoRuns \cup {None}
        /\ auto # None => auto.id # 0 /\ Follows(auto) /\ auto.completed \in Nat
    <2>1. Waits(calls, s)
      BY <1>1 DEF Waits
    <2>. QED
      BY <2>1, Typed, CallFields, AutoFields DEF IInv, CallOk, RunOk
  <1>3. \A t \in new : /\ t.run = c.run /\ t.cycle = c.cycle /\ t.set = c.set /\ t.id \in Nat
    BY <1>2, NewEntriesReserved, NewEntriesOfSet, TradeFields
  <1>4. made \in SUBSET Nat /\ c.made \subseteq made /\ \A t \in new : t.id \in made
    BY <1>2, <1>3 DEF MadeSoFar
  <1>. HIDE DEF new, made
  <1>5. Open(trades') \subseteq Open(trades) \cup new /\ Open(trades) \subseteq Open(trades')
    BY <1>1 DEF Open
  <1>6. c.run # 0 => /\ ForRun(calls, s) /\ Mine(c, auto, trades)
                     /\ reloads = 0 => MadeAll(c, trades)
    BY <1>1 DEF ForRun, SetsInv
  <1>7. /\ Expects(auto, c) => c.run # 0
        /\ (auto # None /\ auto.id = c.run) =>
              auto.phase = "starting" /\ c.cycle = auto.completed + 1 /\ auto.cycle = c.cycle
    BY <1>2, <1>6 DEF Expects, Mine, Follows
  <1>8. /\ auto' # auto => Expects(auto, c) /\ calls' = [calls EXCEPT ![s] = None]
        /\ auto' # auto =>
              /\ auto # None /\ auto.id = c.run
              /\ auto' # None /\ auto'.id = auto.id /\ auto'.cycle = auto.cycle
              /\ auto'.completed = auto.completed
              /\ auto'.phase = "running" => auto'.entries = made
        /\ \A ts : Bounded(auto, ts) => Bounded(auto', ts)
    <2>1. CASE auto' = auto
      BY <2>1
    <2>2. CASE auto' = Settled(auto, c, made) /\ calls' = [calls EXCEPT ![s] = None]
      BY <1>2, <1>4, <2>2, AnsweredSets
    <2>. QED
      BY <1>1, <2>1, <2>2
  <1>9. OneSet(trades')
    <2>1. SUFFICES ASSUME NEW t \in Open(trades'), NEW u \in Open(trades'),
                          t.run # 0, t.run = u.run, t.cycle = u.cycle
                   PROVE  t.set = u.set
      BY DEF OneSet
    <2>2. CASE t \in Open(trades) /\ u \in Open(trades)
      BY <2>1, <2>2 DEF SetsInv, OneSet
    <2>3. CASE t \in new
      BY <1>3, <1>5, <1>6, <2>1, <2>3 DEF Mine
    <2>4. CASE u \in new
      BY <1>3, <1>5, <1>6, <2>1, <2>4 DEF Mine
    <2>. QED
      BY <1>5, <2>2, <2>3, <2>4
  <1>10. Bounded(auto, trades')
    <2>1. SUFFICES ASSUME auto # None, NEW t \in Open(trades'), t.run = auto.id
                   PROVE  t.cycle <= Begun(auto)
      BY DEF Bounded
    <2>2. CASE t \in Open(trades)
      BY <2>1, <2>2 DEF SetsInv, Bounded
    <2>3. CASE t \in new
      BY <1>2, <1>3, <1>7, <2>1, <2>3 DEF Begun
    <2>. QED
      BY <1>5, <2>2, <2>3
  <1>11. Bounded(auto', trades') /\ Bounded(auto', trades)
    BY <1>8, <1>10 DEF SetsInv
  <1>12. started' \in Nat /\ started <= started' /\ \A x \in trades' : x.run <= started'
    BY <1>1, <1>2, <1>3, Typed DEF SetsInv, Known
  <1>13. /\ \A x \in Known' : x.run <= started'
         /\ \A ts \in {trades', before'.trades} :
               OneSet(ts) /\ Bounded(auto', ts) /\ Bounded(before'.auto, ts)
    BY <1>1, <1>9, <1>10, <1>11, <1>12, StoredSets
  <1>14. ASSUME NEW r \in Slot, ForRun(calls', r)
         PROVE  /\ ForRun(calls, r) /\ calls'[r].run = calls[r].run
                /\ Mine(calls'[r], auto', trades')
                /\ reloads = 0 => MadeAll(calls'[r], trades')
    <2>1. CASE r = s
      <3>1. auto' = auto /\ \E gap \in GapSteps : calls'[s] = NextPart(c, lastAt', made)
        BY <1>1, <1>14, <2>1, Typed DEF ForRun
      <3>2. calls'[s].run = c.run /\ calls'[s].cycle = c.cycle /\ calls'[s].set = c.set
            /\ calls'[s].made = made
        BY <3>1 DEF NextPart
      <3>3. c.run # 0
        BY <1>14, <2>1, <3>2 DEF ForRun
      <3>4. Mine(calls'[s], auto', trades')
        BY <1>3, <1>5, <1>6, <3>1, <3>2, <3>3 DEF Mine
      <3>5. reloads = 0 => MadeAll(calls'[s], trades')
        BY <1>4, <1>5, <1>6, <3>2, <3>3 DEF MadeAll
      <3>. QED
        BY <1>6, <2>1, <3>2, <3>3, <3>4, <3>5
    <2>2. CASE r # s
      <3>1. calls'[r] = calls[r] /\ ForRun(calls, r)
        BY <1>1, <1>14, <2>2, Typed DEF ForRun
      <3>2. calls[r].run # 0 /\ calls[r].run # c.run
        BY <1>1, <2>2, <3>1 DEF ForRun, SetsInv, OneEach
      <3>3. \A x \in Open(trades') : x.run = calls[r].run => x \in Open(trades)
        BY <1>3, <1>5, <3>2
      <3>4. Mine(calls[r], auto, trades) /\ (reloads = 0 => MadeAll(calls[r], trades))
        BY <3>1 DEF SetsInv
      <3>5. Mine(calls[r], auto', trades')
        BY <1>8, <3>2, <3>3, <3>4 DEF Mine
      <3>6. reloads = 0 => MadeAll(calls[r], trades')
        BY <3>3, <3>4 DEF MadeAll
      <3>. QED
        BY <3>1, <3>5, <3>6
    <2>. QED
      BY <2>1, <2>2
  <1>15. OneEach(calls')
    BY <1>14 DEF SetsInv, OneEach
  <1>16. ASSUME reloads = 0
         PROVE  Marked(auto', trades')
    <2>1. SUFFICES ASSUME auto' # None, NEW t \in Open(trades'), t.run = auto'.id
                   PROVE  /\ t.cycle <= auto'.completed => t.finished
                          /\ (auto'.phase = "running" /\ t.cycle = auto'.cycle) => t.id \in auto'.entries
      BY DEF Marked
    <2>2. /\ auto # None /\ auto.id = auto'.id /\ auto'.completed = auto.completed
          /\ auto'.cycle = auto.cycle
      BY <1>8, <2>1
    <2>3. CASE t \in Open(trades)
      <3>1. t.cycle <= auto'.completed => t.finished
        BY <1>16, <2>1, <2>2, <2>3 DEF SetsInv, Marked
      <3>2. CASE auto' = auto
        BY <1>16, <2>1, <2>3, <3>1, <3>2 DEF SetsInv, Marked
      <3>3. CASE auto' # auto
        <4>1. auto.id = c.run /\ c.run # 0 /\ auto.cycle = c.cycle
          BY <1>2, <1>7, <1>8, <3>3
        <4>2. t.cycle = auto'.cycle => t.id \in c.made
          BY <1>6, <1>16, <2>1, <2>2, <2>3, <4>1 DEF MadeAll
        <4>. QED
          BY <1>4, <1>8, <3>1, <3>3, <4>2
      <3>. QED
        BY <3>2, <3>3
    <2>4. CASE t \in new
      <3>1. auto.id = c.run /\ t.cycle = auto.completed + 1 /\ auto.phase = "starting"
        BY <1>3, <1>7, <2>1, <2>2, <2>4
      <3>2. ~(t.cycle <= auto'.completed)
        BY <1>2, <2>2, <3>1
      <3>3. auto'.phase = "running" => t.id \in auto'.entries
        BY <1>4, <1>8, <2>4, <3>1
      <3>. QED
        BY <3>2, <3>3
    <2>. QED
      BY <1>5, <2>3, <2>4
  <1>. QED
    BY <1>1, <1>13, <1>14, <1>15, <1>16 DEF SetsInv

\* A start that a reload finds interrupted goes on with its open trades, or is
\* tried again because there are none.
LEMMA ReloadSets ==
  ASSUME IInv, SetsInv, IInv', Reload
  PROVE  SetsInv'
  <1>1. PICK a \in {auto, before.auto}, ts \in {trades, before.trades} :
          /\ auto' = Resume(a, ts)
          /\ trades' = ts
          /\ before' = IF reloads' < MaxReloads THEN [auto |-> a, trades |-> ts] ELSE Oldest
    BY DEF Reload
  <1>2. /\ calls' = [s \in Slot |-> None]
        /\ started' = started /\ reloads' = reloads + 1 /\ reloads \in Nat
    BY Typed DEF Reload
  <1>3. /\ OneSet(ts) /\ Bounded(a, ts) /\ ts \in SUBSET Trades
        /\ \A t \in ts : t.run <= started
        /\ a \in AutoRuns \cup {None} /\ RunOk(a, started, calls, lastAt, Known)
    BY Typed DEF SetsInv, Known, IInv
  <1>4. Bounded(auto', ts)
    <2>1. CASE a = None \/ a.phase # "starting"
      BY <1>1, <1>3, <2>1 DEF Resume
    <2>2. CASE a # None /\ a.phase = "starting"
      <3>. DEFINE mine == OpenOfCycle(a, ts)
                  ids  == {t.id : t \in mine}
      <3>1. /\ a \in AutoRuns /\ a.cycle = a.completed + 1 /\ a.completed \in Nat /\ a.cycle \in Nat
        BY <1>3, <2>2, AutoFields DEF RunOk, Follows
      <3>2. \A t \in Open(ts) : t.run = a.id => t.cycle <= a.completed + 1 /\ t.cycle \in Nat
        BY <1>3, <2>2, TradeFields DEF Bounded, Begun, Open
      <3>3. CASE mine = {}
        <4>1. auto' = InPhase(a, "cooldown", a.cycle, a.completed, {}) /\ "cooldown" \in Phases
          BY <1>1, <2>2, <3>3 DEF Resume, Phases
        <4>2. auto'.id = a.id /\ auto'.phase = "cooldown" /\ auto'.completed = a.completed
          <5>1. {} \in SUBSET Nat
            OBVIOUS
          <5>. QED
            BY <3>1, <4>1, <5>1, InPhaseTyped
        <4>3. \A t \in Open(ts) : t.run = a.id => t.cycle # a.completed + 1
          BY <3>1, <3>3 DEF OpenOfCycle
        <4>. QED
          BY <3>1, <3>2, <4>2, <4>3 DEF Bounded, Begun
      <3>4. CASE mine # {}
        <4>1. auto' = InPhase(a, "running", a.cycle, a.completed, ids) /\ "running" \in Phases
          BY <1>1, <2>2, <3>4 DEF Resume, Phases
        <4>2. ids \in SUBSET Nat
          BY <1>3, TradeFields DEF OpenOfCycle, Open
        <4>. HIDE DEF mine, ids
        <4>3. /\ a \in AutoRuns /\ "running" \in Phases /\ a.cycle \in Nat /\ a.completed \in Nat
              /\ ids \in SUBSET Nat
              /\ auto' = InPhase(a, "running", a.cycle, a.completed, ids)
          BY <3>1, <4>1, <4>2
        <4>4. auto'.id = a.id /\ auto'.phase = "running" /\ auto'.completed = a.completed
          BY <4>3, InPhaseTyped
        <4>. QED
          BY <3>2, <4>4 DEF Bounded, Begun
      <3>. QED
        BY <3>3, <3>4
    <2>. QED
      BY <2>1, <2>2
  <1>5. Open({}) = {}
    BY DEF Open
  <1>6. /\ \A x \in {trades', before'.trades} :
              OneSet(x) /\ Bounded(auto', x) /\ Bounded(before'.auto, x)
        /\ \A t \in Known' : t.run <= started'
    <2>1. CASE before' = [auto |-> a, trades |-> ts]
      BY <1>1, <1>2, <1>3, <1>4, <2>1 DEF Known
    <2>2. CASE before' = Oldest
      BY <1>1, <1>2, <1>3, <1>4, <1>5, <2>2 DEF Known, Oldest, OneSet, Bounded
    <2>. QED
      BY <1>1, <2>1, <2>2
  <1>7. \A s \in Slot : ~ForRun(calls', s)
    BY <1>2 DEF ForRun
  <1>8. reloads' # 0
    BY <1>2
  <1>. QED
    BY <1>6, <1>7, <1>8 DEF SetsInv, OneEach

LEMMA SetsInductive == IInv /\ SetsInv /\ [Next]_vars => SetsInv'
  <1>1. SUFFICES ASSUME IInv, SetsInv, IInv', [Next]_vars PROVE SetsInv'
    BY Inductive
  <1>2. CASE \E s \in Slot, target \in Targets : StartAutoRun(s, target)
    BY <1>1, <1>2, StartAutoRunSets
  <1>3. CASE StopAutoRun
    BY <1>1, <1>3, StopSets
  <1>4. CASE \E s \in Slot, b \in Bucket : StartManualSet(s, b)
    BY <1>1, <1>4, ManualSetSets
  <1>5. CASE \E s \in Slot, b \in Bucket, symbol \in Symbol : StartSingle(s, b, symbol)
    BY <1>1, <1>5, StartSingleSets
  <1>6. CASE \E s \in Slot : InsertSingle(s)
    BY <1>1, <1>6, InsertSingleSets
  <1>7. CASE \E s \in Slot : PartReady(s)
    BY <1>1, <1>7, PartSets
  <1>8. CASE \E s \in Slot : CallRejects(s)
    BY <1>1, <1>8, RejectSets
  <1>9. CASE RunWindowEnds
    BY <1>1, <1>9, RunWindowSets
  <1>10. CASE \E s \in Slot : CooldownEnds(s)
    BY <1>1, <1>10, CooldownSets
  <1>11. CASE \E t \in trades : CloseTrade(t)
    BY <1>1, <1>11, CloseSets
  <1>12. CASE \E gone \in {{t} : t \in trades} \cup {trades \ Open(trades), trades} : RemoveTrades(gone)
    BY <1>1, <1>12, RemoveSets
  <1>13. CASE Reload
    BY <1>1, <1>13, ReloadSets
  <1>14. CASE UNCHANGED vars
    BY <1>1, <1>14 DEF vars, SetsInv, Known, OneEach
  <1>. QED
    BY <1>1, <1>2, <1>3, <1>4, <1>5, <1>6, <1>7, <1>8, <1>9, <1>10, <1>11, <1>12, <1>13, <1>14
       DEF Next

LEMMA SetsInvariance == Spec => []SetsInv
  <1>1. Init => SetsInv
    <2>1. SUFFICES ASSUME Init PROVE SetsInv
      OBVIOUS
    <2>2. /\ auto = None /\ trades = {} /\ before = Oldest /\ calls = [s \in Slot |-> None]
      BY <2>1 DEF Init
    <2>3. Open({}) = {}
      BY DEF Open
    <2>. QED
      BY <2>2, <2>3 DEF SetsInv, Known, Oldest, OneSet, Bounded, ForRun, OneEach, Marked
  <1>. QED
    BY <1>1, SetsInductive, Invariance, PTL DEF Spec

\* The open trades of a cycle are of one start set: a reload tries a start again
\* only if it finds no open trade of it, in whichever ages of the auto-run and
\* of the samples the store has.
THEOREM OneSetOfCycle == Spec => []OneSetPerCycle
  <1>1. SetsInv => OneSetPerCycle
    BY DEF SetsInv, OneSet, OneSetPerCycle
  <1>. QED
    BY <1>1, SetsInvariance, PTL

\* The entries that an auto-run has as its window ends are all open trades of its
\* cycle, those of the first part of a mixed set too, so that none is left
\* unmarked.
THEOREM AllAreMarked == Spec => []NoTradeLeftUnmarked
  <1>1. SetsInv => NoTradeLeftUnmarked
    BY DEF SetsInv, Marked, NoTradeLeftUnmarked
  <1>. QED
    BY <1>1, SetsInvariance, PTL
=============================================================================
